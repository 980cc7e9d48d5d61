------------------------------- MODULE TextBox -------------------------------
(***************************************************************************)
(* dialog_textbox() of lxdialog (textbox.c): a text that is scrolled.  The *)
(* text is a number of lines, each ended by a newline, and the code's      *)
(* pointer into it is the number of a line; line number `lines' is the     *)
(* empty one behind the last newline.  The pointer stands behind what is   *)
(* displayed, and every key first goes back from there.                    *)
(***************************************************************************)
EXTENDS LxDialog

CONSTANTS
  MaxHscroll        \* MAX_LEN, 2048 in the code: the furthest scroll to the right

ASSUME MaxHscrollAssumption == MaxHscroll \in Nat

VARIABLES
  text,             \* [lines, height, update]: the text, the height that was asked
                    \* for (0: as the terminal), and whether update_text() is given
  page,             \* the line at the pointer
  begin_reached, end_reached, page_length,
  hscroll,          \* the scroll to the right, which the caller may keep
  vscroll           \* the line that the caller keeps
textVars == <<text, page, begin_reached, end_reached, page_length, hscroll, vscroll>>

NoText == [lines |-> 0, height |-> 0, update |-> FALSE]
TextInit ==
  /\ text = NoText /\ page = 0 /\ begin_reached = TRUE /\ end_reached = FALSE
  /\ page_length = 0 /\ hscroll = 0 /\ vscroll = 0

Height(scr, t) == IF t.height # 0 THEN t.height ELSE Most(scr.rows - 4, 0)
BoxHeight(scr, t) == Height(scr, t) - 4
boxh == BoxHeight(screen, text)

(* A state of the pointer: [page, begin, end].                              *)
Here == [page |-> page, begin |-> begin_reached, end |-> end_reached]

get_lines(t, at, n) ==
  IF n <= 0 THEN at
  ELSE [at EXCEPT !.page = Least(at.page + n, t.lines), !.end = at.page + n > t.lines]

(* back_lines(n): the first of the n lines may be the empty one at the end  *)
(* of the text, if the display has got there.                               *)
back_lines(t, at, n) ==
  LET atEnd == n > 0 /\ at.page = t.lines /\ at.end
      k     == IF atEnd THEN n - 1 ELSE Most(n, 0)
  IN  [page  |-> Most(at.page - k, 0),
       begin |-> k > 0 /\ at.page <= k,
       end   |-> at.end /\ ~atEnd]

(* print_page(): a window of h lines from the pointer on.  For update_text() *)
(* the lines of the window are read first, and gone back over.              *)
print_page(t, at, h) ==
  LET from == IF t.update THEN back_lines(t, get_lines(t, at, h), h) ELSE at
      to   == get_lines(t, from, h)
  IN  /\ page' = to.page /\ begin_reached' = to.begin /\ end_reached' = to.end
      /\ page_length' = Least(Most(h, 0), t.lines - from.page + 1)

TextGone ==
  /\ text' = NoText /\ page' = 0 /\ begin_reached' = TRUE /\ end_reached' = FALSE
  /\ page_length' = 0

TextDraw(scr, t, at) ==
  IF Smaller(scr, 8, 8) THEN Leave(TooSmall) /\ TextGone
  ELSE /\ answer' = Waiting /\ text' = t
       /\ choice' = 0 /\ scroll' = 0 /\ button' = 0 /\ shown' = 0
       /\ print_page(t, at, BoxHeight(scr, t))

(* The caller may give the lines and the columns to skip.                   *)
TextOpen(t, v, h) ==
  /\ TextDraw(screen, t, get_lines(t, [page |-> 0, begin |-> v = 0, end |-> FALSE], v))
  /\ vscroll' = v /\ hscroll' = h
  /\ UNCHANGED <<screen, dialog, list, picked>>

(* KEY_RESIZE goes back by the height of the dialog, not of the page.       *)
TextResize(scr) ==
  /\ answer = Waiting /\ screen' = scr
  /\ TextDraw(scr, text, back_lines(text, Here, Height(screen, text)))
  /\ UNCHANGED <<dialog, list, picked, hscroll, vscroll>>

Scrolled == answer = Waiting /\ UNCHANGED <<lxVars, text, hscroll, vscroll>>
Show(at) == print_page(text, at, boxh)

Home ==
  /\ Scrolled /\ ~begin_reached
  /\ Show([page |-> 0, begin |-> TRUE, end |-> end_reached])
End ==
  /\ Scrolled
  /\ Show(back_lines(text, [page |-> text.lines, begin |-> begin_reached, end |-> TRUE], boxh))
LineUp   == Scrolled /\ ~begin_reached /\ Show(back_lines(text, Here, page_length + 1))
PageUp   == Scrolled /\ ~begin_reached /\ Show(back_lines(text, Here, page_length + boxh))
LineDown == Scrolled /\ ~end_reached /\ Show(back_lines(text, Here, page_length - 1))
PageDown == Scrolled /\ ~end_reached /\ Show([Here EXCEPT !.begin = FALSE])

Sideways(h) ==
  /\ answer = Waiting /\ h \in 0..MaxHscroll /\ h # hscroll
  /\ hscroll' = h
  /\ Show(back_lines(text, Here, page_length))
  /\ UNCHANGED <<lxVars, text, vscroll>>

(* Any key that ends the dialog: e, x, q, Enter, ESC, or one of `keys'.  The *)
(* caller that has an update_text() also keeps the place in the text.       *)
TextReturn(code) ==
  /\ answer = Waiting
  /\ Leave(code) /\ TextGone
  /\ IF text.update THEN vscroll' = back_lines(text, Here, page_length).page /\ UNCHANGED hscroll
     ELSE vscroll' = 0 /\ hscroll' = 0
  /\ UNCHANGED <<screen, dialog, list, picked>>

TextScroll ==
  \/ Home \/ End \/ LineUp \/ PageUp \/ LineDown \/ PageDown
  \/ \E h \in {0, hscroll - 1, hscroll + 1} : Sideways(h)
  \/ \E scr \in Screens : TextResize(scr)

----------------------------------------------------------------------------
(* The first line that is displayed.                                        *)
FirstLine == IF end_reached THEN text.lines - page_length + 1 ELSE page - page_length
TextShown == answer = Waiting /\ text # NoText /\ boxh > 0

(* What is displayed is a part of the text, and the two flags that make the *)
(* keys do nothing are right: up and page-up are dead only at the first     *)
(* line, down and page-down exactly when the last line is displayed.        *)
FlagsRight == TextShown =>
  /\ FirstLine >= 0 /\ page_length \in 1..boxh
  /\ begin_reached => FirstLine = 0
  /\ end_reached <=> FirstLine + page_length > text.lines

(* The up and down keys scroll by one line, and left and right not at all,  *)
(* although each goes back over what it had displayed and displays it       *)
(* again; and the line that the dialog returns to its caller is the first   *)
(* one that was displayed.                                                  *)
TextMove == TextShown =>
  /\ LineDown => FirstLine' = FirstLine + 1
  /\ LineUp   => FirstLine' = Most(FirstLine - 1, 0)
  /\ (\E h \in 0..MaxHscroll : Sideways(h)) => FirstLine' = FirstLine
  /\ (text.update /\ answer' \notin {Waiting, TooSmall}) => vscroll' = FirstLine
ScrollsByOne == [][TextMove]_<<lxVars, textVars>>
=============================================================================
