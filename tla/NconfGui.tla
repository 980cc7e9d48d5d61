------------------------------- MODULE NconfGui -------------------------------
(***************************************************************************)
(* The windows of nconfig (support/kconfig/nconf.gui.c): the dialog with   *)
(* buttons, the line of text that is edited in a field, and the text that  *)
(* is scrolled.  Of a text only its length is kept, of the terminal what   *)
(* it leaves of the window: none of them follows a resize.                 *)
(***************************************************************************)
EXTENDS Integers

CONSTANTS
  Pads,             \* the texts to scroll: [lines, rows, cols, width], the last two
                    \* in columns; rows and width are text_lines and text_cols
  ButtonNumbers,    \* what btn_dialog() is called with
  prompt_width,     \* the columns of the field
  MaxChars          \* bound: the characters typed

ASSUME PadsAssumption ==
  \A p \in Pads : p.lines \in Nat /\ p.cols \in Nat /\ p.rows \in 1..p.lines /\ p.width \in 0..p.cols /\ (p.rows < p.lines => p.rows > 2)
ASSUME PromptAssumption == prompt_width \in Nat \ {0}
ASSUME MaxCharsAssumption == MaxChars \in Nat

VARIABLES
  gui,              \* the window that waits for a key: "none", "btn", "input", "scroll"
  btn,              \* [num, item]: the buttons and the current one
  chars,            \* strlen(result)
  result_len,       \* the size of the buffer, which all input boxes share
  cursor_position, cursor_form_win,
  pad, start_x, start_y
formVars == <<chars, cursor_position, cursor_form_win>>
padVars  == <<pad, start_x, start_y>>
guiVars  == <<gui, btn, formVars, result_len, padVars>>

Lesser(a, b)  == IF a < b THEN a ELSE b
Greater(a, b) == IF a > b THEN a ELSE b
Within(low, i, high) == Greater(low, Lesser(i, high))

NoPad == [lines |-> 0, rows |-> 0, cols |-> 0, width |-> 0]
FormGone == chars' = 0 /\ cursor_position' = 0 /\ cursor_form_win' = 0
PadGone  == pad' = NoPad /\ start_x' = 0 /\ start_y' = 0

----------------------------------------------------------------------------
(* btn_dialog(): the buttons do not go round; with no button there is no    *)
(* current item, and any of the keys ends the dialog.                       *)

BtnOpen ==
  /\ gui = "none" /\ gui' = "btn"
  /\ \E n \in ButtonNumbers : btn' = [num |-> n, item |-> 0]
  /\ UNCHANGED <<formVars, result_len, padVars>>
BtnMove(step) ==
  /\ gui = "btn" /\ btn.item + step \in 0..(btn.num - 1)
  /\ btn' = [btn EXCEPT !.item = @ + step]
  /\ UNCHANGED <<gui, formVars, result_len, padVars>>
BtnReturn ==
  /\ gui = "btn" /\ gui' = "none" /\ btn' = [num |-> 0, item |-> 0]
  /\ UNCHANGED <<formVars, result_len, padVars>>

----------------------------------------------------------------------------
(* dialog_inputbox()                                                        *)

(* The buffer is as large as the longest text has needed.                   *)
FormOpen ==
  /\ gui = "none" /\ gui' = "input"
  /\ chars' \in 0..MaxChars /\ cursor_position' = chars'
  /\ cursor_form_win' = Lesser(chars', prompt_width - 1)
  /\ result_len' = Greater(result_len, chars' + 1)
  /\ UNCHANGED <<btn, padVars>>

(* A key: the text has n characters, the cursor goes to i; in the field it  *)
(* goes to f, but not out of it.                                            *)
Edit(n, i, f) ==
  /\ gui = "input"
  /\ chars' = n /\ cursor_position' = i /\ cursor_form_win' = Within(0, f, prompt_width - 1)
  /\ UNCHANGED <<gui, btn, padVars>>
Keep == UNCHANGED result_len

FormRubout == cursor_position > 0 /\ Edit(chars - 1, cursor_position - 1, cursor_form_win - 1) /\ Keep
FormDelete == cursor_position < chars /\ Edit(chars - 1, cursor_position, cursor_form_win) /\ Keep
FormRight  == cursor_position < chars /\ Edit(chars, cursor_position + 1, cursor_form_win + 1) /\ Keep
FormLeft   == cursor_position > 0 /\ Edit(chars, cursor_position - 1, cursor_form_win - 1) /\ Keep
FormHome   == Edit(chars, 0, 0) /\ Keep
FormEnd    == Edit(chars, chars, Lesser(chars, prompt_width - 1)) /\ Keep

(* A character; for some keys, of which isgraph() is undefined, too.        *)
FormType ==
  /\ chars < MaxChars
  /\ Edit(chars + 1, cursor_position + 1, cursor_form_win + 1)
  /\ result_len' = Greater(result_len, chars + 2)

FormReturn ==
  /\ gui = "input" /\ gui' = "none" /\ FormGone
  /\ UNCHANGED <<btn, result_len, padVars>>

----------------------------------------------------------------------------
(* show_scroll_win()                                                        *)

PadOpen ==
  /\ gui = "none" /\ gui' = "scroll" /\ pad' \in Pads /\ start_x' = 0 /\ start_y' = 0
  /\ UNCHANGED <<btn, formVars, result_len>>

(* copywin(): the rows from 2 to text_lines are filled.                     *)
LinesShown == start_y..(start_y + pad.rows - 2)

Scroll(y, x) ==
  /\ gui = "scroll"
  /\ start_y' = Lesser(Greater(y, 0), pad.lines - pad.rows)
  /\ start_x' = Lesser(Greater(x, 0), pad.cols - pad.width)
  /\ UNCHANGED <<gui, btn, formVars, result_len, pad>>

\* Mutant: by as many lines as the window has.
PadPageDownWhole == Scroll(start_y + pad.rows, start_x)

PadPageDown == Scroll(start_y + pad.rows - 2, start_x)
PadPageUp   == Scroll(start_y - (pad.rows + 2), start_x)
PadHome     == Scroll(0, start_x)
PadEnd      == Scroll(pad.lines - pad.rows, start_x)
PadLine(step)   == Scroll(start_y + step, start_x)
PadColumn(step) == Scroll(start_y, start_x + step)

PadReturn ==
  /\ gui = "scroll" /\ gui' = "none" /\ PadGone
  /\ UNCHANGED <<btn, formVars, result_len>>

----------------------------------------------------------------------------
(* dialog_input_result_len is 0 before the first dialog.                    *)
GuiInit ==
  /\ gui = "none" /\ btn = [num |-> 0, item |-> 0]
  /\ chars = 0 /\ cursor_position = 0 /\ cursor_form_win = 0 /\ result_len = 0
  /\ pad = NoPad /\ start_x = 0 /\ start_y = 0

GuiNext ==
  \/ BtnOpen \/ BtnReturn \/ FormOpen \/ FormReturn \/ PadOpen \/ PadReturn
  \/ FormRubout \/ FormDelete \/ FormRight \/ FormLeft \/ FormHome \/ FormEnd \/ FormType
  \/ PadPageDown \/ PadPageUp \/ PadHome \/ PadEnd
  \/ \E step \in {-1, 1} : BtnMove(step) \/ PadLine(step) \/ PadColumn(step)

----------------------------------------------------------------------------
(* Properties                                                               *)

(* The text with the byte that ends it fits into the buffer, which grows    *)
(* while one types and is taken over from one dialog to the next; the       *)
(* cursor is in the field, where keys act, and the field starts in the      *)
(* text: the column of the cursor is cut to the field by itself.            *)
FormFits == gui = "input" =>
  /\ chars < result_len
  /\ cursor_position \in 0..chars
  /\ cursor_form_win \in 0..Lesser(cursor_position, prompt_width - 1)

(* Paging down misses no line: the next page begins in the last one or      *)
(* right after it, although the window fills fewer rows than text_lines     *)
(* counts.  And what is displayed lies in the text.                         *)
PageFollows ==
  gui = "scroll" => /\ PadPageDown => start_y' \in start_y..(start_y + pad.rows - 1)
                    /\ LinesShown \subseteq 0..(pad.lines - 1)
PagesMissNone == [][PageFollows]_guiVars
=============================================================================
