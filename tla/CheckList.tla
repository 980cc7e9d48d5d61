------------------------------ MODULE CheckList ------------------------------
(***************************************************************************)
(* dialog_checklist() of lxdialog (checklist.c): the members of a choice,  *)
(* one of which is marked, with two buttons.                               *)
(***************************************************************************)
EXTENDS LxDialog

CONSTANTS
  ListHeight,       \* the rows of the list; the only caller asks for 6
  CheckRows,        \* the smallest terminal: 21 rows and 71 columns for that
  CheckCols         \*   caller

ASSUME ListHeightAssumption == ListHeight \in Nat \ {0}

(* The item to highlight: the first that is selected, or else the last that *)
(* is marked, or else the first of all.                                     *)
ItemToShow(items) ==
  LET Numbers   == 0..(Len(items) - 1)
      active    == {n \in Numbers : items[n + 1].selected}
      marked    == {n \in Numbers : items[n + 1].tag = "X"}
  IN  IF active # {} THEN FirstOf(active) ELSE IF marked # {} THEN LastOf(marked) ELSE 0

check_max == Least(ListHeight, item_count)

(* From do_resize on, where c is the item to highlight or the row that was. *)
CheckDraw(scr, c, top, b) ==
  IF Smaller(scr, CheckRows, CheckCols) THEN Leave(TooSmall)
  ELSE /\ answer' = Waiting /\ button' = b /\ shown' = 0
       /\ IF c >= ListHeight THEN scroll' = c - ListHeight + 1 /\ choice' = ListHeight - 1
          ELSE scroll' = top /\ choice' = c

CheckOpen(items) ==
  /\ list' = items /\ picked' = Nil
  /\ CheckDraw(screen, ItemToShow(items), 0, 0)
  /\ UNCHANGED <<screen, dialog>>

CheckResize(scr) ==
  /\ answer = Waiting /\ screen' = scr
  /\ CheckDraw(scr, choice, scroll, button)
  /\ UNCHANGED <<dialog, list, picked>>

CheckMoved == answer = Waiting /\ UNCHANGED <<screen, dialog, answer, list, picked, button, shown>>

CheckUp ==
  /\ CheckMoved /\ (choice # 0 \/ scroll # 0)
  /\ IF choice = 0 THEN scroll' = scroll - 1 /\ choice' = choice
     ELSE scroll' = scroll /\ choice' = choice - 1

CheckDown ==
  /\ CheckMoved
  /\ IF choice = check_max - 1
     THEN scroll + choice < item_count - 1 /\ scroll' = scroll + 1 /\ choice' = choice
     ELSE scroll' = scroll /\ choice' = choice + 1

(* A letter highlights the first item in the window that starts with it.    *)
CheckRowsOf(key) == {i \in 0..(check_max - 1) : Item(scroll + i).key = key}
CheckLetter(key) ==
  /\ CheckMoved /\ CheckRowsOf(key) # {}
  /\ choice' = FirstOf(CheckRowsOf(key)) /\ scroll' = scroll

(* h and ? ask for help, s and the space bar press the button that is on.   *)
CheckKey(key) ==
  /\ CheckRowsOf(key) = {}
  /\ \/ key = "h" /\ Pick(1)
     \/ key \in {"s", "space"} /\ Pick(button)
     \/ key = "x" /\ Escape

CheckKeys ==
  \/ CheckUp \/ CheckDown
  \/ \E key \in Letters : CheckLetter(key) \/ CheckKey(key)
  \/ \E step \in {-1, 1} : KeyButton(2, step)
  \/ Pick(button)
  \/ Escape
  \/ \E scr \in Screens : CheckResize(scr)

----------------------------------------------------------------------------
(* The highlight is on a member of the choice, in a window that lies within *)
(* the list.                                                                *)
OnMember == (dialog = "checklist" /\ answer = Waiting /\ list # <<>>) =>
  /\ choice \in 0..(check_max - 1)
  /\ scroll \in 0..(item_count - check_max)
=============================================================================
