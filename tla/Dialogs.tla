------------------------------- MODULE Dialogs -------------------------------
(***************************************************************************)
(* The dialogs of lxdialog, each by itself: one of them is shown again and *)
(* again, as the loops of mconf.c do, with anything that they may give it. *)
(* The question of yesno.c, short as it is, is here too.                   *)
(***************************************************************************)
EXTENDS MenuBox, CheckList, InputBox, TextBox

CONSTANTS
  YesRows, YesCols, \* the smallest terminal for a question: 10 rows and 64 columns for mconf.c
  MemberLists,      \* what choices may list
  InputSizes,       \* the sizes of input boxes, [rows, cols]
  TextBoxes         \* the texts that are shown

ASSUME MemberListsAssumption == \A items \in MemberLists : IsList(items)
ASSUME TextBoxesAssumption == TextBoxes \subseteq [lines : Nat, height : Nat, update : BOOLEAN]

(* dialog_yesno(): a question with two buttons.                             *)
YesNoDraw(scr, b) ==
  IF Smaller(scr, YesRows, YesCols) THEN Leave(TooSmall)
  ELSE answer' = Waiting /\ button' = b /\ shown' = 0 /\ choice' = 0 /\ scroll' = 0

YesNoOpen == YesNoDraw(screen, 0) /\ UNCHANGED <<screen, dialog, list, picked>>

YesNoResize(scr) ==
  /\ answer = Waiting /\ screen' = scr
  /\ YesNoDraw(scr, button)
  /\ UNCHANGED <<dialog, list, picked>>

YesNoReturn(code) ==
  /\ answer = Waiting
  /\ Leave(code)
  /\ UNCHANGED <<screen, dialog, list, picked>>

(* y and n answer, Enter and the space bar press the button that is on.     *)
YesNoKeys ==
  \/ YesNoReturn(0) \/ YesNoReturn(1) \/ YesNoReturn(button)
  \/ \E step \in {-1, 1} : KeyButton(2, step)
  \/ Escape
  \/ \E scr \in Screens : YesNoResize(scr)

dialogVars == <<lxVars, menuVars, inputVars, textVars>>

DialogInit ==
  /\ MenuInit /\ InputInit /\ TextInit
  /\ dialog \in {"menu", "checklist", "inputbox", "textbox", "yesno"}

MenuDialog ==
  /\ dialog = "menu" /\ MenuNext
  /\ UNCHANGED <<inputVars, textVars>>

CheckListDialog ==
  /\ dialog = "checklist"
  /\ CheckKeys \/ (answer # Waiting /\ \E items \in MemberLists : CheckOpen(items))
  /\ UNCHANGED <<menuVars, inputVars, textVars>>

InputBoxDialog ==
  /\ dialog = "inputbox"
  /\ InputKeys \/ (answer # Waiting /\ \E sz \in InputSizes, n \in 0..MAX_LEN : InputOpen(sz, n))
  /\ UNCHANGED <<menuVars, textVars>>

(* The results of a search are shown again where they were left.            *)
TextBoxDialog ==
  /\ dialog = "textbox"
  /\ \/ TextScroll \/ TextReturn(KEY_ESC)
     \/ /\ answer # Waiting
        /\ \E t \in TextBoxes :
             \/ TextOpen(t, 0, 0)
             \/ t.update /\ vscroll <= t.lines /\ TextOpen(t, vscroll, hscroll)
  /\ UNCHANGED <<menuVars, inputVars>>

YesNoDialog ==
  /\ dialog = "yesno"
  /\ YesNoKeys \/ (answer # Waiting /\ YesNoOpen)
  /\ UNCHANGED <<menuVars, inputVars, textVars>>

DialogNext == MenuDialog \/ CheckListDialog \/ InputBoxDialog \/ TextBoxDialog \/ YesNoDialog
=============================================================================
