------------------------------ MODULE InputBox ------------------------------
(***************************************************************************)
(* dialog_inputbox() of lxdialog (inputbox.c): a line of text that is      *)
(* edited in a field which may be narrower than it, above two buttons.  Of *)
(* the text only its length is kept, and whether it has been changed.      *)
(***************************************************************************)
EXTENDS LxDialog

CONSTANTS
  BoxWidth,         \* the columns of the field: width - 6
  MAX_LEN           \* the most characters; 2048 in the code

ASSUME BoxWidthAssumption == BoxWidth \in Nat \ {0}
ASSUME MaxLenAssumption   == MAX_LEN \in Nat

VARIABLES
  len,              \* strlen(dialog_input_result)
  edited,           \* the text is no longer the one the dialog started with
  pos,              \* the cursor in the text
  show_x, input_x,  \* the first character in the field, and the cursor in it
  size              \* the height and width that the caller asked for
inputVars == <<len, edited, pos, show_x, input_x, size>>

Field == -1         \* the "button" that stands for the field

InputInit ==
  len = 0 /\ edited = FALSE /\ pos = 0 /\ show_x = 0 /\ input_x = 0 /\ size = [rows |-> 0, cols |-> 0]

InputGone == pos' = 0 /\ show_x' = 0 /\ input_x' = 0 /\ size' = [rows |-> 0, cols |-> 0]

InputLeave(code) ==
  /\ answer = Waiting
  /\ Leave(code) /\ InputGone
  /\ UNCHANGED <<screen, dialog, list, picked, len, edited>>

(* From do_resize on: the cursor goes behind the text, which is shown from  *)
(* its start if it fits.                                                    *)
InputDraw(scr, sz, n, b) ==
  IF scr.rows <= sz.rows - 2 \/ scr.cols <= sz.cols - 2 THEN Leave(TooSmall) /\ InputGone
  ELSE /\ answer' = Waiting /\ size' = sz
       /\ button' = b /\ shown' = 0 /\ choice' = 0 /\ scroll' = 0
       /\ pos' = n
       /\ IF n >= BoxWidth THEN show_x' = n - BoxWidth + 1 /\ input_x' = BoxWidth - 1
          ELSE show_x' = 0 /\ input_x' = n

InputOpen(sz, n) ==
  /\ len' = n /\ edited' = FALSE
  /\ InputDraw(screen, sz, n, Field)
  /\ UNCHANGED <<screen, dialog, list, picked>>

InputResize(scr) ==
  /\ answer = Waiting /\ screen' = scr
  /\ InputDraw(scr, size, len, button)
  /\ UNCHANGED <<dialog, list, picked, len, edited>>

InField == /\ answer = Waiting /\ button = Field
           /\ UNCHANGED <<lxVars, size>>

Backspace ==
  /\ InField /\ pos > 0
  /\ pos' = pos - 1 /\ len' = len - 1 /\ edited' = TRUE
  /\ IF input_x = 0 THEN show_x' = show_x - 1 /\ input_x' = input_x
     ELSE show_x' = show_x /\ input_x' = input_x - 1

CursorLeft ==
  /\ InField /\ pos > 0
  /\ pos' = pos - 1
  /\ IF input_x > 0 THEN show_x' = show_x /\ input_x' = input_x - 1
     ELSE show_x' = show_x - 1 /\ input_x' = input_x
  /\ UNCHANGED <<len, edited>>

StepRight ==
  /\ pos' = pos + 1
  /\ IF input_x < BoxWidth - 1 THEN show_x' = show_x /\ input_x' = input_x + 1
     ELSE show_x' = show_x + 1 /\ input_x' = input_x

CursorRight == InField /\ pos < len /\ StepRight /\ UNCHANGED <<len, edited>>

(* A printable key; a text of MAX_LEN characters takes no more.             *)
Type == InField /\ len < MAX_LEN /\ StepRight /\ len' = len + 1 /\ edited' = TRUE

(* The field, Ok and Help follow each other, round; the field is drawn as   *)
(* Ok.  In the field only TAB and the up and down keys do this.             *)
Buttons == {Field, 0, 1}
InputButton(step) ==
  /\ answer = Waiting
  /\ button' \in Buttons /\ (button' - button - step) % 3 = 0
  /\ shown' = Most(button', 0)
  /\ UNCHANGED <<screen, dialog, answer, list, picked, choice, scroll, inputVars>>

(* Enter; on a button also the space bar, o, h and x.                       *)
InputKeys ==
  \/ Backspace \/ CursorLeft \/ CursorRight \/ Type
  \/ \E step \in {-1, 1} : InputButton(step)
  \/ InputLeave(Most(button, 0))
  \/ button # Field /\ InputLeave(0)
  \/ button # Field /\ InputLeave(1)
  \/ InputLeave(KEY_ESC)
  \/ \E scr \in Screens : InputResize(scr)

----------------------------------------------------------------------------
(* The cursor is in the field, at the place of the text where keys act, and *)
(* the field shows no column before the text: the four counters that each   *)
(* key adjusts by itself agree, up to the longest text.                     *)
CursorInField ==
  /\ pos \in 0..len /\ len \in 0..MAX_LEN
  /\ input_x \in 0..(BoxWidth - 1) /\ show_x \in Nat
  /\ pos = show_x + input_x
=============================================================================
