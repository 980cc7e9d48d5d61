------------------------------ MODULE LxDialog ------------------------------
(***************************************************************************)
(* What the dialogs of lxdialog share (support/kconfig/lxdialog/util.c):   *)
(* the list of items, the highlight, the buttons, and how a dialog ends;   *)
(* and what they agree on with mconf.c (lxdialog/dialog.h): the terminal,  *)
(* its sizes, and the codes that a dialog returns.                         *)
(* Items are numbered from 0, as in the code; an item is [data, tag, key,  *)
(* selected], key being the letter that finds it.                          *)
(***************************************************************************)
EXTENDS Integers, Sequences, FiniteSets

CONSTANTS
  Screens,          \* the sizes of the terminal, [rows, cols]
  Nil,              \* no item, no menu
  Letters           \* keys that are letters, or handled like them

ASSUME ScreensAssumption == \A scr \in Screens : scr.rows \in Nat /\ scr.cols \in Nat

VARIABLES
  screen,           \* getmaxyx(stdscr)
  dialog,           \* which dialog is shown
  answer,           \* what the dialog has returned; Waiting while it is open
  list,             \* item_head: the items of the last dialog with a list
  picked,           \* the number of the item that was selected in it, or Nil
  choice, scroll,   \* the row of the highlight, and the first item in the window
  button,           \* the button that Enter presses
  shown             \* the button that is drawn as active
lxVars == <<screen, dialog, answer, list, picked, choice, scroll, button, shown>>

WINDOW_HEIGTH_MIN == 19
WINDOW_WIDTH_MIN  == 80
MENUBOX_HEIGTH_MIN == 15
MENUBOX_WIDTH_MIN  == 65

KEY_ESC  == 27
TooSmall == -512     \* -ERRDISPLAYTOOSMALL
Waiting  == -1       \* no dialog returns this

Smaller(scr, rows, cols) == scr.rows < rows \/ scr.cols < cols

(* init_dialog(): the terminal is large enough to begin with.               *)
LargeEnough == screen \in {scr \in Screens : ~Smaller(scr, WINDOW_HEIGTH_MIN, WINDOW_WIDTH_MIN)}

Least(a, b) == IF a < b THEN a ELSE b
Most(a, b)  == IF a > b THEN a ELSE b
FirstOf(numbers) == CHOOSE i \in numbers : \A j \in numbers : i <= j
LastOf(numbers)  == CHOOSE i \in numbers : \A j \in numbers : j <= i

Item(n)     == list[n + 1]
item_count  == Len(list)

(* What a caller puts into the list.                                        *)
IsList(items) == items \in Seq({items[n] : n \in DOMAIN items})

(* No dialog has been shown yet.                                            *)
LxInit ==
  /\ LargeEnough
  /\ answer = TooSmall
  /\ list = <<>> /\ picked = Nil
  /\ choice = 0 /\ scroll = 0 /\ button = 0 /\ shown = 0

(* The dialog returns, and its local variables are gone.                    *)
Leave(code) ==
  /\ answer' = code
  /\ choice' = 0 /\ scroll' = 0 /\ button' = 0 /\ shown' = 0

(* A dialog with n buttons; TAB or an arrow moves on by one, round.         *)
KeyButton(n, step) ==
  /\ answer = Waiting
  /\ button' = (button + step) % n /\ shown' = button'
  /\ UNCHANGED <<screen, dialog, answer, list, picked, choice, scroll>>

(* ESC ESC: on_key_esc() takes it for the key ESC, a key sequence that      *)
(* starts with ESC for none.  The letters e and x count as ESC.             *)
Escape ==
  /\ answer = Waiting
  /\ Leave(KEY_ESC)
  /\ UNCHANGED <<screen, dialog, list, picked>>

(* An item of the list is selected, and the dialog returns.                 *)
Pick(code) ==
  /\ answer = Waiting
  /\ picked' = IF list = <<>> THEN Nil ELSE scroll + choice
  /\ Leave(code)
  /\ UNCHANGED <<screen, dialog, list>>
=============================================================================
