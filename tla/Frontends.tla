------------------------------- MODULE Frontends -------------------------------
(***************************************************************************)
(* The two full-screen front ends and the widgets that they are built      *)
(* from.  A behaviour is that of menuconfig, of nconfig, of a dialog of    *)
(* lxdialog by itself, or of a window of nconf.gui.c by itself; the state  *)
(* of the others stays as it was.                                          *)
(***************************************************************************)
EXTENDS Dialogs, Mconf, Nconf, NconfGui

NoMconf == stack = <<>> /\ save_and_exit = FALSE /\ ended = "off"
NoNconf == windows = <<>> /\ items = <<>> /\ cur = 1 /\ outcome = "off"
NoMenus ==
  /\ value = [m \in Symbols |-> CHOOSE v \in Menu[m].values : TRUE]
  /\ changed = FALSE /\ inFile = TRUE /\ refused = FALSE /\ show_all_options = FALSE
  /\ single_menu_mode = FALSE /\ data = {}
NoDialog == LxInit /\ MenuInit /\ InputInit /\ TextInit

FrontInit ==
  \/ DialogInit /\ NoMconf /\ NoNconf /\ NoMenus /\ GuiInit
  \/ Init /\ NoNconf /\ NoDialog /\ dialog = "none" /\ GuiInit
  \/ NInit /\ NoMconf /\ NoDialog /\ dialog = "none" /\ GuiInit
  \/ NoMconf /\ NoNconf /\ NoMenus /\ NoDialog /\ dialog = "nconf" /\ GuiInit

dialogsOnly == <<dialog, answer, list, picked, choice, scroll, button, shown, menuVars, inputVars, textVars>>
mconfOnly == <<stack, save_and_exit, ended>>
nconfOnly == <<windows, items, cur, outcome>>
FrontNext ==
  \/ DialogNext /\ UNCHANGED <<mconfOnly, nconfOnly, menusVars, guiVars>>
  \/ Next /\ UNCHANGED <<dialogsOnly, nconfOnly, guiVars>>
  \/ Alive /\ NNext /\ UNCHANGED <<screen, dialogsOnly, mconfOnly, guiVars>>
  \/ dialog = "nconf" /\ GuiNext /\ UNCHANGED <<screen, dialogsOnly, mconfOnly, nconfOnly, menusVars>>
FrontSpec == FrontInit /\ [][FrontNext]_<<vars, dialogVars, nconfVars, guiVars>> /\ WF_vars(DisplayTooSmall)

(* Neither front end ends as if all was saved when something is not, unless *)
(* a load was refused after the last change.                                *)
QuitsSaved == QuitKeeps /\ NQuitKeeps

(* Every widget of the two front ends keeps its cursor and its window in    *)
(* what it displays, although each key adjusts the counters by itself.      *)
CursorsRight == OnItem /\ OnMember /\ CursorInField /\ FlagsRight /\ FormFits

(* The keys reach every item, line and page, and move as far as they say.   *)
KeysRight == ReachesAll /\ ScrollsByOne /\ PagesMissNone
=============================================================================
