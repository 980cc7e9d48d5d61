-------------------------------- MODULE Mconf --------------------------------
(***************************************************************************)
(* make menuconfig (support/kconfig/mconf.c): functions that call each     *)
(* other, each of which shows a dialog in a loop and acts on what it       *)
(* returns.  The stack of the program is a sequence of frames, the last of *)
(* which has a dialog open.  A dialog is one step here: it returns one of  *)
(* the answers it may return (MenuBox, CheckList, InputBox, TextBox and    *)
(* Dialogs say how it gets there), or fails because the terminal is too    *)
(* small for it.                                                           *)
(***************************************************************************)
EXTENDS LxDialog, Menus

CONSTANT Depth      \* bound: the number of frames

ASSUME DepthAssumption == Depth \in Nat \ {0}

VARIABLES
  stack,            \* the frames: [fn, menu, active]
  save_and_exit,    \* messages go to the terminal and not to a dialog
  ended             \* how the program has ended: "no", "end", "not saved", "error", "crashed"
unfolded == <<single_menu_mode, data>>
options  == <<show_all_options, unfolded, save_and_exit>>
vars == <<screen, stack, menusVars, save_and_exit, ended>>

----------------------------------------------------------------------------
(* What a dialog lists, and what it needs                                   *)

(* The smallest terminal for the dialog of a function.                      *)
Needs == [conf    |-> [rows |-> MENUBOX_HEIGTH_MIN, cols |-> MENUBOX_WIDTH_MIN],
          choice  |-> [rows |-> MENUBOX_HEIGTH_MIN + 6, cols |-> MENUBOX_WIDTH_MIN + 6],
          string  |-> [rows |-> 9, cols |-> 74],
          search  |-> [rows |-> 9, cols |-> 74],
          load    |-> [rows |-> 10, cols |-> 54],
          save    |-> [rows |-> 10, cols |-> 54],
          results |-> [rows |-> 8, cols |-> 8],
          text    |-> [rows |-> 8, cols |-> 8],
          wrote   |-> [rows |-> 8, cols |-> 8],
          exit    |-> [rows |-> 10, cols |-> 64],
          interrupt |-> [rows |-> 10, cols |-> 64]]

Frame(fn, m, a) == [fn |-> fn, menu |-> m, active |-> a]
Running == ended = "no" /\ stack # <<>>
Top     == Last(stack)
Fits    == ~Smaller(screen, Needs[Top.fn].rows, Needs[Top.fn].cols)
In(fn)  == Running /\ Top.fn = fn /\ Fits

----------------------------------------------------------------------------
(* Calling and returning                                                    *)

SameConf    == UNCHANGED confVars
SameOptions == UNCHANGED options
Stays       == UNCHANGED <<screen, ended>>

Back           == stack' = Front(stack) /\ Stays
Again          == UNCHANGED stack /\ Stays
Call(f)        == Len(stack) < Depth /\ stack' = Append(stack, f) /\ Stays
Instead(f)     == stack' = Append(Front(stack), f) /\ Stays
Tell           == Call(Frame("text", Top.menu, Nil))     \* a text on the way

Ends(how) == ended' = how /\ stack' = <<>> /\ SameOptions /\ UNCHANGED screen

(* handle_exit(): the question is asked if something has changed.           *)
HandleExit(fn) ==
  /\ save_and_exit' = TRUE /\ SameConf /\ UNCHANGED <<show_all_options, unfolded, screen>>
  /\ IF changed THEN stack' = <<Frame(fn, Nil, Nil)>> /\ UNCHANGED ended
     ELSE ended' = "end" /\ stack' = <<>>

(* A function returns to the one that has called it; conf() for the main    *)
(* menu to main().                                                          *)
Return == IF Len(stack) = 1 THEN HandleExit("exit") ELSE Back /\ SameConf /\ SameOptions

----------------------------------------------------------------------------
(* conf(): the items of its menu and five buttons.  The item that was       *)
(* highlighted is the one to highlight the next time.                       *)

ConfExit == In("conf") /\ Return

(* What was picked; in an empty menu it is nothing.                         *)
NoItem == [data |-> Nil, tag |-> ""]
Pickable == IF Items(Top.menu) = <<>> THEN {NoItem} ELSE ToSet(Items(Top.menu))

Kept(item) == Append(Front(stack), [Top EXCEPT !.active = item.data])
ConfGo(item, frames) == Len(stack) + Len(frames) <= Depth /\ stack' = Kept(item) \o frames /\ Stays

(* Select (button 0): what it opens depends on the item.  In single menu    *)
(* mode a menu is shown in place.                                           *)
Opens(item) ==
  LET m == item.data
  IN  CASE item.tag = "m" -> <<Frame("conf", m, Nil)>>
        [] item.tag = "t" /\ Kind(m) = "choice" /\ Now(m) = "y" -> <<Frame("choice", m, value[m])>>
        [] item.tag = "t" /\ Kind(m) = "menuconfig" -> <<Frame("conf", m, Nil)>>
        [] item.tag = "s" -> <<Frame("string", m, Nil)>>
        [] OTHER -> <<>>
ConfSelect ==
  /\ In("conf") /\ SameConf /\ SameOptions
  /\ \E item \in Pickable :
       ~(single_menu_mode /\ item.tag = "m") /\ ConfGo(item, Opens(item))
ConfUnfold ==
  /\ In("conf") /\ SameConf /\ single_menu_mode /\ UNCHANGED save_and_exit
  /\ \E item \in Pickable : item.tag = "m" /\ Unfold(item.data) /\ ConfGo(item, <<>>)

(* Help, Save, Load and search.                                             *)
ConfCall ==
  /\ In("conf") /\ SameConf /\ SameOptions
  /\ \E item \in Pickable, fn \in {"text", "save", "load", "search"} :
       ConfGo(item, <<Frame(fn, item.data, Nil)>>)

(* y, n and m.  Where y is out of range and m is not, users are told.       *)
ConfSet ==
  /\ In("conf") /\ SameOptions
  /\ \E item \in Pickable, v \in {"y", "n", "m"} :
       LET m == item.data
           May(w) == item.tag = "t" /\ MaySet(m, w)
       IN  CASE May(v) -> SetTristate(m, v) /\ ConfGo(item, <<>>)
             [] ~May(v) /\ v = "y" /\ May("m") ->
                  SetTristate(m, "m") /\ ConfGo(item, <<Frame("text", m, Nil)>>)
             [] ~May(v) /\ ~(v = "y" /\ May("m")) -> SameConf /\ ConfGo(item, <<>>)

(* The space bar.                                                           *)
ConfToggle ==
  /\ In("conf") /\ SameOptions
  /\ \E item \in Pickable :
       \/ item.tag = "t" /\ SetTristate(item.data, Toggled(item.data)) /\ ConfGo(item, <<>>)
       \/ item.tag = "m" /\ SameConf /\ ConfGo(item, <<Frame("conf", item.data, Nil)>>)
       \/ item.tag \notin {"t", "m"} /\ SameConf /\ ConfGo(item, <<>>)

ConfShowAll ==
  /\ In("conf") /\ SameConf
  /\ show_all_options' = ~show_all_options /\ UNCHANGED <<unfolded, save_and_exit>>
  /\ \E item \in Pickable : ConfGo(item, <<>>)

----------------------------------------------------------------------------
(* conf_choice(): the members and comments that are visible; `active' is    *)
(* highlighted.  A comment that is picked sets nothing.                     *)

ChoiceSet ==
  /\ In("choice") /\ SameOptions
  /\ \E c \in {c \in Children(Top.menu) : Visible(c)} : HasSymbol(c) /\ SetTristate(c, "y")
  /\ Back
ChoiceHelp ==
  /\ In("choice") /\ SameConf /\ SameOptions /\ Len(stack) < Depth
  /\ \E c \in {c \in Children(Top.menu) : Visible(c)} :
       stack' = Front(stack) \o <<[Top EXCEPT !.active = IF HasSymbol(c) THEN c ELSE Nil],
                                 Frame("text", Top.menu, Nil)>>
  /\ Stays
ChoiceEscape == In("choice") /\ Back /\ SameConf /\ SameOptions

(* conf_string(): a text that is not valid for the symbol is refused.       *)
StringSet == In("string") /\ Back /\ SameOptions /\ SetString

(* conf_load(): the file becomes the one that is saved to; what is read of  *)
(* it may be corrected.                                                     *)
FileLoad ==
  /\ In("load") /\ Back /\ SameOptions
  /\ Loaded

(* conf_save(): conf_write() ends with a message, and only then counts the  *)
(* configuration as saved; a new name replaces `filename' after that.       *)
FileSave ==
  /\ In("save") /\ SameOptions
  /\ \/ save_and_exit /\ Saved /\ Back
     \/ /\ ~save_and_exit /\ UNCHANGED <<value, changed, refused>>
        /\ inFile' \in {inFile, TRUE} /\ Instead(Frame("wrote", Top.menu, Nil))
Wrote == In("wrote") /\ Saved /\ SameOptions /\ Back

(* conf_load() of a file that does not exist says so, and asks again.       *)
FileRefused == In("load") /\ Tell /\ LoadRefused /\ SameOptions

(* Of the three: Help, or what was entered is refused, and the dialog is    *)
(* opened again afterwards; ESC, or an empty file name.                     *)
InputTell   == (In("string") \/ In("load") \/ In("save")) /\ Tell /\ SameConf /\ SameOptions
InputEscape == (In("string") \/ In("load") \/ In("save")) /\ Back /\ SameConf /\ SameOptions

----------------------------------------------------------------------------
(* search_conf(): the input box and its help; the results; a digit jumps to *)
(* an entry, if it is visible, or to the nearest menu around it that is.    *)
(* There is no digit for what is directly in the main menu.                 *)

SearchHelp   == In("search") /\ Tell /\ SameConf /\ SameOptions
SearchFor    == In("search") /\ Instead(Frame("results", Top.menu, Nil)) /\ SameConf /\ SameOptions
SearchEscape == In("search") /\ Back /\ SameConf /\ SameOptions

(* The menus around an entry, from the inside: get_prompt_str() has room    *)
(* for 8, and stops at the main menu.                                       *)
MAX_LOCATIONS == 8
Outer(m) == IF m = Root THEN Root ELSE Parent(m)
Outwards(m) ==
  LET up[n \in 0..MAX_LOCATIONS] == IF n = 0 THEN m ELSE Outer(up[n - 1])
  IN  up
Around == [m \in Names |-> Outwards(m)]
Accessible(m) == {n \in 1..MAX_LOCATIONS : Around[m][n] # Root /\ Visible(Around[m][n])}

\* Mutant: the entry itself, visible or not.
TargetsAll == {m \in Names : HasSymbol(m) /\ Accessible(m) # {}}

Targets == {IF Visible(m) THEN m ELSE Around[m][Min(Accessible(m))] :
              m \in {s \in Names : HasSymbol(s) /\ Accessible(s) # {}}}

SearchJump ==
  /\ In("results") /\ SameConf /\ SameOptions
  /\ \E m \in Targets : Call(Frame("conf", Parent(m), m))
SearchDone == In("results") /\ Back /\ SameConf /\ SameOptions

TextClosed == In("text") /\ Back /\ SameConf /\ SameOptions

----------------------------------------------------------------------------
(* The rest of handle_exit(); ESC brings the main menu back, but not from   *)
(* the handler of SIGINT.                                                   *)

Exiting == In("exit") \/ In("interrupt")
ExitSave   == Exiting /\ ((Saved /\ Ends("end")) \/ (SameConf /\ Ends("error")))
ExitDrop   == Exiting /\ SameConf /\ Ends("not saved")
ExitEscape == In("exit") /\ SameConf /\ SameOptions /\ stack' = <<Frame("conf", Root, Nil)>> /\ Stays

(* sig_handler(): SIGINT, while a dialog waits for a key.                   *)
Interrupt == Running /\ Fits /\ Top.fn # "interrupt" /\ HandleExit("interrupt")

(* KEY_RESIZE, which a dialog that is open gets.                            *)
Resize ==
  /\ Running /\ Fits
  /\ screen' \in Screens
  /\ UNCHANGED <<stack, confVars, options, ended>>

(* dialog_menu() may crash when the terminal becomes larger, if not all of  *)
(* the menu fitted into the window (MenuBox says when it does).             *)
ResizeCrash ==
  /\ In("conf") /\ screen.rows - 14 < Len(Items(Top.menu))
  /\ screen' \in {scr \in Screens : scr.rows > screen.rows}
  /\ SameConf /\ SameOptions /\ ended' = "crashed" /\ stack' = <<>>

\* Mutant: conf_choice() goes on too.
DisplayTooSmallChoice ==
  /\ Running /\ ~Fits
  /\ CASE Top.fn = "conf" -> Return
       [] Top.fn \in {"search", "results", "text"} -> Back /\ SameConf /\ SameOptions
       [] Top.fn = "wrote" -> Saved /\ Back /\ SameOptions
       [] Top.fn \in {"exit", "interrupt"} -> SameConf /\ Ends("not saved")
       [] Top.fn \in {"choice", "string", "load", "save"} -> Again /\ SameConf /\ SameOptions

(* A dialog that does not fit returns -ERRDISPLAYTOOSMALL.  The functions   *)
(* with an input box have no case for that, and go on to open it again.     *)
DisplayTooSmall ==
  /\ Running /\ ~Fits
  /\ CASE Top.fn = "conf" -> Return
       [] Top.fn \in {"choice", "search", "results", "text"} -> Back /\ SameConf /\ SameOptions
       [] Top.fn = "wrote" -> Saved /\ Back /\ SameOptions
       [] Top.fn \in {"exit", "interrupt"} -> SameConf /\ Ends("not saved")
       [] Top.fn \in {"string", "load", "save"} -> Again /\ SameConf /\ SameOptions

----------------------------------------------------------------------------
Init ==
  /\ LargeEnough /\ stack = <<Frame("conf", Root, Nil)>>
  /\ MenusInit /\ save_and_exit = FALSE /\ ended = "no"

Next ==
  \/ ConfExit \/ ConfSelect \/ ConfUnfold \/ ConfCall \/ ConfSet \/ ConfToggle \/ ConfShowAll
  \/ ChoiceSet \/ ChoiceHelp \/ ChoiceEscape
  \/ StringSet \/ FileLoad \/ FileRefused \/ FileSave \/ Wrote \/ InputTell \/ InputEscape
  \/ SearchHelp \/ SearchFor \/ SearchEscape \/ SearchJump \/ SearchDone \/ TextClosed
  \/ ExitSave \/ ExitDrop \/ ExitEscape \/ Interrupt \/ Resize \/ ResizeCrash \/ DisplayTooSmall

Spec == Init /\ [][Next]_vars /\ WF_vars(DisplayTooSmall)

----------------------------------------------------------------------------
(* Properties                                                               *)

TypeOK ==
  /\ screen \in Screens /\ MenusTypeOK /\ Len(stack) <= Depth
  /\ \A i \in DOMAIN stack : stack[i].fn \in DOMAIN Needs /\ stack[i].menu \in Names \cup {Nil}
  /\ ended = "no" <=> stack # <<>>

(* Menuconfig says that it is the end of the configuration only when the    *)
(* file has what was configured: saving, loading, changing back and forth,  *)
(* ESC and SIGINT, also in the message after saving, never make it forget   *)
(* that something is unsaved.  There is one thing that does: a load that is *)
(* refused (confdata.c:413), until something is changed again.              *)
QuitKeeps == ended = "end" => inFile \/ refused

(* A menu comes back with the highlight on the item that the dialogs in     *)
(* between were about, however deep they went.                              *)
KeepsPlace == \A i \in 1..(Len(stack) - 1) :
  stack[i].fn = "conf" => stack[i].active = stack[i + 1].menu

(* A jump from the results of a search opens a menu with the entry in it,   *)
(* visible or not; only a member of a choice is not listed where it leads.  *)
Listed(f) == f.active \in {item.data : item \in ToSet(Items(f.menu))}
JumpsThere == [][(Running /\ Top.fn = "results") =>
  \A m \in Targets : stack' = Append(stack, Frame("conf", Parent(m), m)) =>
    Listed(Last(stack')) \/ Kind(Parent(m)) = "choice"]_vars

(* A terminal that has become too small never keeps the program busy: it    *)
(* shows a dialog that fits or ends.  The three functions that have no case *)
(* for it are the exception; they try again for ever.                       *)
Spins == Running /\ ~Fits /\ Top.fn \in {"string", "load", "save"}
Responds == (Running /\ ~Fits) ~> (~Running \/ Fits \/ Spins)

(* The user is where they should be in the tree of menus, whether they come *)
(* back from an entry or jump to one; and the frames are those of functions *)
(* of the program.                                                          *)
PlaceKept == [](TypeOK /\ KeepsPlace) /\ JumpsThere
=============================================================================
