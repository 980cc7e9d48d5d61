-------------------------------- MODULE Nconf --------------------------------
(***************************************************************************)
(* make nconfig (support/kconfig/nconf.c): the menus of Menus in a curses  *)
(* menu that all functions share, with a search that moves the highlight   *)
(* while one types.  The functions that run are a sequence of windows, the *)
(* last of which waits for a key.  conf() and conf_choice() build their    *)
(* list anew after every key that may have changed something, and find     *)
(* their place again by its number.  The windows of nconf.gui.c are one    *)
(* step here: NconfGui has them.                                           *)
(***************************************************************************)
EXTENDS Menus

CONSTANTS
  Text,             \* the line that stands for an entry: [names -> Seq(Characters)]
  Characters,       \* what is typed in a search
  MaxPattern,       \* bound: the characters of a pattern, 255 in the code
  MaxWindows        \* bound: the functions that run

ASSUME TextAssumption == Text \in [Names -> Seq(Characters)]

VARIABLES
  windows,          \* [fn, menu, active, index, shown, match]: see NWindow
  items,            \* k_menu_items: the list as it was built last
  cur,              \* item_index(current_item(curses_menu)) + 1
  outcome           \* "no" while it runs; "end", "not saved", "error" when it has
                    \* ended; "hangs", "crashes", "undefined"
nconfVars == <<menusVars, windows, items, cur, outcome>>

NoMenu == ""

(* struct match_state                                                       *)
Idle == [in_search |-> FALSE, match_direction |-> "MATCH_TINKER_PATTERN_DOWN", pattern |-> <<>>]

(* What a function keeps: `active' of conf_choice(), the place of the       *)
(* highlight (0 for -1), whether the list is as it was built last, and the  *)
(* search.                                                                  *)
NWindow(fn, m) ==
  [fn |-> fn, menu |-> m, active |-> IF fn = "choice" THEN value[m] ELSE NoMenu,
   index |-> 1, shown |-> fn \notin {"conf", "choice"}, match |-> Idle]

This     == Last(windows)
Alive    == outcome = "no"
Open(fn) == Alive /\ This.fn = fn /\ This.shown
InMenu   == Open("conf") \/ Open("choice")

(* item_data() and item_tag(); nothing in an empty list, for which curses   *)
(* keeps the items of the list before, and nconf has emptied them.          *)
CurrentItem == IF cur \in DOMAIN items THEN items[cur] ELSE [data |-> NoMenu, tag |-> ""]

Put(w)      == windows' = Append(Front(windows), w)
Push(fn)    == Len(windows) < MaxWindows /\ windows' = Append(windows, NWindow(fn, This.menu))
Pop         == windows' = Front(windows)
Fails(how)  == outcome' = how /\ UNCHANGED <<menusVars, windows, items, cur>>
KeepMenus   == UNCHANGED menusVars
KeepOptions == UNCHANGED <<show_all_options, single_menu_mode, data>>
Steady      == UNCHANGED <<items, cur, outcome>>

----------------------------------------------------------------------------
(* build_conf(), or the loop of conf_choice() over the members; then        *)
(* show_menu() and center_item().  The member that was set when             *)
(* conf_choice() began takes the highlight again.  There is no item before  *)
(* the first: what the code reads there is undefined; behind the last there *)
(* is none, and the first is highlighted.                                   *)
Listing == IF This.fn = "conf" THEN Items(This.menu) ELSE Members(This.menu)
Restored(list) ==
  LET here == {i \in DOMAIN list : list[i].data = This.active}
  IN  IF This.fn = "choice" /\ here # {} THEN CHOOSE i \in here : TRUE ELSE This.index
ShowMenu ==
  /\ Alive /\ ~This.shown
  /\ items' = Listing
  /\ LET i == Restored(items')
     IN  /\ Put([This EXCEPT !.shown = TRUE, !.index = i])
         /\ cur' = CASE i \in DOMAIN items' -> i
                     [] items' = <<>> -> cur
                     [] OTHER -> 1
         /\ outcome' = IF i = 0 THEN "undefined" ELSE outcome
  /\ KeepMenus

----------------------------------------------------------------------------
(* do_match(): the keys of the search.                                      *)

(* '/' begins a search and ends it, as does ESC.                            *)
Slash ==
  /\ InMenu
  /\ Put([This EXCEPT !.index = 0, !.match = [Idle EXCEPT !.in_search = ~This.match.in_search]])
  /\ KeepMenus /\ Steady

(* adj_match_dir()                                                          *)
Adjusted(dir) ==
  CASE dir = "FIND_NEXT_MATCH_DOWN" -> "MATCH_TINKER_PATTERN_DOWN"
    [] dir = "FIND_NEXT_MATCH_UP" -> "MATCH_TINKER_PATTERN_UP"
    [] OTHER -> dir

HasPart(text, p) == \E k \in 0..(Len(text) - Len(p)) : SubSeq(text, k + 1, k + Len(p)) = p
Matching(p) == {i \in DOMAIN items : HasPart(Text[items[i].data], p)}

(* get_mext_match(): where the search starts, and the first match from      *)
(* there, around the ends of the list, or 0.  With no match it ends where   *)
(* it has started, and never if that is before or behind the list.          *)
match_start(dir) == CASE dir = "FIND_NEXT_MATCH_DOWN" -> cur + 1
                      [] dir = "FIND_NEXT_MATCH_UP" -> cur - 1
                      [] OTHER -> cur
Up(dir) == dir \in {"FIND_NEXT_MATCH_UP", "MATCH_TINKER_PATTERN_UP"}

\* Mutant: it gives up at the end of the list.
get_mext_matchEnd(found, dir) ==
  LET there == {i \in found : IF Up(dir) THEN i <= match_start(dir) ELSE i >= match_start(dir)}
  IN  IF there = {} THEN 0 ELSE IF Up(dir) THEN Max(there) ELSE Min(there)

get_mext_match(found, dir) ==
  LET from(k)  == match_start(dir) - 1 + (IF Up(dir) THEN -k ELSE k)
      index(k) == (from(k) % Len(items)) + 1
      hits     == {k \in 0..(Len(items) - 1) : index(k) \in found}
  IN  IF hits = {} THEN 0 ELSE index(Min(hits))

Search(p, dir) ==
  LET state == [in_search |-> TRUE, match_direction |-> dir, pattern |-> p]
      match == get_mext_match(Matching(p), dir)
  IN  CASE items = <<>> -> Fails("crashes")
        [] items # <<>> /\ match # 0 ->
             Put([This EXCEPT !.index = match, !.match = state]) /\ cur' = match
             /\ KeepMenus /\ UNCHANGED <<items, outcome>>
        [] items # <<>> /\ match = 0 /\ match_start(dir) \in DOMAIN items ->
             Put([This EXCEPT !.index = 0, !.match = state]) /\ KeepMenus /\ Steady
        [] OTHER -> Fails("hangs")

Searching == InMenu /\ This.match.in_search

(* A printable character; cut to a char, so are KEY_NPAGE, KEY_PPAGE and    *)
(* KEY_END.                                                                 *)
TypeCharacter ==
  /\ Searching /\ Len(This.match.pattern) < MaxPattern
  /\ \E c \in Characters :
       Search(Append(This.match.pattern, c), Adjusted(This.match.match_direction))

FindNext ==
  /\ Searching
  /\ \E dir \in {"FIND_NEXT_MATCH_DOWN", "FIND_NEXT_MATCH_UP"} : Search(This.match.pattern, dir)

(* In an empty pattern the code clears the byte before it, which is 0.      *)
Rubout ==
  /\ Searching
  /\ LET p == This.match.pattern
     IN  Put([This EXCEPT !.index = 0,
                !.match.pattern = IF p = <<>> THEN p ELSE Front(p),
                !.match.match_direction = Adjusted(@)])
  /\ KeepMenus /\ Steady

(* Any other key ends the search and is taken as without it; do_match() has *)
(* set the index to -1.  The letters and the space bar do not get so far.   *)
Plain == InMenu /\ ~This.match.in_search
Keyed == [This EXCEPT !.index = 0, !.match = Idle]

----------------------------------------------------------------------------
(* The keys of both lists.                                                  *)

(* The inner loop ends.  conf() remembers the location in the menu.         *)
Broken == [Keyed EXCEPT !.shown = FALSE, !.index = IF This.fn = "conf" THEN cur ELSE 0]
Go(ws) == Len(windows) + Len(ws) <= MaxWindows /\ windows' = Append(Front(windows), Broken) \o ws /\ Steady

(* The arrows, Home, End and the pages.  In a search some of them are keys  *)
(* of the search.                                                           *)
Move ==
  /\ InMenu /\ Put(Keyed) /\ KeepMenus
  /\ IF items = <<>> THEN UNCHANGED cur ELSE cur' \in DOMAIN items /\ (Searching => cur' = 1)
  /\ UNCHANGED <<items, outcome>>

(* 'h' does not end the inner loop.                                         *)
NHelp ==
  /\ Plain /\ CurrentItem.data # NoMenu
  /\ Len(windows) < MaxWindows
  /\ windows' = Append(Front(windows), Keyed) \o <<NWindow("text", This.menu)>>
  /\ KeepMenus /\ Steady

(* F1 to F4 and F6 to F8, and KEY_RESIZE.                                   *)
FunctionKey ==
  /\ InMenu /\ KeepMenus
  /\ \/ Go(<<>>)
     \/ \E fn \in {"text", "show", "save", "load", "search"} : Go(<<NWindow(fn, This.menu)>>)

(* do_exit(), by F9 or from main().                                         *)
FunctionExit ==
  /\ InMenu
  /\ IF changed THEN Go(<<NWindow("exit", Root)>>) /\ KeepMenus ELSE Fails("end")

(* ESC; KEY_LEFT and F5 too, but not in the main menu.                      *)
LeaveMenu ==
  /\ InMenu /\ (Plain \/ This.menu # Root)
  /\ CASE Len(windows) > 1 -> Pop /\ KeepMenus /\ Steady
       [] Len(windows) = 1 /\ changed ->
            windows' = <<NWindow("exit", Root)>> /\ KeepMenus /\ Steady
       [] Len(windows) = 1 /\ ~changed -> Fails("end")

----------------------------------------------------------------------------
(* conf(): what is not visible can be highlighted, but nothing is done.     *)

Acts(item) == item.data # NoMenu /\ Visible(item.data)

Nothing == KeepMenus /\ Go(<<>>)
Toggle(m) == SetTristate(m, Toggled(m)) /\ KeepOptions /\ Go(<<>>)

(* Enter and KEY_RIGHT, which toggles nothing.                              *)
NSelect ==
  /\ Open("conf")
  /\ LET item == CurrentItem
         m == item.data
         Calls(fn) == Go(<<NWindow(fn, m)>>) /\ KeepMenus
     IN  IF ~Acts(item) THEN Nothing
         ELSE CASE item.tag = "m" /\ single_menu_mode ->
                     Unfold(m) /\ UNCHANGED confVars /\ Go(<<>>)
                [] item.tag = "m" /\ ~single_menu_mode -> Calls("conf")
                [] item.tag = "t" /\ Kind(m) = "choice" -> Calls("choice")
                [] item.tag = "t" /\ Kind(m) = "menuconfig" -> Calls("conf")
                [] item.tag = "t" /\ Kind(m) \notin {"choice", "menuconfig"} -> Toggle(m) \/ Nothing
                [] item.tag = "s" -> Calls("string")
                [] OTHER -> Nothing

(* The space bar.                                                           *)
NSpace ==
  /\ Open("conf") /\ Plain
  /\ LET item == CurrentItem
     IN  CASE Acts(item) /\ item.tag = "t" -> Toggle(item.data)
           [] Acts(item) /\ item.tag = "m" -> Go(<<NWindow("conf", item.data)>>) /\ KeepMenus
           [] ~Acts(item) \/ item.tag \notin {"t", "m"} -> Nothing

(* y, n and m; m where y is out of range, which users are told.             *)
NSet ==
  /\ Open("conf") /\ Plain
  /\ \E v \in {"y", "n", "m"} :
       LET item == CurrentItem
           May(w) == Acts(item) /\ item.tag = "t" /\ MaySet(item.data, w)
       IN  CASE May(v) -> SetTristate(item.data, v) /\ KeepOptions /\ Go(<<>>)
             [] ~May(v) /\ v = "y" /\ May("m") ->
                  SetTristate(item.data, "m") /\ KeepOptions /\ Go(<<NWindow("text", This.menu)>>)
             [] ~May(v) /\ ~(v = "y" /\ May("m")) -> Nothing

(* conf_choice(): Enter and the space bar.                                  *)
NChoose ==
  /\ Open("choice")
  /\ LET c == CurrentItem.data
     IN  IF c # NoMenu /\ Visible(c) /\ HasSymbol(c)
         THEN SetTristate(c, "y") /\ KeepOptions /\ Pop /\ Steady
         ELSE Nothing

----------------------------------------------------------------------------
(* The other functions.                                                     *)

NClose == (\E fn \in {"text", "string", "load", "save", "search", "show"} : Open(fn)) /\ Pop /\ KeepMenus /\ Steady

(* Help, an entry or a file name that is not accepted: the window returns.  *)
NAgain == (\E fn \in {"string", "load", "save", "search"} : Open(fn)) /\ Push("text") /\ KeepMenus /\ Steady

NString == Open("string") /\ SetString /\ KeepOptions /\ Pop /\ Steady
NLoad   == Open("load") /\ Loaded /\ KeepOptions /\ Pop /\ Steady
NLoadRefused == Open("load") /\ Push("text") /\ LoadRefused /\ KeepOptions /\ Steady
NSave   == Open("save") /\ Saved /\ KeepOptions /\ Pop /\ Steady
NResults == Open("search") /\ KeepMenus /\ Put(NWindow("text", This.menu)) /\ Steady

(* handle_f4()                                                              *)
NShowAll ==
  /\ Open("show") /\ show_all_options' \in BOOLEAN
  /\ UNCHANGED <<confVars, single_menu_mode, data>> /\ Pop /\ Steady

NExit ==
  /\ Open("exit")
  /\ \/ Saved /\ KeepOptions /\ outcome' = "end" /\ UNCHANGED <<windows, items, cur>>
     \/ Fails("error") \/ Fails("not saved")
     \/ /\ windows' = IF Len(windows) = 1 THEN <<NWindow("conf", Root)>> ELSE Front(windows)
        /\ KeepMenus /\ Steady

----------------------------------------------------------------------------
NInit == MenusInit /\ windows = <<NWindow("conf", Root)>> /\ items = <<>> /\ cur = 1 /\ outcome = "no"

NNext ==
  \/ ShowMenu \/ Slash \/ TypeCharacter \/ FindNext \/ Rubout \/ Move \/ NHelp \/ FunctionKey
  \/ FunctionExit \/ LeaveMenu \/ NSelect \/ NSpace \/ NSet \/ NChoose
  \/ NClose \/ NAgain \/ NString \/ NLoad \/ NLoadRefused \/ NSave \/ NResults \/ NShowAll \/ NExit

----------------------------------------------------------------------------
(* Properties                                                               *)

(* Nconfig ends without a word only when the file has what was configured,  *)
(* whatever was set, loaded, saved and cancelled before; but for what had   *)
(* changed when a load was refused, with no change after that.              *)
NQuitKeeps == outcome = "end" => inFile \/ refused

(* While one searches, the highlighted line contains the pattern whenever   *)
(* some line does: after each character, each step to the next match over   *)
(* the ends of the list, and each character that is taken back.             *)
FindsMatch == (Alive /\ Searching /\ Matching(This.match.pattern) # {}) => cur \in Matching(This.match.pattern)

(* It hangs, crashes or uses an item before the first only in the cases     *)
(* that the code has: a pattern that no line contains; a search in a list   *)
(* that has become empty; a choice whose members are no longer listed.      *)
FailsOnlyThere ==
  /\ outcome = "hangs" => Matching(This.match.pattern) = {} /\ cur \in {1, Len(items)}
  /\ outcome = "crashes" => items = <<>>
  /\ outcome = "undefined" => This.fn = "choice" /\ ~Shown(This.active)

(* A search by typing goes where it should, and where it cannot it fails in *)
(* the ways of the code only.                                               *)
SearchRight == FindsMatch /\ FailsOnlyThere
=============================================================================
