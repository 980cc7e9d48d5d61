------------------------------- MODULE MenuBox -------------------------------
(***************************************************************************)
(* dialog_menu() of lxdialog (menubox.c): a scrolled list of items with    *)
(* five buttons.  The window shows max_choice items from number scroll on, *)
(* and choice is the row of the highlight in it.  What its rows really     *)
(* show is kept beside that: the items are printed from first_item on when *)
(* the dialog is drawn, and row by row when a key moves something.         *)
(***************************************************************************)
EXTENDS LxDialog

CONSTANTS
  ItemLists         \* the lists that are shown when the dialog stands alone

ASSUME ItemListsAssumption == \A items \in ItemLists : IsList(items)

VARIABLES
  selected,         \* the data of the item to highlight
  s_scroll,         \* the scroll that the caller keeps between two dialogs
  first_item,       \* the item in the first row when the dialog was drawn
  drawn,            \* the items that the rows show: [rows -> numbers of items]
  astray            \* the window was at the start of the list then, and first_item was not
shownVars == <<first_item, drawn, astray>>
menuVars  == <<selected, s_scroll, shownVars>>

Crashed == -2       \* no return: the program has used a null pointer

MaxChoice(scr, items) == Least(scr.rows - 14, Len(items))
max_choice == MaxChoice(screen, list)

(* The last item with the data of the default one, or else number c.        *)
DefaultItem(items, sel, c) ==
  LET of == {n \in 0..(Len(items) - 1) : sel # Nil /\ items[n + 1].data = sel}
  IN  IF of = {} THEN c ELSE LastOf(of)

(* Where the window goes for item c: where it was, if c is in it then and   *)
(* the list has not become too short; to the start of the list; or around   *)
(* the item.                                                                *)
Usable(count, max, saved, c)  == saved <= c /\ saved + max > c /\ saved >= 0 /\ saved + max <= count
AtStart(count, max, saved, c) == ~Usable(count, max, saved, c) /\ c < max
Window(count, max, saved, c) ==
  CASE Usable(count, max, saved, c) -> saved
    [] AtStart(count, max, saved, c) -> 0
    [] ~Usable(count, max, saved, c) /\ c >= max /\ c >= count - (max \div 2) -> count - max
    [] OTHER -> c - (max \div 2)

Gone == first_item' = 0 /\ drawn' = <<>> /\ astray' = FALSE

(* From do_resize on.  c is the item to highlight unless there is a         *)
(* default.  A window that goes to the start of the list leaves first_item, *)
(* which the items are printed from, as it is; there is no item behind the  *)
(* last one, and item_set() leaves item_cur null when it does not find any. *)
MenuDraw(scr, items, sel, saved, c, b, first) ==
  LET max  == MaxChoice(scr, items)
      item == DefaultItem(items, sel, c)
      top  == Window(Len(items), max, saved, item)
      from == IF AtStart(Len(items), max, saved, item) THEN first ELSE top
      fits == ~Smaller(scr, MENUBOX_HEIGTH_MIN, MENUBOX_WIDTH_MIN)
  IN  \/ ~fits /\ Leave(TooSmall) /\ Gone
      \/ fits /\ from + max > Len(items) /\ Leave(Crashed) /\ Gone
      \/ /\ fits /\ from + max <= Len(items)
         /\ answer' = Waiting
         /\ scroll' = top /\ choice' = item - top
         /\ first_item' = from /\ drawn' = [i \in 0..(max - 1) |-> from + i]
         /\ astray' = (from # top)
         /\ button' = b /\ shown' = 0

MenuOpen(items, sel, saved) ==
  /\ list' = items /\ selected' = sel /\ s_scroll' = saved /\ picked' = Nil
  /\ MenuDraw(screen, items, sel, saved, 0, 0, 0)
  /\ UNCHANGED <<screen, dialog>>

(* KEY_RESIZE: the dialog is drawn again.                                   *)
MenuResize(scr) ==
  /\ answer = Waiting /\ screen' = scr
  /\ MenuDraw(scr, list, selected, s_scroll, choice, button, first_item)
  /\ UNCHANGED <<dialog, list, picked, selected, s_scroll>>

Moved ==
  /\ answer = Waiting /\ item_count # 0
  /\ UNCHANGED <<screen, dialog, answer, list, picked, button, shown, selected, s_scroll>>
  /\ UNCHANGED <<first_item, astray>>

\* Mutant: a row that has come into the window shows the item of the scroll before.
PrintedOld ==
  LET old == [drawn EXCEPT ![choice] = scroll + choice]
      by  == scroll' - scroll
  IN  drawn' = [i \in 0..(max_choice - 1) |->
                  IF i + by \notin DOMAIN old THEN scroll + i
                  ELSE IF i = choice' THEN scroll' + i ELSE old[i + by]]

(* The row that was highlighted is printed, the window scrolls, the rows    *)
(* that have come into it are printed, and last the one to highlight.       *)
Printed ==
  LET old == [drawn EXCEPT ![choice] = scroll + choice]
      by  == scroll' - scroll
  IN  drawn' = [i \in 0..(max_choice - 1) |->
                  IF i + by \notin DOMAIN old \/ i = choice' THEN scroll' + i ELSE old[i + by]]

KeyUp ==
  /\ Moved
  /\ IF choice < 2 /\ scroll # 0 THEN scroll' = scroll - 1 /\ choice' = choice
     ELSE scroll' = scroll /\ choice' = Most(choice - 1, 0)
  /\ Printed

KeyDown ==
  /\ Moved
  /\ IF choice > max_choice - 3 /\ scroll + max_choice < item_count
     THEN scroll' = scroll + 1 /\ choice' = choice
     ELSE scroll' = scroll /\ choice' = Least(choice + 1, max_choice - 1)
  /\ Printed

(* max_choice times: the list scrolls if it can, or else the highlight      *)
(* moves if it can.                                                         *)
KeyPageUp ==
  /\ Moved
  /\ LET scrolled == Least(scroll, max_choice)
     IN  /\ scroll' = scroll - scrolled
         /\ choice' = Most(choice - (max_choice - scrolled), 0)
  /\ Printed

KeyPageDown ==
  /\ Moved
  /\ LET scrolled == Least(item_count - max_choice - scroll, max_choice)
     IN  /\ scroll' = scroll + scrolled
         /\ choice' = Least(choice + (max_choice - scrolled), max_choice - 1)
  /\ Printed

(* A letter is first looked for among the hotkeys of the items that can be  *)
(* seen, behind the highlight and then from the start.                      *)
Reserved == {"y", "n", "m", "h", "space"}
Rows(key, from) == {i \in from..(max_choice - 1) : Item(scroll + i).key = key}

HotRows(key) ==
  IF key \in Reserved THEN {}
  ELSE IF Rows(key, choice + 1) # {} THEN Rows(key, choice + 1) ELSE Rows(key, 0)

Hotkey(key) ==
  /\ Moved /\ HotRows(key) # {}
  /\ choice' = FirstOf(HotRows(key)) /\ scroll' = scroll
  /\ Printed

(* What the other keys return.                                              *)
MenuCodes == [h |-> 2, s |-> 5, y |-> 5, n |-> 6, m |-> 7, space |-> 8, slash |-> 9, z |-> 10]
MenuReturn(code) ==
  /\ Pick(code)
  /\ s_scroll' = scroll /\ UNCHANGED selected /\ Gone

MenuEscape == Escape /\ UNCHANGED <<selected, s_scroll>> /\ Gone

KeyLetter(key) ==
  /\ HotRows(key) = {}
  /\ \/ key \in DOMAIN MenuCodes /\ MenuReturn(MenuCodes[key])
     \/ key = "x" /\ MenuEscape

MenuKeys ==
  \/ KeyUp \/ KeyDown \/ KeyPageUp \/ KeyPageDown
  \/ \E key \in Letters : Hotkey(key) \/ KeyLetter(key)
  \/ \E step \in {-1, 1} : KeyButton(5, step) /\ UNCHANGED menuVars
  \/ MenuReturn(button)
  \/ MenuEscape
  \/ \E scr \in Screens : MenuResize(scr)

(* The dialog by itself: opened again with a list, a default item and the   *)
(* scroll that the last one left.                                           *)
menuBoxVars == <<lxVars, menuVars>>
MenuInit ==
  /\ LxInit /\ selected = Nil /\ s_scroll = 0
  /\ first_item = 0 /\ drawn = <<>> /\ astray = FALSE
MenuAgain ==
  /\ answer \notin {Waiting, Crashed}
  /\ \E items \in ItemLists :
       \E sel \in {items[n].data : n \in DOMAIN items} \cup {Nil} :
         MenuOpen(items, sel, s_scroll)
MenuNext == MenuKeys \/ MenuAgain
----------------------------------------------------------------------------
(* Properties                                                               *)

(* The highlight is on an item, in a window that lies within the list, for  *)
(* every size of the terminal and whatever scroll was saved with a longer   *)
(* list; and each row shows the item that it is taken for.  Only after a    *)
(* resize that went to the start of the list but printed from elsewhere     *)
(* (menubox.c:258, :270) may rows show other items of the list.             *)
OnItem == (dialog = "menu" /\ answer = Waiting /\ list # <<>>) =>
  /\ choice \in 0..(max_choice - 1)
  /\ scroll \in 0..(item_count - max_choice)
  /\ \A i \in 0..(max_choice - 1) :
       IF astray THEN drawn[i] \in 0..(item_count - 1) ELSE drawn[i] = scroll + i

(* The arrow keys move the highlight by one item of the list, and stop only *)
(* at its ends; a hotkey goes through all visible items that use it         *)
(* (mconf.c:53-54): the one it comes to is the next from the highlight on,  *)
(* and round.  A resize crashes the program only when it makes a terminal   *)
(* larger that did not show the whole list.                                 *)
Steps(from, to) == (to - from - 1) % max_choice
MenuMove == dialog = "menu" =>
  /\ KeyDown => scroll' + choice' = Least(scroll + choice + 1, item_count - 1)
  /\ KeyUp   => scroll' + choice' = Most(scroll + choice - 1, 0)
  /\ \A key \in Letters : Hotkey(key) =>
       \A i \in Rows(key, 0) : Steps(choice, choice') <= Steps(choice, i)
  /\ \A scr \in Screens : MenuResize(scr) /\ answer' = Crashed =>
       scr.rows > screen.rows /\ screen.rows - 14 < item_count
ReachesAll == [][MenuMove]_menuBoxVars
=============================================================================
