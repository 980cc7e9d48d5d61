---------------------------- MODULE FrontendsProofs ----------------------------
(***************************************************************************)
(* Proofs about Frontends, for any menus, lists, texts and sizes of the    *)
(* terminal.                                                               *)
(***************************************************************************)
EXTENDS Frontends, SequenceTheorems, Induction, TLAPS

-----------------------------------------------------------------------------
(* Numbers                                                                 *)

LEMMA ModSmall ==
  ASSUME NEW n \in Nat \ {0}, NEW a \in 0..(n - 1)
  PROVE  a % n = a
OBVIOUS

LEMMA ModBelow ==
  ASSUME NEW n \in Nat \ {0}, NEW a \in (-n)..(-1)
  PROVE  a % n = a + n
OBVIOUS

(* The first and the last of some numbers.                                 *)
LEMMA FirstIs ==
  ASSUME NEW S \in SUBSET Nat, S # {}
  PROVE  FirstOf(S) \in S /\ \A i \in S : FirstOf(S) <= i
BY LeastNatural DEF FirstOf

LEMMA LastIs ==
  ASSUME NEW n \in Nat, NEW S \in SUBSET (0..n), S # {}
  PROVE  LastOf(S) \in S /\ \A i \in S : i <= LastOf(S)
<1> DEFINE T == {n - i : i \in S}
<1>0. \A i \in S : n - i \in Nat
  OBVIOUS
<1>1. T \in SUBSET Nat /\ T # {}
  BY <1>0
<1>2. PICK x \in T : \A y \in T : x <= y
  BY <1>1, LeastNatural
<1>3. PICK i \in S : x = n - i
  BY <1>2
<1>4. \A j \in S : j <= i
  <2>1. TAKE j \in S
  <2>2. n - i <= n - j
    BY <1>2, <1>3
  <2>3. i \in Int /\ j \in Int
    OBVIOUS
  <2>4. QED
    BY <2>2, <2>3
<1>5. QED
  BY <1>4 DEF LastOf

LEMMA ListLength ==
  ASSUME NEW its, IsList(its)
  PROVE  Len(its) \in Nat /\ (its # <<>> => Len(its) > 0)
BY EmptySeq, LenProperties DEF IsList

-----------------------------------------------------------------------------
(* What the dialogs share                                                  *)

Lx == screen \in Screens /\ IsList(list) /\ choice \in Int /\ scroll \in Int

Large(scr) == ~Smaller(scr, MENUBOX_HEIGTH_MIN, MENUBOX_WIDTH_MIN)

(* The menu box.                                                           *)
Drawn ==
  /\ drawn \in [0..(max_choice - 1) -> Int]
  /\ first_item \in 0..(item_count - max_choice)
MenuInv ==
  /\ s_scroll \in Int /\ first_item \in Int
  /\ dialog = "menu" /\ answer = Waiting => Large(screen) /\ Drawn
  /\ dialog = "menu" => button \in 0..4 /\ (list = <<>> => choice = 0)
  /\ OnItem

LEMMA LxNumbers ==
  ASSUME Lx
  PROVE  /\ screen.rows \in Nat /\ screen.cols \in Nat /\ item_count \in Nat
         /\ list # <<>> => item_count > 0
         /\ Large(screen) => max_choice \in 0..item_count
         /\ Large(screen) /\ list # <<>> => max_choice \in 1..item_count
<1>1. screen.rows \in Nat /\ screen.cols \in Nat
  BY ScreensAssumption DEF Lx
<1>2. Len(list) \in Nat /\ (list # <<>> => Len(list) > 0)
  BY ListLength DEF Lx
<1>3. QED
  BY <1>1, <1>2
     DEF Large, Smaller, MENUBOX_HEIGTH_MIN, MENUBOX_WIDTH_MIN, max_choice, MaxChoice,
         item_count, Least

(* The window that is drawn lies in the list, and around the item.         *)
LEMMA WindowIs ==
  ASSUME NEW count \in Nat, NEW max \in 0..count, NEW saved \in Int, NEW c \in Int,
         count > 0 => max > 0 /\ c \in 0..(count - 1),
         count = 0 => c = 0
  PROVE  /\ Window(count, max, saved, c) \in Int
         /\ count > 0 => /\ Window(count, max, saved, c) \in 0..(count - max)
                         /\ c - Window(count, max, saved, c) \in 0..(max - 1)
         /\ count = 0 => Window(count, max, saved, c) = 0
<1>1. max \div 2 \in Int /\ 2 * (max \div 2) <= max /\ max <= 2 * (max \div 2) + 1
  OBVIOUS
<1> DEFINE usable == Usable(count, max, saved, c)
<1>2. CASE usable
  <2>1. Window(count, max, saved, c) = saved
    BY <1>2 DEF Window, AtStart
  <2>2. QED
    BY <1>2, <2>1 DEF Usable
<1>3. CASE ~usable /\ c < max
  <2>1. Window(count, max, saved, c) = 0
    BY <1>3 DEF Window, AtStart
  <2>2. QED
    BY <1>3, <2>1
<1>4. CASE ~usable /\ c >= max /\ c >= count - (max \div 2)
  <2>1. Window(count, max, saved, c) = count - max
    BY <1>4, <1>1 DEF Window, AtStart
  <2>2. QED
    BY <1>1, <1>4, <2>1
<1>5. CASE ~usable /\ c >= max /\ ~(c >= count - (max \div 2))
  <2>1. Window(count, max, saved, c) = c - (max \div 2)
    BY <1>5, <1>1 DEF Window, AtStart
  <2>2. QED
    BY <1>1, <1>5, <2>1
<1>6. QED
  BY <1>2, <1>3, <1>4, <1>5

LEMMA DefaultIs ==
  ASSUME NEW its, IsList(its), NEW sel, NEW c \in Int,
         Len(its) > 0 => c \in 0..(Len(its) - 1),
         Len(its) = 0 => c = 0
  PROVE  /\ Len(its) > 0 => DefaultItem(its, sel, c) \in 0..(Len(its) - 1)
         /\ Len(its) = 0 => DefaultItem(its, sel, c) = 0
<1> DEFINE of == {n \in 0..(Len(its) - 1) : sel # Nil /\ its[n + 1].data = sel}
<1>1. Len(its) \in Nat
  BY ListLength
<1>2. CASE of = {}
  BY <1>2 DEF DefaultItem
<1>3. CASE of # {}
  <2>1. Len(its) > 0 /\ of \in SUBSET (0..(Len(its) - 1)) /\ Len(its) - 1 \in Nat
    BY <1>1, <1>3
  <2>2. LastOf(of) \in of
    BY <1>1, <1>3, <2>1, LastIs
  <2>3. DefaultItem(its, sel, c) = LastOf(of)
    BY <1>3 DEF DefaultItem
  <2>4. QED
    BY <2>1, <2>2, <2>3
<1>4. QED
  BY <1>2, <1>3

LEMMA DrawnRight ==
  ASSUME NEW scr \in Screens, NEW its, IsList(its), NEW sel, NEW saved \in Int,
         NEW c \in Int, NEW b \in 0..4, NEW first \in Int,
         Len(its) > 0 => c \in 0..(Len(its) - 1),
         Len(its) = 0 => c = 0,
         first >= 0,
         screen' = scr, list' = its, s_scroll' = saved,
         MenuDraw(scr, its, sel, saved, c, b, first)
  PROVE  Lx' /\ MenuInv'
<1> DEFINE item == DefaultItem(its, sel, c)
           count == Len(its)
           max == MaxChoice(scr, its)
           top == Window(count, max, saved, item)
           from == IF AtStart(count, max, saved, item) THEN first ELSE top
<1>1. count \in Nat /\ (its # <<>> => count > 0) /\ scr.rows \in Nat /\ scr.cols \in Nat
  BY ListLength, ScreensAssumption
<1>2. CASE answer' \in {TooSmall, Crashed} /\ choice' = 0 /\ scroll' = 0 /\ button' = 0 /\ Gone
  <2>1. answer' # Waiting /\ first_item' = 0
    BY <1>2 DEF Gone, TooSmall, Crashed, Waiting
  <2>2. QED
    BY <1>2, <2>1 DEF Lx, MenuInv, OnItem
<1>3. CASE /\ Large(scr) /\ from + max <= count
           /\ scroll' = top /\ choice' = item - top
           /\ first_item' = from /\ drawn' = [i \in 0..(max - 1) |-> from + i]
           /\ astray' = (from # top) /\ button' = b
  <2>1. Large(scr)
    BY <1>3
  <2>2. max \in 0..count /\ (count > 0 => max > 0)
    BY <1>1, <2>1
       DEF Large, Smaller, MENUBOX_HEIGTH_MIN, MENUBOX_WIDTH_MIN, MaxChoice, Least
  <2>3. (count > 0 => item \in 0..(count - 1)) /\ (count = 0 => item = 0)
    BY DefaultIs
  <2>4. item \in Int
    BY <1>1, <2>3
  <2>5. /\ top \in Int
        /\ count > 0 => top \in 0..(count - max) /\ item - top \in 0..(max - 1)
        /\ count = 0 => top = 0
    BY <1>1, <2>2, <2>3, <2>4, WindowIs
  <2>6. max_choice' = max /\ item_count' = count
    BY DEF max_choice, item_count
  <2>7. from \in 0..(count - max)
    <3>1. count = 0 => ~AtStart(count, max, saved, item)
      BY <2>2, <2>3 DEF AtStart
    <3> HIDE DEF top, item, max, count
    <3>2. from = first \/ from = top
      OBVIOUS
    <3>3. from \in Int /\ from >= 0
      BY <1>1, <2>2, <2>5, <3>2
    <3> HIDE DEF from
    <3>4. QED
      BY <1>1, <1>3, <2>2, <3>3
  <2>8. Drawn'
    <3> HIDE DEF from, max, count
    <3>1. drawn' \in [0..(max - 1) -> Int]
      BY <1>1, <1>3, <2>2, <2>7
    <3>2. QED
      BY <1>3, <2>6, <2>7, <3>1 DEF Drawn
  <2>9. \A i \in 0..(max - 1) : drawn'[i] \in 0..(count - 1) /\ (~astray' => drawn'[i] = top + i)
    <3> HIDE DEF from, max, count, top
    <3>1. \A i \in 0..(max - 1) : drawn'[i] = from + i
      BY <1>3
    <3>2. ~astray' => from = top
      BY <1>3
    <3>3. \A i \in 0..(max - 1) : from + i \in 0..(count - 1)
      BY <1>1, <2>2, <2>7
    <3>4. QED
      BY <3>1, <3>2, <3>3
  <2>10. OnItem' /\ (list' = <<>> => choice' = 0)
    <3>1. its = <<>> => count = 0
      BY EmptySeq
    <3> HIDE DEF from, max, count, top, item
    <3>2. its # <<>> => choice' \in 0..(max - 1) /\ scroll' \in 0..(count - max)
      BY <1>1, <1>3, <2>5
    <3>3. OnItem'
      BY <1>3, <2>6, <2>9, <3>2 DEF OnItem
    <3>4. its = <<>> => choice' = 0
      BY <1>3, <2>3, <2>5, <3>1
    <3>5. QED
      BY <3>3, <3>4
  <2>11. first_item' \in Int /\ choice' \in Int /\ scroll' \in Int
    <3> HIDE DEF from, max, count, top, item
    <3>1. QED
      BY <1>1, <1>3, <2>2, <2>4, <2>5, <2>7
  <2>12. QED
    BY <1>3, <2>8, <2>10, <2>11 DEF Lx, MenuInv
<1>4. QED
  BY <1>2, <1>3 DEF MenuDraw, Large, Leave

(* A key prints what it moves, so that rows that were right stay right.    *)
LEMMA RowsKept ==
  ASSUME NEW max \in Nat, max = max_choice, scroll \in Int, scroll' \in Int, choice \in 0..(max - 1),
         drawn \in [0..(max - 1) -> Int], Printed
  PROVE  /\ drawn' \in [0..(max - 1) -> Int]
         /\ \A i \in 0..(max - 1) :
              \/ drawn'[i] = scroll' + i
              \/ /\ i + (scroll' - scroll) \in 0..(max - 1)
                 /\ drawn'[i] \in {drawn[i + (scroll' - scroll)], scroll + choice}
                 /\ drawn'[i] = scroll + choice => \/ drawn'[i] = drawn[i + (scroll' - scroll)]
                                                  \/ i + (scroll' - scroll) = choice
<1> DEFINE old == [drawn EXCEPT ![choice] = scroll + choice]
           by  == scroll' - scroll
<1>1. old \in [0..(max - 1) -> Int] /\ DOMAIN old = 0..(max - 1) /\ by \in Int
  OBVIOUS
<1>2. \A j \in 0..(max - 1) : old[j] = IF j = choice THEN scroll + choice ELSE drawn[j]
  OBVIOUS
<1>3. drawn' = [i \in 0..(max - 1) |->
                  IF i + by \notin 0..(max - 1) \/ i = choice' THEN scroll' + i ELSE old[i + by]]
  BY <1>1 DEF Printed
<1> HIDE DEF old
<1>4. \A i \in 0..(max - 1) :
        drawn'[i] = IF i + by \notin 0..(max - 1) \/ i = choice' THEN scroll' + i ELSE old[i + by]
  BY <1>3
<1>5. \A i \in 0..(max - 1) : drawn'[i] \in Int
  <2>1. \A j \in 0..(max - 1) : old[j] \in Int
    BY <1>1
  <2>2. TAKE i \in 0..(max - 1)
  <2>3. scroll' + i \in Int
    OBVIOUS
  <2>4. QED
    BY <1>4, <2>1, <2>3
<1>6. drawn' \in [0..(max - 1) -> Int]
  BY <1>3, <1>5
<1>7. QED
  BY <1>1, <1>2, <1>4, <1>6

LEMMA InWindow ==
  ASSUME NEW n \in Nat, NEW max \in Nat, NEW s \in 0..(n - max), NEW i \in 0..(max - 1)
  PROVE  s + i \in 0..(n - 1)
  OBVIOUS

(* Each key of the menu box.                                               *)
LEMMA MenuMoves ==
  ASSUME Lx, MenuInv, dialog = "menu",
         KeyUp \/ KeyDown \/ KeyPageUp \/ KeyPageDown \/ \E key \in Letters : Hotkey(key)
  PROVE  Lx' /\ MenuInv'
<1>1. /\ answer = Waiting /\ answer' = answer /\ dialog' = dialog /\ screen' = screen
      /\ list' = list /\ s_scroll' = s_scroll /\ item_count # 0
      /\ first_item' = first_item /\ astray' = astray /\ button' = button
  BY DEF KeyUp, KeyDown, KeyPageUp, KeyPageDown, Hotkey, Moved
<1>2. list # <<>> /\ max_choice' = max_choice /\ item_count' = item_count
  BY <1>1, EmptySeq DEF max_choice, item_count
<1>3. /\ Large(screen) /\ max_choice \in 1..item_count /\ item_count \in Nat
      /\ choice \in 0..(max_choice - 1)
      /\ scroll \in 0..(item_count - max_choice)
  BY <1>1, <1>2, LxNumbers DEF MenuInv, OnItem
<1>03. /\ Drawn /\ first_item \in Int
       /\ \A i \in 0..(max_choice - 1) :
            IF astray THEN drawn[i] \in 0..(item_count - 1) ELSE drawn[i] = scroll + i
  BY <1>1, <1>2 DEF MenuInv, OnItem
<1>04. Printed
  BY DEF KeyUp, KeyDown, KeyPageUp, KeyPageDown, Hotkey
<1>4. ASSUME /\ choice' \in 0..(max_choice - 1)
             /\ scroll' \in 0..(item_count - max_choice)
      PROVE  Lx' /\ MenuInv'
  <2>1. choice' \in Int /\ scroll' \in Int
    BY <1>3, <1>4
  <2> DEFINE max == max_choice
             by == scroll' - scroll
  <2>2. max \in Nat /\ max = max_choice /\ scroll \in Int /\ choice \in 0..(max - 1)
    BY <1>3
  <2>3. drawn \in [0..(max - 1) -> Int]
    BY <1>03 DEF Drawn
  <2> HIDE DEF max
  <2>4. /\ drawn' \in [0..(max - 1) -> Int]
        /\ \A i \in 0..(max - 1) :
              \/ drawn'[i] = scroll' + i
              \/ /\ i + by \in 0..(max - 1)
                 /\ drawn'[i] \in {drawn[i + by], scroll + choice}
                 /\ drawn'[i] = scroll + choice => \/ drawn'[i] = drawn[i + by]
                                                  \/ i + by = choice
    BY <1>04, <2>1, <2>2, <2>3, RowsKept
  <2>5. Drawn'
    BY <1>1, <1>2, <1>03, <2>2, <2>4 DEF Drawn
  <2>6. ASSUME NEW i \in 0..(max - 1)
        PROVE  IF astray' THEN drawn'[i] \in 0..(item_count - 1) ELSE drawn'[i] = scroll' + i
    <3>0. /\ item_count \in Nat /\ max \in Nat /\ choice \in 0..(max - 1)
          /\ scroll \in 0..(item_count - max) /\ scroll' \in 0..(item_count - max)
      BY <1>3, <1>4, <2>2
    <3>1. scroll' + i \in 0..(item_count - 1) /\ scroll + choice \in 0..(item_count - 1)
      BY <3>0, InWindow
    <3>2. CASE drawn'[i] = scroll' + i
      BY <3>1, <3>2
    <3>3. CASE /\ i + by \in 0..(max - 1)
               /\ drawn'[i] \in {drawn[i + by], scroll + choice}
               /\ drawn'[i] = scroll + choice => \/ drawn'[i] = drawn[i + by]
                                                \/ i + by = choice
      <4>1. CASE astray
        BY <1>1, <1>03, <2>2, <3>1, <3>3, <4>1
      <4>2. CASE ~astray
        <5>1. drawn[i + by] = scroll + (i + by)
          BY <1>03, <2>2, <3>3, <4>2
        <5>2. drawn'[i] = scroll + (i + by)
          BY <3>3, <5>1
        <5>3. QED
          BY <1>1, <2>1, <2>2, <4>2, <5>2
      <4>3. QED
        BY <4>1, <4>2
    <3>4. QED
      BY <2>4, <3>2, <3>3
  <2>7. OnItem'
    BY <1>2, <1>4, <2>2, <2>6 DEF OnItem
  <2>8. QED
    BY <1>1, <1>2, <1>3, <1>03, <2>1, <2>5, <2>7 DEF Lx, MenuInv
<1>5. CASE KeyUp
  BY <1>3, <1>4, <1>5 DEF KeyUp, Most
<1>6. CASE KeyDown
  BY <1>3, <1>4, <1>6 DEF KeyDown, Least
<1>7. CASE KeyPageUp
  BY <1>3, <1>4, <1>7 DEF KeyPageUp, Most, Least
<1>8. CASE KeyPageDown
  BY <1>3, <1>4, <1>8 DEF KeyPageDown, Least
<1>9. ASSUME NEW key \in Letters, Hotkey(key)
      PROVE  choice' \in 0..(max_choice - 1) /\ scroll' = scroll
  <2>1. HotRows(key) # {} /\ choice' = FirstOf(HotRows(key)) /\ scroll' = scroll
    BY <1>9 DEF Hotkey
  <2>2. HotRows(key) \in SUBSET (0..(max_choice - 1))
    BY <1>3 DEF HotRows, Rows
  <2>3. HotRows(key) \in SUBSET Nat
    BY <1>3, <2>2
  <2>4. FirstOf(HotRows(key)) \in HotRows(key)
    BY <2>1, <2>3, FirstIs
  <2>5. QED
    BY <2>1, <2>2, <2>4
<1>10. QED
  BY <1>3, <1>4, <1>5, <1>6, <1>7, <1>8, <1>9

LEMMA MenuKeeps ==
  ASSUME Lx, MenuInv, dialog = "menu", MenuNext
  PROVE  Lx' /\ MenuInv'
<1>1. CASE MenuAgain
  <2>1. PICK its \in ItemLists : \E sel : MenuOpen(its, sel, s_scroll)
    BY <1>1 DEF MenuAgain
  <2>2. PICK sel : MenuOpen(its, sel, s_scroll)
    BY <2>1
  <2>3. IsList(its) /\ Len(its) \in Nat
    BY ItemListsAssumption, ListLength
  <2>4. /\ list' = its /\ s_scroll' = s_scroll /\ screen' = screen
        /\ MenuDraw(screen, its, sel, s_scroll, 0, 0, 0)
    BY <2>2 DEF MenuOpen
  <2>5. s_scroll \in Int /\ screen' \in Screens /\ 0 \in 0..4 /\ 0 \in Int /\ 0 >= 0
    BY <2>4 DEF MenuInv, Lx
  <2>6. IsList(list') /\ s_scroll' \in Int
    BY <2>3, <2>4, <2>5
  <2>7. Len(its) > 0 => 0 \in 0..(Len(its) - 1)
    BY <2>3
  <2>8. QED
    BY <2>3, <2>4, <2>5, <2>6, <2>7, DrawnRight
<1>2. ASSUME NEW scr \in Screens, MenuResize(scr)
      PROVE  Lx' /\ MenuInv'
  <2>1. /\ answer = Waiting /\ screen' = scr /\ list' = list /\ s_scroll' = s_scroll
        /\ MenuDraw(scr, list, selected, s_scroll, choice, button, first_item)
    BY <1>2 DEF MenuResize
  <2>02. first_item \in Int /\ first_item >= 0 /\ button \in 0..4
    BY <2>1 DEF MenuInv, Drawn
  <2>2. IsList(list) /\ Len(list) \in Nat /\ s_scroll \in Int /\ choice \in Int
    BY ListLength DEF Lx, MenuInv
  <2>3. Len(list) > 0 => choice \in 0..(Len(list) - 1)
    <3> HAVE Len(list) > 0
    <3>1. list # <<>>
      BY EmptySeq
    <3>2. choice \in 0..(max_choice - 1) /\ max_choice \in 1..item_count
      BY <2>1, <3>1, LxNumbers DEF MenuInv, OnItem
    <3>3. QED
      BY <2>2, <3>2 DEF item_count
  <2>4. Len(list) = 0 => choice = 0
    BY ListLength DEF Lx, MenuInv
  <2>5. QED
    BY <2>1, <2>02, <2>2, <2>3, <2>4, DrawnRight
<1>3. ASSUME NEW code \in {button, 2, 5, 6, 7, 8, 9, 10}, MenuEscape \/ MenuReturn(code)
      PROVE  Lx' /\ MenuInv'
  <2>0. code # Waiting /\ KEY_ESC # Waiting
    BY DEF MenuInv, Waiting, KEY_ESC
  <2>1. /\ screen' = screen /\ list' = list /\ dialog' = dialog
        /\ s_scroll' \in {s_scroll, scroll} /\ answer' \in {KEY_ESC, code}
        /\ choice' = 0 /\ scroll' = 0 /\ first_item' = 0 /\ button' = 0
    BY <1>3 DEF MenuEscape, MenuReturn, Escape, Pick, Leave, Gone
  <2>2. QED
    BY <2>0, <2>1 DEF Lx, MenuInv, OnItem
<1>03. ASSUME NEW step \in {-1, 1}, KeyButton(5, step) /\ UNCHANGED menuVars
       PROVE  Lx' /\ MenuInv'
  <2>1. UNCHANGED <<screen, list, dialog, s_scroll, answer, choice, scroll, first_item, drawn, astray>>
    BY <1>03 DEF KeyButton, menuVars, shownVars
  <2>2. button' = (button + step) % 5
    BY <1>03 DEF KeyButton
  <2>3. dialog = "menu" => button' \in 0..4
    BY <1>03, <2>2 DEF MenuInv
  <2>4. QED
    BY <2>1, <2>3 DEF Lx, MenuInv, Drawn, OnItem, max_choice, item_count
<1>4. QED
  <2>1. \A key \in Letters : KeyLetter(key) => MenuEscape \/ \E code \in {2, 5, 6, 7, 8, 9, 10} : MenuReturn(code)
    BY DEF KeyLetter, MenuCodes
  <2>2. QED
    BY <1>1, <1>2, <1>3, <1>03, <2>1, MenuMoves DEF MenuNext, MenuKeys

(* A resize crashes the program only when it makes the window larger.      *)
LEMMA ResizeCrashes ==
  ASSUME Lx, MenuInv, dialog = "menu", NEW scr \in Screens, MenuResize(scr), answer' = Crashed
  PROVE  scr.rows > screen.rows /\ screen.rows - 14 < item_count
<1> DEFINE item == DefaultItem(list, selected, choice)
           count == Len(list)
           max == MaxChoice(scr, list)
           top == Window(count, max, s_scroll, item)
           from == IF AtStart(count, max, s_scroll, item) THEN first_item ELSE top
<1>1. /\ Large(screen) /\ Drawn /\ count \in Nat /\ choice \in Int /\ s_scroll \in Int
      /\ scr.rows \in Nat /\ screen.rows \in Nat /\ item_count = count
  BY ScreensAssumption, LxNumbers DEF MenuResize, Lx, MenuInv, item_count
<1>2. Large(scr) /\ from + max > count
  BY DEF MenuResize, MenuDraw, Large, TooSmall, Crashed, Waiting, Leave
<1>3. max = Least(scr.rows - 14, count) /\ max_choice = Least(screen.rows - 14, count)
  BY DEF MaxChoice, max_choice
<1>4. max \in 0..count /\ (count > 0 => max > 0)
  BY <1>1, <1>2, <1>3 DEF Large, Smaller, MENUBOX_HEIGTH_MIN, Least
<1>5. count > 0 => choice \in 0..(count - 1)
  <2> HAVE count > 0
  <2>1. list # <<>>
    BY EmptySeq
  <2>2. choice \in 0..(max_choice - 1) /\ max_choice \in 1..item_count
    BY <1>1, <2>1, LxNumbers DEF MenuResize, MenuInv, OnItem
  <2>3. QED
    BY <1>1, <2>2
<1>6. count = 0 => choice = 0
  BY ListLength DEF Lx, MenuInv
<1>7. IsList(list)
  BY DEF Lx
<1>8. (count > 0 => item \in 0..(count - 1)) /\ (count = 0 => item = 0)
  BY <1>1, <1>5, <1>6, <1>7, DefaultIs
<1>9. /\ top \in Int
      /\ count > 0 => top \in 0..(count - max)
      /\ count = 0 => top = 0
  <2>1. item \in Int
    BY <1>1, <1>8
  <2>2. QED
    BY <1>1, <1>4, <1>8, <2>1, WindowIs
<1> HIDE DEF max, top, item, count
<1>10. top + max <= count
  BY <1>1, <1>4, <1>9
<1>11. from = first_item
  <2>1. CASE from = top
    BY <1>2, <1>10, <2>1, <1>1, <1>4, <1>9
  <2>2. CASE from # top
    BY <2>2
  <2>3. QED
    BY <2>1, <2>2
<1>12. first_item \in 0..(count - max_choice)
  BY <1>1 DEF Drawn
<1>13. first_item + max > count
  BY <1>2, <1>11
<1>14. QED
  BY <1>1, <1>3, <1>4, <1>12, <1>13 DEF Least, Large, Smaller, MENUBOX_HEIGTH_MIN

(* The arrow keys move by one item, and a hotkey to the next that uses it. *)
LEMMA MovesReach ==
  ASSUME Lx, MenuInv
  PROVE  MenuMove
<1>1. SUFFICES ASSUME dialog = "menu", Moved
               PROVE  /\ KeyDown => scroll' + choice' = Least(scroll + choice + 1, item_count - 1)
                      /\ KeyUp   => scroll' + choice' = Most(scroll + choice - 1, 0)
                      /\ \A key \in Letters : Hotkey(key) =>
                           \A i \in Rows(key, 0) : Steps(choice, choice') <= Steps(choice, i)
  BY ResizeCrashes DEF MenuMove, KeyDown, KeyUp, Hotkey
<1>2. list # <<>> /\ answer = Waiting
  BY <1>1, EmptySeq DEF Moved, item_count
<1>3. /\ max_choice \in 1..item_count /\ item_count \in Nat
      /\ choice \in 0..(max_choice - 1)
      /\ scroll \in 0..(item_count - max_choice)
  BY <1>1, <1>2, LxNumbers DEF MenuInv, OnItem
<1>4. KeyDown => scroll' + choice' = Least(scroll + choice + 1, item_count - 1)
  BY <1>3 DEF KeyDown, Least
<1>5. KeyUp => scroll' + choice' = Most(scroll + choice - 1, 0)
  BY <1>3 DEF KeyUp, Most
<1>6. ASSUME NEW key \in Letters, Hotkey(key), NEW i \in Rows(key, 0)
      PROVE  Steps(choice, choice') <= Steps(choice, i)
  <2>1. /\ HotRows(key) # {} /\ choice' = FirstOf(HotRows(key))
        /\ HotRows(key) = IF Rows(key, choice + 1) # {} THEN Rows(key, choice + 1)
                          ELSE Rows(key, 0)
    BY <1>6 DEF Hotkey, HotRows
  <2>2. HotRows(key) \in SUBSET (0..(max_choice - 1)) /\ i \in 0..(max_choice - 1)
    BY <1>3, <1>6, <2>1 DEF Rows
  <2>3. HotRows(key) \in SUBSET Nat
    BY <1>3, <2>2
  <2>4. choice' \in HotRows(key) /\ \A j \in HotRows(key) : choice' <= j
    BY <2>1, <2>3, FirstIs
  \* Behind the highlight, or round.
  <2>5. ASSUME NEW j \in 0..(max_choice - 1)
        PROVE  Steps(choice, j) = IF j > choice THEN j - choice - 1
                                  ELSE j - choice - 1 + max_choice
    <3>1. CASE j > choice
      <4>1. j - choice - 1 \in 0..(max_choice - 1) /\ max_choice \in Nat \ {0}
        BY <1>3, <3>1
      <4>2. QED
        BY <3>1, <4>1, ModSmall DEF Steps
    <3>2. CASE ~(j > choice)
      <4>1. j - choice - 1 \in (-max_choice)..(-1) /\ max_choice \in Nat \ {0}
        BY <1>3, <3>2
      <4>2. QED
        BY <3>2, <4>1, ModBelow DEF Steps
    <3>3. QED
      BY <3>1, <3>2
  <2>6. i > choice => i \in Rows(key, choice + 1)
    BY <1>3, <1>6 DEF Rows
  <2>7. CASE Rows(key, choice + 1) # {}
    <3>1. choice' > choice /\ choice' \in 0..(max_choice - 1)
      BY <1>3, <2>1, <2>2, <2>4, <2>7 DEF Rows
    <3>2. i > choice => choice' <= i
      BY <2>1, <2>4, <2>6, <2>7
    <3>3. QED
      BY <1>3, <2>2, <2>5, <3>1, <3>2
  <2>8. CASE Rows(key, choice + 1) = {}
    <3>1. ~(i > choice) /\ choice' <= i /\ choice' \in 0..(max_choice - 1)
      BY <1>6, <2>1, <2>2, <2>4, <2>6, <2>8
    <3>2. QED
      BY <1>3, <2>2, <2>5, <3>1
  <2>9. QED
    BY <2>7, <2>8
<1>7. QED
  BY <1>4, <1>5, <1>6

-----------------------------------------------------------------------------
(* The check list.                                                         *)

LEMMA ToShowIs ==
  ASSUME NEW its, IsList(its), its # <<>>
  PROVE  ItemToShow(its) \in 0..(Len(its) - 1)
<1> DEFINE Numbers == 0..(Len(its) - 1)
           active == {n \in Numbers : its[n + 1].selected}
           marked == {n \in Numbers : its[n + 1].tag = "X"}
<1>1. Len(its) \in Nat /\ Len(its) > 0 /\ Len(its) - 1 \in Nat
  BY ListLength
<1>2. active \in SUBSET Numbers /\ marked \in SUBSET Numbers /\ Numbers \in SUBSET Nat
  BY <1>1
<1>3. active # {} => FirstOf(active) \in Numbers
  BY <1>2, FirstIs
<1>4. marked # {} => LastOf(marked) \in Numbers
  BY <1>1, <1>2, LastIs
<1>5. 0 \in Numbers
  BY <1>1
<1>6. QED
  BY <1>3, <1>4, <1>5 DEF ItemToShow

LEMMA CheckDrawnRight ==
  ASSUME NEW scr \in Screens, NEW its, IsList(its), NEW c \in Int, NEW top \in Int, NEW b,
         its # <<>> => /\ c \in 0..(Len(its) - 1)
                       /\ c < ListHeight =>
                            top \in 0..(Len(its) - Least(ListHeight, Len(its))),
         screen' = scr, list' = its,
         CheckDraw(scr, c, top, b)
  PROVE  Lx' /\ OnMember'
<1>1. Len(its) \in Nat /\ ListHeight \in Nat \ {0}
  BY ListLength, ListHeightAssumption
<1>2. check_max' = Least(ListHeight, Len(its)) /\ item_count' = Len(its)
  BY DEF check_max, item_count
<1>3. CASE Smaller(scr, CheckRows, CheckCols)
  <2>1. choice' = 0 /\ scroll' = 0 /\ answer' = TooSmall
    BY <1>3 DEF CheckDraw, Leave
  <2>2. QED
    BY <2>1 DEF Lx, OnMember, TooSmall, Waiting
<1>4. CASE ~Smaller(scr, CheckRows, CheckCols)
  <2>1. IF c >= ListHeight THEN scroll' = c - ListHeight + 1 /\ choice' = ListHeight - 1
        ELSE scroll' = top /\ choice' = c
    BY <1>4 DEF CheckDraw
  <2>2. choice' \in Int /\ scroll' \in Int
    BY <1>1, <2>1
  <2>3. PICK n \in Nat : n = Len(its)
    BY <1>1
  <2>4. ASSUME its # <<>>
        PROVE  choice' \in 0..(Least(ListHeight, n) - 1) /\ scroll' \in 0..(n - Least(ListHeight, n))
    <3>1. c \in 0..(n - 1) /\ (c < ListHeight => top \in 0..(n - Least(ListHeight, n)))
      BY <2>3, <2>4
    <3>2. CASE c >= ListHeight
      BY <1>1, <2>1, <3>1, <3>2 DEF Least
    <3>3. CASE ~(c >= ListHeight)
      BY <1>1, <2>1, <3>1, <3>3 DEF Least
    <3>4. QED
      BY <3>2, <3>3
  <2>5. OnMember'
    BY <1>2, <2>3, <2>4 DEF OnMember
  <2>6. QED
    BY <2>2, <2>5 DEF Lx
<1>5. QED
  BY <1>3, <1>4

LEMMA CheckKeeps ==
  ASSUME Lx, OnMember, dialog = "checklist", CheckListDialog
  PROVE  Lx' /\ OnMember'
<1>1. /\ ListHeight \in Nat \ {0} /\ item_count \in Nat
      /\ list # <<>> => item_count > 0 /\ check_max \in 1..item_count
      /\ check_max = Least(ListHeight, item_count)
  BY LxNumbers, ListHeightAssumption DEF check_max, Least
<1>2. ASSUME NEW its \in MemberLists, CheckOpen(its)
      PROVE  Lx' /\ OnMember'
  <2>1. /\ list' = its /\ screen' = screen
        /\ CheckDraw(screen, ItemToShow(its), 0, 0)
    BY <1>2 DEF CheckOpen
  <2>2. IsList(its) /\ Len(its) \in Nat
    BY MemberListsAssumption, ListLength
  <2>3. its # <<>> => ItemToShow(its) \in 0..(Len(its) - 1)
    BY <2>2, ToShowIs
  <2>4. ItemToShow(its) \in Int
    <3>1. its = <<>> => ItemToShow(its) = 0
      BY EmptySeq DEF ItemToShow
    <3>2. QED
      BY <2>2, <2>3, <3>1
  <2>5. 0 \in 0..(Len(its) - Least(ListHeight, Len(its)))
    BY <1>1, <2>2 DEF Least
  <2>6. screen \in Screens
    BY DEF Lx
  <2>7. QED
    BY <2>1, <2>2, <2>3, <2>4, <2>5, <2>6, CheckDrawnRight
<1>3. ASSUME NEW scr \in Screens, CheckResize(scr)
      PROVE  Lx' /\ OnMember'
  <2>1. /\ answer = Waiting /\ list' = list /\ screen' = scr
        /\ CheckDraw(scr, choice, scroll, button)
    BY <1>3 DEF CheckResize
  <2>2. list # <<>> => /\ choice \in 0..(Len(list) - 1)
                       /\ scroll \in 0..(Len(list) - Least(ListHeight, Len(list)))
    BY <1>1, <2>1 DEF OnMember, item_count
  <2>3. IsList(list) /\ choice \in Int /\ scroll \in Int
    BY DEF Lx
  <2>4. QED
    BY <2>1, <2>2, <2>3, CheckDrawnRight
<1>4. CASE CheckUp \/ CheckDown \/ \E key \in Letters : CheckLetter(key)
  <2>1. answer = Waiting /\ UNCHANGED <<answer, dialog, screen, list>>
    BY <1>4 DEF CheckUp, CheckDown, CheckLetter, CheckMoved
  <2>2. check_max' = check_max /\ item_count' = item_count
    BY <2>1 DEF check_max, item_count
  <2>3. list # <<>> => /\ choice \in 0..(check_max - 1)
                       /\ scroll \in 0..(item_count - check_max)
    BY <2>1 DEF OnMember
  <2>4. CASE CheckUp
    BY <1>1, <2>1, <2>2, <2>3, <2>4 DEF CheckUp, Lx, OnMember
  <2>5. CASE CheckDown
    BY <1>1, <2>1, <2>2, <2>3, <2>5 DEF CheckDown, Lx, OnMember
  <2>6. ASSUME NEW key \in Letters, CheckLetter(key)
        PROVE  Lx' /\ OnMember'
    <3>1. /\ CheckRowsOf(key) # {} /\ choice' = FirstOf(CheckRowsOf(key))
          /\ scroll' = scroll
      BY <2>6 DEF CheckLetter
    <3>2. CheckRowsOf(key) \in SUBSET (0..(check_max - 1)) /\ check_max \in Nat
      BY <1>1 DEF CheckRowsOf, Least
    <3>3. CheckRowsOf(key) \in SUBSET Nat
      BY <3>2
    <3>4. choice' \in 0..(check_max - 1)
      BY <3>1, <3>2, <3>3, FirstIs
    <3>5. QED
      BY <2>1, <2>2, <2>3, <3>1, <3>2, <3>4 DEF Lx, OnMember
  <2>7. QED
    BY <1>4, <2>4, <2>5, <2>6
<1>5. ASSUME \/ Escape \/ \E code : Pick(code)
             \/ \E step \in {-1, 1} : KeyButton(2, step)
      PROVE  Lx' /\ OnMember'
  <2>1. /\ screen' = screen /\ list' = list /\ dialog' = dialog /\ answer = Waiting
        /\ \/ choice' = 0 /\ scroll' = 0
           \/ UNCHANGED <<choice, scroll>>
    BY <1>5 DEF Escape, Pick, KeyButton, Leave
  <2>2. check_max' = check_max /\ item_count' = item_count
    BY <2>1 DEF check_max, item_count
  <2>3. OnMember'
    BY <1>1, <2>1, <2>2 DEF OnMember
  <2>4. QED
    BY <2>1, <2>3 DEF Lx
<1>6. QED
  BY <1>2, <1>3, <1>4, <1>5 DEF CheckListDialog, CheckKeys, CheckKey
-----------------------------------------------------------------------------
(* The input box                                                           *)

LEMMA InputDrawnRight ==
  ASSUME NEW scr, NEW sz, NEW n \in 0..MAX_LEN, NEW b,
         InputDraw(scr, sz, n, b), len' = n
  PROVE  CursorInField' /\ choice' = 0 /\ scroll' = 0
<1>1. BoxWidth \in Nat \ {0} /\ MAX_LEN \in Nat
  BY BoxWidthAssumption, MaxLenAssumption
<1>2. CASE scr.rows <= sz.rows - 2 \/ scr.cols <= sz.cols - 2
  BY <1>1, <1>2 DEF InputDraw, Leave, InputGone, CursorInField
<1>3. CASE ~(scr.rows <= sz.rows - 2 \/ scr.cols <= sz.cols - 2)
  BY <1>1, <1>3 DEF InputDraw, CursorInField
<1>4. QED
  BY <1>2, <1>3

LEMMA InputKeeps ==
  ASSUME Lx, CursorInField, dialog = "inputbox", InputBoxDialog
  PROVE  Lx' /\ CursorInField'
<1>1. BoxWidth \in Nat \ {0} /\ MAX_LEN \in Nat
  BY BoxWidthAssumption, MaxLenAssumption
<1>2. ASSUME NEW sz \in InputSizes, NEW n \in 0..MAX_LEN, InputOpen(sz, n)
      PROVE  Lx' /\ CursorInField'
  <2>1. len' = n /\ InputDraw(screen, sz, n, Field) /\ screen' = screen /\ list' = list
    BY <1>2 DEF InputOpen
  <2>2. QED
    BY <2>1, InputDrawnRight DEF Lx
<1>3. ASSUME NEW scr \in Screens, InputResize(scr)
      PROVE  Lx' /\ CursorInField'
  <2>1. len' = len /\ InputDraw(scr, size, len, button) /\ screen' = scr /\ list' = list
    BY <1>3 DEF InputResize
  <2>2. len \in 0..MAX_LEN
    BY DEF CursorInField
  <2>3. QED
    BY <2>1, <2>2, InputDrawnRight DEF Lx
<1>4. CASE Backspace \/ CursorLeft \/ CursorRight \/ Type
  <2>1. Lx'
    BY <1>4 DEF Backspace, CursorLeft, CursorRight, Type, InField, Lx, lxVars
  <2>2. CASE Backspace
    BY <1>1, <2>1, <2>2 DEF Backspace, CursorInField
  <2>3. CASE CursorLeft
    BY <1>1, <2>1, <2>3 DEF CursorLeft, CursorInField
  <2>4. CASE CursorRight
    BY <1>1, <2>1, <2>4 DEF CursorRight, StepRight, CursorInField
  <2>5. CASE Type
    BY <1>1, <2>1, <2>5 DEF Type, StepRight, CursorInField
  <2>6. QED
    BY <1>4, <2>2, <2>3, <2>4, <2>5
<1>5. ASSUME NEW step \in {-1, 1}, InputButton(step)
      PROVE  Lx' /\ CursorInField'
  BY <1>5 DEF InputButton, inputVars, Lx, CursorInField
<1>6. ASSUME NEW code, InputLeave(code)
      PROVE  Lx' /\ CursorInField'
  <2>1. /\ len' = len /\ screen' = screen /\ list' = list /\ choice' = 0 /\ scroll' = 0
        /\ pos' = 0 /\ show_x' = 0 /\ input_x' = 0
    BY <1>6 DEF InputLeave, Leave, InputGone
  <2>2. QED
    BY <1>1, <2>1 DEF Lx, CursorInField
<1>7. QED
  BY <1>2, <1>3, <1>4, <1>5, <1>6 DEF InputBoxDialog, InputKeys

-----------------------------------------------------------------------------
(* The question                                                            *)

LEMMA QuestionKeeps ==
  ASSUME Lx, YesNoDialog
  PROVE  Lx'
<1>1. /\ list' = list /\ screen' \in Screens
      /\ \/ choice' = 0 /\ scroll' = 0
         \/ UNCHANGED <<choice, scroll>>
  BY DEF YesNoDialog, YesNoKeys, YesNoOpen, YesNoResize, YesNoReturn, YesNoDraw, KeyButton, Escape,
         Leave, Lx
<1>2. QED
  BY <1>1 DEF Lx
-----------------------------------------------------------------------------
(* The text box                                                            *)

TextRecords == [lines : Nat, height : Nat, update : BOOLEAN]
Places(t) == [page : 0..t.lines, begin : BOOLEAN, end : BOOLEAN]

(* The window shows the text from line f on.  With update_text() it never  *)
(* has a free line below a text that could fill it.                        *)
ShowsFrom(f) ==
  /\ f \in 0..text.lines
  /\ page_length = Least(boxh, text.lines - f + 1)
  /\ page = Least(f + boxh, text.lines)
  /\ end_reached <=> f + boxh > text.lines
  /\ begin_reached => f = 0
  /\ text.update /\ f + boxh > text.lines + 1 => f = 0

TextInv ==
  /\ text \in TextRecords /\ page_length \in Nat /\ vscroll \in Nat
  /\ Here \in Places(text)
  /\ dialog # "textbox" => text = NoText
  /\ TextShown => \E f \in 0..text.lines : ShowsFrom(f)

LEMMA LinesGot ==
  ASSUME NEW t \in TextRecords, NEW at \in Places(t), NEW n \in Int
  PROVE  /\ get_lines(t, at, n) \in Places(t)
         /\ get_lines(t, at, n).begin = at.begin
         /\ n > 0 => /\ get_lines(t, at, n).page = Least(at.page + n, t.lines)
                     /\ get_lines(t, at, n).end = (at.page + n > t.lines)
         /\ n <= 0 => get_lines(t, at, n) = at
<1>1. t.lines \in Nat /\ at.page \in 0..t.lines /\ at.begin \in BOOLEAN /\ at.end \in BOOLEAN
  BY DEF TextRecords, Places
<1>2. CASE n <= 0
  BY <1>2 DEF get_lines
<1>3. CASE n > 0
  <2>1. get_lines(t, at, n)
          = [at EXCEPT !.page = Least(at.page + n, t.lines), !.end = at.page + n > t.lines]
    BY <1>3 DEF get_lines
  <2>2. Least(at.page + n, t.lines) \in 0..t.lines
    BY <1>1, <1>3 DEF Least
  <2>3. (at.page + n > t.lines) \in BOOLEAN
    BY <1>1
  <2> DEFINE here == Least(at.page + n, t.lines)
             over == at.page + n > t.lines
  <2> HIDE DEF here, over
  <2>4. here \in 0..t.lines /\ over \in BOOLEAN
    BY <2>2, <2>3 DEF here, over
  <2>5. get_lines(t, at, n) = [at EXCEPT !.page = here, !.end = over]
    BY <2>1 DEF here, over
  <2>6. get_lines(t, at, n) \in Places(t)
    BY <2>4, <2>5 DEF Places
  <2>7. /\ get_lines(t, at, n).begin = at.begin
        /\ get_lines(t, at, n).page = here
        /\ get_lines(t, at, n).end = over
    BY <2>5 DEF Places
  <2>8. QED
    BY <1>3, <2>6, <2>7 DEF here, over
<1>4. QED
  BY <1>2, <1>3

LEMMA LinesBack ==
  ASSUME NEW t \in TextRecords, NEW at \in Places(t), NEW n \in Int
  PROVE  LET back == back_lines(t, at, n)
             k == IF n > 0 /\ at.page = t.lines /\ at.end THEN n - 1 ELSE Most(n, 0)
         IN  /\ back \in Places(t)
             /\ back.page = Most(at.page - k, 0)
             /\ back.begin => back.page = 0
<1> DEFINE atEnd == n > 0 /\ at.page = t.lines /\ at.end
           k == IF atEnd THEN n - 1 ELSE Most(n, 0)
<1>1. t.lines \in Nat /\ at.page \in 0..t.lines /\ at.begin \in BOOLEAN /\ at.end \in BOOLEAN
  BY DEF TextRecords, Places
<1>2. k \in Nat
  BY DEF Most
<1>3. back_lines(t, at, n) = [page |-> Most(at.page - k, 0), begin |-> k > 0 /\ at.page <= k,
                              end |-> at.end /\ ~atEnd]
  BY DEF back_lines
<1>4. atEnd \in BOOLEAN
  OBVIOUS
<1> HIDE DEF k, atEnd
<1>5. Most(at.page - k, 0) \in 0..t.lines /\ (at.page <= k => Most(at.page - k, 0) = 0)
  BY <1>1, <1>2 DEF Most
<1>6. (k > 0 /\ at.page <= k) \in BOOLEAN /\ (at.end /\ ~atEnd) \in BOOLEAN
  BY <1>1, <1>2, <1>4
<1> DEFINE here == Most(at.page - k, 0)
           first == k > 0 /\ at.page <= k
           last == at.end /\ ~atEnd
<1> HIDE DEF here, first, last
<1>7. back_lines(t, at, n) = [page |-> here, begin |-> first, end |-> last]
  BY <1>3 DEF here, first, last
<1>8. here \in 0..t.lines /\ first \in BOOLEAN /\ last \in BOOLEAN
  BY <1>5, <1>6 DEF here, first, last
<1>9. /\ back_lines(t, at, n) \in Places(t)
      /\ back_lines(t, at, n).page = here
      /\ back_lines(t, at, n).begin = first
  BY <1>7, <1>8 DEF Places
<1>10. first => here = 0
  BY <1>5 DEF here, first
<1>11. QED
  BY <1>9, <1>10 DEF k, atEnd, here
(* print_page() of a window of h lines, wherever the pointer is.           *)
LEMMA PrintedRight ==
  ASSUME NEW t \in TextRecords, NEW at \in Places(t), NEW h \in Int,
         at.begin => at.page = 0, print_page(t, at, h)
  PROVE  /\ Here' \in Places(t) /\ page_length' \in Nat
         /\ h > 0 =>
              LET f == IF t.update /\ at.page + h > t.lines THEN Most(t.lines - h + 1, 0) ELSE at.page
              IN  /\ f \in 0..t.lines
                  /\ page_length' = Least(h, t.lines - f + 1)
                  /\ page' = Least(f + h, t.lines)
                  /\ end_reached' <=> f + h > t.lines
                  /\ begin_reached' => f = 0
                  /\ t.update /\ f + h > t.lines + 1 => f = 0
<1> DEFINE got  == get_lines(t, at, h)
           from == IF t.update THEN back_lines(t, got, h) ELSE at
           to   == get_lines(t, from, h)
<1>1. t.lines \in Nat /\ at.page \in 0..t.lines /\ t.update \in BOOLEAN
  BY DEF TextRecords, Places
<1>2. /\ got \in Places(t)
      /\ h > 0 => got.page = Least(at.page + h, t.lines) /\ got.end = (at.page + h > t.lines)
      /\ h <= 0 => got = at
  BY LinesGot
<1> HIDE DEF got
<1>3. from \in Places(t) /\ (from.begin => from.page = 0)
  BY <1>2, LinesBack
<1>4. h > 0 => from.page = IF t.update /\ at.page + h > t.lines THEN Most(t.lines - h + 1, 0)
                           ELSE at.page
  <2> HAVE h > 0
  <2>1. CASE ~t.update
    BY <2>1
  <2>2. CASE t.update
    <3> DEFINE k == IF h > 0 /\ got.page = t.lines /\ got.end THEN h - 1 ELSE Most(h, 0)
    <3>1. from.page = Most(got.page - k, 0)
      BY <1>2, <2>2, LinesBack
    <3>2. CASE at.page + h > t.lines
      <4>1. (at.page + h > t.lines) = TRUE
        BY <3>2
      <4>2. got.end = TRUE /\ got.page = Least(at.page + h, t.lines)
        BY <1>2, <4>1
      <4>3. got.page = t.lines
        BY <1>1, <3>2, <4>2 DEF Least
      <4>4. k = h - 1
        BY <4>2, <4>3
      <4>5. QED
        BY <1>1, <2>2, <3>1, <3>2, <4>3, <4>4 DEF Most
    <3>3. CASE ~(at.page + h > t.lines)
      <4>0. (at.page + h > t.lines) = FALSE
        BY <3>3
      <4>1. got.page = at.page + h /\ got.end = FALSE
        <5>1. got.page = Least(at.page + h, t.lines) /\ got.end = FALSE
          BY <1>2, <4>0
        <5>2. QED
          BY <1>1, <3>3, <5>1 DEF Least
      <4>2. k = h
        BY <4>1 DEF Most
      <4>3. QED
        BY <1>1, <2>2, <3>1, <3>3, <4>1, <4>2 DEF Most
    <3>4. QED
      BY <3>2, <3>3
  <2>3. QED
    BY <1>1, <2>1, <2>2
<1>5. /\ page' = to.page /\ begin_reached' = to.begin /\ end_reached' = to.end
      /\ page_length' = Least(Most(h, 0), t.lines - from.page + 1)
  BY DEF print_page, got
<1> HIDE DEF from
<1>6. /\ to \in Places(t) /\ to.begin = from.begin
      /\ h > 0 => to.page = Least(from.page + h, t.lines) /\ to.end = (from.page + h > t.lines)
  BY <1>3, LinesGot
<1>7. from.page \in 0..t.lines
  BY <1>3 DEF Places
<1> HIDE DEF to
<1>8. Here' \in Places(t)
  BY <1>5, <1>6 DEF Here, Places
<1>9. page_length' \in Nat
  BY <1>1, <1>5, <1>7 DEF Least, Most
<1> DEFINE f == IF t.update /\ at.page + h > t.lines THEN Most(t.lines - h + 1, 0) ELSE at.page
<1>10. ASSUME h > 0
       PROVE  /\ f \in 0..t.lines
              /\ page_length' = Least(h, t.lines - f + 1)
              /\ page' = Least(f + h, t.lines)
              /\ end_reached' <=> f + h > t.lines
              /\ begin_reached' => f = 0
              /\ t.update /\ f + h > t.lines + 1 => f = 0
  <2>1. f = from.page
    BY <1>4, <1>10
  <2>2. t.update /\ f + h > t.lines + 1 => f = 0
    BY <1>1, <1>10 DEF Most
  <2> HIDE DEF f
  <2>3. page_length' = Least(h, t.lines - f + 1)
    BY <1>5, <1>10, <2>1 DEF Most
  <2>4. page' = Least(f + h, t.lines) /\ (end_reached' <=> f + h > t.lines)
    BY <1>5, <1>6, <1>10, <2>1
  <2>5. begin_reached' => f = 0
    BY <1>3, <1>5, <1>6, <2>1
  <2>6. QED
    BY <1>7, <2>1, <2>2, <2>3, <2>4, <2>5
<1>11. QED
  BY <1>8, <1>9, <1>10
LEMMA HeightIs ==
  ASSUME NEW scr \in Screens, NEW t \in TextRecords
  PROVE  Height(scr, t) \in Nat /\ BoxHeight(scr, t) \in Int
<1>1. scr.rows \in Nat /\ t.height \in Nat
  BY ScreensAssumption DEF TextRecords
<1>2. QED
  BY <1>1 DEF Height, BoxHeight, Most

(* A text that is displayed in a window of its height.                     *)
LEMMA PrintedKeeps ==
  ASSUME NEW t \in TextRecords, NEW at \in Places(t), at.begin => at.page = 0,
         screen' \in Screens, text' = t, vscroll' \in Nat, dialog' = "textbox",
         print_page(t, at, BoxHeight(screen', t))
  PROVE  TextInv'
<1> DEFINE h == BoxHeight(screen', t)
<1>1. h \in Int
  BY HeightIs
<1>2. boxh' = h
  BY DEF boxh
<1> HIDE DEF h
<1>3. print_page(t, at, h)
  BY DEF h
<1>4. Here' \in Places(t) /\ page_length' \in Nat
  BY <1>1, <1>3, PrintedRight
<1>5. TextShown' => \E f \in 0..text'.lines : ShowsFrom(f)'
  <2> HAVE TextShown'
  <2>1. h > 0
    BY <1>2 DEF TextShown
  <2>2. PICK f \in 0..t.lines :
          /\ page_length' = Least(h, t.lines - f + 1)
          /\ page' = Least(f + h, t.lines)
          /\ end_reached' <=> f + h > t.lines
          /\ begin_reached' => f = 0
          /\ t.update /\ f + h > t.lines + 1 => f = 0
    BY <1>1, <1>3, <2>1, PrintedRight
  <2>3. ShowsFrom(f)'
    BY <1>2, <2>2 DEF ShowsFrom
  <2>4. QED
    BY <2>2, <2>3
<1>6. QED
  BY <1>4, <1>5 DEF TextInv

LEMMA PlaceIs ==
  ASSUME NEW t \in TextRecords, NEW p \in 0..t.lines, NEW b \in BOOLEAN, NEW e \in BOOLEAN
  PROVE  LET at == [page |-> p, begin |-> b, end |-> e]
         IN  at \in Places(t) /\ at.page = p /\ at.begin = b
BY DEF Places

LEMMA GoneIsPlace ==
  ASSUME TextGone
  PROVE  Here' \in Places(NoText)
<1>1. NoText \in TextRecords /\ 0 \in 0..NoText.lines
  BY DEF NoText, TextRecords
<1>2. Here' = [page |-> 0, begin |-> TRUE, end |-> FALSE]
  BY DEF TextGone, Here
<1>3. QED
  BY <1>1, <1>2, PlaceIs

LEMMA TextDrawnRight ==
  ASSUME NEW scr \in Screens, NEW t \in TextRecords, NEW at \in Places(t), at.begin => at.page = 0,
         screen' = scr, vscroll' \in Nat, dialog' = "textbox", TextDraw(scr, t, at)
  PROVE  TextInv' /\ choice' = 0 /\ scroll' = 0
<1>1. CASE Smaller(scr, 8, 8)
  <2>1. TextGone /\ choice' = 0 /\ scroll' = 0
    BY <1>1 DEF TextDraw, Leave
  <2>2. NoText \in TextRecords /\ NoText.lines = 0
    BY DEF NoText, TextRecords
  <2>3. Here' \in Places(NoText)
    BY <2>1, GoneIsPlace
  <2>4. QED
    BY <2>1, <2>2, <2>3 DEF TextInv, TextGone, TextShown
<1>2. CASE ~Smaller(scr, 8, 8)
  <2>1. text' = t /\ choice' = 0 /\ scroll' = 0 /\ print_page(t, at, BoxHeight(scr, t))
    BY <1>2 DEF TextDraw
  <2>2. QED
    BY <2>1, PrintedKeeps
<1>3. QED
  BY <1>1, <1>2

LEMMA TextKeeps ==
  ASSUME Lx, TextInv, dialog = "textbox", TextBoxDialog
  PROVE  Lx' /\ TextInv'
<1>1. /\ screen \in Screens /\ text \in TextRecords /\ page_length \in Nat /\ vscroll \in Nat
      /\ Here \in Places(text)
      /\ page \in 0..text.lines /\ text.lines \in Nat
      /\ boxh \in Int
  BY HeightIs DEF Lx, TextInv, Here, Places, TextRecords, boxh
<1>2. ASSUME NEW t \in TextBoxes, NEW v \in Nat, NEW h, TextOpen(t, v, h)
      PROVE  Lx' /\ TextInv'
  <2> DEFINE zero == [page |-> 0, begin |-> v = 0, end |-> FALSE]
             at == get_lines(t, zero, v)
  <2>1. t \in TextRecords
    BY TextBoxesAssumption DEF TextRecords
  <2>2. zero \in Places(t) /\ zero.page = 0 /\ (zero.begin => v = 0)
    <3> DEFINE b == v = 0
    <3>1. b \in BOOLEAN /\ 0 \in 0..t.lines
      BY <2>1 DEF TextRecords
    <3> HIDE DEF b
    <3>2. zero = [page |-> 0, begin |-> b, end |-> FALSE]
      BY DEF b
    <3>3. zero \in Places(t) /\ zero.page = 0 /\ zero.begin = b
      BY <2>1, <3>1, <3>2, PlaceIs
    <3>4. QED
      BY <3>3 DEF b
  <2> HIDE DEF zero
  <2>3. at \in Places(t) /\ (at.begin => at.page = 0)
    BY <2>1, <2>2, LinesGot
  <2>4. /\ TextDraw(screen, t, at) /\ vscroll' = v
        /\ screen' = screen /\ dialog' = dialog /\ list' = list
    BY <1>2 DEF TextOpen, zero
  <2> HIDE DEF at
  <2>5. QED
    BY <1>1, <2>1, <2>3, <2>4, TextDrawnRight DEF Lx
<1>3. ASSUME NEW scr \in Screens, TextResize(scr)
      PROVE  Lx' /\ TextInv'
  <2> DEFINE at == back_lines(text, Here, Height(screen, text))
  <2>0. Height(screen, text) \in Int
    BY <1>1, HeightIs
  <2>1. at \in Places(text) /\ (at.begin => at.page = 0)
    BY <1>1, <2>0, LinesBack
  <2>2. /\ TextDraw(scr, text, at) /\ vscroll' = vscroll
        /\ screen' = scr /\ dialog' = dialog /\ list' = list
    BY <1>3 DEF TextResize
  <2> HIDE DEF at
  <2>3. QED
    BY <1>1, <2>1, <2>2, TextDrawnRight DEF Lx
<1>4. ASSUME NEW at \in Places(text), at.begin => at.page = 0, Show(at),
             UNCHANGED <<lxVars, text, vscroll>>
      PROVE  Lx' /\ TextInv'
  <2>1. print_page(text, at, BoxHeight(screen', text)) /\ screen' = screen /\ dialog' = dialog
    BY <1>4 DEF Show, boxh, lxVars
  <2>2. Lx'
    BY <1>4 DEF Lx, lxVars
  <2>3. QED
    BY <1>1, <1>4, <2>1, <2>2, PrintedKeeps
<1>5. CASE Home
  <2>1. [page |-> 0, begin |-> TRUE, end |-> end_reached] \in Places(text)
    BY <1>1 DEF Here, Places
  <2>2. QED
    BY <1>4, <1>5, <2>1 DEF Home, Scrolled
<1>6. CASE End
  <2> DEFINE here == [page |-> text.lines, begin |-> begin_reached, end |-> TRUE]
  <2>1. here \in Places(text)
    BY <1>1 DEF Here, Places
  <2> HIDE DEF here
  <2>2. back_lines(text, here, boxh) \in Places(text)
        /\ (back_lines(text, here, boxh).begin => back_lines(text, here, boxh).page = 0)
    BY <1>1, <2>1, LinesBack
  <2>3. QED
    BY <1>4, <1>6, <2>2 DEF End, Scrolled, here
<1>7. ASSUME NEW n \in Int
      PROVE  /\ back_lines(text, Here, n) \in Places(text)
             /\ back_lines(text, Here, n).begin => back_lines(text, Here, n).page = 0
  BY <1>1, LinesBack
<1>8. CASE LineUp \/ PageUp \/ LineDown
  <2>1. PICK n \in Int : Show(back_lines(text, Here, n))
    BY <1>1, <1>8 DEF LineUp, PageUp, LineDown
  <2>2. QED
    BY <1>4, <1>7, <1>8, <2>1 DEF LineUp, PageUp, LineDown, Scrolled
<1>9. CASE PageDown
  <2>1. /\ [Here EXCEPT !.begin = FALSE] \in Places(text)
        /\ [Here EXCEPT !.begin = FALSE].begin = FALSE
    BY <1>1 DEF Places
  <2>2. Show([Here EXCEPT !.begin = FALSE])
    BY <1>9 DEF PageDown
  <2>3. QED
    BY <1>4, <1>9, <2>1, <2>2 DEF PageDown, Scrolled
<1>10. ASSUME NEW h, Sideways(h)
       PROVE  Lx' /\ TextInv'
  BY <1>1, <1>4, <1>7, <1>10 DEF Sideways
<1>11. ASSUME NEW code, TextReturn(code)
       PROVE  Lx' /\ TextInv'
  <2>1. /\ TextGone /\ choice' = 0 /\ scroll' = 0 /\ screen' = screen /\ list' = list
        /\ dialog' = dialog
        /\ vscroll' \in {0, back_lines(text, Here, page_length).page}
    BY <1>11 DEF TextReturn, Leave
  <2>2. vscroll' \in Nat
    BY <1>1, <1>7, <2>1 DEF Places
  <2>3. NoText \in TextRecords /\ NoText.lines = 0
    BY DEF NoText, TextRecords
  <2>4. Here' \in Places(NoText)
    BY <2>1, GoneIsPlace
  <2>5. QED
    BY <2>1, <2>2, <2>3, <2>4 DEF TextInv, TextGone, TextShown, Lx
<1>12. QED
  BY <1>1, <1>2, <1>3, <1>5, <1>6, <1>8, <1>9, <1>10, <1>11 DEF TextBoxDialog, TextScroll
(* What is displayed starts with the line that FirstLine works out.        *)
LEMMA FirstLineIs ==
  ASSUME NEW t \in TextRecords, text = t, NEW f \in 0..t.lines, ShowsFrom(f), NEW h \in Int, boxh = h, h > 0
  PROVE  FirstLine = f /\ page_length \in 1..h
<1>1. t.lines \in Nat
  BY DEF TextRecords
<1>2. /\ page_length = Least(h, t.lines - f + 1)
      /\ page = Least(f + h, t.lines)
      /\ end_reached <=> f + h > t.lines
  BY DEF ShowsFrom
<1>3. CASE f + h > t.lines
  BY <1>1, <1>2, <1>3 DEF Least, FirstLine
<1>4. CASE ~(f + h > t.lines)
  BY <1>1, <1>2, <1>4 DEF Least, FirstLine
<1>5. QED
  BY <1>3, <1>4

(* The flags are right.                                                    *)
LEMMA FlagsFollow ==
  ASSUME Lx, TextInv
  PROVE  FlagsRight
<1> SUFFICES ASSUME TextShown
             PROVE  /\ FirstLine >= 0 /\ page_length \in 1..boxh
                    /\ begin_reached => FirstLine = 0
                    /\ end_reached <=> FirstLine + page_length > text.lines
  BY DEF FlagsRight
<1>1. /\ text \in TextRecords /\ text.lines \in Nat /\ boxh \in Int /\ boxh > 0
  BY HeightIs DEF Lx, TextInv, TextRecords, boxh, TextShown
<1>2. PICK f \in 0..text.lines : ShowsFrom(f)
  BY DEF TextInv
<1>3. FirstLine = f /\ page_length \in 1..boxh
  BY <1>1, <1>2, FirstLineIs
<1>4. /\ page_length = Least(boxh, text.lines - f + 1)
      /\ end_reached <=> f + boxh > text.lines
      /\ begin_reached => f = 0
  BY <1>2 DEF ShowsFrom
<1>5. end_reached <=> f + page_length > text.lines
  BY <1>1, <1>4 DEF Least
<1>6. QED
  BY <1>1, <1>3, <1>4, <1>5

(* From the line at the pointer, a window that is one further back or one  *)
(* further on shows what it should.                                        *)
LEMMA MovesByLines ==
  ASSUME Lx, TextInv
  PROVE  TextShown =>
           /\ LineDown => FirstLine' = FirstLine + 1
           /\ LineUp => FirstLine' = Most(FirstLine - 1, 0)
           /\ (\E x \in 0..MaxHscroll : Sideways(x)) => FirstLine' = FirstLine
           /\ back_lines(text, Here, page_length).page = FirstLine
<1> SUFFICES ASSUME TextShown
             PROVE  /\ LineDown => FirstLine' = FirstLine + 1
                    /\ LineUp => FirstLine' = Most(FirstLine - 1, 0)
                    /\ (\E x \in 0..MaxHscroll : Sideways(x)) => FirstLine' = FirstLine
                    /\ back_lines(text, Here, page_length).page = FirstLine
  OBVIOUS
<1>1. /\ text \in TextRecords /\ text.lines \in Nat /\ boxh \in Int /\ boxh > 0
      /\ Here \in Places(text) /\ Here.page = page /\ Here.end = end_reached /\ end_reached \in BOOLEAN
  BY HeightIs DEF Lx, TextInv, TextRecords, boxh, TextShown, Here, Places
<1>2. PICK f \in 0..text.lines : ShowsFrom(f)
  BY DEF TextInv
<1>3. FirstLine = f /\ page_length \in 1..boxh
  BY <1>1, <1>2, FirstLineIs
<1>4. /\ page_length = Least(boxh, text.lines - f + 1)
      /\ page = Least(f + boxh, text.lines)
      /\ end_reached <=> f + boxh > text.lines
      /\ text.update /\ f + boxh > text.lines + 1 => f = 0
  BY <1>2 DEF ShowsFrom
(* back_lines() by as many lines as are displayed, and m more.             *)
<1>5. ASSUME NEW m \in {-1, 0, 1}, page_length + m >= 0, m = -1 => ~end_reached
      PROVE  back_lines(text, Here, page_length + m).page = Most(f - m, 0)
  <2> DEFINE n == page_length + m
             k == IF n > 0 /\ Here.page = text.lines /\ Here.end THEN n - 1 ELSE Most(n, 0)
  <2>1. n \in Int
    BY <1>1, <1>3
  <2>2. back_lines(text, Here, n).page = Most(Here.page - k, 0)
    BY <1>1, <2>1, LinesBack
  <2>3. CASE end_reached
    <3>1. page = text.lines /\ page_length = text.lines - f + 1
      BY <1>1, <1>4, <2>3 DEF Least
    <3>2. n > 0
      BY <1>1, <1>3, <1>5, <2>3
    <3>3. k = n - 1
      BY <1>1, <2>3, <3>1, <3>2
    <3>4. QED
      BY <1>1, <2>2, <3>1, <3>3 DEF Most
  <2>4. CASE ~end_reached
    <3>1. page = f + boxh /\ page_length = boxh
      BY <1>1, <1>4, <2>4 DEF Least
    <3>2. k = n
      BY <1>1, <1>5, <2>4, <3>1 DEF Most
    <3>3. QED
      BY <1>1, <2>2, <3>1, <3>2 DEF Most
  <2>5. QED
    BY <2>3, <2>4
<1>6. ASSUME NEW at \in Places(text), at.begin => at.page = 0, Show(at),
             UNCHANGED <<lxVars, text>>
      PROVE  FirstLine' = IF text.update /\ at.page + boxh > text.lines
                          THEN Most(text.lines - boxh + 1, 0) ELSE at.page
  <2>1. PICK h \in Int : h = boxh /\ h > 0
    BY <1>1
  <2>2. PICK t \in TextRecords : t = text
    BY <1>1
  <2>3. boxh' = h /\ text' = t
    BY <1>6, <2>1, <2>2 DEF boxh, lxVars
  <2>4. PICK g \in 0..t.lines :
          /\ g = IF t.update /\ at.page + h > t.lines THEN Most(t.lines - h + 1, 0) ELSE at.page
          /\ page_length' = Least(h, t.lines - g + 1)
          /\ page' = Least(g + h, t.lines)
          /\ end_reached' <=> g + h > t.lines
          /\ begin_reached' => g = 0
          /\ t.update /\ g + h > t.lines + 1 => g = 0
    BY <1>6, <2>1, <2>2, PrintedRight DEF Show
  <2>5. FirstLine' = g
    <3>1. t.lines \in Nat
      BY DEF TextRecords
    <3>2. CASE g + h > t.lines
      BY <2>1, <2>3, <2>4, <3>1, <3>2 DEF Least, FirstLine
    <3>3. CASE ~(g + h > t.lines)
      BY <2>1, <2>3, <2>4, <3>1, <3>3 DEF Least, FirstLine
    <3>4. QED
      BY <3>2, <3>3
  <2>6. QED
    BY <2>1, <2>2, <2>4, <2>5
<1>7. ASSUME NEW n \in Int
      PROVE  /\ back_lines(text, Here, n) \in Places(text)
             /\ back_lines(text, Here, n).begin => back_lines(text, Here, n).page = 0
  BY <1>1, LinesBack
<1>8. ASSUME LineDown
      PROVE  FirstLine' = f + 1
  <2> DEFINE at == back_lines(text, Here, page_length + -1)
  <2>1. /\ ~end_reached /\ Show(at) /\ UNCHANGED <<lxVars, text>>
    <3>1. page_length - 1 = page_length + -1
      BY <1>3
    <3>2. QED
      BY <1>8, <3>1 DEF LineDown, Scrolled
  <2>2. at.page = Most(f - (-1), 0)
    BY <1>3, <1>5, <2>1
  <2>3. at \in Places(text) /\ (at.begin => at.page = 0)
    <3>1. page_length + -1 \in Int
      BY <1>1, <1>3
    <3>2. QED
      BY <1>7, <3>1
  <2> HIDE DEF at
  <2>4. at.page = f + 1
    BY <2>2 DEF Most
  <2>5. f + boxh <= text.lines
    BY <1>1, <1>4, <2>1
  <2>6. FirstLine' = IF text.update /\ at.page + boxh > text.lines
                     THEN Most(text.lines - boxh + 1, 0) ELSE at.page
    BY <1>6, <2>1, <2>3
  <2>7. QED
    BY <1>1, <2>4, <2>5, <2>6 DEF Most
<1>9. ASSUME LineUp
      PROVE  FirstLine' = Most(f - 1, 0)
  <2> DEFINE at == back_lines(text, Here, page_length + 1)
  <2>1. Show(at) /\ UNCHANGED <<lxVars, text>>
    BY <1>9 DEF LineUp, Scrolled
  <2>2. at.page = Most(f - 1, 0)
    BY <1>3, <1>5
  <2>3. at \in Places(text) /\ (at.begin => at.page = 0)
    <3>1. page_length + 1 \in Int
      BY <1>1, <1>3
    <3>2. QED
      BY <1>7, <3>1
  <2> HIDE DEF at
  <2>4. FirstLine' = IF text.update /\ at.page + boxh > text.lines
                     THEN Most(text.lines - boxh + 1, 0) ELSE at.page
    BY <1>6, <2>1, <2>3
  <2>5. QED
    BY <1>1, <1>4, <2>2, <2>4 DEF Most
<1>10. back_lines(text, Here, page_length).page = f
  <2>1. page_length + 0 = page_length /\ Most(f - 0, 0) = f
    BY <1>1, <1>3 DEF Most
  <2>2. QED
    BY <1>3, <1>5, <2>1
<1>11. ASSUME NEW x, Sideways(x)
       PROVE  FirstLine' = f
  <2> DEFINE at == back_lines(text, Here, page_length)
  <2>1. Show(at) /\ UNCHANGED <<lxVars, text>>
    BY <1>11 DEF Sideways
  <2>2. at \in Places(text) /\ (at.begin => at.page = 0)
    <3>1. page_length \in Int
      BY <1>1, <1>3
    <3>2. QED
      BY <1>7, <3>1
  <2>3. at.page = f
    BY <1>10
  <2> HIDE DEF at
  <2>4. FirstLine' = IF text.update /\ at.page + boxh > text.lines
                     THEN Most(text.lines - boxh + 1, 0) ELSE at.page
    BY <1>6, <2>1, <2>2
  <2>5. QED
    BY <1>1, <1>4, <2>3, <2>4 DEF Most
<1>12. QED
  BY <1>3, <1>8, <1>9, <1>10, <1>11

LEMMA TextMoves ==
  ASSUME Lx, TextInv, TextBoxDialog \/ UNCHANGED answer
  PROVE  TextMove
<1> SUFFICES ASSUME TextShown
             PROVE  text.update /\ answer' \notin {Waiting, TooSmall} => vscroll' = FirstLine
  BY MovesByLines DEF TextMove
<1> HAVE text.update /\ answer' \notin {Waiting, TooSmall}
<1>1. answer = Waiting
  BY DEF TextShown
<1>2. TextScroll \/ TextReturn(KEY_ESC)
  BY <1>1 DEF TextBoxDialog
<1>3. ~TextScroll
  <2>1. ~(UNCHANGED lxVars)
    BY <1>1 DEF lxVars
  <2>2. ASSUME NEW scr \in Screens PROVE ~TextResize(scr)
    BY DEF TextResize, TextDraw, Leave
  <2>3. QED
    BY <2>1, <2>2 DEF TextScroll, Home, End, LineUp, PageUp, LineDown, PageDown, Scrolled, Sideways
<1>4. vscroll' = back_lines(text, Here, page_length).page
  BY <1>2, <1>3 DEF TextReturn
<1>5. QED
  BY <1>4, MovesByLines
-----------------------------------------------------------------------------
(* The windows of nconfig                                                  *)

GuiInv ==
  /\ result_len \in Nat /\ chars \in Nat
  /\ FormFits
  /\ gui = "scroll" => pad \in Pads /\ start_y \in 0..(pad.lines - pad.rows)

LEMMA GuiKeeps ==
  ASSUME GuiInv, GuiNext
  PROVE  GuiInv'
<1>1. prompt_width \in Nat \ {0}
  BY PromptAssumption
<1>2. CASE BtnOpen \/ BtnReturn \/ (\E step \in {-1, 1} : BtnMove(step))
  BY <1>2 DEF BtnOpen, BtnReturn, BtnMove, formVars, padVars, GuiInv, FormFits
<1>3. CASE FormOpen
  <2>1. /\ gui' = "input" /\ chars' \in Nat /\ cursor_position' = chars'
        /\ cursor_form_win' = Lesser(chars', prompt_width - 1)
        /\ result_len' = Greater(result_len, chars' + 1)
    BY <1>3, MaxCharsAssumption DEF FormOpen
  <2>2. result_len' \in Nat /\ chars' < result_len'
    <3>1. result_len \in Nat /\ chars' \in Nat
      BY <2>1 DEF GuiInv
    <3>2. result_len' = IF result_len > chars' + 1 THEN result_len ELSE chars' + 1
      BY <2>1 DEF Greater
    <3>3. PICK r \in Nat, c \in Nat : r = result_len /\ c = chars'
      BY <3>1
    <3>4. result_len' = IF r > c + 1 THEN r ELSE c + 1
      BY <3>2, <3>3
    <3>5. result_len' \in Nat
      BY <3>4
    <3>6. c < result_len'
      BY <3>4
    <3>7. QED
      BY <3>3, <3>5, <3>6
  <2>3. cursor_form_win' \in 0..Lesser(cursor_position', prompt_width - 1)
    BY <1>1, <2>1 DEF Lesser
  <2>4. QED
    BY <2>1, <2>2, <2>3 DEF GuiInv, FormFits
<1>4. CASE FormReturn
  BY <1>4 DEF FormReturn, FormGone, padVars, GuiInv, FormFits
<1>5. ASSUME gui' = "input", chars' \in Nat, cursor_position' \in 0..chars',
             cursor_form_win' \in 0..Lesser(cursor_position', prompt_width - 1),
             result_len' \in Nat, chars' < result_len'
      PROVE  GuiInv'
  BY <1>5 DEF GuiInv, FormFits
<1>6. CASE FormRubout \/ FormDelete \/ FormRight \/ FormLeft \/ FormHome \/ FormEnd \/ FormType
  <2>1. gui = "input"
    BY <1>6 DEF FormRubout, FormDelete, FormRight, FormLeft, FormHome, FormEnd, FormType, Edit
  <2>2. /\ chars \in Nat /\ result_len \in Nat /\ chars < result_len /\ cursor_position \in 0..chars
        /\ cursor_form_win \in Int /\ cursor_form_win <= cursor_position
    BY <1>1, <2>1 DEF GuiInv, FormFits, Lesser
  <2>3. CASE FormRubout
    BY <1>1, <1>5, <2>1, <2>2, <2>3 DEF FormRubout, Edit, Within, Lesser, Greater, Keep
  <2>4. CASE FormDelete
    BY <1>1, <1>5, <2>1, <2>2, <2>4 DEF FormDelete, Edit, Within, Lesser, Greater, Keep
  <2>5. CASE FormRight
    BY <1>1, <1>5, <2>1, <2>2, <2>5 DEF FormRight, Edit, Within, Lesser, Greater, Keep
  <2>6. CASE FormLeft
    BY <1>1, <1>5, <2>1, <2>2, <2>6 DEF FormLeft, Edit, Within, Lesser, Greater, Keep
  <2>7. CASE FormHome
    BY <1>1, <1>5, <2>1, <2>2, <2>7 DEF FormHome, Edit, Within, Lesser, Greater, Keep
  <2>8. CASE FormEnd
    BY <1>1, <1>5, <2>1, <2>2, <2>8 DEF FormEnd, Edit, Within, Lesser, Greater, Keep
  <2>9. CASE FormType
    BY <1>1, <1>5, <2>1, <2>2, <2>9 DEF FormType, Edit, Within, Lesser, Greater, Keep
  <2>10. QED
    BY <1>6, <2>3, <2>4, <2>5, <2>6, <2>7, <2>8, <2>9
<1>7. CASE PadOpen
  <2>1. pad' \in Pads /\ start_y' = 0 /\ gui' = "scroll"
    BY <1>7 DEF PadOpen
  <2>2. pad'.lines \in Nat /\ pad'.rows \in 1..pad'.lines
    BY <2>1, PadsAssumption
  <2>3. QED
    BY <1>7, <2>1, <2>2 DEF PadOpen, formVars, GuiInv, FormFits
<1>8. ASSUME NEW y \in Int, NEW x, Scroll(y, x)
      PROVE  GuiInv'
  <2>1. pad \in Pads /\ gui = "scroll" /\ pad' = pad
        /\ start_y' = Lesser(Greater(y, 0), pad.lines - pad.rows)
    BY <1>8 DEF Scroll, GuiInv
  <2>2. pad.lines \in Nat /\ pad.rows \in 1..pad.lines
    BY <2>1, PadsAssumption
  <2>3. start_y' \in 0..(pad.lines - pad.rows)
    BY <1>8, <2>1, <2>2 DEF Lesser, Greater
  <2>4. QED
    BY <1>8, <2>1, <2>3 DEF Scroll, formVars, GuiInv, FormFits
<1>9. CASE \/ PadPageDown \/ PadPageUp \/ PadHome \/ PadEnd
           \/ \E step \in {-1, 1} : PadLine(step) \/ PadColumn(step)
  <2>1. pad \in Pads /\ start_y \in Int
    <3>1. gui = "scroll"
      BY <1>9 DEF PadPageDown, PadPageUp, PadHome, PadEnd, PadLine, PadColumn, Scroll
    <3>2. QED
      BY <3>1 DEF GuiInv
  <2>2. pad.lines \in Int /\ pad.rows \in Int
    BY <2>1, PadsAssumption
  <2>3. \E y \in Int : \E x : Scroll(y, x)
    BY <1>9, <2>1, <2>2 DEF PadPageDown, PadPageUp, PadHome, PadEnd, PadLine, PadColumn
  <2>4. QED
    BY <1>8, <2>3
<1>10. CASE PadReturn
  BY <1>10 DEF PadReturn, formVars, GuiInv, FormFits
<1>11. QED
  BY <1>2, <1>3, <1>4, <1>6, <1>7, <1>9, <1>10 DEF GuiNext

(* A page down leaves out no line.                                         *)
LEMMA PagesFollow ==
  ASSUME GuiInv
  PROVE  PageFollows
<1> SUFFICES ASSUME gui = "scroll"
             PROVE  /\ PadPageDown => start_y' \in start_y..(start_y + pad.rows - 1)
                    /\ LinesShown \subseteq 0..(pad.lines - 1)
  BY DEF PageFollows
<1>1. pad \in Pads /\ start_y \in 0..(pad.lines - pad.rows)
  BY DEF GuiInv
<1>2. pad.lines \in Nat /\ pad.rows \in 1..pad.lines /\ (pad.rows < pad.lines => pad.rows > 2)
  BY <1>1, PadsAssumption
<1>3. PadPageDown => start_y' = Lesser(Greater(start_y + pad.rows - 2, 0), pad.lines - pad.rows)
  BY DEF PadPageDown, Scroll
<1>4. QED
  BY <1>1, <1>2, <1>3 DEF Lesser, Greater, LinesShown
-----------------------------------------------------------------------------
(* The functions that run, last in a sequence                              *)

LEMMA SeqIsList ==
  ASSUME NEW S, NEW s \in Seq(S)
  PROVE  IsList(s)
<1> DEFINE T == {s[n] : n \in DOMAIN s}
<1>1. Len(s) \in Nat /\ DOMAIN s = 1..Len(s)
  BY LenProperties
<1>2. \A i \in 1..Len(s) : s[i] \in T
  BY <1>1
<1>3. SubSeq(s, 1, Len(s)) \in Seq(T)
  BY <1>1, <1>2, SubSeqProperties
<1>4. SubSeq(s, 1, Len(s)) = s
  BY SubSeqFull
<1>5. QED
  BY <1>3, <1>4 DEF IsList

LEMMA ListIs ==
  ASSUME NEW s, IsList(s)
  PROVE  /\ Len(s) \in Nat /\ DOMAIN s = 1..Len(s)
         /\ s # <<>> <=> Len(s) > 0
         /\ Last(s) = s[Len(s)]
<1> DEFINE T == {s[n] : n \in DOMAIN s}
<1>1. s \in Seq(T)
  BY DEF IsList
<1> HIDE DEF T
<1>2. Len(s) \in Nat /\ DOMAIN s = 1..Len(s)
  BY <1>1, LenProperties
<1>3. s # <<>> <=> Len(s) > 0
  BY <1>1, EmptySeq
<1>4. QED
  BY <1>2, <1>3 DEF Last

LEMMA FrontIs ==
  ASSUME NEW s, IsList(s), s # <<>>
  PROVE  /\ IsList(Front(s)) /\ Len(Front(s)) = Len(s) - 1
         /\ \A i \in 1..(Len(s) - 1) : Front(s)[i] = s[i]
<1> DEFINE T == {s[n] : n \in DOMAIN s}
<1>1. Len(s) \in Nat /\ Len(s) > 0 /\ DOMAIN s = 1..Len(s)
  BY ListIs
<1>2. \A i \in 1..(Len(s) - 1) : s[i] \in T
  BY <1>1
<1> HIDE DEF T
<1>3. /\ SubSeq(s, 1, Len(s) - 1) \in Seq(T)
      /\ Len(SubSeq(s, 1, Len(s) - 1)) = IF 1 <= Len(s) - 1 THEN Len(s) - 1 - 1 + 1 ELSE 0
      /\ \A i \in 1..(Len(s) - 1 - 1 + 1) : SubSeq(s, 1, Len(s) - 1)[i] = s[1 + i - 1]
  <2>1. 1 \in Int /\ Len(s) - 1 \in Int
    BY <1>1
  <2>2. QED
    BY <1>2, <2>1, SubSeqProperties
<1>4. IsList(Front(s))
  BY <1>3, SeqIsList DEF Front
<1>5. Len(Front(s)) = Len(s) - 1
  BY <1>1, <1>3 DEF Front
<1>6. ASSUME NEW i \in 1..(Len(s) - 1)
      PROVE  Front(s)[i] = s[i]
  <2>1. i \in 1..(Len(s) - 1 - 1 + 1) /\ 1 + i - 1 = i
    BY <1>1
  <2>2. QED
    BY <1>3, <2>1 DEF Front
<1>7. QED
  BY <1>4, <1>5, <1>6

LEMMA AppendIs ==
  ASSUME NEW s, IsList(s), NEW f
  PROVE  /\ IsList(Append(s, f)) /\ Len(Append(s, f)) = Len(s) + 1
         /\ \A i \in 1..Len(s) : Append(s, f)[i] = s[i]
         /\ Append(s, f)[Len(s) + 1] = f
<1> DEFINE T == {s[n] : n \in DOMAIN s} \cup {f}
<1>1. s \in Seq({s[n] : n \in DOMAIN s})
  BY DEF IsList
<1>2. s \in Seq(T) /\ f \in T
  BY <1>1, SeqMonotonic
<1> HIDE DEF T
<1>3. /\ Append(s, f) \in Seq(T) /\ Len(Append(s, f)) = Len(s) + 1
      /\ \A i \in 1..Len(s) : Append(s, f)[i] = s[i]
      /\ Append(s, f)[Len(s) + 1] = f
  BY <1>2, AppendProperties
<1>4. QED
  BY <1>3, SeqIsList

LEMMA OneIs ==
  ASSUME NEW f
  PROVE  IsList(<<f>>) /\ Len(<<f>>) = 1 /\ <<f>>[1] = f /\ Append(<<>>, f) = <<f>>
<1>1. <<>> \in Seq({f}) /\ Len(<<>>) = 0
  BY EmptySeq
<1>2. IsList(<<>>)
  BY <1>1, SeqIsList
<1>3. Append(<<>>, f) = <<f>>
  OBVIOUS
<1>4. IsList(<<f>>)
  <2>1. IsList(Append(<<>>, f))
    BY <1>2, AppendIs
  <2>2. QED
    BY <2>1, <1>3
<1>5. Len(<<f>>) = 1 /\ <<f>>[1] = f
  OBVIOUS
<1>6. QED
  BY <1>3, <1>4, <1>5

(* One more, or none more, behind a list.                                  *)
LEMMA ConcatIs ==
  ASSUME NEW s, IsList(s)
  PROVE  s \o <<>> = s /\ \A f : s \o <<f>> = Append(s, f)
<1>1. s \in Seq({s[n] : n \in DOMAIN s})
  BY DEF IsList
<1>2. s \o <<>> = s
  BY <1>1, ConcatEmptySeq
<1>3. ASSUME NEW f
      PROVE  s \o <<f>> = Append(s, f)
  <2> DEFINE T == {s[n] : n \in DOMAIN s} \cup {f}
  <2>1. s \in Seq(T) /\ f \in T
    BY <1>1, SeqMonotonic
  <2> HIDE DEF T
  <2>2. QED
    BY <2>1, AppendIsConcat
<1>4. QED
  BY <1>2, <1>3

LEMMA TwoMoreIs ==
  ASSUME NEW s, IsList(s), NEW f, NEW g
  PROVE  s \o <<f, g>> = Append(Append(s, f), g)
<1> DEFINE T == {s[n] : n \in DOMAIN s} \cup {f, g}
<1>1. s \in Seq({s[n] : n \in DOMAIN s})
  BY DEF IsList
<1>2. s \in Seq(T) /\ f \in T /\ g \in T
  BY <1>1, SeqMonotonic
<1> HIDE DEF T
<1>3. <<f>> \in Seq(T) /\ <<g>> \in Seq(T) /\ <<f, g>> \in Seq(T)
  BY <1>2
<1>4. PICK u \in Seq(T), v \in Seq(T) :
        u = <<f>> /\ v = <<f, g>> /\ Len(u) = 1 /\ u[1] = f /\ Len(v) = 2 /\ v[1] = f /\ v[2] = g
  BY <1>2, <1>3
<1>5. v = u \o <<g>>
  <2>1. IsList(u) /\ Append(u, g) \in Seq(T)
    BY <1>2, SeqIsList, AppendProperties
  <2>2. /\ Len(Append(u, g)) = Len(u) + 1
        /\ \A i \in 1..Len(u) : Append(u, g)[i] = u[i]
        /\ Append(u, g)[Len(u) + 1] = g
    BY <2>1, AppendIs
  <2> DEFINE w == Append(u, g)
  <2> HIDE DEF w
  <2>3. w \in Seq(T) /\ Len(w) = Len(u) + 1 /\ w[Len(u) + 1] = g /\ \A i \in 1..Len(u) : w[i] = u[i]
    BY <2>1, <2>2 DEF w
  <2>4. Len(w) = Len(v) /\ \A i \in 1..Len(w) : w[i] = v[i]
    BY <1>4, <2>3
  <2>5. w = v
    BY <2>3, <2>4, SeqEqual
  <2>6. QED
    BY <1>2, <2>5, AppendIsConcat DEF w
<1>6. s \o v = (s \o u) \o <<g>>
  BY <1>2, <1>3, <1>5, ConcatAssociative
<1>7. s \o <<f>> = Append(s, f) /\ Append(s, f) \in Seq(T)
  BY <1>2, AppendIsConcat, AppendProperties
<1>8. QED
  BY <1>2, <1>4, <1>6, <1>7, AppendIsConcat
-----------------------------------------------------------------------------
(* The functions of menuconfig                                             *)

IsFrame(f) == f = Frame(f.fn, f.menu, f.active) /\ f.fn \in DOMAIN Needs

Leads(f, g) == f.fn = "conf" => f.active = g.menu
StackRight(s) ==
  /\ IsList(s)
  /\ \A i \in 1..Len(s) : IsFrame(s[i])
  /\ \A i \in 1..(Len(s) - 1) : Leads(s[i], s[i + 1])

LEMMA FramesAre ==
  ASSUME NEW fn \in DOMAIN Needs, NEW m, NEW a
  PROVE  /\ IsFrame(Frame(fn, m, a))
         /\ Frame(fn, m, a).fn = fn /\ Frame(fn, m, a).menu = m /\ Frame(fn, m, a).active = a
         /\ \A b : [Frame(fn, m, a) EXCEPT !.active = b] = Frame(fn, m, b)
BY DEF IsFrame, Frame

LEMMA FramePushed ==
  ASSUME NEW s, StackRight(s), NEW f, IsFrame(f), s # <<>> => Leads(Last(s), f)
  PROVE  StackRight(Append(s, f))
<1>1. IsList(s) /\ Len(s) \in Nat /\ (s # <<>> <=> Len(s) > 0) /\ Last(s) = s[Len(s)]
  BY ListIs DEF StackRight
<1> DEFINE t == Append(s, f)
<1>2. /\ IsList(t) /\ Len(t) = Len(s) + 1
      /\ \A i \in 1..Len(s) : t[i] = s[i]
      /\ t[Len(s) + 1] = f
  BY <1>1, AppendIs
<1> HIDE DEF t
<1>3. ASSUME NEW i \in 1..Len(t)
      PROVE  IsFrame(t[i])
  <2>1. CASE i = Len(s) + 1
    BY <1>2, <2>1
  <2>2. CASE i \in 1..Len(s)
    BY <1>2, <2>2 DEF StackRight
  <2>3. QED
    BY <1>1, <1>2, <2>1, <2>2
<1>4. ASSUME NEW i \in 1..(Len(t) - 1)
      PROVE  Leads(t[i], t[i + 1])
  <2>1. i \in 1..Len(s) /\ t[i] = s[i]
    BY <1>1, <1>2
  <2>2. CASE i = Len(s)
    BY <1>1, <1>2, <2>1, <2>2
  <2>3. CASE i \in 1..(Len(s) - 1)
    <3>1. t[i + 1] = s[i + 1]
      BY <1>1, <1>2, <2>3
    <3>2. QED
      BY <2>1, <2>3, <3>1 DEF StackRight
  <2>4. QED
    BY <1>1, <2>1, <2>2, <2>3
<1>5. QED
  BY <1>2, <1>3, <1>4 DEF StackRight, t

LEMMA FramePopped ==
  ASSUME NEW s, StackRight(s), s # <<>>
  PROVE  StackRight(Front(s)) /\ (Front(s) # <<>> => Leads(Last(Front(s)), Last(s)))
<1>1. IsList(s) /\ Len(s) \in Nat /\ Len(s) > 0 /\ Last(s) = s[Len(s)]
  BY ListIs DEF StackRight
<1> DEFINE t == Front(s)
<1>2. IsList(t) /\ Len(t) = Len(s) - 1 /\ \A i \in 1..(Len(s) - 1) : t[i] = s[i]
  BY <1>1, FrontIs
<1>3. (t # <<>> <=> Len(t) > 0) /\ Last(t) = t[Len(t)]
  BY <1>2, ListIs
<1> HIDE DEF t
<1>4. \A i \in 1..Len(t) : IsFrame(t[i])
  BY <1>1, <1>2 DEF StackRight
<1>5. ASSUME NEW i \in 1..(Len(t) - 1)
      PROVE  Leads(t[i], t[i + 1])
  <2>1. i \in 1..(Len(s) - 1) /\ t[i] = s[i] /\ t[i + 1] = s[i + 1]
    BY <1>1, <1>2
  <2>2. QED
    BY <2>1 DEF StackRight
<1>6. t # <<>> => Leads(Last(t), Last(s))
  <2> HAVE t # <<>>
  <2>1. Len(s) - 1 \in 1..(Len(s) - 1) /\ Last(t) = s[Len(s) - 1] /\ Last(s) = s[(Len(s) - 1) + 1]
    BY <1>1, <1>2, <1>3
  <2>2. QED
    BY <2>1 DEF StackRight
<1>7. QED
  BY <1>2, <1>4, <1>5, <1>6 DEF StackRight, t

LEMMA FrameReplaced ==
  ASSUME NEW s, StackRight(s), s # <<>>, NEW f, IsFrame(f), f.menu = Last(s).menu
  PROVE  StackRight(Append(Front(s), f)) /\ Last(Append(Front(s), f)) = f
<1>1. StackRight(Front(s)) /\ (Front(s) # <<>> => Leads(Last(Front(s)), f))
  BY FramePopped DEF Leads
<1>2. StackRight(Append(Front(s), f))
  BY <1>1, FramePushed
<1>3. IsList(Front(s)) /\ Len(Front(s)) \in Nat
  BY <1>1, ListIs DEF StackRight
<1>4. Append(Front(s), f)[Len(Front(s)) + 1] = f /\ Len(Append(Front(s), f)) = Len(Front(s)) + 1
  BY <1>3, AppendIs
<1>5. QED
  BY <1>2, <1>4 DEF Last

LEMMA OneFrame ==
  ASSUME NEW f, IsFrame(f)
  PROVE  StackRight(<<f>>) /\ StackRight(<<>>)
<1>1. StackRight(<<>>)
  <2>1. IsList(<<>>) /\ Len(<<>>) = 0
    BY EmptySeq, SeqIsList
  <2>2. QED
    BY <2>1 DEF StackRight
<1>2. QED
  BY <1>1, FramePushed, OneIs
-----------------------------------------------------------------------------
(* What the front ends do to the configuration                             *)

(* What is not saved counts as changed.                                    *)
Honest ==
  /\ changed \in BOOLEAN /\ inFile \in BOOLEAN /\ refused \in BOOLEAN
  /\ changed \/ inFile \/ refused

ConfStep ==
  \/ SameConf
  \/ \E m, v : SetTristate(m, v)
  \/ SetString \/ Loaded \/ LoadRefused \/ Saved
  \/ UNCHANGED <<changed, refused>> /\ inFile' \in {inFile, TRUE}

LEMMA HonestKept ==
  ASSUME Honest, ConfStep
  PROVE  Honest'
<1>1. CASE SameConf
  BY <1>1 DEF SameConf, confVars, Honest
<1>2. CASE (\E m, v : SetTristate(m, v)) \/ SetString
  <2>1. /\ refused' = (refused /\ ~changed')
        /\ \/ inFile' = inFile /\ changed' \in {changed, TRUE}
           \/ changed' = TRUE /\ inFile' = FALSE
    BY <1>2 DEF SetTristate, SetString, CountsAgain
  <2>2. changed' \in BOOLEAN /\ inFile' \in BOOLEAN /\ refused' \in BOOLEAN
    BY <2>1 DEF Honest
  <2>3. CASE changed'
    BY <2>2, <2>3 DEF Honest
  <2>4. CASE ~changed'
    BY <2>1, <2>2, <2>4 DEF Honest
  <2>5. QED
    BY <2>3, <2>4
<1>4. CASE Loaded
  BY <1>4 DEF Loaded, Honest
<1>5. CASE Saved
  BY <1>5 DEF Saved, Honest
<1>6. CASE LoadRefused
  BY <1>6 DEF LoadRefused, Honest
<1>7. CASE UNCHANGED <<changed, refused>> /\ inFile' \in {inFile, TRUE}
  BY <1>7 DEF Honest
<1>8. QED
  BY <1>1, <1>2, <1>4, <1>5, <1>6, <1>7 DEF ConfStep

-----------------------------------------------------------------------------
(* The steps of menuconfig                                                 *)

(* What every step of menuconfig comes to.                                 *)
Proceeds ==
  /\ StackRight(stack') /\ screen' \in Screens /\ ConfStep
  /\ ended' \in {"no", "end", "not saved", "error", "crashed"}
  /\ ended' = "end" => inFile' \/ refused'

Ready == screen \in Screens /\ StackRight(stack) /\ Honest /\ Running

LEMMA TopIs ==
  ASSUME Ready
  PROVE  /\ Top = Frame(Top.fn, Top.menu, Top.active) /\ Top.fn \in DOMAIN Needs
         /\ ended = "no" /\ stack # <<>> /\ screen \in Screens
<1>1. stack # <<>> /\ IsList(stack) /\ ended = "no" /\ screen \in Screens
  BY DEF Ready, Running, StackRight
<1>2. Len(stack) \in 1..Len(stack) /\ Top = stack[Len(stack)]
  BY <1>1, ListIs DEF Top
<1>3. IsFrame(Top)
  BY <1>2 DEF Ready, StackRight
<1>4. QED
  BY <1>1, <1>3 DEF IsFrame

LEMMA ExitHandled ==
  ASSUME Ready, NEW fn \in {"exit", "interrupt"}, HandleExit(fn)
  PROVE  Proceeds
<1>1. IsFrame(Frame(fn, Nil, Nil))
  BY FramesAre DEF Needs
<1>2. ended = "no" /\ screen' \in Screens
  BY DEF HandleExit, Ready, Running
<1>3. CASE changed
  BY <1>1, <1>2, <1>3, OneFrame DEF HandleExit, Proceeds, ConfStep
<1>4. CASE ~changed
  <2>1. ended' = "end" /\ stack' = <<>> /\ SameConf
    BY <1>4 DEF HandleExit
  <2>2. inFile' \/ refused'
    BY <1>4, <2>1 DEF SameConf, confVars, Ready, Honest
  <2>3. QED
    BY <1>1, <1>2, <2>1, <2>2, OneFrame DEF Proceeds, ConfStep
<1>5. QED
  BY <1>3, <1>4

(* The function that runs goes on, calls, is replaced, or returns.         *)
LEMMA Called ==
  ASSUME Ready, ConfStep
  PROVE  /\ Again => Proceeds
         /\ Back => Proceeds
         /\ \A f : IsFrame(f) /\ Leads(Top, f) /\ Call(f) => Proceeds
         /\ \A f : IsFrame(f) /\ f.menu = Top.menu /\ Instead(f) => Proceeds
<1>1. ended = "no" /\ stack # <<>> /\ StackRight(stack) /\ (Stays => screen' \in Screens /\ ended' = "no")
  BY DEF Ready, Running, Stays
<1>2. Again => Proceeds
  BY <1>1 DEF Again, Proceeds
<1>3. Back => Proceeds
  BY <1>1, FramePopped DEF Back, Proceeds
<1>4. ASSUME NEW f, IsFrame(f), Leads(Top, f), Call(f)
      PROVE  Proceeds
  BY <1>1, <1>4, FramePushed DEF Call, Top, Proceeds
<1>5. ASSUME NEW f, IsFrame(f), f.menu = Top.menu, Instead(f)
      PROVE  Proceeds
  BY <1>1, <1>5, FrameReplaced DEF Instead, Top, Proceeds
<1>6. QED
  BY <1>2, <1>3, <1>4, <1>5

LEMMA NoFrames == StackRight(<<>>)
<1>1. \E fn : fn \in DOMAIN Needs
  BY DEF Needs
<1>2. QED
  BY <1>1, FramesAre, OneFrame

LEMMA Ended ==
  ASSUME Ready, ConfStep, NEW how \in {"end", "not saved", "error"}, Ends(how), how = "end" => inFile'
  PROVE  Proceeds
BY NoFrames DEF Ends, Proceeds, Ready

(* conf() goes on with the item highlighted, after what it has opened.     *)
LEMMA Went ==
  ASSUME Ready, ConfStep, NEW item, NEW frames, ConfGo(item, frames),
         frames = <<>> \/ \E f : frames = <<f>> /\ IsFrame(f) /\ f.menu = item.data
  PROVE  Proceeds
<1>1. ended = "no" /\ stack # <<>> /\ StackRight(stack) /\ screen' \in Screens /\ ended' = ended
  BY DEF Ready, Running, ConfGo, Stays
<1> DEFINE top == [Top EXCEPT !.active = item.data]
<1>2. top = Frame(Top.fn, Top.menu, item.data)
  BY TopIs, FramesAre
<1>3. IsFrame(top) /\ top.menu = Top.menu /\ top.active = item.data
  BY <1>2, TopIs, FramesAre
<1> HIDE DEF top
<1>4. StackRight(Kept(item)) /\ Last(Kept(item)) = top
  BY <1>1, <1>3, FrameReplaced DEF Kept, Top, top
<1>5. stack' = Kept(item) \o frames
  BY DEF ConfGo
<1>6. StackRight(stack')
  <2>1. IsList(Kept(item))
    BY <1>4 DEF StackRight
  <2>2. CASE frames = <<>>
    BY <1>4, <1>5, <2>1, <2>2, ConcatIs
  <2>3. ASSUME NEW f, frames = <<f>>, IsFrame(f), f.menu = item.data
        PROVE  StackRight(stack')
    <3>1. Leads(Last(Kept(item)), f)
      BY <1>3, <1>4, <2>3 DEF Leads
    <3>2. stack' = Append(Kept(item), f)
      BY <1>5, <2>1, <2>3, ConcatIs
    <3>3. QED
      BY <1>4, <2>3, <3>1, <3>2, FramePushed
  <2>4. QED
    BY <2>2, <2>3
<1>7. QED
  BY <1>1, <1>6 DEF Proceeds
(* conf() returns to the one that has called it, or the program ends.      *)
LEMMA Returned ==
  ASSUME Ready, Return
  PROVE  Proceeds
BY ExitHandled, Called DEF Return, ConfStep

LEMMA ConfProceeds ==
  ASSUME Ready,
         \/ ConfExit \/ ConfSelect \/ ConfUnfold \/ ConfCall \/ ConfSet \/ ConfToggle \/ ConfShowAll
  PROVE  Proceeds
<1>0. ASSUME NEW fn \in DOMAIN Needs, NEW m, NEW a
      PROVE  IsFrame(Frame(fn, m, a)) /\ Frame(fn, m, a).menu = m
  BY <1>0, FramesAre
<1>00. {"conf", "choice", "string", "text", "save", "load", "search"} \subseteq DOMAIN Needs
  BY DEF Needs
<1>1. CASE ConfExit
  BY <1>1, Returned DEF ConfExit
<1>2. CASE ConfSelect
  <2>1. PICK item \in Pickable : ConfGo(item, Opens(item))
    BY <1>2 DEF ConfSelect
  <2>2. SameConf
    BY <1>2 DEF ConfSelect
  <2>3. \/ Opens(item) = <<>>
        \/ \E fn \in {"conf", "choice", "string"} : \E a : Opens(item) = <<Frame(fn, item.data, a)>>
    BY DEF Opens
  <2>4. Opens(item) = <<>> \/ \E f : Opens(item) = <<f>> /\ IsFrame(f) /\ f.menu = item.data
    BY <1>0, <1>00, <2>3
  <2>5. QED
    BY <2>1, <2>2, <2>4, Went DEF ConfStep
<1>3. CASE ConfUnfold \/ ConfShowAll
  <2>1. PICK item \in Pickable : ConfGo(item, <<>>)
    BY <1>3 DEF ConfUnfold, ConfShowAll
  <2>2. SameConf
    BY <1>3 DEF ConfUnfold, ConfShowAll
  <2>3. QED
    BY <2>1, <2>2, Went DEF ConfStep
<1>4. CASE ConfCall
  <2>1. PICK item \in Pickable, fn \in {"text", "save", "load", "search"} :
          ConfGo(item, <<Frame(fn, item.data, Nil)>>)
    BY <1>4 DEF ConfCall
  <2>2. SameConf
    BY <1>4 DEF ConfCall
  <2>3. QED
    BY <1>0, <1>00, <2>1, <2>2, Went DEF ConfStep
<1>5. CASE ConfSet
  <2>1. PICK item \in Pickable, v \in {"y", "n", "m"} :
          LET m == item.data
              May(w) == item.tag = "t" /\ MaySet(m, w)
          IN  CASE May(v) -> SetTristate(m, v) /\ ConfGo(item, <<>>)
                [] ~May(v) /\ v = "y" /\ May("m") ->
                     SetTristate(m, "m") /\ ConfGo(item, <<Frame("text", m, Nil)>>)
                [] ~May(v) /\ ~(v = "y" /\ May("m")) -> SameConf /\ ConfGo(item, <<>>)
    BY <1>5 DEF ConfSet
  <2> DEFINE may(w) == item.tag = "t" /\ MaySet(item.data, w)
  <2>2. CASE may(v)
    <3>1. SetTristate(item.data, v) /\ ConfGo(item, <<>>)
      BY <2>1, <2>2
    <3>2. QED
      BY <3>1, Went DEF ConfStep
  <2>3. CASE ~may(v) /\ v = "y" /\ may("m")
    <3>1. SetTristate(item.data, "m") /\ ConfGo(item, <<Frame("text", item.data, Nil)>>)
      BY <2>1, <2>3
    <3>2. ConfStep
      BY <3>1 DEF ConfStep
    <3>3. IsFrame(Frame("text", item.data, Nil)) /\ Frame("text", item.data, Nil).menu = item.data
      BY <1>0, <1>00
    <3>4. QED
      BY <3>1, <3>2, <3>3, Went
  <2>4. CASE ~may(v) /\ ~(v = "y" /\ may("m"))
    <3>1. SameConf /\ ConfGo(item, <<>>)
      BY <2>1, <2>4
    <3>2. QED
      BY <3>1, Went DEF ConfStep
  <2>5. QED
    BY <2>2, <2>3, <2>4
<1>6. CASE ConfToggle
  <2>1. PICK item \in Pickable :
          \/ item.tag = "t" /\ SetTristate(item.data, Toggled(item.data)) /\ ConfGo(item, <<>>)
          \/ item.tag = "m" /\ SameConf /\ ConfGo(item, <<Frame("conf", item.data, Nil)>>)
          \/ item.tag \notin {"t", "m"} /\ SameConf /\ ConfGo(item, <<>>)
    BY <1>6 DEF ConfToggle
  <2>2. ConfStep
    BY <2>1 DEF ConfStep
  <2>3. QED
    BY <1>0, <1>00, <2>1, <2>2, Went
<1>7. QED
  BY <1>1, <1>2, <1>3, <1>4, <1>5, <1>6

(* The other functions.                                                    *)
LEMMA OthersProceed ==
  ASSUME Ready,
         \/ ChoiceSet \/ ChoiceHelp \/ ChoiceEscape
         \/ StringSet \/ FileLoad \/ FileRefused \/ FileSave \/ Wrote \/ InputTell \/ InputEscape
         \/ SearchHelp \/ SearchFor \/ SearchEscape \/ SearchJump \/ SearchDone \/ TextClosed
         \/ ExitSave \/ ExitDrop \/ ExitEscape \/ Interrupt \/ Resize \/ ResizeCrash
         \/ DisplayTooSmall
  PROVE  Proceeds
<1>0. ASSUME NEW fn \in DOMAIN Needs, NEW m, NEW a
      PROVE  /\ IsFrame(Frame(fn, m, a)) /\ Frame(fn, m, a).menu = m
             /\ Frame(fn, m, a).fn = fn
  BY <1>0, FramesAre
<1>00. DOMAIN Needs = {"conf", "choice", "string", "search", "load", "save", "results", "text",
                       "wrote", "exit", "interrupt"}
  BY DEF Needs
<1>1. CASE \/ ChoiceSet \/ ChoiceEscape \/ StringSet \/ FileLoad \/ Wrote \/ InputEscape
           \/ SearchEscape \/ SearchDone \/ TextClosed
  <2>1. Back /\ ConfStep
    BY <1>1 DEF ChoiceSet, ChoiceEscape, StringSet, FileLoad, Wrote, InputEscape, SearchEscape,
                SearchDone, TextClosed, ConfStep
  <2>2. QED
    BY <2>1, Called
<1>2. CASE ChoiceHelp
  <2>1. /\ In("choice") /\ SameConf /\ Stays
        /\ \E c : stack' = Front(stack) \o <<[Top EXCEPT !.active = c], Frame("text", Top.menu, Nil)>>
    BY <1>2 DEF ChoiceHelp
  <2>2. PICK c : stack' = Front(stack) \o <<[Top EXCEPT !.active = c], Frame("text", Top.menu, Nil)>>
    BY <2>1
  <2> DEFINE top == [Top EXCEPT !.active = c]
  <2>3. top = Frame(Top.fn, Top.menu, c)
    BY TopIs, FramesAre
  <2>4. IsFrame(top) /\ top.menu = Top.menu /\ top.fn = "choice"
    BY <1>0, <2>1, <2>3, TopIs DEF In
  <2> HIDE DEF top
  <2>5. StackRight(Append(Front(stack), top)) /\ Last(Append(Front(stack), top)) = top
    BY <2>4, FrameReplaced DEF Ready, Running, Top
  <2>6. IsList(Front(stack))
    BY FramePopped DEF Ready, Running, StackRight
  <2>7. stack' = Append(Append(Front(stack), top), Frame("text", Top.menu, Nil))
    BY <2>2, <2>6, TwoMoreIs DEF top
  <2>8. StackRight(stack')
    <3>1. Leads(top, Frame("text", Top.menu, Nil))
      BY <2>4 DEF Leads
    <3>2. IsFrame(Frame("text", Top.menu, Nil))
      BY <1>0, <1>00
    <3>3. QED
      BY <2>5, <2>7, <3>1, <3>2, FramePushed
  <2>9. QED
    BY <2>1, <2>8 DEF Stays, Ready, Running, Proceeds, ConfStep
<1>3. CASE FileSave
  <2>1. CASE save_and_exit /\ Saved /\ Back
    BY <2>1, Called DEF ConfStep
  <2>2. CASE /\ ~save_and_exit /\ UNCHANGED <<value, changed, refused>>
             /\ inFile' \in {inFile, TRUE} /\ Instead(Frame("wrote", Top.menu, Nil))
    <3>1. ConfStep
      BY <2>2 DEF ConfStep
    <3>2. QED
      BY <1>0, <1>00, <2>2, <3>1, Called
  <2>3. QED
    BY <1>3, <2>1, <2>2 DEF FileSave
<1>4. CASE InputTell \/ FileRefused \/ SearchHelp
  <2>1. Tell /\ (SameConf \/ LoadRefused) /\ Top.fn # "conf"
    BY <1>4 DEF InputTell, FileRefused, SearchHelp, In
  <2>2. Leads(Top, Frame("text", Top.menu, Nil))
    BY <2>1 DEF Leads
  <2>3. QED
    BY <1>0, <1>00, <2>1, <2>2, Called DEF Tell, ConfStep
<1>5. CASE SearchFor
  BY <1>0, <1>00, <1>5, Called DEF SearchFor, ConfStep
<1>6. CASE SearchJump
  <2>1. PICK m \in Targets : Call(Frame("conf", Parent(m), m))
    BY <1>6 DEF SearchJump
  <2>2. SameConf /\ Leads(Top, Frame("conf", Parent(m), m))
    BY <1>6 DEF SearchJump, In, Leads
  <2>3. QED
    BY <1>0, <1>00, <2>1, <2>2, Called DEF ConfStep
<1>7. CASE ExitSave \/ ExitDrop
  <2>1. CASE Saved /\ Ends("end")
    BY <2>1, Ended DEF ConfStep, Saved
  <2>2. CASE SameConf /\ (Ends("error") \/ Ends("not saved"))
    BY <2>2, Ended DEF ConfStep
  <2>3. QED
    BY <1>7, <2>1, <2>2 DEF ExitSave, ExitDrop
<1>8. CASE ExitEscape
  <2>1. StackRight(stack') /\ SameConf /\ Stays
    BY <1>0, <1>00, <1>8, OneFrame DEF ExitEscape
  <2>2. QED
    BY <2>1 DEF Stays, Ready, Running, Proceeds, ConfStep
<1>9. CASE Interrupt
  BY <1>9, ExitHandled DEF Interrupt
<1>10. CASE Resize
  BY <1>10 DEF Resize, SameConf, Ready, Running, Proceeds, ConfStep
<1>010. CASE ResizeCrash
  <2>1. StackRight(stack') /\ SameConf /\ screen' \in Screens /\ ended' = "crashed"
    BY <1>010, NoFrames DEF ResizeCrash
  <2>2. QED
    BY <2>1 DEF Proceeds, ConfStep
<1>11. CASE DisplayTooSmall
  <2>1. CASE Top.fn = "conf"
    BY <1>11, <2>1, Returned DEF DisplayTooSmall
  <2>2. CASE Top.fn \in {"choice", "search", "results", "text"}
    <3>1. Back /\ SameConf
      BY <1>11, <2>2 DEF DisplayTooSmall
    <3>2. QED
      BY <3>1, Called DEF ConfStep
  <2>3. CASE Top.fn = "wrote"
    <3>1. Saved /\ Back
      BY <1>11, <2>3 DEF DisplayTooSmall
    <3>2. QED
      BY <3>1, Called DEF ConfStep
  <2>4. CASE Top.fn \in {"exit", "interrupt"}
    <3>1. SameConf /\ Ends("not saved")
      BY <1>11, <2>4 DEF DisplayTooSmall
    <3>2. QED
      BY <3>1, Ended DEF ConfStep
  <2>5. CASE Top.fn \in {"string", "load", "save"}
    <3>1. Again /\ SameConf
      BY <1>11, <2>5 DEF DisplayTooSmall
    <3>2. QED
      BY <3>1, Called DEF ConfStep
  <2>6. QED
    BY <1>00, <2>1, <2>2, <2>3, <2>4, <2>5, TopIs
<1>12. QED
  BY <1>1, <1>2, <1>3, <1>4, <1>5, <1>6, <1>7, <1>8, <1>9, <1>10, <1>010, <1>11

LEMMA Runs ==
  ASSUME Next
  PROVE  Running
BY DEF Next, ConfExit, ConfSelect, ConfUnfold, ConfCall, ConfSet, ConfToggle, ConfShowAll, ChoiceSet,
       ChoiceHelp, ChoiceEscape, StringSet, FileLoad, FileRefused, FileSave, Wrote,
       InputTell, InputEscape, SearchHelp, SearchFor, SearchEscape, SearchJump, SearchDone, TextClosed, ExitSave, ExitDrop,
       ExitEscape, Exiting, Interrupt, Resize, ResizeCrash, DisplayTooSmall, In

LEMMA MconfProceeds ==
  ASSUME screen \in Screens, StackRight(stack), Honest, Next
  PROVE  Running /\ Proceeds
BY Runs, ConfProceeds, OthersProceed DEF Next, Ready
-----------------------------------------------------------------------------
(* The functions and the steps of nconfig                                  *)

IsWindow(w) == DOMAIN w = {"fn", "menu", "active", "index", "shown", "match"}

(* The function below all the others is conf() of the main menu or         *)
(* do_exit().                                                              *)
WindowsRight(ws) ==
  /\ IsList(ws) /\ ws # <<>>
  /\ \A i \in 1..Len(ws) : IsWindow(ws[i])
  /\ ws[1].fn \in {"conf", "exit"}

LEMMA WindowsAre ==
  ASSUME WindowsRight(windows)
  PROVE  /\ Len(windows) \in Nat \ {0} /\ This = windows[Len(windows)] /\ IsWindow(This)
         /\ This.fn \notin {"conf", "exit"} => Len(windows) > 1
<1>1. Len(windows) \in Nat \ {0} /\ This = windows[Len(windows)]
  BY ListIs DEF WindowsRight, This
<1>2. IsWindow(This)
  BY <1>1 DEF WindowsRight
<1>3. Len(windows) = 1 => This.fn \in {"conf", "exit"}
  BY <1>1 DEF WindowsRight
<1>4. This.fn \notin {"conf", "exit"} => Len(windows) > 1
  <2> HAVE This.fn \notin {"conf", "exit"}
  <2>1. Len(windows) # 1
    BY <1>3
  <2>2. Len(windows) \in Nat \ {0}
    BY <1>1
  <2>3. PICK n \in Nat \ {0} : n = Len(windows)
    BY <2>2
  <2>4. n # 1
    BY <2>1, <2>3
  <2>5. n > 1
    BY <2>4
  <2>6. QED
    BY <2>3, <2>5
<1>5. QED
  BY <1>1, <1>2, <1>4

LEMMA NewWindow ==
  ASSUME NEW fn, NEW m
  PROVE  IsWindow(NWindow(fn, m)) /\ NWindow(fn, m).fn = fn
BY DEF IsWindow, NWindow

LEMMA WindowPushed ==
  ASSUME NEW ws, WindowsRight(ws), NEW w, IsWindow(w)
  PROVE  WindowsRight(Append(ws, w))
<1>1. Len(ws) \in Nat \ {0}
  BY ListIs DEF WindowsRight
<1> DEFINE t == Append(ws, w)
<1>2. /\ IsList(t) /\ Len(t) = Len(ws) + 1
      /\ \A i \in 1..Len(ws) : t[i] = ws[i]
      /\ t[Len(ws) + 1] = w
  BY AppendIs DEF WindowsRight
<1> HIDE DEF t
<1>3. t # <<>>
  BY <1>1, <1>2, ListIs
<1>4. t[1] = ws[1]
  BY <1>1, <1>2
<1>5. ASSUME NEW i \in 1..Len(t)
      PROVE  IsWindow(t[i])
  <2>1. CASE i \in 1..Len(ws)
    BY <1>2, <2>1 DEF WindowsRight
  <2>2. CASE i = Len(ws) + 1
    BY <1>2, <2>2
  <2>3. QED
    BY <1>1, <1>2, <2>1, <2>2
<1>6. QED
  BY <1>2, <1>3, <1>4, <1>5 DEF WindowsRight, t

LEMMA WindowPopped ==
  ASSUME NEW ws, WindowsRight(ws), Len(ws) > 1
  PROVE  WindowsRight(Front(ws))
<1>1. Len(ws) \in Nat \ {0}
  BY ListIs DEF WindowsRight
<1> DEFINE t == Front(ws)
<1>2. IsList(t) /\ Len(t) = Len(ws) - 1 /\ \A i \in 1..(Len(ws) - 1) : t[i] = ws[i]
  BY FrontIs DEF WindowsRight
<1> HIDE DEF t
<1>3. t # <<>> /\ t[1] = ws[1]
  BY <1>1, <1>2, ListIs
<1>4. \A i \in 1..Len(t) : IsWindow(t[i])
  BY <1>1, <1>2 DEF WindowsRight
<1>5. QED
  BY <1>2, <1>3, <1>4 DEF WindowsRight, t

LEMMA OneWindow ==
  ASSUME NEW w, IsWindow(w), w.fn \in {"conf", "exit"}
  PROVE  WindowsRight(<<w>>)
<1>1. IsList(<<w>>) /\ Len(<<w>>) = 1 /\ <<w>>[1] = w
  BY OneIs
<1>2. QED
  BY <1>1 DEF WindowsRight

(* The last function goes on.                                              *)
LEMMA WindowPut ==
  ASSUME WindowsRight(windows), NEW w, IsWindow(w), w.fn = This.fn
  PROVE  WindowsRight(Append(Front(windows), w))
<1>1. Len(windows) \in Nat \ {0} /\ This = windows[Len(windows)] /\ IsList(windows) /\ windows # <<>>
  BY WindowsAre DEF WindowsRight
<1>2. CASE Len(windows) > 1
  BY <1>2, WindowPopped, WindowPushed
<1>3. CASE Len(windows) = 1
  <2>0. IsList(Front(windows)) /\ Len(Front(windows)) = Len(windows) - 1
    BY <1>1, FrontIs
  <2>1. IsList(Front(windows)) /\ Len(Front(windows)) = 0
    BY <1>3, <2>0
  <2>2. Front(windows) = <<>>
    BY <2>1, ListIs
  <2>3. Append(Front(windows), w) = <<w>>
    BY <2>2, OneIs
  <2>4. w.fn \in {"conf", "exit"}
    BY <1>1, <1>3 DEF WindowsRight
  <2>5. QED
    BY <2>3, <2>4, OneWindow
<1>4. QED
  BY <1>1, <1>2, <1>3

(* What the code changes in the frame of a function.                       *)
LEMMA WindowChanged ==
  ASSUME NEW w, IsWindow(w)
  PROVE  \A i, b, s, m :
           /\ LET v == [w EXCEPT !.shown = b, !.index = i] IN IsWindow(v) /\ v.fn = w.fn
           /\ LET v == [w EXCEPT !.index = i, !.match = m] IN IsWindow(v) /\ v.fn = w.fn
BY DEF IsWindow
(* What every step of nconfig comes to.                                    *)
NProceeds ==
  /\ WindowsRight(windows') /\ ConfStep
  /\ outcome' # "off" /\ (outcome' = "end" => inFile' \/ refused')

NReady == WindowsRight(windows) /\ Honest /\ Alive

LEMMA Unchanged ==
  ASSUME KeepMenus
  PROVE  ConfStep
BY DEF KeepMenus, menusVars, ConfStep, SameConf

LEMMA NCalled ==
  ASSUME NReady, ConfStep, outcome' = outcome
  PROVE  /\ UNCHANGED windows => NProceeds
         /\ \A w : IsWindow(w) /\ w.fn = This.fn /\ Put(w) => NProceeds
         /\ \A fn : Push(fn) => NProceeds
         /\ This.fn \notin {"conf", "exit"} /\ Pop => NProceeds
         /\ Len(windows) > 1 /\ Pop => NProceeds
<1>1. WindowsRight(windows) /\ outcome' # "off" /\ outcome' # "end"
  BY DEF NReady, Alive
<1>2. UNCHANGED windows => NProceeds
  BY <1>1 DEF NProceeds
<1>3. ASSUME NEW w, IsWindow(w), w.fn = This.fn, Put(w)
      PROVE  NProceeds
  BY <1>1, <1>3, WindowPut DEF Put, NProceeds
<1>4. ASSUME NEW fn, Push(fn)
      PROVE  NProceeds
  BY <1>1, <1>4, NewWindow, WindowPushed DEF Push, NProceeds
<1>5. Len(windows) > 1 /\ Pop => NProceeds
  BY <1>1, WindowPopped DEF Pop, NProceeds
<1>6. This.fn \notin {"conf", "exit"} /\ Pop => NProceeds
  BY <1>1, <1>5, WindowsAre
<1>7. QED
  BY <1>2, <1>3, <1>4, <1>5, <1>6

LEMMA NEnded ==
  ASSUME NReady, NEW how \in {"crashes", "hangs", "not saved", "error", "end"}, Fails(how),
         how = "end" => ~changed
  PROVE  NProceeds
<1>1. UNCHANGED <<confVars, windows>> /\ outcome' = how
  BY DEF Fails, menusVars
<1>2. how = "end" => inFile' \/ refused'
  BY <1>1 DEF confVars, NReady, Honest
<1>3. QED
  BY <1>1, <1>2 DEF NReady, NProceeds, ConfStep, SameConf

LEMMA NSearched ==
  ASSUME NReady, NEW p, NEW dir, Search(p, dir)
  PROVE  NProceeds
<1> DEFINE state == [in_search |-> TRUE, match_direction |-> dir, pattern |-> p]
           match == get_mext_match(Matching(p), dir)
<1>1. IsWindow(This)
  BY WindowsAre DEF NReady
<1>2. CASE items = <<>>
  BY <1>2, NEnded DEF Search
<1>3. CASE items # <<>> /\ match # 0
  <2>1. Put([This EXCEPT !.index = match, !.match = state]) /\ KeepMenus /\ outcome' = outcome
    BY <1>3 DEF Search
  <2>2. QED
    BY <1>1, <2>1, Unchanged, NCalled, WindowChanged
<1>4. CASE items # <<>> /\ match = 0 /\ match_start(dir) \in DOMAIN items
  <2>1. Put([This EXCEPT !.index = 0, !.match = state]) /\ KeepMenus /\ outcome' = outcome
    BY <1>4 DEF Search, Steady
  <2>2. QED
    BY <1>1, <2>1, Unchanged, NCalled, WindowChanged
<1>5. CASE items # <<>> /\ match = 0 /\ match_start(dir) \notin DOMAIN items
  <2>1. Fails("hangs")
    BY <1>5 DEF Search
  <2>2. QED
    BY <2>1, NEnded
<1>6. QED
  BY <1>2, <1>3, <1>4, <1>5

(* The inner loop ends, and perhaps a function is called.                  *)
LEMMA NWent ==
  ASSUME NReady, ConfStep, NEW ws, Go(ws),
         ws = <<>> \/ \E fn, m : ws = <<NWindow(fn, m)>>
  PROVE  NProceeds
<1>1. IsWindow(This) /\ WindowsRight(windows) /\ outcome' = outcome
  BY WindowsAre DEF NReady, Go, Steady
<1>2. IsWindow(Broken) /\ Broken.fn = This.fn
  BY <1>1 DEF Broken, Keyed, IsWindow
<1>3. WindowsRight(Append(Front(windows), Broken))
  BY <1>1, <1>2, WindowPut
<1>4. windows' = Append(Front(windows), Broken) \o ws
  BY DEF Go
<1>5. WindowsRight(windows')
  <2>1. IsList(Append(Front(windows), Broken))
    BY <1>3 DEF WindowsRight
  <2>2. CASE ws = <<>>
    BY <1>3, <1>4, <2>1, <2>2, ConcatIs
  <2>3. ASSUME NEW fn, NEW m, ws = <<NWindow(fn, m)>>
        PROVE  WindowsRight(windows')
    <3>1. windows' = Append(Append(Front(windows), Broken), NWindow(fn, m))
      BY <1>4, <2>1, <2>3, ConcatIs
    <3>2. QED
      BY <1>3, <3>1, NewWindow, WindowPushed
  <2>4. QED
    BY <2>2, <2>3
<1>6. QED
  BY <1>1, <1>5 DEF NReady, Alive, NProceeds
(* The list, and the keys that it shares with the search.                  *)
LEMMA ListKeysProceed ==
  ASSUME NReady, ShowMenu \/ Slash \/ TypeCharacter \/ FindNext \/ Rubout \/ Move \/ NHelp
  PROVE  NProceeds
<1>1. IsWindow(This) /\ WindowsRight(windows) /\ outcome = "no"
  BY WindowsAre DEF NReady, Alive
<1>2. CASE ShowMenu
  <2> DEFINE i == Restored(items')
  <2>1. Put([This EXCEPT !.shown = TRUE, !.index = i]) /\ KeepMenus /\ outcome' \in {"undefined", "no"}
    BY <1>1, <1>2 DEF ShowMenu
  <2>2. WindowsRight(windows')
    BY <1>1, <2>1, WindowChanged, WindowPut DEF Put
  <2>3. QED
    BY <2>1, <2>2, Unchanged DEF NProceeds
<1>3. CASE Slash
  <2>1. \E m : Put([This EXCEPT !.index = 0, !.match = m])
    BY <1>3 DEF Slash
  <2>2. KeepMenus /\ outcome' = outcome
    BY <1>3 DEF Slash, Steady
  <2>3. QED
    BY <1>1, <2>1, <2>2, Unchanged, NCalled, WindowChanged
<1>4. CASE TypeCharacter \/ FindNext
  BY <1>4, NSearched DEF TypeCharacter, FindNext
<1>5. CASE Rubout
  <2> DEFINE p == This.match.pattern
             w == [This EXCEPT !.index = 0, !.match.pattern = IF p = <<>> THEN p ELSE Front(p),
                               !.match.match_direction = Adjusted(@)]
  <2>1. Put(w) /\ KeepMenus /\ outcome' = outcome
    BY <1>5 DEF Rubout, Steady
  <2>2. IsWindow(w) /\ w.fn = This.fn
    BY <1>1 DEF IsWindow
  <2> HIDE DEF w
  <2>3. QED
    BY <2>1, <2>2, Unchanged, NCalled
<1>6. IsWindow(Keyed) /\ Keyed.fn = This.fn
  BY <1>1, WindowChanged DEF Keyed
<1>7. CASE Move
  <2>1. Put(Keyed) /\ KeepMenus /\ outcome' = outcome
    BY <1>7 DEF Move
  <2>2. QED
    BY <1>6, <2>1, Unchanged, NCalled
<1>8. CASE NHelp
  <2>1. /\ windows' = Append(Front(windows), Keyed) \o <<NWindow("text", This.menu)>>
        /\ KeepMenus /\ outcome' = outcome
    BY <1>8 DEF NHelp, Steady
  <2>2. WindowsRight(Append(Front(windows), Keyed))
    BY <1>1, <1>6, WindowPut
  <2>3. IsList(Append(Front(windows), Keyed))
    BY <2>2 DEF WindowsRight
  <2>4. windows' = Append(Append(Front(windows), Keyed), NWindow("text", This.menu))
    BY <2>1, <2>3, ConcatIs
  <2>5. WindowsRight(windows')
    BY <2>2, <2>4, NewWindow, WindowPushed
  <2>6. QED
    BY <1>1, <2>1, <2>5, Unchanged DEF NProceeds
<1>9. QED
  BY <1>2, <1>3, <1>4, <1>5, <1>7, <1>8

(* The keys that leave the list or act on an item.                         *)
LEMMA NothingDone ==
  ASSUME NReady, Nothing
  PROVE  NProceeds
BY Unchanged, NWent DEF Nothing

LEMMA ToggledDone ==
  ASSUME NReady, NEW m, NEW v, SetTristate(m, v), NEW ws, Go(ws),
         ws = <<>> \/ \E fn, n : ws = <<NWindow(fn, n)>>
  PROVE  NProceeds
BY NWent DEF ConfStep

LEMMA ItemKeysProceed ==
  ASSUME NReady, FunctionKey \/ FunctionExit \/ LeaveMenu \/ NSelect \/ NSpace \/ NSet \/ NChoose
  PROVE  NProceeds
<1>1. IsWindow(This) /\ WindowsRight(windows) /\ outcome = "no" /\ Len(windows) \in Nat \ {0}
  BY WindowsAre DEF NReady, Alive
<1>2. CASE FunctionKey
  <2>1. KeepMenus /\ (Go(<<>>) \/ \E fn : Go(<<NWindow(fn, This.menu)>>))
    BY <1>2 DEF FunctionKey
  <2>2. QED
    BY <2>1, Unchanged, NWent
<1>3. CASE FunctionExit
  <2>1. CASE changed
    BY <1>3, <2>1, Unchanged, NWent DEF FunctionExit
  <2>2. CASE ~changed
    BY <1>3, <2>2, NEnded DEF FunctionExit
  <2>3. QED
    BY <2>1, <2>2
<1>4. CASE LeaveMenu
  <2>0. Len(windows) > 1 \/ Len(windows) = 1
    <3>1. PICK n \in Nat \ {0} : n = Len(windows)
      BY <1>1
    <3>2. n > 1 \/ n = 1
      OBVIOUS
    <3>3. QED
      BY <3>1, <3>2
  <2>1. CASE Len(windows) > 1
    <3>0. Len(windows) # 1
      <4>1. PICK n \in Nat \ {0} : n = Len(windows)
        BY <1>1
      <4>2. n > 1 => n # 1
        OBVIOUS
      <4>3. QED
        BY <2>1, <4>1, <4>2
    <3>1. Pop /\ KeepMenus /\ Steady
      BY <1>4, <2>1, <3>0 DEF LeaveMenu
    <3>2. QED
      BY <2>1, <3>1, Unchanged, NCalled DEF Steady
  <2>2. CASE Len(windows) = 1 /\ changed
    <3>1. windows' = <<NWindow("exit", Root)>> /\ KeepMenus /\ Steady
      BY <1>4, <2>2 DEF LeaveMenu
    <3>2. WindowsRight(windows')
      BY <3>1, NewWindow, OneWindow
    <3>3. QED
      BY <1>1, <3>1, <3>2, Unchanged DEF Steady, NProceeds
  <2>3. CASE Len(windows) = 1 /\ ~changed
    <3>1. Fails("end")
      BY <1>4, <2>3 DEF LeaveMenu
    <3>2. QED
      BY <2>3, <3>1, NEnded
  <2>4. QED
    BY <2>0, <2>1, <2>2, <2>3
<1>5. CASE NSelect
  <2> DEFINE item == CurrentItem
             m == item.data
             Calls(fn) == Go(<<NWindow(fn, m)>>) /\ KeepMenus
  <2>1. \/ Nothing
        \/ Unfold(m) /\ UNCHANGED confVars /\ Go(<<>>)
        \/ Calls("conf") \/ Calls("choice") \/ Calls("string")
        \/ Toggle(m)
    BY <1>5 DEF NSelect
  <2>2. CASE Unfold(m) /\ UNCHANGED confVars /\ Go(<<>>)
    BY <2>2, NWent DEF ConfStep, SameConf
  <2>3. CASE Calls("conf") \/ Calls("choice") \/ Calls("string")
    BY <2>3, Unchanged, NWent
  <2>4. CASE Toggle(m)
    BY <2>4, ToggledDone DEF Toggle
  <2>5. QED
    BY <2>1, <2>2, <2>3, <2>4, NothingDone
<1>6. CASE NSpace
  <2> DEFINE item == CurrentItem
  <2>1. CASE Acts(item) /\ item.tag = "t"
    <3>1. Toggle(item.data)
      BY <1>6, <2>1 DEF NSpace
    <3>2. QED
      BY <3>1, ToggledDone DEF Toggle
  <2>2. CASE Acts(item) /\ item.tag = "m"
    <3>1. Go(<<NWindow("conf", item.data)>>) /\ KeepMenus
      BY <1>6, <2>2 DEF NSpace
    <3>2. QED
      BY <3>1, Unchanged, NWent
  <2>3. CASE ~Acts(item) \/ item.tag \notin {"t", "m"}
    <3>1. Nothing
      BY <1>6, <2>3 DEF NSpace
    <3>2. QED
      BY <3>1, NothingDone
  <2>4. QED
    BY <2>1, <2>2, <2>3
<1>7. CASE NSet
  <2>1. PICK v \in {"y", "n", "m"} :
          LET item == CurrentItem
              May(w) == Acts(item) /\ item.tag = "t" /\ MaySet(item.data, w)
          IN  CASE May(v) -> SetTristate(item.data, v) /\ KeepOptions /\ Go(<<>>)
                [] ~May(v) /\ v = "y" /\ May("m") ->
                     SetTristate(item.data, "m") /\ KeepOptions /\ Go(<<NWindow("text", This.menu)>>)
                [] ~May(v) /\ ~(v = "y" /\ May("m")) -> Nothing
    BY <1>7 DEF NSet
  <2> DEFINE item == CurrentItem
             may(w) == Acts(item) /\ item.tag = "t" /\ MaySet(item.data, w)
  <2>2. CASE may(v)
    <3>1. SetTristate(item.data, v) /\ Go(<<>>)
      BY <2>1, <2>2
    <3>2. QED
      BY <3>1, ToggledDone
  <2>3. CASE ~may(v) /\ v = "y" /\ may("m")
    <3>1. SetTristate(item.data, "m") /\ Go(<<NWindow("text", This.menu)>>)
      BY <2>1, <2>3
    <3>2. QED
      BY <3>1, ToggledDone
  <2>4. CASE ~may(v) /\ ~(v = "y" /\ may("m"))
    <3>1. Nothing
      BY <2>1, <2>4
    <3>2. QED
      BY <3>1, NothingDone
  <2>5. QED
    BY <2>2, <2>3, <2>4
<1>8. CASE NChoose
  <2>1. This.fn = "choice"
    BY <1>8 DEF NChoose, Open
  <2>2. \/ SetTristate(CurrentItem.data, "y") /\ Pop /\ Steady
        \/ Nothing
    BY <1>8 DEF NChoose
  <2>3. CASE SetTristate(CurrentItem.data, "y") /\ Pop /\ Steady
    BY <2>1, <2>3, NCalled DEF ConfStep, Steady
  <2>4. QED
    BY <2>2, <2>3, NothingDone
<1>9. QED
  BY <1>2, <1>3, <1>4, <1>5, <1>6, <1>7, <1>8

(* The other functions.                                                    *)
LEMMA NOthersProceed ==
  ASSUME NReady, NClose \/ NAgain \/ NString \/ NLoad \/ NLoadRefused \/ NSave \/ NResults \/ NShowAll \/ NExit
  PROVE  NProceeds
<1>1. IsWindow(This) /\ WindowsRight(windows) /\ outcome = "no" /\ Len(windows) \in Nat \ {0}
  BY WindowsAre DEF NReady, Alive
<1>2. CASE NClose \/ NString \/ NLoad \/ NSave \/ NShowAll
  <2>1. /\ This.fn \notin {"conf", "exit"} /\ Pop /\ outcome' = outcome
    BY <1>2 DEF NClose, NString, NLoad, NSave, NShowAll, Open, Steady
  <2>2. ConfStep
    BY <1>2, Unchanged DEF NClose, NString, NLoad, NSave, NShowAll, ConfStep, SameConf
  <2>3. QED
    BY <2>1, <2>2, NCalled
<1>3. CASE NAgain \/ NLoadRefused
  BY <1>3, Unchanged, NCalled DEF NAgain, NLoadRefused, Steady, ConfStep
<1>4. CASE NResults
  <2>1. Put(NWindow("text", This.menu)) /\ This.fn = "search" /\ KeepMenus /\ outcome' = outcome
    BY <1>4 DEF NResults, Open, Steady
  <2>2. Len(windows) > 1
    BY <1>1, <2>1, WindowsAre
  <2>3. WindowsRight(windows')
    BY <1>1, <2>1, <2>2, WindowPopped, WindowPushed, NewWindow DEF Put
  <2>4. QED
    BY <1>1, <2>1, <2>3, Unchanged DEF NProceeds
<1>5. CASE NExit
  <2>1. CASE Saved /\ outcome' = "end" /\ UNCHANGED windows
    BY <1>1, <2>1 DEF NProceeds, ConfStep, Saved
  <2>2. CASE Fails("error") \/ Fails("not saved")
    BY <2>2, NEnded
  <2>3. CASE /\ windows' = IF Len(windows) = 1 THEN <<NWindow("conf", Root)>> ELSE Front(windows)
             /\ KeepMenus /\ Steady
    <3>1. WindowsRight(windows')
      <4>1. CASE Len(windows) = 1
        BY <2>3, <4>1, NewWindow, OneWindow
      <4>2. CASE Len(windows) # 1
        <5>1. PICK n \in Nat \ {0} : n = Len(windows)
          BY <1>1
        <5>2. n > 1
          BY <4>2, <5>1
        <5>3. QED
          BY <1>1, <2>3, <4>2, <5>1, <5>2, WindowPopped
      <4>3. QED
        BY <4>1, <4>2
    <3>2. QED
      BY <1>1, <2>3, <3>1, Unchanged DEF Steady, NProceeds
  <2>4. QED
    BY <1>5, <2>1, <2>2, <2>3 DEF NExit
<1>6. QED
  BY <1>2, <1>3, <1>4, <1>5

LEMMA NconfProceeds ==
  ASSUME WindowsRight(windows), Honest, Alive, NNext
  PROVE  NProceeds
BY ListKeysProceed, ItemKeysProceed, NOthersProceed DEF NNext, NReady
-----------------------------------------------------------------------------
(* All of them                                                             *)

(* One front end runs, or a dialog by itself.                              *)
OneOnly ==
  /\ ended = "off" \/ outcome = "off"
  /\ (ended # "off" \/ outcome # "off") => dialog = "none"

DialogsInv == Lx /\ MenuInv /\ OnMember /\ CursorInField /\ TextInv

IInv ==
  /\ DialogsInv /\ GuiInv
  /\ Honest /\ QuitsSaved
  /\ StackRight(stack)
  /\ outcome # "off" => WindowsRight(windows)
  /\ OneOnly

LEMMA NoDialogIs ==
  ASSUME NoDialog \/ DialogInit
  PROVE  /\ screen \in Screens /\ answer = TooSmall /\ list = <<>> /\ IsList(list)
         /\ choice = 0 /\ scroll = 0 /\ s_scroll = 0 /\ first_item = 0 /\ button = 0
         /\ len = 0 /\ pos = 0 /\ show_x = 0 /\ input_x = 0
         /\ text = NoText /\ page = 0 /\ page_length = 0 /\ vscroll = 0
         /\ begin_reached = TRUE /\ end_reached = FALSE
<1>1. MenuInit /\ LxInit /\ InputInit /\ TextInit
  BY DEF NoDialog, DialogInit, MenuInit
<1>2. IsList(<<>>)
  BY EmptySeq, SeqIsList
<1>3. QED
  BY <1>1, <1>2 DEF LxInit, LargeEnough, MenuInit, InputInit, TextInit

LEMMA DialogsStart ==
  ASSUME NoDialog \/ DialogInit
  PROVE  DialogsInv
<1>0. /\ screen \in Screens /\ IsList(list) /\ answer # Waiting
      /\ choice = 0 /\ scroll = 0 /\ s_scroll = 0 /\ first_item = 0 /\ button = 0
  <2>1. /\ screen \in Screens /\ IsList(list) /\ choice = 0 /\ scroll = 0 /\ s_scroll = 0
        /\ first_item = 0 /\ button = 0
    BY NoDialogIs
  <2>2. answer = TooSmall
    BY NoDialogIs
  <2>3. QED
    BY <2>1, <2>2 DEF TooSmall, Waiting
<1>1. Lx /\ MenuInv /\ OnMember
  BY <1>0 DEF Lx, MenuInv, OnItem, OnMember
<1>2. CursorInField
  <2>1. len = 0 /\ pos = 0 /\ show_x = 0 /\ input_x = 0
    BY NoDialogIs
  <2>2. QED
    BY <2>1, BoxWidthAssumption, MaxLenAssumption DEF CursorInField
<1>3. TextInv
  <2>1. NoText \in TextRecords /\ 0 \in 0..NoText.lines
    BY DEF NoText, TextRecords
  <2>2. Here = [page |-> 0, begin |-> TRUE, end |-> FALSE]
    BY NoDialogIs DEF Here
  <2>3. Here \in Places(text)
    BY <2>1, <2>2, NoDialogIs, PlaceIs
  <2>4. text = NoText /\ page_length = 0 /\ vscroll = 0
    BY NoDialogIs
  <2>5. QED
    BY <2>1, <2>3, <2>4 DEF TextInv, TextShown
<1>4. QED
  BY <1>1, <1>2, <1>3 DEF DialogsInv

LEMMA InitRight ==
  ASSUME FrontInit
  PROVE  IInv
<1>1. DialogsInv
  BY DialogsStart DEF FrontInit, NoDialog, DialogInit
<1>2. GuiInv
  <2>1. GuiInit
    BY DEF FrontInit
  <2>2. QED
    BY <2>1 DEF GuiInit, GuiInv, FormFits
<1>3. Honest
  <2>1. MenusInit \/ NoMenus
    BY DEF FrontInit, Init, NInit
  <2>2. QED
    BY <2>1 DEF MenusInit, NoMenus, Honest
<1>4. StackRight(stack)
  <2>1. stack = <<>> \/ stack = <<Frame("conf", Root, Nil)>>
    BY DEF FrontInit, Init, NoMconf
  <2>2. IsFrame(Frame("conf", Root, Nil))
    BY FramesAre DEF Needs
  <2>3. QED
    BY <2>1, <2>2, OneFrame
<1>5. outcome # "off" => WindowsRight(windows)
  <2>1. outcome = "off" \/ windows = <<NWindow("conf", Root)>>
    BY DEF FrontInit, NInit, NoNconf
  <2>2. QED
    BY <2>1, NewWindow, OneWindow
<1>6. OneOnly /\ QuitsSaved
  BY DEF FrontInit, Init, NInit, NoMconf, NoNconf, OneOnly, QuitsSaved, QuitKeeps, NQuitKeeps
<1>7. QED
  BY <1>1, <1>2, <1>3, <1>4, <1>5, <1>6 DEF IInv

(* A step of one dialog.                                                   *)
LEMMA DialogsKeep ==
  ASSUME DialogsInv, DialogNext
  PROVE  DialogsInv' /\ dialog' = dialog
<1>0. Lx /\ MenuInv /\ OnMember /\ CursorInField /\ TextInv
  BY DEF DialogsInv
<1>1. dialog' = dialog
  BY DEF DialogNext, MenuDialog, CheckListDialog, InputBoxDialog, TextBoxDialog, YesNoDialog, MenuNext,
         MenuKeys, MenuAgain, MenuOpen, KeyUp, KeyDown, KeyPageUp, KeyPageDown, Moved, Hotkey,
         KeyLetter, MenuReturn, MenuEscape, Escape, Pick, KeyButton, MenuResize,
         CheckKeys, CheckOpen, CheckUp, CheckDown, CheckMoved, CheckLetter, CheckKey, CheckResize,
         InputKeys, InputOpen, Backspace, CursorLeft, CursorRight, Type, InField, InputButton,
         InputLeave, InputResize,
         TextScroll, TextReturn, TextOpen, TextResize, Home, End, LineUp, PageUp, LineDown, PageDown,
         Sideways, Scrolled, YesNoKeys, YesNoOpen, YesNoReturn, YesNoResize, lxVars
(* The other dialogs are as they were.                                     *)
<1>2. dialog # "menu" /\ UNCHANGED menuVars => MenuInv'
  BY <1>0, <1>1 DEF menuVars, shownVars, MenuInv, OnItem
<1>3. dialog # "checklist" => OnMember'
  BY <1>1 DEF OnMember
<1>4. UNCHANGED inputVars => CursorInField'
  BY <1>0 DEF inputVars, CursorInField
<1>5. dialog # "textbox" /\ UNCHANGED textVars => TextInv'
  BY <1>0, <1>1 DEF textVars, TextInv, Here, TextShown
<1>6. CASE MenuDialog
  <2>1. Lx' /\ MenuInv'
    BY <1>0, <1>6, MenuKeeps DEF MenuDialog
  <2>2. QED
    BY <1>1, <1>3, <1>4, <1>5, <1>6, <2>1 DEF MenuDialog, DialogsInv
<1>7. CASE CheckListDialog
  <2>1. Lx' /\ OnMember'
    BY <1>0, <1>7, CheckKeeps DEF CheckListDialog
  <2>2. QED
    BY <1>1, <1>2, <1>4, <1>5, <1>7, <2>1 DEF CheckListDialog, DialogsInv
<1>8. CASE InputBoxDialog
  <2>1. Lx' /\ CursorInField'
    BY <1>0, <1>8, InputKeeps DEF InputBoxDialog
  <2>2. QED
    BY <1>1, <1>2, <1>3, <1>5, <1>8, <2>1 DEF InputBoxDialog, DialogsInv
<1>9. CASE TextBoxDialog
  <2>1. Lx' /\ TextInv'
    BY <1>0, <1>9, TextKeeps DEF TextBoxDialog
  <2>2. QED
    BY <1>1, <1>2, <1>3, <1>4, <1>9, <2>1 DEF TextBoxDialog, DialogsInv
<1>10. CASE YesNoDialog
  <2>1. Lx'
    BY <1>0, <1>10, QuestionKeeps
  <2>2. QED
    BY <1>1, <1>2, <1>3, <1>4, <1>5, <1>10, <2>1 DEF YesNoDialog, DialogsInv
<1>11. QED
  BY <1>6, <1>7, <1>8, <1>9, <1>10 DEF DialogNext

(* No dialog is shown by itself, and only the terminal changes.            *)
LEMMA DialogsStay ==
  ASSUME DialogsInv, UNCHANGED dialogsOnly, screen' \in Screens,
         dialog = "none" \/ screen' = screen
  PROVE  DialogsInv'
<1>0. Lx /\ MenuInv /\ OnMember /\ CursorInField /\ TextInv
  BY DEF DialogsInv
<1>1. UNCHANGED <<dialog, answer, list, choice, scroll, button, menuVars, inputVars, textVars>>
  BY DEF dialogsOnly
<1>2. Lx' /\ CursorInField'
  BY <1>0, <1>1 DEF Lx, inputVars, CursorInField
<1>3. MenuInv' /\ OnMember'
  BY <1>0, <1>1 DEF menuVars, shownVars, MenuInv, Drawn, OnItem, max_choice, item_count, OnMember, check_max
<1>4. TextInv'
  <2>1. UNCHANGED <<text, page, begin_reached, end_reached, page_length, vscroll>>
    BY <1>1 DEF textVars
  <2>2. CASE dialog = "none"
    BY <1>0, <1>1, <2>1, <2>2 DEF TextInv, Here, TextShown
  <2>3. CASE screen' = screen
    BY <1>0, <1>1, <2>1, <2>3 DEF TextInv, Here, TextShown, boxh, ShowsFrom
  <2>4. QED
    BY <2>2, <2>3
<1>5. QED
  BY <1>2, <1>3, <1>4 DEF DialogsInv

LEMMA NextKeeps ==
  ASSUME IInv, FrontNext
  PROVE  IInv'
<1>0. /\ DialogsInv /\ GuiInv /\ Honest /\ QuitsSaved /\ StackRight(stack) /\ OneOnly
      /\ outcome # "off" => WindowsRight(windows)
      /\ screen \in Screens
  BY DEF IInv, DialogsInv, Lx
<1>1. UNCHANGED guiVars => GuiInv'
  BY <1>0 DEF guiVars, formVars, padVars, GuiInv, FormFits
<1>2. UNCHANGED mconfOnly => StackRight(stack') /\ ended' = ended
  BY <1>0 DEF mconfOnly
<1>3. UNCHANGED nconfOnly => outcome' = outcome /\ (outcome' # "off" => WindowsRight(windows'))
  BY <1>0 DEF nconfOnly
<1>4. UNCHANGED menusVars => Honest' /\ UNCHANGED <<inFile, refused>>
  BY <1>0 DEF menusVars, confVars, Honest
<1>5. CASE DialogNext /\ UNCHANGED <<mconfOnly, nconfOnly, menusVars, guiVars>>
  <2>1. DialogsInv' /\ dialog' = dialog
    BY <1>0, <1>5, DialogsKeep
  <2>2. OneOnly' /\ QuitsSaved'
    BY <1>0, <1>2, <1>3, <1>4, <1>5, <2>1 DEF OneOnly, QuitsSaved, QuitKeeps, NQuitKeeps
  <2>3. QED
    BY <1>1, <1>2, <1>3, <1>4, <1>5, <2>1, <2>2 DEF IInv
<1>6. CASE Next /\ UNCHANGED <<dialogsOnly, nconfOnly, guiVars>>
  <2>1. Running /\ Proceeds
    BY <1>0, <1>6, MconfProceeds
  <2>2. ended = "no" /\ outcome = "off" /\ dialog = "none" /\ dialog' = dialog
    BY <1>0, <1>6, <2>1 DEF Running, OneOnly, dialogsOnly
  <2>3. DialogsInv'
    BY <1>0, <1>6, <2>1, <2>2, DialogsStay DEF Proceeds
  <2>4. Honest'
    BY <1>0, <2>1, HonestKept DEF Proceeds
  <2>5. OneOnly' /\ QuitsSaved'
    BY <1>3, <1>6, <2>1, <2>2 DEF Proceeds, OneOnly, QuitsSaved, QuitKeeps, NQuitKeeps
  <2>6. QED
    BY <1>1, <1>3, <1>6, <2>1, <2>3, <2>4, <2>5 DEF Proceeds, IInv
<1>7. CASE Alive /\ NNext /\ UNCHANGED <<screen, dialogsOnly, mconfOnly, guiVars>>
  <2>1. outcome = "no" /\ WindowsRight(windows) /\ ended = "off" /\ dialog = "none"
    BY <1>0, <1>7 DEF Alive, OneOnly
  <2>2. NProceeds
    BY <1>0, <1>7, <2>1, NconfProceeds
  <2>3. DialogsInv' /\ dialog' = dialog
    BY <1>0, <1>7, DialogsStay DEF dialogsOnly
  <2>4. Honest'
    BY <1>0, <2>2, HonestKept DEF NProceeds
  <2>5. OneOnly' /\ QuitsSaved'
    BY <1>2, <1>7, <2>1, <2>2, <2>3 DEF NProceeds, OneOnly, QuitsSaved, QuitKeeps, NQuitKeeps
  <2>6. QED
    BY <1>1, <1>2, <1>7, <2>2, <2>3, <2>4, <2>5 DEF NProceeds, IInv
<1>8. CASE dialog = "nconf" /\ GuiNext /\ UNCHANGED <<screen, dialogsOnly, mconfOnly, nconfOnly, menusVars>>
  <2>1. GuiInv'
    BY <1>0, <1>8, GuiKeeps
  <2>2. DialogsInv' /\ dialog' = dialog
    BY <1>0, <1>8, DialogsStay DEF dialogsOnly
  <2>3. OneOnly' /\ QuitsSaved'
    BY <1>0, <1>2, <1>3, <1>4, <1>8, <2>2 DEF OneOnly, QuitsSaved, QuitKeeps, NQuitKeeps
  <2>4. QED
    BY <1>2, <1>3, <1>4, <1>8, <2>1, <2>2, <2>3 DEF IInv
<1>9. QED
  BY <1>5, <1>6, <1>7, <1>8 DEF FrontNext

LEMMA StutterKeeps ==
  ASSUME IInv, UNCHANGED <<vars, dialogVars, nconfVars, guiVars>>
  PROVE  IInv'
<1>0. /\ DialogsInv /\ GuiInv /\ Honest /\ QuitsSaved /\ StackRight(stack) /\ OneOnly
      /\ outcome # "off" => WindowsRight(windows)
      /\ screen \in Screens
  BY DEF IInv, DialogsInv, Lx
<1>1. UNCHANGED <<screen, dialogsOnly, mconfOnly, nconfOnly, menusVars, guiVars>>
  BY DEF vars, dialogVars, nconfVars, lxVars, dialogsOnly, mconfOnly, nconfOnly
<1>2. DialogsInv' /\ dialog' = dialog
  BY <1>0, <1>1, DialogsStay DEF dialogsOnly
<1>3. GuiInv' /\ Honest' /\ UNCHANGED <<inFile, refused>>
  BY <1>0, <1>1 DEF guiVars, formVars, padVars, GuiInv, FormFits, menusVars, confVars, Honest
<1>4. UNCHANGED <<stack, ended, windows, outcome>>
  BY <1>1 DEF mconfOnly, nconfOnly
<1>5. OneOnly' /\ QuitsSaved'
  BY <1>0, <1>2, <1>3, <1>4 DEF OneOnly, QuitsSaved, QuitKeeps, NQuitKeeps
<1>6. QED
  BY <1>0, <1>2, <1>3, <1>4, <1>5 DEF IInv

frontVars == <<vars, dialogVars, nconfVars, guiVars>>

(* The invariant of all front ends and widgets.                            *)
THEOREM Invariance == FrontSpec => []IInv
<1>1. FrontInit => IInv
  BY InitRight
<1>2. IInv /\ [FrontNext]_frontVars => IInv'
  BY NextKeeps, StutterKeeps DEF frontVars
<1>3. FrontSpec => FrontInit /\ [][FrontNext]_frontVars
  BY PTL DEF FrontSpec, frontVars
<1>4. QED
  BY <1>1, <1>2, <1>3, PTL

(* Neither menuconfig nor nconfig ends as if all was saved when something  *)
(* is not (handle_exit() of mconf.c, do_exit() of nconf.c).                *)
THEOREM QuitsAreSaved == FrontSpec => []QuitsSaved
<1>1. IInv => QuitsSaved
  BY DEF IInv
<1>2. QED
  BY <1>1, Invariance, PTL

(* The cursor and the window of every widget stay in what it displays, for *)
(* every list, text and size of the terminal.                              *)
THEOREM CursorsStay == FrontSpec => []CursorsRight
<1>1. IInv => CursorsRight
  BY FlagsFollow DEF IInv, DialogsInv, MenuInv, GuiInv, CursorsRight
<1>2. QED
  BY <1>1, Invariance, PTL

LEMMA KeysMove ==
  ASSUME IInv, [FrontNext]_frontVars
  PROVE  MenuMove /\ TextMove /\ PageFollows
<1>1. Lx /\ MenuInv /\ TextInv /\ GuiInv
  BY DEF IInv, DialogsInv
<1>2. TextBoxDialog \/ UNCHANGED answer \/ dialog # "textbox"
  BY DEF FrontNext, frontVars, DialogNext, MenuDialog, CheckListDialog, InputBoxDialog, YesNoDialog,
         dialogsOnly, dialogVars, lxVars
<1>3. dialog # "textbox" => ~TextShown
  BY <1>1 DEF TextInv, TextShown
<1>4. TextMove
  BY <1>1, <1>2, <1>3, TextMoves DEF TextMove
<1>5. QED
  BY <1>1, <1>4, MovesReach, PagesFollow

(* The arrow keys reach every item and scroll a text by one line, the      *)
(* letters go round all items that they stand for, the pages leave out no  *)
(* line.                                                                   *)
THEOREM KeysAreRight == FrontSpec => KeysRight
<1>1. FrontSpec => [][FrontNext]_frontVars
  BY PTL DEF FrontSpec, frontVars
<1>2. IInv /\ [FrontNext]_frontVars => MenuMove /\ TextMove /\ PageFollows
  BY KeysMove
<1>3. FrontSpec => ReachesAll
  BY <1>1, <1>2, Invariance, PTL DEF ReachesAll
<1>4. FrontSpec => ScrollsByOne
  BY <1>1, <1>2, Invariance, PTL DEF ScrollsByOne
<1>5. FrontSpec => PagesMissNone
  BY <1>1, <1>2, Invariance, PTL DEF PagesMissNone
<1>6. QED
  BY <1>3, <1>4, <1>5 DEF KeysRight

(* Menuconfig brings a menu back with the highlight on the item that the   *)
(* dialogs in between were about (conf() and the functions it calls).      *)
THEOREM PlacesKept == FrontSpec => []KeepsPlace
<1>1. IInv => KeepsPlace
  BY DEF IInv, StackRight, Leads, KeepsPlace
<1>2. QED
  BY <1>1, Invariance, PTL
-----------------------------------------------------------------------------
(* Lists of entries, one behind the other                                  *)

InSeq(s) == {s[k] : k \in DOMAIN s}

LEMMA ConcatHas ==
  ASSUME NEW R, NEW s \in Seq(R), NEW t \in Seq(R)
  PROVE  s \o t \in Seq(R) /\ InSeq(s \o t) = InSeq(s) \cup InSeq(t)
<1>1. /\ s \o t \in Seq(R) /\ Len(s \o t) = Len(s) + Len(t)
      /\ \A i \in 1..(Len(s) + Len(t)) :
           (s \o t)[i] = IF i <= Len(s) THEN s[i] ELSE t[i - Len(s)]
  BY ConcatProperties
<1>2. /\ Len(s) \in Nat /\ Len(t) \in Nat /\ DOMAIN s = 1..Len(s) /\ DOMAIN t = 1..Len(t)
      /\ DOMAIN (s \o t) = 1..(Len(s) + Len(t))
  BY <1>1, LenProperties
<1> DEFINE u == s \o t
<1> HIDE DEF u
<1>3. ASSUME NEW k \in 1..(Len(s) + Len(t))
      PROVE  u[k] \in InSeq(s) \cup InSeq(t)
  <2>1. CASE k <= Len(s)
    <3>1. k \in DOMAIN s /\ u[k] = s[k]
      BY <1>1, <1>2, <2>1 DEF u
    <3>2. QED
      BY <3>1 DEF InSeq
  <2>2. CASE ~(k <= Len(s))
    <3>1. k - Len(s) \in DOMAIN t /\ u[k] = t[k - Len(s)]
      BY <1>1, <1>2, <2>2 DEF u
    <3>2. QED
      BY <3>1 DEF InSeq
  <2>3. QED
    BY <2>1, <2>2
<1>4. ASSUME NEW k \in 1..Len(s)
      PROVE  s[k] \in InSeq(u)
  <2>1. k \in 1..(Len(s) + Len(t)) /\ k <= Len(s)
    BY <1>2
  <2>2. u[k] = s[k] /\ k \in DOMAIN u
    BY <1>1, <1>2, <2>1 DEF u
  <2>3. QED
    BY <2>2 DEF InSeq
<1>5. ASSUME NEW k \in 1..Len(t)
      PROVE  t[k] \in InSeq(u)
  <2>1. k + Len(s) \in 1..(Len(s) + Len(t)) /\ ~(k + Len(s) <= Len(s)) /\ k + Len(s) - Len(s) = k
    BY <1>2
  <2>2. u[k + Len(s)] = t[k] /\ k + Len(s) \in DOMAIN u
    BY <1>1, <1>2, <2>1 DEF u
  <2>3. QED
    BY <2>2 DEF InSeq
<1>6. InSeq(u) \subseteq InSeq(s) \cup InSeq(t)
  BY <1>2, <1>3 DEF InSeq, u
<1>7. InSeq(s) \subseteq InSeq(u) /\ InSeq(t) \subseteq InSeq(u)
  BY <1>2, <1>4, <1>5 DEF InSeq
<1>8. QED
  BY <1>1, <1>6, <1>7 DEF u

IsFlat(w, lists) ==
  w = [i \in 1..Len(lists) |-> IF i = 1 THEN lists[i] ELSE w[i - 1] \o lists[i]]

LEMMA FlatExists ==
  ASSUME NEW R, NEW lists \in Seq(Seq(R))
  PROVE  \E w : IsFlat(w, lists)
<1> DEFINE N == Len(lists)
           F == [x \in (1..N) \X Seq(R) |-> x[2] \o lists[x[1]]]
<1>1. N \in Nat /\ \A n \in 1..N : lists[n] \in Seq(R)
  BY LenProperties, ElementOfSeq
<1>2. \A n \in 1..N, s \in Seq(R) : s \o lists[n] \in Seq(R)
  BY <1>1, ConcatHas
<1>3. F \in [(1..N) \X Seq(R) -> Seq(R)]
  BY <1>2
<1>4. \A n \in 1..N, s \in Seq(R) : F[<<n, s>>] = s \o lists[n]
  OBVIOUS
<1>5. <<>> \in Seq(R)
  OBVIOUS
<1> HIDE DEF F
<1>6. PICK w \in [0..N -> Seq(R)] : IsSteps(w, <<>>, F, N)
  BY <1>1, <1>3, <1>5, StepByStep
<1>7. \A n \in 0..N : w[n] = IF n = 0 THEN <<>> ELSE F[<<n, w[n - 1]>>]
  BY <1>6 DEF IsSteps
<1> DEFINE v == [i \in 1..N |-> w[i]]
<1>8. ASSUME NEW i \in 1..N
      PROVE  v[i] = IF i = 1 THEN lists[i] ELSE v[i - 1] \o lists[i]
  <2>1. i \in 0..N /\ i # 0 /\ i - 1 \in 0..N
    BY <1>1
  <2>2. w[i - 1] \in Seq(R) /\ lists[i] \in Seq(R)
    BY <1>1, <2>1
  <2>3. v[i] = w[i - 1] \o lists[i]
    BY <1>4, <1>7, <2>1, <2>2
  <2>4. CASE i = 1
    <3>1. 0 \in 0..N /\ i - 1 = 0
      BY <1>1, <2>4
    <3>2. w[i - 1] = <<>>
      BY <1>7, <3>1
    <3>3. <<>> \o lists[i] = lists[i]
      BY <2>2, ConcatEmptySeq
    <3>4. QED
      BY <2>3, <2>4, <3>2, <3>3
  <2>5. CASE i # 1
    <3>1. i - 1 \in 1..N
      BY <1>1, <2>5
    <3>2. v[i - 1] = w[i - 1]
      BY <3>1
    <3>3. QED
      BY <2>3, <2>5, <3>2
  <2>6. QED
    BY <2>4, <2>5
<1> HIDE DEF v
<1>9. v = [i \in 1..N |-> v[i]]
  BY DEF v
<1>10. IsFlat(v, lists)
  BY <1>8, <1>9 DEF IsFlat
<1>11. QED
  BY <1>10

(* What is joined has the entries of every list, and no others.            *)
LEMMA FlattenHas ==
  ASSUME NEW R, NEW lists \in Seq(Seq(R))
  PROVE  /\ FlattenSeq(lists) \in Seq(R)
         /\ \A i \in 1..Len(lists) : InSeq(lists[i]) \subseteq InSeq(FlattenSeq(lists))
<1> DEFINE w == CHOOSE u : IsFlat(u, lists)
           N == Len(lists)
<1>1. IsFlat(w, lists)
  BY FlatExists
<1>2. N # 0 => FlattenSeq(lists) = w[N]
  BY DEF FlattenSeq, IsFlat
<1>3. N = 0 => FlattenSeq(lists) = lists
  BY DEF FlattenSeq
<1> HIDE DEF w
<1>4. N \in Nat /\ \A n \in 1..N : lists[n] \in Seq(R)
  BY LenProperties, ElementOfSeq
<1>5. \A i \in 1..N : w[i] = IF i = 1 THEN lists[i] ELSE w[i - 1] \o lists[i]
  BY <1>1 DEF IsFlat
<1> DEFINE S == {n \in Nat : n \in 1..N => /\ w[n] \in Seq(R)
                                           /\ \A i \in 1..n : InSeq(lists[i]) \subseteq InSeq(w[n])}
<1>6. 0 \in S
  OBVIOUS
<1>7. ASSUME NEW n \in Nat, n \in S
      PROVE  n + 1 \in S
  <2>1. SUFFICES ASSUME n + 1 \in 1..N
                 PROVE  /\ w[n + 1] \in Seq(R)
                        /\ \A i \in 1..(n + 1) : InSeq(lists[i]) \subseteq InSeq(w[n + 1])
    OBVIOUS
  <2>2. PICK k \in 1..N : k = n + 1
    BY <2>1
  <2>3. lists[k] \in Seq(R)
    BY <1>4
  <2>4. CASE n = 0
    <3>1. k = 1 /\ w[k] = lists[k]
      BY <1>5, <2>2, <2>4
    <3>2. \A i \in 1..(n + 1) : i = k
      BY <2>2, <2>4
    <3>3. QED
      BY <2>2, <2>3, <3>1, <3>2
  <2>5. CASE n # 0
    <3>1. n \in 1..N /\ k - 1 = n /\ k # 1
      BY <1>4, <2>2, <2>5
    <3>2. w[n] \in Seq(R) /\ \A i \in 1..n : InSeq(lists[i]) \subseteq InSeq(w[n])
      BY <1>7, <3>1
    <3>3. w[k] = w[n] \o lists[k]
      BY <1>5, <3>1
    <3>4. w[k] \in Seq(R) /\ InSeq(w[k]) = InSeq(w[n]) \cup InSeq(lists[k])
      BY <2>3, <3>2, <3>3, ConcatHas
    <3>5. \A i \in 1..(n + 1) : i \in 1..n \/ i = k
      BY <2>2
    <3>6. QED
      BY <2>2, <3>2, <3>4, <3>5
  <2>6. QED
    BY <2>4, <2>5
<1> HIDE DEF S
<1>8. N \in S
  BY <1>4, <1>6, <1>7, AllNaturals
<1>9. CASE N = 0
  <2>1. lists = <<>> /\ <<>> \in Seq(R)
    BY <1>9, EmptySeq
  <2>2. \A i \in 1..N : FALSE
    BY <1>9
  <2>3. FlattenSeq(lists) \in Seq(R)
    BY <1>3, <1>9, <2>1
  <2>4. QED
    BY <2>2, <2>3
<1>10. CASE N # 0
  <2>1. N \in 1..N
    BY <1>4, <1>10
  <2>2. QED
    BY <1>2, <1>8, <1>10, <2>1 DEF S
<1>11. QED
  BY <1>9, <1>10
-----------------------------------------------------------------------------
(* The items of a menu                                                     *)

Row == [data : Names, tag : {"m", "t", ":", "s"}]

LEMMA AnIs ==
  ASSUME NEW m \in Names, NEW tag \in {"m", "t", ":", "s"}
  PROVE  An(m, tag) \in Seq(Row) /\ InSeq(An(m, tag)) = {[data |-> m, tag |-> tag]}
<1> DEFINE r == [data |-> m, tag |-> tag]
<1>1. r \in Row
  BY DEF Row
<1> HIDE DEF r
<1>2. <<r>> \in Seq(Row) /\ DOMAIN <<r>> = {1} /\ <<r>>[1] = r
  BY <1>1
<1>3. InSeq(<<r>>) = {r}
  BY <1>2 DEF InSeq
<1>4. QED
  BY <1>2, <1>3 DEF An, r

LEMMA AnWith ==
  ASSUME NEW m \in Names, NEW tag \in {"m", "t", ":", "s"}, NEW below \in Seq(Row)
  PROVE  /\ An(m, tag) \o below \in Seq(Row)
         /\ [data |-> m, tag |-> tag] \in InSeq(An(m, tag) \o below)
         /\ InSeq(below) \subseteq InSeq(An(m, tag) \o below)
BY AnIs, ConcatHas

LEMMA EntriesAre ==
  ASSUME NEW m \in Names
  PROVE  /\ Kind(m) \in Kinds /\ Menu[m].list \in Seq(Names)
         /\ Children(m) \subseteq Names /\ m \notin Children(m)
<1>1. Kind(m) \in Kinds /\ Menu[m].list \in Seq(Names)
  BY EntriesAssumption
<1>2. Children(m) \subseteq Names
  BY <1>1 DEF Children
<1>3. m \notin Children(m)
  <2>1. {m} \in SUBSET Names /\ {m} # {}
    OBVIOUS
  <2>2. \E n \in {m} : Children(n) \cap {m} = {}
    BY <2>1, TreeAssumption
  <2>3. QED
    BY <2>2
<1>4. QED
  BY <1>1, <1>2, <1>3

(* The items of a menu have what is below it; those of an entry have it.   *)
LEMMA BuildIs ==
  ASSUME NEW current, NEW m \in Names, NEW below \in Seq(Row), NEW chosen \in Seq(Row)
  PROVE  /\ build_conf(current, m, below, chosen) \in Seq(Row)
         /\ Shown(m) /\ m # current =>
              \E r \in InSeq(build_conf(current, m, below, chosen)) : r.data = m
         /\ Shown(m) /\ m = current /\ Kind(m) # "choice" =>
              InSeq(below) \subseteq InSeq(build_conf(current, m, below, chosen))
<1> DEFINE own == HasSymbol(m) /\ Kind(m) # "choice" /\ m = current
           built == build_conf(current, m, below, chosen)
<1>0. <<>> \in Seq(Row)
  OBVIOUS
<1>1. Kind(m) \in Kinds
  BY EntriesAre
<1>2. ASSUME NEW tag \in {"m", "t", ":", "s"}
      PROVE  /\ An(m, tag) \in Seq(Row) /\ An(m, tag) \o below \in Seq(Row)
             /\ \E r \in InSeq(An(m, tag)) : r.data = m
             /\ \E r \in InSeq(An(m, tag) \o below) : r.data = m
             /\ InSeq(below) \subseteq InSeq(An(m, tag) \o below)
  <2>1. [data |-> m, tag |-> tag].data = m
    OBVIOUS
  <2>2. [data |-> m, tag |-> tag] \in InSeq(An(m, tag)) /\ An(m, tag) \in Seq(Row)
    BY AnIs, Zenon
  <2>3. /\ An(m, tag) \o below \in Seq(Row)
        /\ [data |-> m, tag |-> tag] \in InSeq(An(m, tag) \o below)
        /\ InSeq(below) \subseteq InSeq(An(m, tag) \o below)
    BY AnWith, Zenon
  <2>4. QED
    BY <2>1, <2>2, <2>3, Zenon
<1>3. CASE ~Shown(m)
  <2>1. built = <<>>
    BY <1>3 DEF build_conf
  <2>2. QED
    BY <1>0, <1>3, <2>1
<1>4. CASE Shown(m) /\ Kind(m) = "menu"
  <2>1. CASE m = current
    <3>1. built = below
      BY <1>4, <2>1 DEF build_conf, HasSymbol
    <3>2. QED
      BY <2>1, <3>1
  <2>2. CASE m # current
    <3>1. built = An(m, "m") \o (IF m \in data THEN below ELSE <<>>)
      BY <1>4, <2>2 DEF build_conf, HasSymbol
    <3>2. An(m, "m") \o <<>> = An(m, "m")
      BY <1>2, ConcatEmptySeq
    <3>3. QED
      BY <1>2, <2>2, <3>1, <3>2
  <2>3. QED
    BY <2>1, <2>2
<1>5. CASE Shown(m) /\ Kind(m) = "choice"
  <2>1. built = IF Visible(m) THEN An(m, "t") \o chosen ELSE An(m, ":") \o below
    BY <1>5 DEF build_conf, HasSymbol
  <2>2. An(m, "t") \o chosen \in Seq(Row) /\ [data |-> m, tag |-> "t"] \in InSeq(An(m, "t") \o chosen)
    BY AnWith, Zenon
  <2>3. \E r \in InSeq(An(m, "t") \o chosen) : r.data = m
    BY <2>2
  <2>4. QED
    BY <1>2, <1>5, <2>1, <2>2, <2>3
<1>6. CASE Shown(m) /\ Kind(m) \notin {"menu", "choice"} /\ (own \/ Kind(m) = "comment")
  <2>1. built = An(m, ":") \o below
    BY <1>6 DEF build_conf, HasSymbol
  <2>2. QED
    BY <1>2, <2>1
<1>7. CASE Shown(m) /\ ~own /\ Kind(m) = "menuconfig"
  <2>1. built = An(m, "t")
    BY <1>7 DEF build_conf, HasSymbol
  <2>2. m # current
    BY <1>7 DEF HasSymbol
  <2>3. QED
    BY <1>2, <2>1, <2>2
<1>8. CASE Shown(m) /\ ~own /\ Kind(m) = "string"
  <2>1. built = An(m, "s") \o below
    BY <1>8 DEF build_conf, HasSymbol
  <2>2. QED
    BY <1>2, <2>1
<1>9. CASE Shown(m) /\ ~own /\ Kind(m) \in {"bool", "tristate", "member"}
  <2>1. built = An(m, "t") \o below \/ built = An(m, ":") \o below
    BY <1>9 DEF build_conf, HasSymbol
  <2>2. QED
    BY <1>2, <2>1
<1>10. QED
  BY <1>1, <1>3, <1>4, <1>5, <1>6, <1>7, <1>8, <1>9 DEF Kinds

LEMMA ForAllIs ==
  ASSUME NEW m \in Names, NEW f
  PROVE  /\ \A T : (\A c \in Children(m) : f[c] \in T) => ForAll(Menu[m].list, f) \in Seq(T)
         /\ \A c \in Children(m) : \E i \in 1..Len(ForAll(Menu[m].list, f)) : ForAll(Menu[m].list, f)[i] = f[c]
         /\ \A g : (\A c \in Children(m) : f[c] = g[c]) => ForAll(Menu[m].list, f) = ForAll(Menu[m].list, g)
<1> DEFINE s == Menu[m].list
           t == ForAll(s, f)
<1>1. s \in Seq(Names) /\ Len(s) \in Nat /\ DOMAIN s = 1..Len(s)
  BY EntriesAre, LenProperties
<1>2. Children(m) = {s[i] : i \in 1..Len(s)}
  BY <1>1 DEF Children
<1> HIDE DEF s
<1>3. t = [i \in 1..Len(s) |-> f[s[i]]]
  BY <1>1 DEF ForAll
<1> HIDE DEF t
<1>4. ASSUME NEW T, \A c \in Children(m) : f[c] \in T
      PROVE  t \in Seq(T) /\ Len(t) = Len(s)
  <2>1. t \in [1..Len(s) -> T]
    BY <1>2, <1>3, <1>4
  <2>2. PICK n \in Nat : n = Len(s)
    BY <1>1
  <2>3. t \in [1..n -> T]
    BY <2>1, <2>2
  <2>4. t \in Seq(T) /\ Len(t) = n
    BY <2>3, SeqDef
  <2>5. QED
    BY <2>2, <2>4
<1>5. Len(t) = Len(s)
  <2>1. \A c \in Children(m) : f[c] \in {f[d] : d \in Children(m)}
    OBVIOUS
  <2>2. QED
    BY <1>4, <2>1
<1>6. \A c \in Children(m) : \E i \in 1..Len(t) : t[i] = f[c]
  BY <1>2, <1>3, <1>5
<1>7. ASSUME NEW g, \A c \in Children(m) : f[c] = g[c]
      PROVE  t = ForAll(s, g)
  <2>1. ForAll(s, g) = [i \in 1..Len(s) |-> g[s[i]]]
    BY <1>1 DEF ForAll
  <2>2. \A i \in 1..Len(s) : f[s[i]] = g[s[i]]
    BY <1>2, <1>7
  <2>3. QED
    BY <1>3, <2>1, <2>2
<1>8. QED
  BY <1>4, <1>6, <1>7 DEF s, t

(* What build_conf() makes of a menu from what it has made of its entries. *)
Built(current, f, m) == build_conf(current, m, Below(m, f), Chosen(m, f))

LEMMA PartsTyped ==
  ASSUME NEW m \in Names, NEW f, \A c \in Children(m) : f[c] \in Seq(Row)
  PROVE  Below(m, f) \in Seq(Row) /\ Chosen(m, f) \in Seq(Row)
<1> DEFINE g == [c \in Names |-> IF IsChosen(c) THEN f[c] ELSE <<>>]
<1>1. ForAll(Menu[m].list, f) \in Seq(Seq(Row))
  BY ForAllIs
<1>2. \A c \in Children(m) : g[c] \in Seq(Row)
  <2>1. Children(m) \subseteq Names /\ <<>> \in Seq(Row)
    BY EntriesAre
  <2>2. QED
    BY <2>1
<1>3. Chosen(m, f) = FlattenSeq(ForAll(Menu[m].list, g))
  BY DEF Chosen
<1> HIDE DEF g
<1>4. ForAll(Menu[m].list, g) \in Seq(Seq(Row))
  BY <1>2, ForAllIs
<1>5. QED
  BY <1>1, <1>3, <1>4, FlattenHas DEF Below

LEMMA PartsSame ==
  ASSUME NEW m \in Names, NEW f, NEW g, \A c \in Children(m) : f[c] = g[c]
  PROVE  Below(m, f) = Below(m, g) /\ Chosen(m, f) = Chosen(m, g)
<1> DEFINE s == [c \in Names |-> IF IsChosen(c) THEN f[c] ELSE <<>>]
           t == [c \in Names |-> IF IsChosen(c) THEN g[c] ELSE <<>>]
<1>1. Below(m, f) = Below(m, g)
  BY ForAllIs DEF Below
<1>2. \A c \in Children(m) : s[c] = t[c]
  BY EntriesAre
<1>3. Chosen(m, f) = FlattenSeq(ForAll(Menu[m].list, s)) /\ Chosen(m, g) = FlattenSeq(ForAll(Menu[m].list, t))
  BY DEF Chosen
<1> HIDE DEF s, t
<1>4. QED
  BY <1>1, <1>2, <1>3, ForAllIs

LEMMA BuiltTyped ==
  ASSUME NEW current, NEW m \in Names, NEW f, \A c \in Children(m) : f[c] \in Seq(Row)
  PROVE  Built(current, f, m) \in Seq(Row)
BY PartsTyped, BuildIs DEF Built

LEMMA BuiltSame ==
  ASSUME NEW current, NEW m \in Names, NEW f, NEW g, \A c \in Children(m) : f[c] = g[c]
  PROVE  Built(current, f, m) = Built(current, g, m)
BY PartsSame DEF Built

(* The menus whose items can be built: with all that is below them.        *)
Closed(D) == \A m \in D : Children(m) \subseteq D
BuildsIn(current, D, f) ==
  /\ D \subseteq Names /\ Closed(D)
  /\ \A m \in D : f[m] \in Seq(Row) /\ f[m] = Built(current, f, m)

LEMMA BuildsAgree ==
  ASSUME NEW current, NEW D, NEW f, BuildsIn(current, D, f), NEW E, NEW g, BuildsIn(current, E, g)
  PROVE  \A m \in D \cap E : f[m] = g[m]
<1> DEFINE S == {m \in D \cap E : f[m] # g[m]}
<1>1. S \subseteq Names
  BY DEF BuildsIn
<1>2. SUFFICES ASSUME S # {} PROVE FALSE
  OBVIOUS
<1>3. PICK m \in S : Children(m) \cap S = {}
  BY <1>1, <1>2, TreeAssumption
<1>4. \A c \in Children(m) : f[c] = g[c]
  BY <1>3 DEF BuildsIn, Closed
<1>5. f[m] = g[m]
  BY <1>1, <1>4, BuiltSame DEF BuildsIn
<1>6. QED
  BY <1>5

LEMMA BuildExists ==
  ASSUME NEW current
  PROVE  \E f : f = [m \in Names |-> Built(current, f, m)]
<1> DEFINE Has(m, f) == \E D : m \in D /\ BuildsIn(current, D, f)
           Good == {m \in Names : \E f : Has(m, f)}
           way == [m \in Names |-> CHOOSE f : Has(m, f)]
           all == [m \in Names |-> way[m][m]]
<1>1. ASSUME NEW m \in Good, NEW f, NEW D, m \in D, BuildsIn(current, D, f)
      PROVE  all[m] = f[m]
  <2>1. m \in Names /\ Has(m, way[m])
    OBVIOUS
  <2>2. PICK E : m \in E /\ BuildsIn(current, E, way[m])
    BY <2>1
  <2>3. way[m][m] = f[m]
    BY <1>1, <2>2, BuildsAgree
  <2>4. QED
    BY <2>1, <2>3
<1>2. ASSUME NEW m \in Good
      PROVE  Children(m) \subseteq Good /\ all[m] \in Seq(Row) /\ all[m] = Built(current, all, m)
  <2>1. PICK f, D : m \in D /\ BuildsIn(current, D, f)
    BY <1>2
  <2>2. Children(m) \subseteq D /\ D \subseteq Names
    BY <2>1 DEF BuildsIn, Closed
  <2>3. Children(m) \subseteq Good
    BY <2>1, <2>2
  <2>4. all[m] = f[m] /\ \A c \in Children(m) : all[c] = f[c]
    BY <1>1, <2>1, <2>2, <2>3
  <2> HIDE DEF all, Good
  <2>5. m \in Names /\ f[m] \in Seq(Row) /\ f[m] = Built(current, f, m)
    BY <2>1, <2>2 DEF BuildsIn
  <2>6. Built(current, all, m) = Built(current, f, m)
    BY <2>4, <2>5, BuiltSame
  <2>7. QED
    BY <2>3, <2>4, <2>5, <2>6
<1>3. Good \subseteq Names /\ all = [m \in Names |-> all[m]]
  OBVIOUS
<1>4. ASSUME NEW m \in Names, NEW f, NEW D, m \in D, BuildsIn(current, D, f)
      PROVE  m \in Good
  BY <1>4
<1> HIDE DEF Good, all
<1>5. Good = Names
  <2>1. SUFFICES ASSUME Names \ Good # {} PROVE FALSE
    BY <1>3
  <2>2. PICK m \in Names \ Good : Children(m) \cap (Names \ Good) = {}
    BY <2>1, TreeAssumption
  <2>3. Children(m) \subseteq Good /\ m \notin Children(m)
    BY <2>2, EntriesAre
  <2> DEFINE g == [n \in Names |-> IF n = m THEN Built(current, all, m) ELSE all[n]]
             D == Good \cup {m}
  <2>4. g[m] = Built(current, all, m) /\ \A n \in Good : g[n] = all[n]
    BY <1>3, <2>2
  <2> HIDE DEF g
  <2>5. \A n \in D : \A c \in Children(n) : g[c] = all[c] /\ c \in Good
    BY <1>2, <2>3, <2>4
  <2>6. \A n \in D : Built(current, g, n) = Built(current, all, n)
    BY <1>3, <2>5, BuiltSame
  <2>7. g[m] \in Seq(Row)
    BY <1>2, <2>3, <2>4, BuiltTyped
  <2>8. BuildsIn(current, D, g)
    <3>1. D \subseteq Names /\ Closed(D)
      BY <1>3, <2>5 DEF Closed
    <3>2. ASSUME NEW n \in D
          PROVE  g[n] \in Seq(Row) /\ g[n] = Built(current, g, n)
      <4>1. CASE n = m
        BY <2>4, <2>6, <2>7, <4>1
      <4>2. CASE n \in Good
        BY <1>2, <2>4, <2>6, <4>2
      <4>3. QED
        BY <4>1, <4>2
    <3>3. QED
      BY <3>1, <3>2 DEF BuildsIn
  <2>9. QED
    BY <1>4, <2>2, <2>8
<1>6. all = [m \in Names |-> Built(current, all, m)]
  BY <1>2, <1>3, <1>5
<1>7. QED
  BY <1>6

(* The items of a menu are rows, and have every entry in it that is shown. *)
LEMMA ItemsAre ==
  ASSUME NEW current \in Names
  PROVE  /\ Items(current) \in Seq(Row)
         /\ Shown(current) /\ Kind(current) # "choice" =>
              \A m \in Children(current) : Shown(m) => \E r \in InSeq(Items(current)) : r.data = m
<1> DEFINE f == CHOOSE g : g = [m \in Names |-> Built(current, g, m)]
<1>1. f = [m \in Names |-> Built(current, f, m)]
  BY BuildExists
<1>2. Items(current) = f[current]
  BY DEF Items, Built
<1> HIDE DEF f
<1>3. \A m \in Names : f[m] = Built(current, f, m)
  BY <1>1
<1>4. \A m \in Names : f[m] \in Seq(Row)
  <2> DEFINE S == {m \in Names : f[m] \notin Seq(Row)}
  <2>1. SUFFICES ASSUME S # {} PROVE FALSE
    OBVIOUS
  <2>2. PICK m \in S : Children(m) \cap S = {}
    BY <2>1, TreeAssumption
  <2>3. \A c \in Children(m) : f[c] \in Seq(Row)
    BY <2>2, EntriesAre
  <2>4. QED
    BY <1>3, <2>2, <2>3, BuiltTyped
<1>5. ASSUME NEW m \in Children(current), Shown(m), Shown(current), Kind(current) # "choice"
      PROVE  \E r \in InSeq(f[current]) : r.data = m
  <2> DEFINE lists == ForAll(Menu[current].list, f)
  <2>1. m \in Names /\ m # current
    BY EntriesAre
  <2>2. \A n \in Names : \A c \in Children(n) : f[c] \in Seq(Row)
    BY <1>4, EntriesAre
  <2>3. lists \in Seq(Seq(Row))
    BY <2>2, ForAllIs
  <2>4. PICK i \in 1..Len(lists) : lists[i] = f[m]
    BY ForAllIs
  <2>04. Below(current, f) = FlattenSeq(lists)
    BY DEF Below
  <2> HIDE DEF lists
  <2>5. InSeq(f[m]) \subseteq InSeq(Below(current, f))
    BY <2>04, <2>3, <2>4, FlattenHas
  <2>6. /\ f[m] = build_conf(current, m, Below(m, f), Chosen(m, f))
        /\ f[current] = build_conf(current, current, Below(current, f), Chosen(current, f))
    BY <1>3, <2>1 DEF Built
  <2>07. /\ Below(m, f) \in Seq(Row) /\ Chosen(m, f) \in Seq(Row)
         /\ Below(current, f) \in Seq(Row) /\ Chosen(current, f) \in Seq(Row)
    BY <2>1, <2>2, PartsTyped
  <2>7. \E r \in InSeq(f[m]) : r.data = m
    BY <1>5, <2>1, <2>07, <2>6, BuildIs
  <2>8. InSeq(Below(current, f)) \subseteq InSeq(f[current])
    BY <1>5, <2>07, <2>6, BuildIs
  <2>9. QED
    BY <2>5, <2>7, <2>8
<1>6. QED
  BY <1>2, <1>4, <1>5

(* The same of a choice in nconfig.                                        *)
LEMMA MembersAre ==
  ASSUME NEW m \in Names
  PROVE  /\ Members(m) \in Seq(Row)
         /\ \A i \in DOMAIN Members(m) : Members(m)[i].data \in Children(m)
         /\ \A c \in Children(m) : Shown(c) => \E r \in InSeq(Members(m)) : r.data = c
<1> DEFINE f == [c \in Names |-> IF Shown(c) THEN An(c, ":") ELSE <<>>]
           T == {r \in Row : r.data \in Children(m)}
           lists == ForAll(Menu[m].list, f)
<1>1. Members(m) = FlattenSeq(lists)
  BY DEF Members
<1>2. ASSUME NEW c \in Children(m)
      PROVE  f[c] \in Seq(T) /\ (Shown(c) => \E r \in InSeq(f[c]) : r.data = c)
  <2> DEFINE r == [data |-> c, tag |-> ":"]
  <2>1. c \in Names
    BY EntriesAre
  <2>2. r \in T /\ r.data = c
    BY <2>1 DEF Row
  <2>3. f[c] = IF Shown(c) THEN An(c, ":") ELSE <<>>
    BY <2>1
  <2>4. An(c, ":") = <<r>>
    BY DEF An
  <2>5. InSeq(An(c, ":")) = {r}
    BY <2>1, AnIs
  <2> HIDE DEF r, T, f
  <2>6. <<r>> \in Seq(T) /\ <<>> \in Seq(T)
    BY <2>2
  <2>7. QED
    BY <2>2, <2>3, <2>4, <2>5, <2>6
<1> HIDE DEF f
<1>3. lists \in Seq(Seq(T))
  BY <1>2, ForAllIs
<1>4. ASSUME NEW c \in Children(m)
      PROVE  \E i \in 1..Len(lists) : lists[i] = f[c]
  BY ForAllIs
<1> HIDE DEF lists
<1>5. FlattenSeq(lists) \in Seq(T) /\ \A i \in 1..Len(lists) : InSeq(lists[i]) \subseteq InSeq(FlattenSeq(lists))
  BY <1>3, FlattenHas
<1>6. Members(m) \in Seq(T)
  BY <1>1, <1>5
<1>7. Members(m) \in Seq(Row)
  BY <1>6, SeqMonotonic
<1>8. ASSUME NEW i \in DOMAIN Members(m)
      PROVE  Members(m)[i].data \in Children(m)
  BY <1>6, <1>8, LenProperties, ElementOfSeq
<1>9. ASSUME NEW c \in Children(m), Shown(c)
      PROVE  \E r \in InSeq(Members(m)) : r.data = c
  BY <1>1, <1>2, <1>4, <1>5, <1>9
<1>10. QED
  BY <1>7, <1>8, <1>9
-----------------------------------------------------------------------------
(* Where a search of menuconfig jumps to                                   *)

LEMMA MinIs ==
  ASSUME NEW S \in SUBSET Nat, S # {}
  PROVE  Min(S) \in S /\ \A i \in S : Min(S) <= i
BY LeastNatural DEF Min

LEMMA ParentIs ==
  ASSUME NEW m \in Names, m # Root
  PROVE  Parent(m) \in Names /\ m \in Children(Parent(m))
BY TreeAssumption DEF Parent

IsUp(up, m) == up = [n \in 0..MAX_LOCATIONS |-> IF n = 0 THEN m ELSE Outer(up[n - 1])]

LEMMA OuterIs ==
  ASSUME NEW m \in Names
  PROVE  Outer(m) \in Names /\ Outer(Root) = Root
BY EntriesAssumption, ParentIs DEF Outer

LEMMA UpExists ==
  ASSUME NEW m \in Names
  PROVE  \E up \in [0..MAX_LOCATIONS -> Names] : IsUp(up, m)
<1> DEFINE N == MAX_LOCATIONS
           F == [x \in (1..N) \X Names |-> Outer(x[2])]
<1>1. N \in Nat
  BY DEF MAX_LOCATIONS
<1>2. F \in [(1..N) \X Names -> Names]
  BY OuterIs
<1>3. \A n \in 1..N, p \in Names : F[<<n, p>>] = Outer(p)
  OBVIOUS
<1> HIDE DEF F
<1>4. PICK up \in [0..N -> Names] : IsSteps(up, m, F, N)
  BY <1>1, <1>2, StepByStep
<1>5. \A n \in 0..N : up[n] = IF n = 0 THEN m ELSE F[<<n, up[n - 1]>>]
  BY <1>4 DEF IsSteps
<1>6. ASSUME NEW n \in 0..N, n # 0
      PROVE  up[n] = Outer(up[n - 1])
  <2>1. n \in 1..N /\ n - 1 \in 0..N
    BY <1>1, <1>6
  <2>2. up[n - 1] \in Names /\ up[n] = F[<<n, up[n - 1]>>]
    BY <1>5, <1>6, <2>1
  <2>3. QED
    BY <1>3, <2>1, <2>2
<1>7. up[0] = m
  <2>1. 0 \in 0..N
    BY <1>1
  <2>2. QED
    BY <1>5, <2>1
<1>8. up = [n \in 0..N |-> up[n]]
  OBVIOUS
<1>9. IsUp(up, m)
  BY <1>6, <1>7, <1>8 DEF IsUp
<1>10. QED
  BY <1>9

LEMMA AroundIs ==
  ASSUME NEW m \in Names
  PROVE  \A n \in 1..MAX_LOCATIONS : Around[m][n] \in Names
<1> DEFINE up == CHOOSE w : IsUp(w, m)
           N == MAX_LOCATIONS
<1>1. IsUp(up, m)
  BY UpExists
<1>2. Around[m] = up
  <2>1. Outwards(m) = up
    BY DEF Outwards, IsUp
  <2>2. QED
    BY <2>1 DEF Around
<1> HIDE DEF up
<1>3. N \in Nat
  BY DEF MAX_LOCATIONS
<1>4. /\ up[0] = m
      /\ \A n \in 0..N : n # 0 => up[n] = Outer(up[n - 1])
  BY <1>1, <1>3 DEF IsUp
<1> DEFINE S == {n \in Nat : n <= N => up[n] \in Names}
<1>5. 0 \in S
  BY <1>4
<1>6. ASSUME NEW n \in Nat, n \in S
      PROVE  n + 1 \in S
  <2>1. SUFFICES ASSUME n + 1 <= N
                 PROVE  up[n + 1] \in Names
    OBVIOUS
  <2>2. PICK k \in 0..N : k = n + 1 /\ k # 0 /\ k - 1 = n /\ n <= N
    BY <1>3, <2>1
  <2>3. up[k] = Outer(up[n])
    BY <1>4, <2>2
  <2>4. up[n] \in Names
    BY <1>6, <2>2
  <2>5. QED
    BY <2>2, <2>3, <2>4, OuterIs
<1> HIDE DEF S
<1>7. Nat \subseteq S
  BY <1>5, <1>6, AllNaturals
<1>8. ASSUME NEW n \in 1..N
      PROVE  Around[m][n] \in Names
  <2>1. n \in S /\ n <= N
    BY <1>3, <1>7
  <2>2. QED
    BY <1>2, <2>1 DEF S
<1>9. QED
  BY <1>8

(* It jumps to something visible that is in a menu.                        *)
LEMMA TargetsAre ==
  ASSUME NEW m \in Targets
  PROVE  m \in Names /\ m # Root /\ Visible(m)
<1>1. PICK s \in Names : /\ Accessible(s) # {} /\ HasSymbol(s)
                         /\ m = IF Visible(s) THEN s ELSE Around[s][Min(Accessible(s))]
  BY DEF Targets
<1>2. s # Root
  BY <1>1, EntriesAssumption DEF HasSymbol
<1>3. CASE Visible(s)
  BY <1>1, <1>2, <1>3
<1>4. CASE ~Visible(s)
  <2>1. Accessible(s) \in SUBSET Nat
    BY DEF Accessible, MAX_LOCATIONS
  <2>2. Min(Accessible(s)) \in Accessible(s)
    BY <1>1, <2>1, MinIs
  <2>3. QED
    BY <1>1, <1>4, <2>2, AroundIs DEF Accessible
<1>5. QED
  BY <1>3, <1>4

(* It is listed in the menu that is opened for it.                         *)
LEMMA TargetsListed ==
  ASSUME NEW m \in Targets
  PROVE  Kind(Parent(m)) = "choice" \/ \E r \in InSeq(Items(Parent(m))) : r.data = m
<1>1. m \in Names /\ Parent(m) \in Names /\ m \in Children(Parent(m)) /\ Visible(m)
  BY TargetsAre, ParentIs
<1>2. Menu[Parent(m)].dep \subseteq Menu[m].dep
  BY <1>1, NestedAssumption
<1>3. Shown(Parent(m)) /\ Shown(m)
  BY <1>1, <1>2 DEF Visible, Shown
<1>4. QED
  BY <1>1, <1>3, ItemsAre

LEMMA JumpsRight ==
  ASSUME StackRight(stack)
  PROVE  \A m \in Targets :
           stack' = Append(stack, Frame("conf", Parent(m), m)) =>
             Listed(Last(stack')) \/ Kind(Parent(m)) = "choice"
<1> SUFFICES ASSUME NEW m \in Targets, stack' = Append(stack, Frame("conf", Parent(m), m)),
                    Kind(Parent(m)) # "choice"
             PROVE  Listed(Last(stack'))
  OBVIOUS
<1> DEFINE f == Frame("conf", Parent(m), m)
<1>1. IsList(stack) /\ Len(stack) \in Nat
  BY ListIs DEF StackRight
<1>2. Last(stack') = f
  BY <1>1, AppendIs DEF Last
<1>3. f.menu = Parent(m) /\ f.active = m
  BY DEF Frame
<1> HIDE DEF f
<1>4. PICK r \in InSeq(Items(Parent(m))) : r.data = m
  BY TargetsListed
<1>5. r \in ToSet(Items(Parent(m)))
  BY <1>4 DEF InSeq, ToSet
<1>6. QED
  BY <1>2, <1>3, <1>4, <1>5 DEF Listed
-----------------------------------------------------------------------------
(* The configuration has values that its symbols may have                  *)

Valued == value \in Configurations
Optioned == show_all_options \in BOOLEAN /\ data \subseteq Names /\ (data # {} => single_menu_mode)

LEMMA ValueOf ==
  ASSUME Valued, NEW m \in Names, Kind(m) = "choice"
  PROVE  value[m] \in Children(m)
<1>1. Menu[m].values # {} /\ Menu[m].values \subseteq Children(m)
  BY EntriesAssumption
<1>2. m \in Symbols
  BY <1>1 DEF Symbols
<1>3. QED
  BY <1>1, <1>2 DEF Valued, Configurations

LEMMA ValuePut ==
  ASSUME Valued, NEW m \in Names, NEW v \in Menu[m].values
  PROVE  [value EXCEPT ![m] = v] \in Configurations
<1>1. m \in Symbols
  BY DEF Symbols
<1> DEFINE V == UNION {Menu[n].values : n \in Symbols}
<1>2. v \in V
  BY <1>1
<1>3. value \in [Symbols -> V] /\ \A n \in Symbols : value[n] \in Menu[n].values
  BY DEF Valued, Configurations
<1> DEFINE u == [value EXCEPT ![m] = v]
<1>4. u \in [Symbols -> V] /\ \A n \in Symbols : u[n] = IF n = m THEN v ELSE value[n]
  BY <1>2, <1>3
<1>5. QED
  BY <1>3, <1>4 DEF Configurations

(* Setting a symbol, toggling one, and choosing a member of a choice.      *)
LEMMA ValueSet ==
  ASSUME Valued, NEW m \in Names, NEW v, MaySet(m, v), SetTristate(m, v)
  PROVE  Valued'
<1>1. CASE v = Now(m)
  BY <1>1 DEF SetTristate, Valued, Configurations, Symbols
<1>2. CASE v # Now(m) /\ Kind(m) \in {"bool", "menuconfig", "tristate"}
  <2>1. v \in Menu[m].values
    BY <1>2 DEF MaySet
  <2>2. value' = [value EXCEPT ![m] = v]
    BY <1>2 DEF SetTristate
  <2>3. QED
    BY <2>1, <2>2, ValuePut DEF Valued
<1>3. CASE v # Now(m) /\ Kind(m) = "member"
  <2>0. m # Root
    BY <1>3, EntriesAssumption
  <2>1. Parent(m) \in Names /\ m \in Children(Parent(m))
    BY <2>0, ParentIs
  <2>2. m \in Menu[Parent(m)].values
    BY <1>3, <2>1, EntriesAssumption
  <2>3. value' = [value EXCEPT ![Parent(m)] = m]
    BY <1>3 DEF SetTristate
  <2>4. QED
    BY <2>1, <2>2, <2>3, ValuePut DEF Valued
<1>4. QED
  BY <1>1, <1>2, <1>3 DEF MaySet

LEMMA MaySetThem ==
  /\ \A m : MaySet(m, Toggled(m))
  /\ \A m \in Names : Kind(m) = "choice" =>
       \A c \in Children(m) : HasSymbol(c) /\ Visible(c) => c \in Names /\ MaySet(c, "y")
<1>1. ASSUME NEW m
      PROVE  MaySet(m, Toggled(m))
  <2> DEFINE one == NextValue[Now(m)]
             two == NextValue[one]
  <2>1. MaySet(m, Now(m))
    BY DEF MaySet
  <2>2. CASE MaySet(m, one)
    BY <2>2 DEF Toggled
  <2>3. CASE ~MaySet(m, one) /\ MaySet(m, two)
    BY <2>3 DEF Toggled
  <2>4. CASE ~MaySet(m, one) /\ ~MaySet(m, two)
    BY <2>1, <2>4 DEF Toggled
  <2>5. QED
    BY <2>2, <2>3, <2>4
<1>2. ASSUME NEW m \in Names, Kind(m) = "choice", NEW c \in Children(m), HasSymbol(c), Visible(c)
      PROVE  c \in Names /\ MaySet(c, "y")
  <2>1. Kind(c) = "member"
    BY <1>2, EntriesAssumption
  <2>2. QED
    BY <1>2, <2>1, EntriesAre DEF MaySet
<1>3. QED
  BY <1>1, <1>2

(* What else happens to the configuration.                                 *)
LEMMA ValueKept ==
  ASSUME Valued, SameConf \/ SetString \/ Loaded \/ Saved \/ LoadRefused \/ UNCHANGED value
  PROVE  Valued'
<1>1. CASE Loaded
  BY <1>1 DEF Loaded, Valued, Configurations, Symbols
<1>2. CASE UNCHANGED value
  BY <1>2 DEF Valued, Configurations, Symbols
<1>3. QED
  BY <1>1, <1>2 DEF SameConf, confVars, SetString, Saved, LoadRefused

LEMMA TypesAre ==
  ASSUME Valued, Optioned, Honest
  PROVE  MenusTypeOK
BY DEF Valued, Optioned, Honest, MenusTypeOK
-----------------------------------------------------------------------------
(* The frames of menuconfig                                                *)

Bottom == {"conf", "exit", "interrupt"}
FrameOK(f) ==
  /\ f.menu \in Names \cup {Nil}
  /\ f.fn \in {"conf", "choice"} => f.menu \in Names
  /\ f.fn = "choice" => Kind(f.menu) = "choice"
StackOK(s) ==
  /\ IsList(s) /\ Len(s) <= Depth
  /\ \A i \in 1..Len(s) : FrameOK(s[i])
  /\ s # <<>> => s[1].fn \in Bottom

LEMMA OKPushed ==
  ASSUME NEW s, StackOK(s), NEW f, FrameOK(f), Len(s) + 1 <= Depth, s = <<>> => f.fn \in Bottom
  PROVE  StackOK(Append(s, f)) /\ Append(s, f) # <<>>
<1>1. IsList(s) /\ Len(s) \in Nat /\ (s # <<>> <=> Len(s) > 0)
  BY ListIs DEF StackOK
<1> DEFINE t == Append(s, f)
<1>2. IsList(t) /\ Len(t) = Len(s) + 1 /\ (\A i \in 1..Len(s) : t[i] = s[i]) /\ t[Len(s) + 1] = f
  BY <1>1, AppendIs
<1> HIDE DEF t
<1>3. t # <<>>
  BY <1>1, <1>2, ListIs
<1>4. \A i \in 1..Len(t) : i \in 1..Len(s) \/ i = Len(s) + 1
  BY <1>1, <1>2
<1>5. \A i \in 1..Len(t) : FrameOK(t[i])
  BY <1>2, <1>4 DEF StackOK
<1>6. t[1].fn \in Bottom
  <2>1. CASE s = <<>>
    <3>1. Len(s) + 1 = 1
      BY <1>1, <2>1
    <3>2. QED
      BY <1>2, <2>1, <3>1
  <2>2. CASE s # <<>>
    BY <1>1, <1>2, <2>2 DEF StackOK
  <2>3. QED
    BY <2>1, <2>2
<1>7. QED
  BY <1>2, <1>3, <1>5, <1>6 DEF StackOK, t

LEMMA OKPopped ==
  ASSUME NEW s, StackOK(s), s # <<>>
  PROVE  /\ StackOK(Front(s)) /\ Len(Front(s)) + 1 = Len(s)
         /\ Front(s) = <<>> <=> Len(s) = 1
         /\ Last(s).fn \notin Bottom => Front(s) # <<>>
         /\ FrameOK(Last(s))
<1>1. IsList(s) /\ Len(s) \in Nat \ {0} /\ Last(s) = s[Len(s)] /\ Depth \in Nat /\ Len(s) <= Depth
  BY ListIs, DepthAssumption DEF StackOK
<1> DEFINE t == Front(s)
<1>2. IsList(t) /\ Len(t) = Len(s) - 1 /\ \A i \in 1..(Len(s) - 1) : t[i] = s[i]
  BY <1>1, FrontIs
<1>3. t # <<>> <=> Len(t) > 0
  BY <1>2, ListIs
<1> HIDE DEF t
<1>4. \A i \in 1..Len(t) : FrameOK(t[i])
  BY <1>1, <1>2 DEF StackOK
<1>5. t # <<>> => t[1] = s[1]
  BY <1>1, <1>2, <1>3
<1>6. Len(t) <= Depth /\ Len(t) + 1 = Len(s)
  BY <1>1, <1>2
<1>7. StackOK(t)
  BY <1>2, <1>4, <1>5, <1>6 DEF StackOK
<1>8. t = <<>> <=> Len(s) = 1
  <2>1. PICK n \in Nat \ {0} : n = Len(s)
    BY <1>1
  <2>2. Len(t) > 0 <=> n # 1
    BY <1>2, <2>1
  <2>3. QED
    BY <1>3, <2>1, <2>2
<1>9. Last(s).fn \notin Bottom => t # <<>>
  BY <1>1, <1>8 DEF StackOK
<1>10. FrameOK(Last(s))
  BY <1>1 DEF StackOK
<1>11. QED
  BY <1>6, <1>7, <1>8, <1>9, <1>10 DEF t

LEMMA OKReplaced ==
  ASSUME NEW s, StackOK(s), s # <<>>, NEW f, FrameOK(f), f.fn = Last(s).fn \/ Last(s).fn \notin Bottom
  PROVE  /\ StackOK(Append(Front(s), f)) /\ Append(Front(s), f) # <<>>
         /\ Len(Append(Front(s), f)) = Len(s)
<1>1. /\ StackOK(Front(s)) /\ Len(Front(s)) + 1 = Len(s) /\ IsList(Front(s)) /\ IsList(s) /\ Len(s) <= Depth
      /\ Last(s).fn \notin Bottom => Front(s) # <<>>
  BY OKPopped DEF StackOK
<1>2. Front(s) = <<>> => f.fn \in Bottom
  <2>1. CASE Len(s) = 1
    <3>1. Last(s) = s[1]
      BY <1>1, <2>1, ListIs
    <3>2. QED
      BY <1>1, <3>1 DEF StackOK
  <2>2. CASE Len(s) # 1
    BY <2>2, OKPopped
  <2>3. QED
    BY <2>1, <2>2
<1>3. Len(Append(Front(s), f)) = Len(Front(s)) + 1
  BY <1>1, AppendIs
<1>4. Len(Front(s)) + 1 <= Depth
  BY <1>1
<1>5. QED
  BY <1>1, <1>2, <1>3, <1>4, OKPushed

LEMMA OKEmpty == StackOK(<<>>)
<1>1. IsList(<<>>) /\ Len(<<>>) = 0
  BY EmptySeq, SeqIsList
<1>2. QED
  BY <1>1, DepthAssumption DEF StackOK

LEMMA OKOne ==
  ASSUME NEW f, FrameOK(f), f.fn \in Bottom
  PROVE  StackOK(<<f>>) /\ <<f>> # <<>>
<1>1. Len(<<>>) + 1 <= Depth
  BY DepthAssumption, EmptySeq
<1>2. QED
  BY <1>1, OKEmpty, OKPushed, OneIs

-----------------------------------------------------------------------------
(* The steps of menuconfig keep its frames right, and the configuration    *)

StackGoes == StackOK(stack') /\ (ended' = "no" <=> stack' # <<>>)
Goes == StackGoes /\ Valued' /\ Optioned'
MReady == Ready /\ StackOK(stack) /\ Valued /\ Optioned

LEMMA MTop ==
  ASSUME MReady
  PROVE  /\ FrameOK(Top) /\ Top = Frame(Top.fn, Top.menu, Top.active) /\ Top.fn \in DOMAIN Needs
         /\ ended = "no" /\ stack # <<>> /\ IsList(stack) /\ Len(stack) \in Nat \ {0}
         /\ \A a : /\ FrameOK([Top EXCEPT !.active = a]) /\ [Top EXCEPT !.active = a].fn = Top.fn
                   /\ [Top EXCEPT !.active = a].menu = Top.menu
<1>1. /\ Top = Frame(Top.fn, Top.menu, Top.active) /\ Top.fn \in DOMAIN Needs
      /\ ended = "no" /\ stack # <<>> /\ IsList(stack)
  BY TopIs DEF MReady, StackOK
<1>2. FrameOK(Top)
  BY <1>1, OKPopped DEF MReady, Top
<1>3. Len(stack) \in Nat \ {0}
  BY <1>1, ListIs
<1>4. ASSUME NEW a
      PROVE  /\ FrameOK([Top EXCEPT !.active = a]) /\ [Top EXCEPT !.active = a].fn = Top.fn
             /\ [Top EXCEPT !.active = a].menu = Top.menu
  <2>1. [Top EXCEPT !.active = a] = Frame(Top.fn, Top.menu, a)
    BY <1>1, FramesAre
  <2>2. Frame(Top.fn, Top.menu, a).fn = Top.fn /\ Frame(Top.fn, Top.menu, a).menu = Top.menu
    BY <1>1, FramesAre
  <2>3. QED
    BY <1>2, <2>1, <2>2 DEF FrameOK
<1>5. QED
  BY <1>1, <1>2, <1>3, <1>4

LEMMA NewFrame ==
  ASSUME NEW fn \in DOMAIN Needs, NEW m, NEW a,
         IF fn = "choice" THEN m \in Names /\ Kind(m) = "choice"
         ELSE IF fn = "conf" THEN m \in Names ELSE m \in Names \cup {Nil}
  PROVE  FrameOK(Frame(fn, m, a)) /\ Frame(fn, m, a).fn = fn
BY FramesAre DEF FrameOK

LEMMA OptionsKept ==
  ASSUME Optioned, SameOptions
  PROVE  Optioned'
BY DEF SameOptions, options, unfolded, Optioned, Names, Menu

LEMMA MGoes ==
  ASSUME MReady
  PROVE  /\ Again => StackGoes
         /\ Back /\ Top.fn \notin Bottom => StackGoes
         /\ \A f : FrameOK(f) /\ Call(f) => StackGoes
         /\ \A f : FrameOK(f) /\ Top.fn \notin Bottom /\ Instead(f) => StackGoes
         /\ \A fn \in {"exit", "interrupt"} : HandleExit(fn) => StackGoes
         /\ \A how \in {"end", "not saved", "error"} : Ends(how) => StackGoes
         /\ Return => StackGoes
<1>1. /\ ended = "no" /\ stack # <<>> /\ StackOK(stack) /\ (Stays => ended' = "no")
      /\ Len(stack) \in Nat /\ Depth \in Nat
  BY MTop, DepthAssumption DEF MReady, Stays
<1>2. Again => StackGoes
  BY <1>1 DEF Again, StackGoes
<1>3. Back /\ Top.fn \notin Bottom => StackGoes
  BY <1>1, OKPopped DEF Back, Top, StackGoes
<1>4. ASSUME NEW f, FrameOK(f), Call(f)
      PROVE  StackGoes
  <2>1. Len(stack) + 1 <= Depth
    BY <1>1, <1>4 DEF Call
  <2>2. QED
    BY <1>1, <1>4, <2>1, OKPushed DEF Call, StackGoes
<1>5. ASSUME NEW f, FrameOK(f), Top.fn \notin Bottom, Instead(f)
      PROVE  StackGoes
  BY <1>1, <1>5, OKReplaced DEF Instead, Top, StackGoes
<1>6. ASSUME NEW fn \in {"exit", "interrupt"}, HandleExit(fn)
      PROVE  StackGoes
  <2>1. FrameOK(Frame(fn, Nil, Nil)) /\ Frame(fn, Nil, Nil).fn \in Bottom
    <3>1. fn \in DOMAIN Needs /\ fn \in Bottom /\ fn \notin {"choice", "conf"}
      BY DEF Needs, Bottom
    <3>2. QED
      BY <3>1, NewFrame
  <2>2. StackOK(<<Frame(fn, Nil, Nil)>>) /\ <<Frame(fn, Nil, Nil)>> # <<>> /\ StackOK(<<>>)
    BY <2>1, OKOne, OKEmpty
  <2>3. \/ stack' = <<Frame(fn, Nil, Nil)>> /\ ended' = ended
        \/ ended' = "end" /\ stack' = <<>>
    BY <1>6 DEF HandleExit
  <2>4. QED
    BY <1>1, <2>2, <2>3 DEF StackGoes
<1>7. ASSUME NEW how \in {"end", "not saved", "error"}, Ends(how)
      PROVE  StackGoes
  BY <1>7, OKEmpty DEF Ends, StackGoes
<1>8. ASSUME Return
      PROVE  StackGoes
  <2>1. CASE Len(stack) = 1
    BY <1>6, <1>8, <2>1 DEF Return
  <2>2. CASE Len(stack) # 1
    <3>1. Back
      BY <1>8, <2>2 DEF Return
    <3>2. StackOK(Front(stack)) /\ Front(stack) # <<>>
      BY <1>1, <2>2, OKPopped
    <3>3. QED
      BY <1>1, <3>1, <3>2 DEF Back, StackGoes
  <2>3. QED
    BY <2>1, <2>2
<1>9. QED
  BY <1>2, <1>3, <1>4, <1>5, <1>6, <1>7, <1>8

LEMMA MWent ==
  ASSUME MReady, NEW item, NEW frames, ConfGo(item, frames),
         frames = <<>> \/ \E f : frames = <<f>> /\ FrameOK(f)
  PROVE  StackGoes
<1>1. stack # <<>> /\ StackOK(stack) /\ Len(stack) \in Nat /\ ended = "no"
  BY MTop DEF MReady
<1> DEFINE top == [Top EXCEPT !.active = item.data]
<1>2. FrameOK(top) /\ top.fn = Top.fn
  BY MTop
<1> HIDE DEF top
<1>3. StackOK(Kept(item)) /\ Kept(item) # <<>> /\ Len(Kept(item)) = Len(stack) /\ IsList(Kept(item))
  BY <1>1, <1>2, OKReplaced DEF Kept, Top, top, StackOK
<1>4. stack' = Kept(item) \o frames /\ Len(stack) + Len(frames) <= Depth /\ ended' = ended
  BY DEF ConfGo, Stays
<1>5. StackOK(stack') /\ stack' # <<>>
  <2>1. CASE frames = <<>>
    BY <1>3, <1>4, <2>1, ConcatIs
  <2>2. ASSUME NEW f, frames = <<f>>, FrameOK(f)
        PROVE  StackOK(stack') /\ stack' # <<>>
    <3>1. stack' = Append(Kept(item), f)
      BY <1>3, <1>4, <2>2, ConcatIs
    <3>2. Len(frames) = 1
      BY <2>2, OneIs
    <3>3. QED
      BY <1>3, <1>4, <2>2, <3>1, <3>2, OKPushed
  <2>3. QED
    BY <2>1, <2>2
<1>6. QED
  BY <1>1, <1>4, <1>5 DEF StackGoes

(* What can be picked in a menu.                                           *)
LEMMA PickableIs ==
  ASSUME MReady, Top.fn = "conf", NEW item \in Pickable
  PROVE  item.data \in Names \cup {Nil} /\ (item.tag # "" => item \in Row)
<1>1. Items(Top.menu) \in Seq(Row)
  BY MTop, ItemsAre DEF FrameOK
<1>2. CASE item = NoItem
  BY <1>2 DEF NoItem
<1>3. CASE item \in ToSet(Items(Top.menu))
  <2>1. item \in Row
    BY <1>1, <1>3, LenProperties, ElementOfSeq DEF ToSet
  <2>2. QED
    BY <2>1 DEF Row
<1>4. QED
  BY <1>2, <1>3 DEF Pickable

LEMMA ConfGoes ==
  ASSUME MReady,
         \/ ConfExit \/ ConfSelect \/ ConfUnfold \/ ConfCall \/ ConfSet \/ ConfToggle \/ ConfShowAll
  PROVE  Goes
<1>00. {"conf", "choice", "string", "text", "save", "load", "search"} \subseteq DOMAIN Needs
  BY DEF Needs
<1>0. ASSUME NEW fn \in {"string", "text", "save", "load", "search"}, NEW m \in Names \cup {Nil}
      PROVE  FrameOK(Frame(fn, m, Nil))
  BY <1>00, NewFrame
<1>01. ASSUME NEW m \in Names
       PROVE  FrameOK(Frame("conf", m, Nil)) /\ \A a : Kind(m) = "choice" => FrameOK(Frame("choice", m, a))
  BY <1>00, NewFrame
<1>02. Valued /\ Optioned
  BY DEF MReady
<1>03. Top.fn = "conf"
  BY DEF ConfExit, ConfSelect, ConfUnfold, ConfCall, ConfSet, ConfToggle, ConfShowAll, In
<1>1. CASE ConfExit
  <2>1. Return
    BY <1>1 DEF ConfExit
  <2>2. /\ UNCHANGED value
        /\ UNCHANGED <<show_all_options, single_menu_mode, data>>
    BY <2>1 DEF Return, HandleExit, SameConf, SameOptions, confVars, options, unfolded
  <2>3. Optioned'
    BY <1>02, <2>2 DEF Optioned, Names, Menu
  <2>4. QED
    BY <1>02, <2>1, <2>2, <2>3, MGoes, ValueKept DEF Goes
<1>2. CASE ConfSelect
  <2>1. PICK item \in Pickable : ConfGo(item, Opens(item))
    BY <1>2 DEF ConfSelect
  <2>2. SameConf /\ SameOptions
    BY <1>2 DEF ConfSelect
  <2>3. item.tag # "" => item \in Row /\ item.data \in Names
    BY <1>03, PickableIs DEF Row
  <2>4. Opens(item) = <<>> \/ \E f : Opens(item) = <<f>> /\ FrameOK(f)
    <3> DEFINE m == item.data
    <3>1. CASE item.tag = "m"
      BY <1>01, <2>3, <3>1 DEF Opens
    <3>2. CASE item.tag = "t" /\ Kind(m) = "choice" /\ Now(m) = "y"
      BY <1>01, <2>3, <3>2 DEF Opens
    <3>3. CASE item.tag = "t" /\ Kind(m) = "menuconfig"
      BY <1>01, <2>3, <3>3 DEF Opens
    <3>4. CASE item.tag = "s"
      BY <1>0, <2>3, <3>4 DEF Opens
    <3>5. CASE /\ item.tag \notin {"m", "s"}
               /\ item.tag = "t" => Kind(m) # "menuconfig" /\ ~(Kind(m) = "choice" /\ Now(m) = "y")
      BY <3>5 DEF Opens
    <3>6. QED
      BY <3>1, <3>2, <3>3, <3>4, <3>5
  <2>5. QED
    BY <1>02, <2>1, <2>2, <2>4, MWent, OptionsKept, ValueKept DEF Goes
<1>3. CASE ConfUnfold
  <2>1. PICK item \in Pickable : item.tag = "m" /\ Unfold(item.data) /\ ConfGo(item, <<>>)
    BY <1>3 DEF ConfUnfold
  <2>2. SameConf /\ single_menu_mode
    BY <1>3 DEF ConfUnfold
  <2>3. item.data \in Names
    BY <1>03, <2>1, PickableIs DEF Row
  <2>4. Optioned'
    BY <1>02, <2>1, <2>2, <2>3 DEF Unfold, Optioned, Names, Menu
  <2>5. QED
    BY <1>02, <2>1, <2>2, <2>4, MWent, ValueKept DEF Goes
<1>4. CASE ConfCall
  <2>1. PICK item \in Pickable, fn \in {"text", "save", "load", "search"} :
          ConfGo(item, <<Frame(fn, item.data, Nil)>>)
    BY <1>4 DEF ConfCall
  <2>2. SameConf /\ SameOptions
    BY <1>4 DEF ConfCall
  <2>3. FrameOK(Frame(fn, item.data, Nil))
    BY <1>0, <1>03, PickableIs
  <2>4. QED
    BY <1>02, <2>1, <2>2, <2>3, MWent, OptionsKept, ValueKept DEF Goes
<1>5. CASE ConfSet
  <2>0. SameOptions
    BY <1>5 DEF ConfSet
  <2>1. PICK item \in Pickable, v \in {"y", "n", "m"} :
          LET m == item.data
              May(w) == item.tag = "t" /\ MaySet(m, w)
          IN  CASE May(v) -> SetTristate(m, v) /\ ConfGo(item, <<>>)
                [] ~May(v) /\ v = "y" /\ May("m") ->
                     SetTristate(m, "m") /\ ConfGo(item, <<Frame("text", m, Nil)>>)
                [] ~May(v) /\ ~(v = "y" /\ May("m")) -> SameConf /\ ConfGo(item, <<>>)
    BY <1>5 DEF ConfSet
  <2> DEFINE may(w) == item.tag = "t" /\ MaySet(item.data, w)
  <2>2. item.tag = "t" => item.data \in Names
    BY <1>03, PickableIs DEF Row
  <2>3. CASE may(v)
    <3>1. SetTristate(item.data, v) /\ ConfGo(item, <<>>)
      BY <2>1, <2>3
    <3>2. Valued'
      BY <1>02, <2>2, <2>3, <3>1, ValueSet
    <3>3. QED
      BY <1>02, <2>0, <3>1, <3>2, MWent, OptionsKept DEF Goes
  <2>4. CASE ~may(v) /\ v = "y" /\ may("m")
    <3>1. SetTristate(item.data, "m") /\ ConfGo(item, <<Frame("text", item.data, Nil)>>)
      BY <2>1, <2>4
    <3>2. Valued'
      BY <1>02, <2>2, <2>4, <3>1, ValueSet
    <3>3. FrameOK(Frame("text", item.data, Nil))
      BY <1>0, <2>2, <2>4
    <3>4. QED
      BY <1>02, <2>0, <3>1, <3>2, <3>3, MWent, OptionsKept DEF Goes
  <2>5. CASE ~may(v) /\ ~(v = "y" /\ may("m"))
    <3>1. SameConf /\ ConfGo(item, <<>>)
      BY <2>1, <2>5
    <3>2. QED
      BY <1>02, <2>0, <3>1, MWent, OptionsKept, ValueKept DEF Goes
  <2>6. QED
    BY <2>3, <2>4, <2>5
<1>6. CASE ConfToggle
  <2>0. SameOptions
    BY <1>6 DEF ConfToggle
  <2>1. PICK item \in Pickable :
          \/ item.tag = "t" /\ SetTristate(item.data, Toggled(item.data)) /\ ConfGo(item, <<>>)
          \/ item.tag = "m" /\ SameConf /\ ConfGo(item, <<Frame("conf", item.data, Nil)>>)
          \/ item.tag \notin {"t", "m"} /\ SameConf /\ ConfGo(item, <<>>)
    BY <1>6 DEF ConfToggle
  <2>2. item.tag # "" => item.data \in Names
    BY <1>03, PickableIs DEF Row
  <2>3. Valued'
    <3>1. CASE SameConf
      BY <1>02, <3>1, ValueKept
    <3>2. CASE item.tag = "t" /\ SetTristate(item.data, Toggled(item.data))
      BY <1>02, <2>2, <3>2, MaySetThem, ValueSet
    <3>3. QED
      BY <2>1, <3>1, <3>2
  <2>4. StackGoes
    <3>1. CASE ConfGo(item, <<>>)
      BY <3>1, MWent
    <3>2. CASE item.tag = "m" /\ ConfGo(item, <<Frame("conf", item.data, Nil)>>)
      BY <1>01, <2>2, <3>2, MWent
    <3>3. QED
      BY <2>1, <3>1, <3>2
  <2>5. QED
    BY <1>02, <2>0, <2>3, <2>4, OptionsKept DEF Goes
<1>7. CASE ConfShowAll
  <2>1. PICK item \in Pickable : ConfGo(item, <<>>)
    BY <1>7 DEF ConfShowAll
  <2>2. SameConf /\ show_all_options' = ~show_all_options /\ UNCHANGED unfolded
    BY <1>7 DEF ConfShowAll
  <2>3. Optioned'
    BY <1>02, <2>2 DEF unfolded, Optioned, Names, Menu
  <2>4. QED
    BY <1>02, <2>1, <2>2, <2>3, MWent, ValueKept DEF Goes
<1>8. QED
  BY <1>1, <1>2, <1>3, <1>4, <1>5, <1>6, <1>7
(* The other functions of menuconfig.                                      *)
LEMMA OthersGo ==
  ASSUME MReady,
         \/ ChoiceSet \/ ChoiceHelp \/ ChoiceEscape
         \/ StringSet \/ FileLoad \/ FileRefused \/ FileSave \/ Wrote \/ InputTell \/ InputEscape
         \/ SearchHelp \/ SearchFor \/ SearchEscape \/ SearchJump \/ SearchDone \/ TextClosed
         \/ ExitSave \/ ExitDrop \/ ExitEscape \/ Interrupt \/ Resize \/ ResizeCrash \/ DisplayTooSmall
  PROVE  Goes
<1>00. DOMAIN Needs = {"conf", "choice", "string", "search", "load", "save", "results", "text",
                       "wrote", "exit", "interrupt"}
  BY DEF Needs
<1>0. Valued /\ Optioned /\ Top.menu \in Names \cup {Nil} /\ Top.fn \in DOMAIN Needs
  BY MTop DEF MReady, FrameOK
<1>01. ASSUME NEW fn \in {"text", "wrote", "results"}
       PROVE  FrameOK(Frame(fn, Top.menu, Nil))
  BY <1>00, <1>0, NewFrame
<1>02. SameOptions => Optioned'
  BY <1>0, OptionsKept
<1>03. SameConf \/ SetString \/ Loaded \/ Saved \/ LoadRefused \/ UNCHANGED value => Valued'
  BY <1>0, ValueKept
<1>04. {"choice", "string", "search", "load", "save", "results", "text", "wrote"} \cap Bottom = {}
  BY DEF Bottom
<1>1. CASE \/ ChoiceEscape \/ StringSet \/ FileLoad \/ Wrote \/ InputEscape
           \/ SearchEscape \/ SearchDone \/ TextClosed
  <2>1. Back /\ SameOptions /\ (SameConf \/ SetString \/ Loaded \/ Saved)
    BY <1>1 DEF ChoiceEscape, StringSet, FileLoad, Wrote, InputEscape, SearchEscape, SearchDone, TextClosed
  <2>2. Top.fn \in {"choice", "string", "search", "load", "save", "results", "text", "wrote"}
    BY <1>1 DEF ChoiceEscape, StringSet, FileLoad, Wrote, InputEscape, SearchEscape, SearchDone, TextClosed, In
  <2>3. QED
    BY <1>02, <1>03, <1>04, <2>1, <2>2, MGoes DEF Goes
<1>2. CASE ChoiceSet
  <2>1. PICK c \in Children(Top.menu) : Visible(c) /\ HasSymbol(c) /\ SetTristate(c, "y")
    BY <1>2 DEF ChoiceSet
  <2>2. Top.fn = "choice" /\ SameOptions /\ Back
    BY <1>2 DEF ChoiceSet, In
  <2>3. Top.menu \in Names /\ Kind(Top.menu) = "choice"
    BY <2>2, MTop DEF FrameOK
  <2>4. c \in Names /\ MaySet(c, "y")
    BY <2>1, <2>3, MaySetThem
  <2>5. Valued'
    BY <1>0, <2>1, <2>4, ValueSet
  <2>6. QED
    BY <1>02, <1>04, <2>2, <2>5, MGoes DEF Goes
<1>3. CASE ChoiceHelp
  <2>1. /\ In("choice") /\ SameConf /\ SameOptions /\ Stays /\ Len(stack) < Depth
        /\ \E c : stack' = Front(stack) \o <<[Top EXCEPT !.active = c], Frame("text", Top.menu, Nil)>>
    BY <1>3 DEF ChoiceHelp
  <2>2. PICK c : stack' = Front(stack) \o <<[Top EXCEPT !.active = c], Frame("text", Top.menu, Nil)>>
    BY <2>1
  <2> DEFINE top == [Top EXCEPT !.active = c]
             above == Frame("text", Top.menu, Nil)
             s == Append(Front(stack), top)
  <2>3. FrameOK(top) /\ top.fn = Top.fn /\ StackOK(stack) /\ stack # <<>> /\ ended = "no" /\ FrameOK(above)
    BY <1>01, MTop DEF MReady
  <2>4. IsList(Front(stack)) /\ Len(stack) \in Nat /\ Depth \in Nat
    BY <2>3, OKPopped, MTop, DepthAssumption DEF StackOK
  <2> HIDE DEF top, above
  <2>5. StackOK(s) /\ s # <<>> /\ Len(s) = Len(stack)
    BY <2>3, OKReplaced DEF Top
  <2>6. stack' = Append(s, above)
    BY <2>2, <2>4, TwoMoreIs DEF top, above
  <2>7. Len(s) + 1 <= Depth
    BY <2>1, <2>4, <2>5
  <2>8. StackOK(stack') /\ stack' # <<>>
    BY <2>3, <2>5, <2>6, <2>7, OKPushed
  <2>9. QED
    BY <1>02, <1>03, <2>1, <2>3, <2>8 DEF Stays, Goes, StackGoes
<1>4. CASE FileSave
  <2>1. SameOptions /\ Top.fn = "save"
    BY <1>4 DEF FileSave, In
  <2>2. CASE Saved /\ Back
    BY <1>02, <1>03, <1>04, <2>1, <2>2, MGoes DEF Goes
  <2>3. CASE UNCHANGED value /\ Instead(Frame("wrote", Top.menu, Nil))
    BY <1>01, <1>02, <1>03, <1>04, <2>1, <2>3, MGoes DEF Goes
  <2>4. QED
    BY <1>4, <2>2, <2>3 DEF FileSave
<1>5. CASE FileRefused \/ InputTell \/ SearchHelp
  <2>1. Tell /\ (SameConf \/ LoadRefused) /\ SameOptions
    BY <1>5 DEF FileRefused, InputTell, SearchHelp
  <2>2. QED
    BY <1>01, <1>02, <1>03, <2>1, MGoes DEF Tell, Goes
<1>6. CASE SearchFor
  <2>1. Top.fn = "search" /\ Instead(Frame("results", Top.menu, Nil)) /\ SameConf /\ SameOptions
    BY <1>6 DEF SearchFor, In
  <2>2. QED
    BY <1>01, <1>02, <1>03, <1>04, <2>1, MGoes DEF Goes
<1>7. CASE SearchJump
  <2>1. PICK m \in Targets : Call(Frame("conf", Parent(m), m))
    BY <1>7 DEF SearchJump
  <2>2. SameConf /\ SameOptions
    BY <1>7 DEF SearchJump
  <2>3. FrameOK(Frame("conf", Parent(m), m))
    <3>1. Parent(m) \in Names
      BY TargetsAre, ParentIs
    <3>2. QED
      BY <1>00, <3>1, NewFrame
  <2>4. QED
    BY <1>02, <1>03, <2>1, <2>2, <2>3, MGoes DEF Goes
<1>8. CASE ExitSave \/ ExitDrop
  <2>1. PICK how \in {"end", "error", "not saved"} : Ends(how) /\ (Saved \/ SameConf)
    BY <1>8 DEF ExitSave, ExitDrop
  <2>2. SameOptions
    BY <2>1 DEF Ends
  <2>3. QED
    BY <1>02, <1>03, <2>1, <2>2, MGoes DEF Goes
<1>9. CASE ExitEscape
  <2>1. stack' = <<Frame("conf", Root, Nil)>> /\ Stays /\ SameConf /\ SameOptions
    BY <1>9 DEF ExitEscape
  <2>2. FrameOK(Frame("conf", Root, Nil)) /\ Frame("conf", Root, Nil).fn \in Bottom
    BY <1>00, EntriesAssumption, NewFrame DEF Bottom
  <2>3. StackOK(stack') /\ stack' # <<>>
    BY <2>1, <2>2, OKOne
  <2>4. ended' = "no"
    BY <2>1, MTop DEF Stays
  <2>5. QED
    BY <1>02, <1>03, <2>1, <2>3, <2>4 DEF Goes, StackGoes
<1>10. \A fn \in {"exit", "interrupt"} : HandleExit(fn) => Goes
  <2>1. TAKE fn \in {"exit", "interrupt"}
  <2>2. HAVE HandleExit(fn)
  <2>3. SameConf /\ UNCHANGED <<show_all_options, single_menu_mode, data>>
    BY <2>2 DEF HandleExit, unfolded
  <2>4. Optioned'
    BY <1>0, <2>3 DEF Optioned, Names, Menu
  <2>5. QED
    BY <1>03, <2>2, <2>3, <2>4, MGoes DEF Goes
<1>11. CASE Interrupt
  BY <1>10, <1>11 DEF Interrupt
<1>12. CASE Resize
  <2>1. UNCHANGED <<stack, ended>> /\ SameConf /\ SameOptions
    BY <1>12 DEF Resize, SameConf, SameOptions
  <2>2. StackGoes
    BY <2>1, MTop DEF MReady, StackGoes
  <2>3. QED
    BY <1>02, <1>03, <2>1, <2>2 DEF Goes
<1>012. CASE ResizeCrash
  <2>1. ended' = "crashed" /\ stack' = <<>> /\ SameConf /\ SameOptions
    BY <1>012 DEF ResizeCrash
  <2>2. StackGoes
    BY <2>1, OKEmpty DEF StackGoes
  <2>3. QED
    BY <1>02, <1>03, <2>1, <2>2 DEF Goes
<1>13. CASE DisplayTooSmall
  <2>1. CASE Top.fn = "conf"
    <3>1. Return
      BY <1>13, <2>1 DEF DisplayTooSmall
    <3>2. CASE Len(stack) = 1
      BY <1>10, <3>1, <3>2 DEF Return
    <3>3. CASE Len(stack) # 1
      <4>1. SameConf /\ SameOptions
        BY <3>1, <3>3 DEF Return
      <4>2. QED
        BY <1>02, <1>03, <3>1, <4>1, MGoes DEF Goes
    <3>4. QED
      BY <3>2, <3>3
  <2>2. CASE Top.fn \in {"choice", "search", "results", "text"}
    <3>1. Back /\ SameConf /\ SameOptions
      BY <1>13, <2>2 DEF DisplayTooSmall
    <3>2. QED
      BY <1>02, <1>03, <1>04, <2>2, <3>1, MGoes DEF Goes
  <2>3. CASE Top.fn = "wrote"
    <3>1. Saved /\ Back /\ SameOptions
      BY <1>13, <2>3 DEF DisplayTooSmall
    <3>2. QED
      BY <1>02, <1>03, <1>04, <2>3, <3>1, MGoes DEF Goes
  <2>4. CASE Top.fn \in {"exit", "interrupt"}
    <3>1. SameConf /\ Ends("not saved") /\ SameOptions
      BY <1>13, <2>4 DEF DisplayTooSmall, Ends
    <3>2. QED
      BY <1>02, <1>03, <3>1, MGoes DEF Goes
  <2>5. CASE Top.fn \in {"string", "load", "save"}
    <3>1. Again /\ SameConf /\ SameOptions
      BY <1>13, <2>5 DEF DisplayTooSmall
    <3>2. QED
      BY <1>02, <1>03, <3>1, MGoes DEF Goes
  <2>6. QED
    BY <1>00, <1>0, <2>1, <2>2, <2>3, <2>4, <2>5
<1>14. QED
  BY <1>1, <1>2, <1>3, <1>4, <1>5, <1>6, <1>7, <1>8, <1>9, <1>11, <1>12, <1>012, <1>13

LEMMA MconfGoes ==
  ASSUME screen \in Screens, StackRight(stack), Honest, StackOK(stack), Valued, Optioned, Next
  PROVE  Goes
<1>1. MReady
  BY Runs DEF MReady, Ready
<1>2. QED
  BY <1>1, ConfGoes, OthersGo DEF Next
-----------------------------------------------------------------------------
(* The windows of nconfig                                                  *)

Lists == {"conf", "choice"}
Directions == {"FIND_NEXT_MATCH_DOWN", "FIND_NEXT_MATCH_UP",
               "MATCH_TINKER_PATTERN_DOWN", "MATCH_TINKER_PATTERN_UP"}
Matches == [in_search : BOOLEAN, match_direction : Directions, pattern : Seq(Characters)]

(* A window over a list of items.  A choice has a member that was set when *)
(* it began, and lists its members; what was left can be found again.      *)
WindowOK(w, its) ==
  /\ w.menu \in Names /\ w.match \in Matches
  /\ w.fn = "choice" => /\ Kind(w.menu) = "choice" /\ w.active \in Children(w.menu)
                        /\ w.shown => \A j \in DOMAIN its : its[j].data \in Children(w.menu)
  /\ w.fn = "conf" /\ ~w.shown => w.index \in Nat \ {0}
  /\ ~w.shown \/ w.match.in_search => w.fn \in Lists
  /\ w.match.in_search => w.shown

(* A window has another one over it when no search goes on, and only a     *)
(* text is shown over a list that is not built anew afterwards.            *)
Under(w, v) == w.fn # "text" /\ ~w.match.in_search /\ (w.fn \in Lists /\ w.shown => v.fn = "text")
WindowsOK(ws, its) ==
  /\ \A i \in 1..Len(ws) : WindowOK(ws[i], its)
  /\ \A i \in 1..(Len(ws) - 1) : Under(ws[i], ws[i + 1])

LEMMA WOKPushed ==
  ASSUME NEW its, NEW ws, IsList(ws), WindowsOK(ws, its),
         NEW w, WindowOK(w, its), ws # <<>> => Under(Last(ws), w)
  PROVE  WindowsOK(Append(ws, w), its) /\ Last(Append(ws, w)) = w
<1>1. IsList(ws) /\ Len(ws) \in Nat /\ (ws # <<>> <=> Len(ws) > 0) /\ Last(ws) = ws[Len(ws)]
  BY ListIs
<1> DEFINE t == Append(ws, w)
<1>2. /\ IsList(t) /\ Len(t) = Len(ws) + 1
      /\ \A i \in 1..Len(ws) : t[i] = ws[i]
      /\ t[Len(ws) + 1] = w
  BY AppendIs
<1> HIDE DEF t
<1>3. Last(t) = w
  BY <1>2, ListIs
<1>4. \A i \in 1..Len(t) : i \in 1..Len(ws) \/ i = Len(ws) + 1
  BY <1>1, <1>2
<1>5. \A i \in 1..Len(t) : WindowOK(t[i], its)
  BY <1>2, <1>4 DEF WindowsOK
<1>6. ASSUME NEW i \in 1..(Len(t) - 1)
      PROVE  Under(t[i], t[i + 1])
  <2>0. i \in 1..Len(ws)
    BY <1>1, <1>2
  <2>1. CASE i = Len(ws)
    <3>1. Len(ws) > 0 /\ t[i] = Last(ws) /\ t[i + 1] = w
      BY <1>1, <1>2, <2>0, <2>1
    <3>2. QED
      BY <1>1, <3>1
  <2>2. CASE i # Len(ws)
    <3>1. i \in 1..(Len(ws) - 1) /\ i + 1 \in 1..Len(ws)
      BY <1>1, <2>0, <2>2
    <3>2. t[i] = ws[i] /\ t[i + 1] = ws[i + 1]
      BY <1>2, <2>0, <3>1
    <3>3. QED
      BY <3>1, <3>2 DEF WindowsOK
  <2>3. QED
    BY <2>1, <2>2
<1>7. QED
  BY <1>3, <1>5, <1>6 DEF WindowsOK, t

LEMMA WOKPopped ==
  ASSUME NEW its, NEW ws, IsList(ws), ws # <<>>, WindowsOK(ws, its)
  PROVE  /\ IsList(Front(ws)) /\ WindowsOK(Front(ws), its) /\ WindowOK(Last(ws), its)
         /\ Front(ws) # <<>> => Under(Last(Front(ws)), Last(ws))
         /\ Len(ws) > 1 => Front(ws) # <<>>
<1>1. IsList(ws) /\ Len(ws) \in Nat \ {0} /\ Last(ws) = ws[Len(ws)]
  BY ListIs
<1> DEFINE t == Front(ws)
<1>2. IsList(t) /\ Len(t) = Len(ws) - 1 /\ \A i \in 1..(Len(ws) - 1) : t[i] = ws[i]
  BY FrontIs
<1>3. Len(t) \in Nat /\ (t # <<>> <=> Len(t) > 0) /\ Last(t) = t[Len(t)]
  BY <1>2, ListIs
<1> HIDE DEF t
<1>4. \A i \in 1..Len(t) : WindowOK(t[i], its)
  BY <1>1, <1>2 DEF WindowsOK
<1>5. \A i \in 1..(Len(t) - 1) : Under(t[i], t[i + 1])
  <2>1. TAKE i \in 1..(Len(t) - 1)
  <2>2. i \in 1..(Len(ws) - 1) /\ i + 1 \in 1..(Len(ws) - 1)
    BY <1>1, <1>2
  <2>3. t[i] = ws[i] /\ t[i + 1] = ws[i + 1]
    BY <1>2, <2>2
  <2>4. QED
    BY <2>2, <2>3 DEF WindowsOK
<1>6. ASSUME t # <<>>
      PROVE  Under(Last(t), Last(ws))
  <2>1. PICK k \in 1..(Len(ws) - 1) : k = Len(t) /\ k + 1 = Len(ws)
    BY <1>1, <1>2, <1>3, <1>6
  <2>2. Last(t) = ws[k] /\ Last(ws) = ws[k + 1]
    BY <1>1, <1>2, <1>3, <2>1
  <2>3. QED
    BY <2>1, <2>2 DEF WindowsOK
<1>7. WindowOK(Last(ws), its)
  BY <1>1 DEF WindowsOK
<1>8. Len(ws) > 1 => t # <<>>
  BY <1>1, <1>2, <1>3
<1>9. QED
  BY <1>2, <1>4, <1>5, <1>6, <1>7, <1>8 DEF WindowsOK, t

LEMMA WOKReplaced ==
  ASSUME NEW its, NEW ws, IsList(ws), ws # <<>>, WindowsOK(ws, its),
         NEW w, WindowOK(w, its), Last(ws).fn = "text" => w.fn = "text"
  PROVE  WindowsOK(Append(Front(ws), w), its) /\ Last(Append(Front(ws), w)) = w
<1>1. /\ IsList(Front(ws)) /\ WindowsOK(Front(ws), its)
      /\ Front(ws) # <<>> => Under(Last(Front(ws)), Last(ws))
  BY WOKPopped
<1>2. Front(ws) # <<>> => Under(Last(Front(ws)), w)
  BY <1>1 DEF Under
<1>3. QED
  BY <1>1, <1>2, WOKPushed

LEMMA WOKOne ==
  ASSUME NEW its, NEW w, WindowOK(w, its)
  PROVE  WindowsOK(<<w>>, its) /\ Last(<<w>>) = w
<1>1. IsList(<<>>) /\ Len(<<>>) = 0
  BY EmptySeq, SeqIsList
<1>2. WindowsOK(<<>>, its)
  BY <1>1 DEF WindowsOK
<1>3. QED
  BY <1>1, <1>2, OneIs, WOKPushed

(* When a list is built anew, no other list is shown.                      *)
LEMMA WOKListed ==
  ASSUME NEW its, NEW new, NEW ws, IsList(ws), ws # <<>>, WindowsOK(ws, its), ~Last(ws).shown
  PROVE  WindowsOK(Front(ws), new)
<1>1. /\ IsList(Front(ws)) /\ WindowsOK(Front(ws), its) /\ WindowOK(Last(ws), its)
      /\ Front(ws) # <<>> => Under(Last(Front(ws)), Last(ws))
  BY WOKPopped
<1> DEFINE t == Front(ws)
<1>2. Len(t) \in Nat /\ (t # <<>> <=> Len(t) > 0) /\ Last(t) = t[Len(t)]
  BY <1>1, ListIs
<1> HIDE DEF t
<1>3. Last(ws).fn # "text"
  BY <1>1 DEF WindowOK, Lists
<1>4. ASSUME NEW i \in 1..Len(t)
      PROVE  WindowOK(t[i], new)
  <2>1. ~(t[i].fn \in Lists /\ t[i].shown)
    <3>1. CASE i = Len(t)
      <4>1. Under(t[i], Last(ws))
        BY <1>1, <1>2, <3>1 DEF t
      <4>2. QED
        BY <1>3, <4>1 DEF Under
    <3>2. CASE i # Len(t)
      <4>1. i \in 1..(Len(t) - 1)
        BY <1>2, <3>2
      <4>2. Under(t[i], t[i + 1])
        BY <1>1, <4>1 DEF WindowsOK, t
      <4>3. t[i + 1].fn # "text"
        <5>1. CASE i + 1 = Len(t)
          <6>1. Under(t[i + 1], Last(ws))
            BY <1>1, <1>2, <5>1 DEF t
          <6>2. QED
            BY <6>1 DEF Under
        <5>2. CASE i + 1 # Len(t)
          <6>1. PICK k \in 1..(Len(t) - 1) : k = i + 1
            BY <1>2, <4>1, <5>2
          <6>2. Under(t[k], t[k + 1])
            BY <1>1, <6>1 DEF WindowsOK, t
          <6>3. QED
            BY <6>1, <6>2 DEF Under
        <5>3. QED
          BY <5>1, <5>2
      <4>4. QED
        BY <4>2, <4>3 DEF Under
    <3>3. QED
      BY <3>1, <3>2
  <2>2. WindowOK(t[i], its)
    BY <1>1 DEF WindowsOK, t
  <2>3. QED
    BY <2>1, <2>2 DEF WindowOK, Lists
<1>5. QED
  BY <1>1, <1>4 DEF WindowsOK, t
-----------------------------------------------------------------------------
(* The search of nconfig                                                   *)

(* A part of a line has its parts in the line too.                         *)
LEMMA PartsAre ==
  ASSUME NEW C, NEW s \in Seq(C), NEW p \in Seq(C), NEW k \in 0..Len(p), HasPart(s, p)
  PROVE  HasPart(s, SubSeq(p, 1, k))
<1>0. Len(s) \in Nat /\ Len(p) \in Nat
  BY LenProperties
<1>1. PICK i \in 0..(Len(s) - Len(p)) : SubSeq(s, i + 1, i + Len(p)) = p
  BY DEF HasPart
<1> DEFINE q == SubSeq(p, 1, k)
<1>2. i \in Nat /\ i + Len(p) <= Len(s) /\ k \in Nat /\ k <= Len(p)
  BY <1>0, <1>1
<1>3. \A j \in 1..Len(p) : p[j] = s[i + j]
  <2>1. TAKE j \in 1..Len(p)
  <2>2. \A x \in (i + 1)..(i + Len(p)) : s[x] \in C
    <3>1. TAKE x \in (i + 1)..(i + Len(p))
    <3>2. x \in 1..Len(s)
      BY <1>0, <1>2
    <3>3. QED
      BY <3>2, ElementOfSeq
  <2>3. \A y \in 1..(i + Len(p) - (i + 1) + 1) : SubSeq(s, i + 1, i + Len(p))[y] = s[i + 1 + y - 1]
    BY <1>0, <1>2, <2>2, SubSeqProperties
  <2>4. j \in 1..(i + Len(p) - (i + 1) + 1) /\ i + 1 + j - 1 = i + j
    BY <1>0, <1>2
  <2>5. QED
    BY <1>1, <2>3, <2>4
<1>4. /\ q \in Seq(C) /\ Len(q) = IF 1 <= k THEN k - 1 + 1 ELSE 0
      /\ \A j \in 1..(k - 1 + 1) : q[j] = p[1 + j - 1]
  <2>1. \A x \in 1..k : p[x] \in C
    BY <1>0, <1>2, ElementOfSeq
  <2>2. QED
    BY <1>2, <2>1, SubSeqProperties
<1>5. Len(q) = k /\ \A j \in 1..k : q[j] = p[j]
  BY <1>2, <1>4
<1> DEFINE t == SubSeq(s, i + 1, i + k)
<1>6. /\ t \in Seq(C) /\ Len(t) = IF i + 1 <= i + k THEN i + k - (i + 1) + 1 ELSE 0
      /\ \A j \in 1..(i + k - (i + 1) + 1) : t[j] = s[i + 1 + j - 1]
  <2>1. \A x \in (i + 1)..(i + k) : s[x] \in C
    <3>1. TAKE x \in (i + 1)..(i + k)
    <3>2. x \in 1..Len(s)
      BY <1>0, <1>2
    <3>3. QED
      BY <3>2, ElementOfSeq
  <2>2. QED
    BY <1>2, <2>1, SubSeqProperties
<1>7. Len(t) = k /\ \A j \in 1..k : t[j] = s[i + j]
  <2>1. i + k - (i + 1) + 1 = k /\ (i + 1 <= i + k <=> 1 <= k)
    BY <1>2
  <2>2. Len(t) = k
    BY <1>2, <1>6, <2>1
  <2>3. \A j \in 1..k : i + 1 + j - 1 = i + j
    BY <1>2
  <2>4. QED
    BY <1>6, <2>1, <2>2, <2>3
<1> HIDE DEF q, t
<1>8. \A j \in 1..k : q[j] = t[j]
  <2>1. \A j \in 1..k : j \in 1..Len(p)
    BY <1>0, <1>2
  <2>2. QED
    BY <1>3, <1>5, <1>7, <2>1
<1>9. q = t
  BY <1>4, <1>5, <1>6, <1>7, <1>8, SeqEqual
<1>10. i \in 0..(Len(s) - Len(q))
  BY <1>0, <1>2, <1>5
<1>11. SubSeq(s, i + 1, i + Len(q)) = q
  BY <1>5, <1>9 DEF t
<1>12. QED
  BY <1>10, <1>11 DEF HasPart, q

LEMMA NothingIsPart ==
  ASSUME NEW C, NEW s \in Seq(C)
  PROVE  HasPart(s, <<>>)
<1>1. Len(s) \in Nat /\ Len(<<>>) = 0
  BY LenProperties, EmptySeq
<1>2. SubSeq(s, 1, 0) = <<>>
  <2>1. \A x \in 1..0 : s[x] \in C
    OBVIOUS
  <2>2. SubSeq(s, 1, 0) \in Seq(C) /\ Len(SubSeq(s, 1, 0)) = 0
    BY <2>1, SubSeqProperties
  <2>3. QED
    BY <2>2, EmptySeq
<1>3. 0 \in 0..(Len(s) - Len(<<>>)) /\ 0 + 1 = 1 /\ 0 + Len(<<>>) = 0
  BY <1>1
<1>4. QED
  BY <1>2, <1>3 DEF HasPart

(* A line that matches a pattern matches what was typed of it first.       *)
LEMMA MatchesAre ==
  ASSUME items \in Seq(Row)
  PROVE  /\ \A p : Matching(p) \subseteq DOMAIN items
         /\ Matching(<<>>) = DOMAIN items
         /\ \A p \in Seq(Characters) : \A k \in 0..Len(p) : Matching(p) \subseteq Matching(SubSeq(p, 1, k))
<1>1. \A i \in DOMAIN items : Text[items[i].data] \in Seq(Characters)
  <2>1. TAKE i \in DOMAIN items
  <2>2. items[i] \in Row
    BY LenProperties, ElementOfSeq
  <2>3. QED
    BY <2>2, TextAssumption DEF Row
<1>2. \A p : Matching(p) \subseteq DOMAIN items
  BY DEF Matching
<1>3. Matching(<<>>) = DOMAIN items
  <2>1. ASSUME NEW i \in DOMAIN items
        PROVE  HasPart(Text[items[i].data], <<>>)
    BY <1>1, NothingIsPart
  <2>2. QED
    BY <2>1 DEF Matching
<1>4. ASSUME NEW p \in Seq(Characters), NEW k \in 0..Len(p), NEW i \in Matching(p)
      PROVE  i \in Matching(SubSeq(p, 1, k))
  <2>1. i \in DOMAIN items /\ HasPart(Text[items[i].data], p)
    BY DEF Matching
  <2>2. HasPart(Text[items[i].data], SubSeq(p, 1, k))
    BY <1>1, <2>1, PartsAre
  <2>3. QED
    BY <2>1, <2>2 DEF Matching
<1>5. QED
  BY <1>2, <1>3, <1>4

LEMMA ModAbove ==
  ASSUME NEW n \in Nat \ {0}, NEW a \in n..(2 * n - 1)
  PROVE  a % n = a - n
OBVIOUS

(* From every line, the search comes to every other line.                  *)
LEMMA GoesRound ==
  ASSUME NEW n \in Nat \ {0}, NEW t \in 0..(n - 1), NEW a \in Int
  PROVE  /\ a \in 0..n => \E k \in 0..(n - 1) : (a + k) % n = t
         /\ a \in (-1)..(n - 1) => \E k \in 0..(n - 1) : (a + (-k)) % n = t
<1>1. t % n = t
  BY ModSmall
<1>2. (t + n) % n = t
  <2>1. PICK b \in n..(2 * n - 1) : b = t + n
    OBVIOUS
  <2>2. b % n = b - n
    BY ModAbove
  <2>3. QED
    BY <2>1, <2>2
<1>3. (t - n) % n = t
  <2>1. PICK b \in (-n)..(-1) : b = t - n
    OBVIOUS
  <2>2. b % n = b + n
    BY ModBelow
  <2>3. QED
    BY <2>1, <2>2
<1>4. ASSUME a \in 0..n
      PROVE  \E k \in 0..(n - 1) : (a + k) % n = t
  <2>1. CASE t >= a
    <3>1. PICK k \in 0..(n - 1) : a + k = t
      <4>1. t - a \in 0..(n - 1) /\ a + (t - a) = t
        BY <1>4, <2>1
      <4>2. QED
        BY <4>1
    <3>2. QED
      BY <1>1, <3>1
  <2>2. CASE t < a
    <3>1. PICK k \in 0..(n - 1) : a + k = t + n
      <4>1. t - a + n \in 0..(n - 1) /\ a + (t - a + n) = t + n
        BY <1>4, <2>2
      <4>2. QED
        BY <4>1
    <3>2. QED
      BY <1>2, <3>1
  <2>3. QED
    BY <1>4, <2>1, <2>2
<1>5. ASSUME a \in (-1)..(n - 1)
      PROVE  \E k \in 0..(n - 1) : (a + (-k)) % n = t
  <2>1. CASE a >= t
    <3>1. PICK k \in 0..(n - 1) : a + (-k) = t
      <4>1. a - t \in 0..(n - 1) /\ a + (-(a - t)) = t
        BY <1>5, <2>1
      <4>2. QED
        BY <4>1
    <3>2. QED
      BY <1>1, <3>1
  <2>2. CASE a < t
    <3>1. PICK k \in 0..(n - 1) : a + (-k) = t - n
      <4>1. a - t + n \in 0..(n - 1) /\ a + (-(a - t + n)) = t - n
        BY <1>5, <2>2
      <4>2. QED
        BY <4>1
    <3>2. QED
      BY <1>3, <3>1
  <2>3. QED
    BY <1>5, <2>1, <2>2
<1>6. QED
  BY <1>4, <1>5

(* The search finds a match if there is one.                               *)
LEMMA MatchFound ==
  ASSUME items \in Seq(Row), items # <<>>, cur \in DOMAIN items, NEW dir \in Directions,
         NEW found \in SUBSET (DOMAIN items)
  PROVE  /\ found = {} => get_mext_match(found, dir) = 0
         /\ found # {} => get_mext_match(found, dir) \in found /\ get_mext_match(found, dir) # 0
<1> DEFINE n == Len(items)
           start == match_start(dir)
           from(k)  == start - 1 + (IF Up(dir) THEN -k ELSE k)
           index(k) == (from(k) % n) + 1
           hits     == {k \in 0..(n - 1) : index(k) \in found}
<1>1. n \in Nat \ {0} /\ DOMAIN items = 1..n
  BY EmptySeq, LenProperties
<1>2. /\ start - 1 \in Int
      /\ Up(dir) => start - 1 \in (-1)..(n - 1)
      /\ ~Up(dir) => start - 1 \in 0..n
  BY <1>1 DEF match_start, Up, Directions
<1>3. get_mext_match(found, dir) = IF hits = {} THEN 0 ELSE index(Min(hits))
  BY DEF get_mext_match
<1>4. found = {} => hits = {}
  OBVIOUS
<1>5. ASSUME hits # {}
      PROVE  index(Min(hits)) \in found
  <2>1. hits \in SUBSET Nat
    BY <1>1
  <2>2. Min(hits) \in hits
    BY <1>5, <2>1, MinIs
  <2>3. QED
    BY <2>2
<1>6. ASSUME NEW i \in found
      PROVE  hits # {}
  <2>1. i \in 1..n
    BY <1>1
  <2>2. PICK t \in 0..(n - 1) : t + 1 = i
    <3>1. i - 1 \in 0..(n - 1) /\ i - 1 + 1 = i
      BY <1>1, <2>1
    <3>2. QED
      BY <3>1
  <2> HIDE DEF n, start
  <2>3. PICK k \in 0..(n - 1) : (start - 1 + (IF Up(dir) THEN -k ELSE k)) % n = t
    <3>1. CASE Up(dir)
      BY <1>1, <1>2, <2>2, <3>1, GoesRound
    <3>2. CASE ~Up(dir)
      BY <1>1, <1>2, <2>2, <3>2, GoesRound
    <3>3. QED
      BY <3>1, <3>2
  <2>4. index(k) = i
    BY <2>2, <2>3
  <2>5. QED
    BY <2>4
<1>7. 0 \notin found
  BY <1>1
<1>8. QED
  BY <1>3, <1>4, <1>5, <1>6, <1>7
-----------------------------------------------------------------------------
(* The steps of nconfig keep its windows and its search right              *)

Found(p) == Matching(p) # {} => cur \in Matching(p)

(* The highlight is on a match of what has been typed and of every part of *)
(* it that was typed first, so that a character can be taken back.         *)
SearchOK == This.match.in_search =>
  \A k \in 0..Len(This.match.pattern) : Found(SubSeq(This.match.pattern, 1, k))
NOK ==
  /\ items \in Seq(Row) /\ cur \in Nat \ {0} /\ (items # <<>> => cur \in DOMAIN items)
  /\ WindowsOK(windows, items) /\ SearchOK

NGoes == Valued' /\ Optioned' /\ (Alive' => NOK') /\ FailsOnlyThere'
NGood == NReady /\ NOK /\ Valued /\ Optioned

LEMMA NThis ==
  ASSUME NGood
  PROVE  /\ IsList(windows) /\ windows # <<>> /\ Len(windows) \in Nat \ {0} /\ outcome = "no"
         /\ IsWindow(This) /\ WindowOK(This, items) /\ This.match \in Matches /\ This.menu \in Names
         /\ CurrentItem.data # NoMenu => CurrentItem \in Row /\ CurrentItem \in InSeq(items)
         /\ This.fn \notin {"conf", "exit"} => Len(windows) > 1
<1>1. IsList(windows) /\ windows # <<>> /\ outcome = "no" /\ WindowsOK(windows, items)
  BY DEF NGood, NReady, WindowsRight, Alive, NOK
<1>2. /\ Len(windows) \in Nat \ {0} /\ IsWindow(This)
      /\ This.fn \notin {"conf", "exit"} => Len(windows) > 1
  BY WindowsAre DEF NGood, NReady
<1>3. WindowOK(This, items)
  BY <1>1, WOKPopped DEF This
<1>4. ASSUME CurrentItem.data # NoMenu
      PROVE  CurrentItem \in Row /\ CurrentItem \in InSeq(items)
  <2>1. cur \in DOMAIN items
    BY <1>4 DEF CurrentItem
  <2>2. CurrentItem = items[cur] /\ items \in Seq(Row)
    BY <2>1 DEF CurrentItem, NGood, NOK
  <2>3. items[cur] \in Row
    BY <2>1, <2>2, LenProperties, ElementOfSeq
  <2>4. QED
    BY <2>1, <2>2, <2>3 DEF InSeq
<1>5. QED
  BY <1>1, <1>2, <1>3, <1>4 DEF WindowOK

(* What is not alive any more has failed, or has ended.                    *)
LEMMA NotFailed ==
  ASSUME outcome \notin {"hangs", "crashes", "undefined"}
  PROVE  FailsOnlyThere
BY DEF FailsOnlyThere

LEMMA OptionsSame ==
  ASSUME Optioned, KeepOptions
  PROVE  Optioned'
BY DEF KeepOptions, Optioned, Names, Menu

LEMMA ConfKept ==
  ASSUME Valued, Optioned, KeepMenus
  PROVE  Valued' /\ Optioned'
<1>1. SameConf /\ KeepOptions
  BY DEF KeepMenus, menusVars, SameConf, KeepOptions
<1>2. QED
  BY <1>1, ValueKept, OptionsSame

(* A step after which no search goes on.                                   *)
LEMMA NRests ==
  ASSUME NGood, Valued', Optioned', items' = items, outcome' = outcome,
         cur' = cur \/ cur' \in DOMAIN items,
         WindowsOK(windows', items), ~Last(windows').match.in_search
  PROVE  NGoes
<1>1. items \in Seq(Row) /\ cur \in Nat \ {0} /\ (items # <<>> => cur \in DOMAIN items)
  BY DEF NGood, NOK
<1>2. cur' \in Nat \ {0} /\ (items # <<>> => cur' \in DOMAIN items)
  BY <1>1, LenProperties
<1>3. SearchOK'
  BY DEF SearchOK, This
<1>4. (items \in Seq(Row))'
  BY <1>1 DEF Row, Names, Menu
<1>5. WindowsOK(windows, items)'
  BY DEF WindowsOK, WindowOK, Under, Names, Menu, Children, Kind
<1>6. NOK'
  BY <1>2, <1>3, <1>4, <1>5 DEF NOK
<1>7. FailsOnlyThere'
  BY NThis DEF FailsOnlyThere
<1>8. QED
  BY <1>6, <1>7 DEF NGoes

(* A step after which it has ended.                                        *)
LEMMA NDone ==
  ASSUME NGood, Valued', Optioned', outcome' \in {"end", "error", "not saved"}
  PROVE  NGoes
<1>1. FailsOnlyThere'
  BY DEF FailsOnlyThere
<1>2. QED
  BY <1>1 DEF NGoes, Alive

(* A function returns, goes on, or calls another one.                      *)
LEMMA NMoves ==
  ASSUME NGood, Valued', Optioned', items' = items, outcome' = outcome,
         cur' = cur \/ cur' \in DOMAIN items
  PROVE  /\ Len(windows) > 1 /\ Pop => NGoes
         /\ \A w : WindowOK(w, items) /\ ~w.match.in_search /\ (This.fn = "text" => w.fn = "text") =>
                   (Put(w) => NGoes)
         /\ \A w : WindowOK(w, items) /\ ~w.match.in_search => (windows' = <<w>> => NGoes)
<1>1. IsList(windows) /\ windows # <<>> /\ WindowsOK(windows, items)
  BY NThis DEF NGood, NOK
<1>2. Len(windows) > 1 /\ Pop => NGoes
  <2>1. HAVE Len(windows) > 1 /\ Pop
  <2>2. /\ WindowsOK(Front(windows), items) /\ Front(windows) # <<>>
        /\ Under(Last(Front(windows)), Last(windows))
    BY <1>1, <2>1, WOKPopped
  <2>3. QED
    BY <2>1, <2>2, NRests DEF Pop, Under
<1>3. ASSUME NEW w, WindowOK(w, items), ~w.match.in_search, This.fn = "text" => w.fn = "text", Put(w)
      PROVE  NGoes
  <2>1. WindowsOK(windows', items) /\ Last(windows') = w
    BY <1>1, <1>3, WOKReplaced DEF Put, This
  <2>2. QED
    BY <1>3, <2>1, NRests
<1>4. ASSUME NEW w, WindowOK(w, items), ~w.match.in_search, windows' = <<w>>
      PROVE  NGoes
  <2>1. WindowsOK(windows', items) /\ Last(windows') = w
    BY <1>4, WOKOne
  <2>2. QED
    BY <1>4, <2>1, NRests
<1>5. QED
  BY <1>2, <1>3, <1>4

(* The window of a function that is called.                                *)
LEMMA NNewWindow ==
  ASSUME Valued, NEW fn, NEW m \in Names, fn = "choice" => Kind(m) = "choice", NEW its
  PROVE  WindowOK(NWindow(fn, m), its) /\ ~NWindow(fn, m).match.in_search
<1> DEFINE w == NWindow(fn, m)
<1>1. /\ w.fn = fn /\ w.menu = m /\ w.index = 1 /\ w.match = Idle
      /\ w.shown = (fn \notin {"conf", "choice"})
      /\ fn = "choice" => w.active = value[m]
  BY DEF NWindow
<1>2. Idle \in Matches /\ ~Idle.in_search
  <2>1. <<>> \in Seq(Characters)
    OBVIOUS
  <2>2. QED
    BY <2>1 DEF Idle, Matches, Directions
<1>3. fn = "choice" => value[m] \in Children(m)
  BY ValueOf
<1> HIDE DEF w
<1>4. CASE fn \in Lists
  <2>1. w.shown = FALSE
    BY <1>1, <1>4 DEF Lists
  <2>2. QED
    BY <1>1, <1>2, <1>3, <1>4, <2>1 DEF WindowOK, w
<1>5. CASE fn \notin Lists
  <2>1. w.shown = TRUE /\ fn # "choice" /\ fn # "conf"
    BY <1>1, <1>5 DEF Lists
  <2>2. QED
    BY <1>1, <1>2, <1>5, <2>1 DEF WindowOK, w
<1>6. QED
  BY <1>4, <1>5

LEMMA BrokenOK ==
  ASSUME NGood, InMenu
  PROVE  /\ WindowOK(Broken, items) /\ Broken.fn = This.fn /\ ~Broken.match.in_search /\ ~Broken.shown
         /\ WindowOK(Keyed, items) /\ Keyed.fn = This.fn /\ ~Keyed.match.in_search
         /\ This.fn \in Lists /\ This.shown
<1>1. This.fn \in Lists /\ This.shown
  BY DEF InMenu, Open, Lists
<1>2. IsWindow(This) /\ WindowOK(This, items) /\ cur \in Nat \ {0}
  BY NThis DEF NGood, NOK
<1>3. Idle \in Matches /\ ~Idle.in_search
  <2>1. <<>> \in Seq(Characters)
    OBVIOUS
  <2>2. QED
    BY <2>1 DEF Idle, Matches, Directions
<1>4. /\ Keyed.fn = This.fn /\ Keyed.menu = This.menu /\ Keyed.active = This.active
      /\ Keyed.shown = This.shown /\ Keyed.match = Idle
  BY <1>2 DEF Keyed, IsWindow
<1>5. /\ Broken.fn = This.fn /\ Broken.menu = This.menu /\ Broken.active = This.active
      /\ Broken.shown = FALSE /\ Broken.match = Idle
      /\ Broken.index = IF This.fn = "conf" THEN cur ELSE 0
  BY <1>2 DEF Broken, Keyed, IsWindow
<1>6. WindowOK(Broken, items)
  BY <1>1, <1>2, <1>3, <1>5 DEF WindowOK
<1>7. WindowOK(Keyed, items)
  BY <1>1, <1>2, <1>3, <1>4 DEF WindowOK
<1>8. QED
  BY <1>1, <1>3, <1>4, <1>5, <1>6, <1>7
LEMMA NGoOn ==
  ASSUME NGood, InMenu, Valued', Optioned', NEW ws, Go(ws),
         ws = <<>> \/ \E fn, m : /\ ws = <<NWindow(fn, m)>> /\ m \in Names
                                 /\ fn = "choice" => Kind(m) = "choice"
  PROVE  NGoes
<1>1. IsList(windows) /\ windows # <<>> /\ WindowsOK(windows, items) /\ Valued
  BY NThis DEF NGood, NOK
<1>2. /\ WindowOK(Broken, items) /\ Broken.fn = This.fn /\ ~Broken.match.in_search /\ ~Broken.shown
      /\ This.fn \in Lists
  BY BrokenOK
<1> DEFINE s == Append(Front(windows), Broken)
<1>3. WindowsOK(s, items) /\ Last(s) = Broken
  BY <1>1, <1>2, WOKReplaced DEF This
<1>4. IsList(s)
  BY <1>1, FrontIs, AppendIs
<1>5. windows' = s \o ws /\ items' = items /\ cur' = cur /\ outcome' = outcome
  BY DEF Go, Steady
<1> HIDE DEF s
<1>6. CASE ws = <<>>
  <2>1. windows' = s
    BY <1>4, <1>5, <1>6, ConcatIs
  <2>2. QED
    BY <1>2, <1>3, <1>5, <2>1, NRests
<1>7. ASSUME NEW fn, NEW m, ws = <<NWindow(fn, m)>>, m \in Names, fn = "choice" => Kind(m) = "choice"
      PROVE  NGoes
  <2>1. windows' = Append(s, NWindow(fn, m))
    BY <1>4, <1>5, <1>7, ConcatIs
  <2>2. WindowOK(NWindow(fn, m), items) /\ ~NWindow(fn, m).match.in_search
    BY <1>1, <1>7, NNewWindow
  <2>3. Under(Last(s), NWindow(fn, m))
    BY <1>2, <1>3 DEF Under, Lists
  <2>4. WindowsOK(windows', items) /\ Last(windows') = NWindow(fn, m)
    BY <1>3, <1>4, <2>1, <2>2, <2>3, WOKPushed
  <2>5. QED
    BY <1>5, <2>2, <2>4, NRests
<1>8. QED
  BY <1>6, <1>7

(* The list is built anew; what conf_choice() looks for is in it, if it is *)
(* visible.                                                                *)
LEMMA NShown ==
  ASSUME NGood, ShowMenu
  PROVE  NGoes
<1>1. /\ IsList(windows) /\ windows # <<>> /\ WindowsOK(windows, items)
      /\ IsWindow(This) /\ WindowOK(This, items) /\ outcome = "no"
      /\ cur \in Nat \ {0} /\ This.menu \in Names /\ Valued /\ Optioned
  BY NThis DEF NGood, NOK
<1> DEFINE i == Restored(items')
           w == [This EXCEPT !.shown = TRUE, !.index = i]
           here == {j \in DOMAIN items' : items'[j].data = This.active}
<1>2. /\ ~This.shown /\ items' = Listing /\ Put(w) /\ KeepMenus
      /\ cur' = CASE i \in DOMAIN items' -> i
                  [] items' = <<>> -> cur
                  [] OTHER -> 1
      /\ outcome' = IF i = 0 THEN "undefined" ELSE outcome
  BY DEF ShowMenu
<1>3. /\ This.fn \in Lists /\ ~This.match.in_search /\ This.match \in Matches
      /\ This.fn = "conf" => This.index \in Nat \ {0}
      /\ This.fn = "choice" => Kind(This.menu) = "choice" /\ This.active \in Children(This.menu)
  BY <1>1, <1>2 DEF WindowOK
<1>4. /\ items' \in Seq(Row)
      /\ This.fn = "choice" => \A j \in DOMAIN items' : items'[j].data \in Children(This.menu)
  <2>1. CASE This.fn = "conf"
    BY <1>1, <1>2, <2>1, ItemsAre DEF Listing
  <2>2. CASE This.fn = "choice"
    BY <1>1, <1>2, <2>2, MembersAre DEF Listing
  <2>3. QED
    BY <1>3, <2>1, <2>2 DEF Lists
<1>5. Len(items') \in Nat /\ DOMAIN items' = 1..Len(items') /\ (items' # <<>> => Len(items') > 0)
  BY <1>4, LenProperties, EmptySeq
<1>6. cur' \in Nat \ {0} /\ (items' # <<>> => cur' \in DOMAIN items')
  <2>1. CASE i \in DOMAIN items'
    <3>1. cur' = i
      BY <1>2, <2>1
    <3>2. QED
      BY <1>5, <2>1, <3>1
  <2>2. CASE i \notin DOMAIN items' /\ items' = <<>>
    <3>1. cur' = cur
      BY <1>2, <2>2
    <3>2. QED
      BY <1>1, <2>2, <3>1
  <2>3. CASE i \notin DOMAIN items' /\ items' # <<>>
    <3>1. cur' = 1
      BY <1>2, <2>3
    <3>2. QED
      BY <1>5, <2>3, <3>1
  <2>4. QED
    BY <2>1, <2>2, <2>3
<1>7. /\ w.fn = This.fn /\ w.menu = This.menu /\ w.active = This.active /\ w.match = This.match
      /\ w.shown = TRUE
  BY <1>1 DEF IsWindow
<1> HIDE DEF w
<1>8. WindowOK(w, items')
  BY <1>1, <1>3, <1>4, <1>7 DEF WindowOK
<1>9. WindowsOK(windows', items') /\ Last(windows') = w
  <2>1. WindowsOK(Front(windows), items') /\ IsList(Front(windows))
    BY <1>1, <1>2, WOKListed, WOKPopped DEF This
  <2>2. Front(windows) # <<>> => Under(Last(Front(windows)), w)
    <3>1. Front(windows) # <<>> => Under(Last(Front(windows)), This)
      BY <1>1, WOKPopped DEF This
    <3>2. This.fn # "text"
      BY <1>3 DEF Lists
    <3>3. QED
      BY <1>7, <3>1, <3>2 DEF Under
  <2>3. QED
    BY <1>2, <1>8, <2>1, <2>2, WOKPushed DEF Put
<1>10. NOK'
  <2>1. (items \in Seq(Row))'
    BY <1>4 DEF Row, Names, Menu
  <2>2. WindowsOK(windows, items)'
    BY <1>9 DEF WindowsOK, WindowOK, Under, Names, Menu, Children, Kind
  <2>3. SearchOK'
    <3>1. ~Last(windows').match.in_search
      BY <1>3, <1>7, <1>9
    <3>2. QED
      BY <3>1 DEF SearchOK, This
  <2>4. QED
    BY <1>6, <2>1, <2>2, <2>3 DEF NOK
<1>11. i = 0 => This.fn = "choice" /\ ~Shown(This.active)
  <2>1. HAVE i = 0
  <2>2. This.fn = "choice" => here = {}
    <3>1. HAVE This.fn = "choice"
    <3>2. SUFFICES ASSUME here # {} PROVE FALSE
      OBVIOUS
    <3>3. i = CHOOSE j \in here : TRUE
      BY <3>1, <3>2 DEF Restored
    <3>4. i \in here
      BY <3>2, <3>3
    <3>5. i \in DOMAIN items'
      BY <3>4
    <3>6. QED
      BY <1>5, <2>1, <3>5
  <2>3. This.fn = "choice"
    <3>1. SUFFICES ASSUME This.fn = "conf" PROVE FALSE
      BY <1>3 DEF Lists
    <3>2. i = This.index
      BY <3>1 DEF Restored
    <3>3. QED
      BY <1>3, <2>1, <3>1, <3>2
  <2>4. SUFFICES ASSUME Shown(This.active) PROVE FALSE
    BY <2>3
  <2>5. items' = Members(This.menu)
    BY <1>2, <2>3 DEF Listing
  <2>6. \E r \in InSeq(items') : r.data = This.active
    BY <1>1, <1>3, <2>3, <2>4, <2>5, MembersAre
  <2>7. here # {}
    BY <2>6 DEF InSeq
  <2>8. QED
    BY <2>2, <2>3, <2>7
<1>12. FailsOnlyThere'
  <2>1. CASE i # 0
    <3>1. outcome' = "no"
      BY <1>1, <1>2, <2>1
    <3>2. QED
      BY <3>1 DEF FailsOnlyThere
  <2>2. CASE i = 0
    <3>1. outcome' = "undefined"
      BY <1>2, <2>2
    <3>2. This' = w
      BY <1>9 DEF This
    <3>3. Shown(This.active)' <=> Shown(w.active)
      BY <1>2, <3>2 DEF KeepMenus, menusVars, confVars, Shown, Visible, Menu
    <3>4. QED
      BY <1>7, <1>11, <2>2, <3>1, <3>2, <3>3 DEF FailsOnlyThere
  <2>3. QED
    BY <2>1, <2>2
<1>13. QED
  BY <1>1, <1>2, <1>10, <1>12, ConfKept DEF NGoes
(* The beginning of the beginning of a pattern.                            *)
LEMMA PrefixIs ==
  ASSUME NEW C, NEW p \in Seq(C)
  PROVE  /\ SubSeq(p, 1, Len(p)) = p /\ Len(p) \in Nat
         /\ \A n \in 0..Len(p) : /\ SubSeq(p, 1, n) \in Seq(C) /\ Len(SubSeq(p, 1, n)) = n
                                 /\ \A k \in 0..n : SubSeq(SubSeq(p, 1, n), 1, k) = SubSeq(p, 1, k)
         /\ p # <<>> => Front(p) = SubSeq(p, 1, Len(p) - 1) /\ Len(p) - 1 \in 0..Len(p)
         /\ \A c \in C : /\ Append(p, c) \in Seq(C) /\ Len(Append(p, c)) = Len(p) + 1
                         /\ SubSeq(Append(p, c), 1, Len(p)) = p
<1>0. Len(p) \in Nat
  BY LenProperties
<1>1. SubSeq(p, 1, Len(p)) = p
  BY SubSeqFull
<1>2. ASSUME NEW q \in Seq(C), NEW n \in 0..Len(q)
      PROVE  /\ SubSeq(q, 1, n) \in Seq(C) /\ Len(SubSeq(q, 1, n)) = n
             /\ \A j \in 1..n : SubSeq(q, 1, n)[j] = q[j]
  <2>0. Len(q) \in Nat
    BY LenProperties
  <2>1. \A x \in 1..n : q[x] \in C
    BY <2>0, ElementOfSeq
  <2>2. /\ SubSeq(q, 1, n) \in Seq(C) /\ Len(SubSeq(q, 1, n)) = IF 1 <= n THEN n - 1 + 1 ELSE 0
        /\ \A j \in 1..(n - 1 + 1) : SubSeq(q, 1, n)[j] = q[1 + j - 1]
    BY <2>0, <2>1, SubSeqProperties
  <2>3. n - 1 + 1 = n /\ \A j \in 1..n : 1 + j - 1 = j
    BY <2>0
  <2>4. Len(SubSeq(q, 1, n)) = n
    BY <2>0, <2>2
  <2>5. QED
    BY <2>2, <2>3, <2>4
<1>3. ASSUME NEW n \in 0..Len(p), NEW k \in 0..n
      PROVE  SubSeq(SubSeq(p, 1, n), 1, k) = SubSeq(p, 1, k)
  <2> DEFINE u == SubSeq(p, 1, n)
  <2>1. u \in Seq(C) /\ Len(u) = n /\ \A j \in 1..n : u[j] = p[j]
    BY <1>2
  <2> HIDE DEF u
  <2>2. k \in 0..Len(u) /\ k \in 0..Len(p)
    BY <1>0, <2>1
  <2> DEFINE v == SubSeq(u, 1, k)
             w == SubSeq(p, 1, k)
  <2>3. v \in Seq(C) /\ Len(v) = k /\ \A j \in 1..k : v[j] = u[j]
    BY <1>2, <2>1, <2>2
  <2>4. w \in Seq(C) /\ Len(w) = k /\ \A j \in 1..k : w[j] = p[j]
    BY <1>2, <2>2
  <2> HIDE DEF v, w
  <2>5. \A j \in 1..k : j \in 1..n
    BY <1>0
  <2>6. v = w
    BY <2>1, <2>3, <2>4, <2>5, SeqEqual
  <2>7. QED
    BY <2>6 DEF u, v, w
<1>4. ASSUME p # <<>>
      PROVE  Front(p) = SubSeq(p, 1, Len(p) - 1) /\ Len(p) - 1 \in 0..Len(p)
  <2>1. Len(p) # 0
    BY <1>4, EmptySeq
  <2>2. QED
    BY <1>0, <2>1 DEF Front
<1>5. ASSUME NEW c \in C
      PROVE  /\ Append(p, c) \in Seq(C) /\ Len(Append(p, c)) = Len(p) + 1
             /\ SubSeq(Append(p, c), 1, Len(p)) = p
  <2> DEFINE u == Append(p, c)
  <2>1. u \in Seq(C) /\ Len(u) = Len(p) + 1 /\ \A j \in 1..Len(p) : u[j] = p[j]
    BY AppendProperties
  <2> HIDE DEF u
  <2>2. Len(p) \in 0..Len(u)
    BY <1>0, <2>1
  <2> DEFINE v == SubSeq(u, 1, Len(p))
  <2>3. v \in Seq(C) /\ Len(v) = Len(p) /\ \A j \in 1..Len(p) : v[j] = u[j]
    BY <1>2, <2>1, <2>2
  <2> HIDE DEF v
  <2>4. v = p
    BY <2>1, <2>3, SeqEqual
  <2>5. QED
    BY <2>1, <2>4 DEF u, v
<1>6. QED
  BY <1>0, <1>1, <1>2, <1>3, <1>4, <1>5

(* A step of the search, with what it leaves in its window.                *)
LEMMA NLooks ==
  ASSUME NGood, InMenu, NEW s \in Matches, NEW i, Put([This EXCEPT !.index = i, !.match = s]),
         KeepMenus, items' = items, outcome' = outcome, cur' = cur \/ cur' \in DOMAIN items,
         s.in_search => \A k \in 0..Len(s.pattern) :
           Matching(SubSeq(s.pattern, 1, k)) # {} => cur' \in Matching(SubSeq(s.pattern, 1, k))
  PROVE  NGoes
<1>1. /\ IsList(windows) /\ windows # <<>> /\ WindowsOK(windows, items)
      /\ IsWindow(This) /\ WindowOK(This, items) /\ outcome = "no"
      /\ items \in Seq(Row) /\ cur \in Nat \ {0} /\ (items # <<>> => cur \in DOMAIN items)
      /\ Valued /\ Optioned
  BY NThis DEF NGood, NOK
<1> DEFINE w == [This EXCEPT !.index = i, !.match = s]
<1>2. /\ w.fn = This.fn /\ w.menu = This.menu /\ w.active = This.active /\ w.match = s
      /\ w.shown = This.shown
  BY <1>1 DEF IsWindow
<1>3. Put(w)
  OBVIOUS
<1> HIDE DEF w
<1>4. This.fn \in Lists /\ This.shown
  BY DEF InMenu, Open, Lists
<1>5. WindowOK(w, items)
  BY <1>1, <1>2, <1>4 DEF WindowOK
<1>6. WindowsOK(windows', items) /\ Last(windows') = w
  BY <1>1, <1>2, <1>3, <1>5, WOKReplaced DEF Put, This
<1>7. cur' \in Nat \ {0} /\ (items # <<>> => cur' \in DOMAIN items)
  BY <1>1, LenProperties
<1>8. SearchOK'
  <2>1. This' = w
    BY <1>6 DEF This
  <2>2. \A p : Matching(p)' = Matching(p)
    BY DEF Matching, HasPart
  <2>3. SUFFICES ASSUME s.in_search, NEW k \in 0..Len(s.pattern)
                 PROVE  Found(SubSeq(s.pattern, 1, k))'
    BY <1>2, <2>1 DEF SearchOK
  <2>4. QED
    BY <2>2, <2>3 DEF Found
<1>9. (items \in Seq(Row))' /\ WindowsOK(windows, items)'
  BY <1>1, <1>6 DEF Row, WindowsOK, WindowOK, Under, Names, Menu, Children, Kind
<1>10. NOK'
  BY <1>7, <1>8, <1>9 DEF NOK
<1>11. FailsOnlyThere'
  BY <1>1 DEF FailsOnlyThere
<1>12. QED
  BY <1>1, <1>10, <1>11, ConfKept DEF NGoes

LEMMA NFails ==
  ASSUME NGood, NEW how \in {"end", "error", "not saved", "hangs", "crashes"}, Fails(how),
         how = "hangs" => Matching(This.match.pattern) = {} /\ cur \in {1, Len(items)},
         how = "crashes" => items = <<>>
  PROVE  NGoes
<1>1. KeepMenus /\ outcome' = how /\ UNCHANGED <<windows, items, cur>>
  BY DEF Fails, KeepMenus
<1>2. Valued' /\ Optioned'
  BY <1>1, ConfKept DEF NGood
<1>3. FailsOnlyThere'
  <2>1. This' = This /\ \A p : Matching(p)' = Matching(p)
    BY <1>1 DEF This, Matching, HasPart
  <2>2. QED
    BY <1>1, <2>1 DEF FailsOnlyThere
<1>4. QED
  BY <1>1, <1>2, <1>3 DEF NGoes, Alive

(* Search() finds a match or fails; the rest of the pattern was found      *)
(* before.                                                                 *)
LEMMA NSearch ==
  ASSUME NGood, InMenu, NEW p \in Seq(Characters), NEW dir \in Directions, Search(p, dir),
         \A k \in 0..Len(p) : k # Len(p) => Found(SubSeq(p, 1, k)),
         p = This.match.pattern \/ match_start(dir) = cur
  PROVE  NGoes
<1> DEFINE state == [in_search |-> TRUE, match_direction |-> dir, pattern |-> p]
           found == Matching(p)
           match == get_mext_match(found, dir)
<1>1. /\ items \in Seq(Row) /\ cur \in Nat \ {0} /\ (items # <<>> => cur \in DOMAIN items)
  BY DEF NGood, NOK
<1>2. state \in Matches /\ state.pattern = p /\ state.in_search = TRUE
  BY DEF Matches
<1>3. CASE items = <<>>
  <2>1. Fails("crashes")
    BY <1>3 DEF Search
  <2>2. QED
    BY <1>3, <2>1, NFails
<1>4. CASE items # <<>>
  <2>1. found \in SUBSET (DOMAIN items)
    BY <1>1, MatchesAre
  <2>2. /\ found = {} => match = 0
        /\ found # {} => match \in found /\ match # 0
    BY <1>1, <1>4, <2>1, MatchFound
  <2> HIDE DEF state, found, match
  <2>3. CASE match # 0
    <3>1. Put([This EXCEPT !.index = match, !.match = state]) /\ cur' = match /\ KeepMenus
          /\ items' = items /\ outcome' = outcome
      BY <1>4, <2>3 DEF Search, state, found, match
    <3>2. match \in found /\ match \in DOMAIN items
      BY <2>1, <2>2, <2>3
    <3>3. \A k \in 0..Len(p) : match \in Matching(SubSeq(p, 1, k))
      BY <1>1, <3>2, MatchesAre DEF found
    <3>4. QED
      BY <1>2, <3>1, <3>2, <3>3, NLooks
  <2>4. CASE match = 0 /\ match_start(dir) \in DOMAIN items
    <3>1. /\ Put([This EXCEPT !.index = 0, !.match = state]) /\ KeepMenus
          /\ items' = items /\ outcome' = outcome /\ cur' = cur
      BY <1>4, <2>4 DEF Search, Steady, state, found, match
    <3>2. Matching(SubSeq(p, 1, Len(p))) = {}
      BY <2>2, <2>4, PrefixIs DEF found
    <3>3. \A k \in 0..Len(p) : Found(SubSeq(p, 1, k))
      BY <3>2 DEF Found
    <3>4. QED
      BY <1>2, <3>1, <3>3, NLooks DEF Found
  <2>5. CASE match = 0 /\ match_start(dir) \notin DOMAIN items
    <3>1. Fails("hangs")
      BY <1>4, <2>5 DEF Search, found, match
    <3>2. match_start(dir) # cur
      BY <1>1, <1>4, <2>5
    <3>3. Matching(This.match.pattern) = {}
      BY <2>2, <2>5, <3>2 DEF found
    <3>4. cur \in {1, Len(items)}
      <4>1. Len(items) \in Nat /\ DOMAIN items = 1..Len(items)
        BY <1>1, LenProperties
      <4>2. match_start(dir) \in {cur - 1, cur, cur + 1}
        BY DEF match_start
      <4>3. PICK n \in Nat : n = Len(items)
        BY <4>1
      <4>4. cur \in 1..n
        BY <1>1, <1>4, <4>1, <4>3
      <4>5. cur - 1 \notin 1..n \/ cur + 1 \notin 1..n
        BY <2>5, <3>2, <4>1, <4>2, <4>3
      <4>6. cur = 1 \/ cur = n
        BY <4>4, <4>5
      <4>7. QED
        BY <4>3, <4>6
    <3>5. QED
      BY <3>1, <3>3, <3>4, NFails
  <2>6. QED
    BY <2>3, <2>4, <2>5
<1>5. QED
  BY <1>3, <1>4
LEMMA NListKeysGo ==
  ASSUME NGood, ShowMenu \/ Slash \/ TypeCharacter \/ FindNext \/ Rubout \/ Move \/ NHelp
  PROVE  NGoes
<1> DEFINE p == This.match.pattern
           dir == This.match.match_direction
<1>1. /\ IsList(windows) /\ windows # <<>> /\ WindowsOK(windows, items) /\ IsWindow(This)
      /\ items \in Seq(Row) /\ cur \in Nat \ {0} /\ (items # <<>> => cur \in DOMAIN items)
      /\ This.match \in Matches /\ This.menu \in Names /\ Valued /\ Optioned
  BY NThis DEF NGood, NOK
<1>2. p \in Seq(Characters) /\ dir \in Directions
  BY <1>1 DEF Matches
<1>3. Len(p) \in Nat
  BY <1>2, LenProperties
<1>4. Searching => \A k \in 0..Len(p) : Found(SubSeq(p, 1, k))
  BY DEF Searching, NGood, NOK, SearchOK
<1>5. CASE ShowMenu
  BY <1>5, NShown
<1>6. CASE Slash
  <2> DEFINE s == [Idle EXCEPT !.in_search = ~This.match.in_search]
  <2>1. /\ InMenu /\ Put([This EXCEPT !.index = 0, !.match = s]) /\ KeepMenus
        /\ items' = items /\ cur' = cur /\ outcome' = outcome
    BY <1>6 DEF Slash, Steady
  <2>2. s \in Matches /\ s.pattern = <<>>
    <3>1. Idle.in_search = FALSE /\ Idle.pattern = <<>> /\ Idle.match_direction \in Directions
      BY DEF Idle, Directions
    <3>2. <<>> \in Seq(Characters)
      OBVIOUS
    <3>3. This.match.in_search \in BOOLEAN
      BY <1>1 DEF Matches
    <3>4. Idle \in Matches
      BY <3>2 DEF Idle, Directions, Matches
    <3>5. QED
      BY <3>1, <3>3, <3>4 DEF Matches
  <2> HIDE DEF s
  <2>3. \A k \in 0..Len(s.pattern) : SubSeq(s.pattern, 1, k) = <<>>
    <3>1. <<>> \in Seq(Characters) /\ Len(<<>>) = 0
      BY EmptySeq
    <3>2. SubSeq(<<>>, 1, 0) = <<>>
      BY <3>1, PrefixIs
    <3>3. QED
      BY <2>2, <3>1, <3>2
  <2>4. Matching(<<>>) # {} => cur \in Matching(<<>>)
    <3>1. Matching(<<>>) = DOMAIN items
      BY <1>1, MatchesAre
    <3>2. items = <<>> => DOMAIN items = {}
      <4>1. HAVE items = <<>>
      <4>2. Len(items) = 0 /\ DOMAIN items = 1..Len(items)
        BY <1>1, <4>1, LenProperties, EmptySeq
      <4>3. QED
        BY <4>2
    <3>3. QED
      BY <1>1, <3>1, <3>2
  <2>5. QED
    BY <2>1, <2>2, <2>3, <2>4, NLooks
<1>7. CASE TypeCharacter
  <2>1. Searching /\ InMenu
    BY <1>7 DEF TypeCharacter, Searching
  <2>2. PICK c \in Characters : Search(Append(p, c), Adjusted(dir))
    BY <1>7 DEF TypeCharacter
  <2>3. Adjusted(dir) \in Directions /\ match_start(Adjusted(dir)) = cur
    BY <1>2 DEF Adjusted, Directions, match_start
  <2> DEFINE q == Append(p, c)
  <2>4. q \in Seq(Characters) /\ Len(q) = Len(p) + 1 /\ SubSeq(q, 1, Len(p)) = p
    BY <1>2, PrefixIs
  <2> HIDE DEF q
  <2>5. ASSUME NEW k \in 0..Len(q), k # Len(q)
        PROVE  Found(SubSeq(q, 1, k))
    <3>1. k \in 0..Len(p) /\ Len(p) \in 0..Len(q)
      BY <1>3, <2>4, <2>5
    <3>2. SubSeq(SubSeq(q, 1, Len(p)), 1, k) = SubSeq(q, 1, k)
      BY <2>4, <3>1, PrefixIs
    <3>3. QED
      BY <1>4, <2>1, <2>4, <3>1, <3>2
  <2>6. QED
    BY <2>1, <2>2, <2>3, <2>4, <2>5, NSearch DEF q
<1>8. CASE FindNext
  <2>1. Searching /\ InMenu
    BY <1>8 DEF FindNext, Searching
  <2>2. PICK d \in {"FIND_NEXT_MATCH_DOWN", "FIND_NEXT_MATCH_UP"} : Search(p, d)
    BY <1>8 DEF FindNext
  <2>3. d \in Directions
    BY DEF Directions
  <2>4. QED
    BY <1>2, <1>4, <2>1, <2>2, <2>3, NSearch
<1>9. CASE Rubout
  <2> DEFINE q == IF p = <<>> THEN p ELSE Front(p)
             s == [This.match EXCEPT !.pattern = q, !.match_direction = Adjusted(dir)]
  <2>1. /\ Put([This EXCEPT !.index = 0, !.match.pattern = q, !.match.match_direction = Adjusted(@)])
        /\ KeepMenus /\ items' = items /\ cur' = cur /\ outcome' = outcome
        /\ Searching /\ InMenu
    BY <1>9 DEF Rubout, Steady, Searching
  <2>2. [This EXCEPT !.index = 0, !.match.pattern = q, !.match.match_direction = Adjusted(@)]
          = [This EXCEPT !.index = 0, !.match = s]
    BY <1>1 DEF IsWindow
  <2>3. PICK n \in 0..Len(p) : q = SubSeq(p, 1, n) /\ q \in Seq(Characters) /\ Len(q) = n
    <3>1. CASE p = <<>>
      BY <1>2, <1>3, <3>1, PrefixIs
    <3>2. CASE p # <<>>
      <4>1. PICK m \in 0..Len(p) : m = Len(p) - 1 /\ q = SubSeq(p, 1, m)
        BY <1>2, <3>2, PrefixIs
      <4>2. SubSeq(p, 1, m) \in Seq(Characters) /\ Len(SubSeq(p, 1, m)) = m
        BY <1>2, PrefixIs
      <4>3. QED
        BY <4>1, <4>2
    <3>3. QED
      BY <3>1, <3>2
  <2> HIDE DEF q
  <2>4. s \in Matches /\ s.pattern = q
    <3>1. Adjusted(dir) \in Directions
      BY <1>2 DEF Adjusted, Directions
    <3>2. QED
      BY <1>1, <2>3, <3>1 DEF Matches
  <2> HIDE DEF s
  <2>5. ASSUME NEW k \in 0..Len(q)
        PROVE  Found(SubSeq(q, 1, k))
    <3>1. SubSeq(q, 1, k) = SubSeq(p, 1, k) /\ k \in 0..Len(p)
      BY <1>2, <1>3, <2>3, PrefixIs
    <3>2. QED
      BY <1>4, <2>1, <3>1
  <2>6. QED
    BY <2>1, <2>2, <2>4, <2>5, NLooks DEF Found
<1>10. CASE Move
  <2>1. /\ InMenu /\ Put(Keyed) /\ KeepMenus /\ items' = items /\ outcome' = outcome
        /\ cur' = cur \/ cur' \in DOMAIN items
    BY <1>10 DEF Move
  <2>2. WindowOK(Keyed, items) /\ ~Keyed.match.in_search /\ Keyed.fn = This.fn
    BY <2>1, BrokenOK
  <2>3. QED
    BY <1>1, <2>1, <2>2, ConfKept, NMoves
<1>11. CASE NHelp
  <2> DEFINE s == Append(Front(windows), Keyed)
             t == NWindow("text", This.menu)
  <2>1. /\ InMenu /\ windows' = s \o <<t>> /\ KeepMenus /\ items' = items /\ outcome' = outcome /\ cur' = cur
    BY <1>11 DEF NHelp, Plain, Steady
  <2>2. /\ WindowOK(Keyed, items) /\ ~Keyed.match.in_search /\ Keyed.fn = This.fn
        /\ This.fn \in Lists
    BY <2>1, BrokenOK
  <2>3. WindowOK(t, items) /\ ~t.match.in_search
    BY <1>1, NNewWindow
  <2>4. t.fn = "text"
    BY NewWindow
  <2> HIDE DEF t
  <2>5. WindowsOK(s, items) /\ Last(s) = Keyed /\ IsList(s)
    BY <1>1, <2>2, WOKReplaced, FrontIs, AppendIs DEF This
  <2>6. Under(Last(s), t)
    BY <2>2, <2>4, <2>5 DEF Under, Lists
  <2>7. windows' = Append(s, t)
    BY <2>1, <2>5, ConcatIs
  <2>8. WindowsOK(windows', items) /\ Last(windows') = t
    BY <2>3, <2>5, <2>6, <2>7, WOKPushed
  <2>9. QED
    BY <1>1, <2>1, <2>3, <2>8, ConfKept, NRests
<1>12. QED
  BY <1>5, <1>6, <1>7, <1>8, <1>9, <1>10, <1>11
(* The keys that leave the list or act on an item.                         *)
LEMMA NItemKeysGo ==
  ASSUME NGood, FunctionKey \/ FunctionExit \/ LeaveMenu \/ NSelect \/ NSpace \/ NSet \/ NChoose
  PROVE  NGoes
<1>1. /\ Len(windows) \in Nat \ {0} /\ This.menu \in Names /\ Valued /\ Optioned /\ Root \in Names
      /\ WindowOK(This, items) /\ items \in Seq(Row) /\ InMenu
  BY NThis, EntriesAssumption
     DEF NGood, NOK, FunctionKey, FunctionExit, LeaveMenu, NSelect, NSpace, NSet, NChoose, InMenu
<1>2. CurrentItem.data # NoMenu => CurrentItem.data \in Names
  BY NThis DEF Row
<1>3. KeepMenus => Valued' /\ Optioned'
  BY <1>1, ConfKept
<1>4. KeepOptions => Optioned'
  BY <1>1, OptionsSame
(* A function is called, or none.                                          *)
<1>5. ASSUME NEW fn, NEW m \in Names, fn = "choice" => Kind(m) = "choice",
             Valued', Optioned', Go(<<NWindow(fn, m)>>)
      PROVE  NGoes
  BY <1>1, <1>5, NGoOn
<1>6. ASSUME Valued', Optioned', Go(<<>>)
      PROVE  NGoes
  BY <1>1, <1>6, NGoOn
<1>7. Nothing => NGoes
  BY <1>3, <1>6 DEF Nothing
<1>8. ASSUME NEW m \in Names, NEW v, MaySet(m, v), SetTristate(m, v)
      PROVE  Valued'
  BY <1>1, <1>8, ValueSet
<1>9. ASSUME NEW m \in Names, Toggle(m)
      PROVE  NGoes
  <2>1. SetTristate(m, Toggled(m)) /\ KeepOptions /\ Go(<<>>)
    BY <1>9 DEF Toggle
  <2>2. Valued'
    BY <1>8, <2>1, MaySetThem
  <2>3. QED
    BY <1>4, <1>6, <2>1, <2>2
<1>10. CASE FunctionKey
  <2>1. KeepMenus /\ (Go(<<>>) \/ \E fn \in {"text", "show", "save", "load", "search"} : Go(<<NWindow(fn, This.menu)>>))
    BY <1>10 DEF FunctionKey
  <2>2. QED
    BY <1>1, <1>3, <1>5, <1>6, <2>1
<1>11. CASE FunctionExit
  <2>1. CASE changed
    BY <1>1, <1>3, <1>5, <1>11, <2>1 DEF FunctionExit
  <2>2. CASE ~changed
    BY <1>11, <2>2, NFails DEF FunctionExit
  <2>3. QED
    BY <2>1, <2>2
<1>12. CASE LeaveMenu
  <2>1. \/ Len(windows) > 1 /\ Pop /\ KeepMenus /\ Steady
        \/ windows' = <<NWindow("exit", Root)>> /\ KeepMenus /\ Steady
        \/ Fails("end")
    <3>1. PICK n \in Nat \ {0} : n = Len(windows)
      BY <1>1
    <3>2. n > 1 \/ n = 1
      OBVIOUS
    <3>3. QED
      BY <1>12, <3>1, <3>2 DEF LeaveMenu
  <2>2. CASE Len(windows) > 1 /\ Pop /\ KeepMenus /\ Steady
    BY <1>3, <2>2, NMoves DEF Steady
  <2>3. CASE windows' = <<NWindow("exit", Root)>> /\ KeepMenus /\ Steady
    <3>1. WindowOK(NWindow("exit", Root), items) /\ ~NWindow("exit", Root).match.in_search
      BY <1>1, NNewWindow
    <3>2. QED
      BY <1>3, <2>3, <3>1, NMoves DEF Steady
  <2>4. CASE Fails("end")
    BY <2>4, NFails
  <2>5. QED
    BY <2>1, <2>2, <2>3, <2>4
<1>13. CASE NSelect
  <2> DEFINE item == CurrentItem
             m == item.data
             Calls(fn) == Go(<<NWindow(fn, m)>>) /\ KeepMenus
  <2>1. \/ Nothing
        \/ /\ Acts(item)
           /\ \/ single_menu_mode /\ Unfold(m) /\ UNCHANGED confVars /\ Go(<<>>)
              \/ Calls("conf") \/ (Kind(m) = "choice" /\ Calls("choice")) \/ Calls("string")
              \/ Toggle(m)
    BY <1>13 DEF NSelect
  <2>2. Acts(item) => m \in Names
    BY <1>2 DEF Acts
  <2>3. CASE Acts(item) /\ single_menu_mode /\ Unfold(m) /\ UNCHANGED confVars /\ Go(<<>>)
    <3>1. Optioned'
      BY <1>1, <2>2, <2>3 DEF Unfold, Optioned, Names, Menu
    <3>2. Valued'
      BY <1>1, <2>3, ValueKept DEF SameConf
    <3>3. QED
      BY <1>6, <2>3, <3>1, <3>2
  <2>4. CASE Acts(item) /\ (Calls("conf") \/ (Kind(m) = "choice" /\ Calls("choice")) \/ Calls("string"))
    BY <1>3, <1>5, <2>2, <2>4
  <2>5. CASE Acts(item) /\ Toggle(m)
    BY <1>9, <2>2, <2>5
  <2>6. QED
    BY <1>7, <2>1, <2>3, <2>4, <2>5
<1>14. CASE NSpace
  <2> DEFINE item == CurrentItem
  <2>0. Acts(item) => item.data \in Names
    BY <1>2 DEF Acts
  <2>1. CASE Acts(item) /\ item.tag = "t"
    BY <1>9, <1>14, <2>0, <2>1 DEF NSpace
  <2>2. CASE Acts(item) /\ item.tag = "m"
    <3>1. Go(<<NWindow("conf", item.data)>>) /\ KeepMenus
      BY <1>14, <2>2 DEF NSpace
    <3>2. QED
      BY <1>3, <1>5, <2>0, <2>2, <3>1
  <2>3. CASE ~Acts(item) \/ item.tag \notin {"t", "m"}
    BY <1>7, <1>14, <2>3 DEF NSpace
  <2>4. QED
    BY <2>1, <2>2, <2>3
<1>15. CASE NSet
  <2>1. PICK v \in {"y", "n", "m"} :
          LET item == CurrentItem
              May(w) == Acts(item) /\ item.tag = "t" /\ MaySet(item.data, w)
          IN  CASE May(v) -> SetTristate(item.data, v) /\ KeepOptions /\ Go(<<>>)
                [] ~May(v) /\ v = "y" /\ May("m") ->
                     SetTristate(item.data, "m") /\ KeepOptions /\ Go(<<NWindow("text", This.menu)>>)
                [] ~May(v) /\ ~(v = "y" /\ May("m")) -> Nothing
    BY <1>15 DEF NSet
  <2> DEFINE item == CurrentItem
             may(w) == Acts(item) /\ item.tag = "t" /\ MaySet(item.data, w)
  <2>0. Acts(item) => item.data \in Names
    BY <1>2 DEF Acts
  <2>2. CASE may(v)
    <3>1. SetTristate(item.data, v) /\ KeepOptions /\ Go(<<>>)
      BY <2>1, <2>2
    <3>2. Valued'
      BY <1>8, <2>0, <2>2, <3>1
    <3>3. QED
      BY <1>4, <1>6, <3>1, <3>2
  <2>3. CASE ~may(v) /\ v = "y" /\ may("m")
    <3>1. SetTristate(item.data, "m") /\ KeepOptions /\ Go(<<NWindow("text", This.menu)>>)
      BY <2>1, <2>3
    <3>2. Valued'
      BY <1>8, <2>0, <2>3, <3>1
    <3>3. QED
      BY <1>1, <1>4, <1>5, <3>1, <3>2
  <2>4. CASE ~may(v) /\ ~(v = "y" /\ may("m"))
    <3>1. Nothing
      BY <2>1, <2>4
    <3>2. QED
      BY <1>7, <3>1
  <2>5. QED
    BY <2>2, <2>3, <2>4
<1>16. CASE NChoose
  <2> DEFINE c == CurrentItem.data
  <2>1. This.fn = "choice" /\ This.shown
    BY <1>16 DEF NChoose, Open
  <2>2. \/ c # NoMenu /\ Visible(c) /\ HasSymbol(c) /\ SetTristate(c, "y") /\ KeepOptions /\ Pop /\ Steady
        \/ Nothing
    BY <1>16 DEF NChoose
  <2>3. CASE c # NoMenu /\ Visible(c) /\ HasSymbol(c) /\ SetTristate(c, "y") /\ KeepOptions /\ Pop /\ Steady
    <3>1. c \in Children(This.menu)
      <4>1. CurrentItem \in InSeq(items)
        BY <2>3, NThis
      <4>2. QED
        BY <1>1, <2>1, <4>1 DEF WindowOK, InSeq
    <3>2. Kind(This.menu) = "choice"
      BY <1>1, <2>1 DEF WindowOK
    <3>3. c \in Names /\ MaySet(c, "y")
      BY <1>1, <2>3, <3>1, <3>2, MaySetThem
    <3>4. Valued' /\ Optioned'
      BY <1>4, <1>8, <2>3, <3>3
    <3>5. Len(windows) > 1
      BY <2>1, NThis
    <3>6. QED
      BY <2>3, <3>4, <3>5, NMoves DEF Steady
  <2>4. QED
    BY <1>7, <2>2, <2>3
<1>17. QED
  BY <1>10, <1>11, <1>12, <1>13, <1>14, <1>15, <1>16

(* The other functions.                                                    *)
LEMMA NOthersGo ==
  ASSUME NGood, NClose \/ NAgain \/ NString \/ NLoad \/ NLoadRefused \/ NSave \/ NResults \/ NShowAll \/ NExit
  PROVE  NGoes
<1>1. /\ IsList(windows) /\ windows # <<>> /\ WindowsOK(windows, items) /\ Valued /\ Optioned
      /\ Len(windows) \in Nat \ {0} /\ This.menu \in Names /\ WindowOK(This, items) /\ Root \in Names
      /\ This.fn \notin {"conf", "exit"} => Len(windows) > 1
  BY NThis, EntriesAssumption DEF NGood, NOK
<1>2. KeepMenus => Valued' /\ Optioned'
  BY <1>1, ConfKept
<1>3. KeepOptions => Optioned'
  BY <1>1, OptionsSame
<1>4. SetString \/ Loaded \/ LoadRefused \/ Saved => Valued'
  BY <1>1, ValueKept
<1>5. CASE NClose \/ NString \/ NLoad \/ NSave \/ NShowAll
  <2>1. Len(windows) > 1 /\ Pop /\ Steady
    BY <1>1, <1>5 DEF NClose, NString, NLoad, NSave, NShowAll, Open
  <2>2. Valued' /\ Optioned'
    <3>1. CASE NClose
      BY <1>2, <3>1 DEF NClose
    <3>2. CASE NString \/ NLoad \/ NSave
      BY <1>3, <1>4, <3>2 DEF NString, NLoad, NSave
    <3>3. CASE NShowAll
      <4>1. Optioned'
        BY <1>1, <3>3 DEF NShowAll, Optioned, Names, Menu
      <4>2. Valued'
        BY <1>1, <3>3, ValueKept DEF NShowAll, SameConf
      <4>3. QED
        BY <4>1, <4>2
    <3>4. QED
      BY <1>5, <3>1, <3>2, <3>3
  <2>3. QED
    BY <2>1, <2>2, NMoves DEF Steady
<1>6. CASE NAgain \/ NLoadRefused
  <2>1. This.fn \in {"string", "load", "save", "search"} /\ Push("text") /\ Steady
    BY <1>6 DEF NAgain, NLoadRefused, Open
  <2>01. Valued' /\ Optioned'
    BY <1>2, <1>3, <1>4, <1>6 DEF NAgain, NLoadRefused
  <2> DEFINE t == NWindow("text", This.menu)
  <2>2. WindowOK(t, items) /\ ~t.match.in_search
    BY <1>1, NNewWindow
  <2> HIDE DEF t
  <2>3. Under(Last(windows), t)
    BY <1>1, <2>1 DEF WindowOK, Under, Lists, This
  <2>4. WindowsOK(windows', items) /\ Last(windows') = t
    BY <1>1, <2>1, <2>2, <2>3, WOKPushed DEF Push, t
  <2>5. QED
    BY <2>01, <2>1, <2>2, <2>4, NRests DEF Steady
<1>7. CASE NResults
  <2>1. Put(NWindow("text", This.menu)) /\ KeepMenus /\ Steady
    BY <1>7 DEF NResults
  <2>2. WindowOK(NWindow("text", This.menu), items) /\ ~NWindow("text", This.menu).match.in_search
    BY <1>1, NNewWindow
  <2>3. NWindow("text", This.menu).fn = "text"
    BY NewWindow
  <2>4. QED
    BY <1>2, <2>1, <2>2, <2>3, NMoves DEF Steady
<1>8. CASE NExit
  <2>1. CASE Saved /\ KeepOptions /\ outcome' = "end"
    BY <1>3, <1>4, <2>1, NDone
  <2>2. CASE Fails("error") \/ Fails("not saved")
    BY <2>2, NFails
  <2>3. CASE /\ windows' = IF Len(windows) = 1 THEN <<NWindow("conf", Root)>> ELSE Front(windows)
             /\ KeepMenus /\ Steady
    <3>1. CASE Len(windows) = 1
      <4>1. WindowOK(NWindow("conf", Root), items) /\ ~NWindow("conf", Root).match.in_search
        BY <1>1, NNewWindow
      <4>2. QED
        BY <1>2, <2>3, <3>1, <4>1, NMoves DEF Steady
    <3>2. CASE Len(windows) # 1
      <4>1. PICK n \in Nat \ {0} : n = Len(windows)
        BY <1>1
      <4>2. n > 1
        BY <3>2, <4>1
      <4>3. Pop
        BY <2>3, <3>2 DEF Pop
      <4>4. QED
        BY <1>2, <2>3, <4>1, <4>2, <4>3, NMoves DEF Steady
    <3>3. QED
      BY <3>1, <3>2
  <2>4. QED
    BY <1>8, <2>1, <2>2, <2>3 DEF NExit
<1>9. QED
  BY <1>5, <1>6, <1>7, <1>8
LEMMA NconfGoes ==
  ASSUME WindowsRight(windows), Honest, Alive, NOK, Valued, Optioned, NNext
  PROVE  NGoes
<1>1. NGood
  BY DEF NGood, NReady
<1>2. QED
  BY <1>1, NListKeysGo, NItemKeysGo, NOthersGo DEF NNext
-----------------------------------------------------------------------------
(* The menus of both front ends                                            *)

MenusInv ==
  /\ IInv /\ Valued /\ Optioned
  /\ StackOK(stack) /\ (ended = "no" <=> stack # <<>>)
  /\ (Alive => NOK) /\ FailsOnlyThere

LEMMA MenusStart ==
  ASSUME FrontInit
  PROVE  MenusInv
<1>1. IInv
  BY InitRight
<1>2. Valued
  <2>1. CASE value \in Configurations
    BY <2>1 DEF Valued
  <2>2. CASE value = [m \in Symbols |-> CHOOSE v \in Menu[m].values : TRUE]
    <3>1. \A m \in Symbols : value[m] \in Menu[m].values
      BY <2>2 DEF Symbols
    <3>2. value \in [Symbols -> UNION {Menu[m].values : m \in Symbols}]
      BY <2>2, <3>1
    <3>3. QED
      BY <3>1, <3>2 DEF Valued, Configurations
  <2>3. QED
    BY <2>1, <2>2 DEF FrontInit, Init, NInit, MenusInit, NoMenus
<1>3. Optioned
  BY DEF FrontInit, Init, NInit, MenusInit, NoMenus, Optioned
<1>4. StackOK(stack) /\ (ended = "no" <=> stack # <<>>)
  <2>1. CASE NoMconf
    BY <2>1, OKEmpty DEF NoMconf
  <2>2. CASE Init
    <3>1. "conf" \in DOMAIN Needs /\ "conf" \in Bottom
      BY DEF Needs, Bottom
    <3>2. FrameOK(Frame("conf", Root, Nil)) /\ Frame("conf", Root, Nil).fn = "conf"
      BY <3>1, EntriesAssumption, NewFrame
    <3>3. stack = <<Frame("conf", Root, Nil)>> /\ ended = "no"
      BY <2>2 DEF Init
    <3>4. QED
      BY <3>1, <3>2, <3>3, OKOne
  <2>3. QED
    BY <2>1, <2>2 DEF FrontInit
<1>5. outcome \in {"off", "no"} /\ (Alive => NInit)
  BY DEF FrontInit, NInit, NoNconf, Alive
<1>6. FailsOnlyThere
  BY <1>5 DEF FailsOnlyThere
<1>7. ASSUME Alive
      PROVE  NOK
  <2> DEFINE w == NWindow("conf", Root)
  <2>1. windows = <<w>> /\ items = <<>> /\ cur = 1
    BY <1>5, <1>7 DEF NInit
  <2>2. WindowOK(w, items) /\ ~w.match.in_search
    BY <1>2, EntriesAssumption, NNewWindow
  <2> HIDE DEF w
  <2>3. WindowsOK(windows, items) /\ This = w
    BY <2>1, <2>2, WOKOne DEF This
  <2>4. items \in Seq(Row)
    BY <2>1
  <2>5. QED
    BY <2>1, <2>2, <2>3, <2>4 DEF NOK, SearchOK
<1>8. QED
  BY <1>1, <1>2, <1>3, <1>4, <1>6, <1>7 DEF MenusInv

(* Neither front end does anything.                                        *)
LEMMA MenusStay ==
  ASSUME MenusInv, UNCHANGED <<mconfOnly, nconfOnly, menusVars>>
  PROVE  /\ Valued' /\ Optioned' /\ StackOK(stack') /\ (ended' = "no" <=> stack' # <<>>)
         /\ (Alive => NOK)' /\ FailsOnlyThere'
<1>1. /\ Valued /\ Optioned /\ StackOK(stack) /\ (ended = "no" <=> stack # <<>>)
      /\ (Alive => NOK) /\ FailsOnlyThere
  BY DEF MenusInv
<1>2. UNCHANGED <<stack, ended, windows, items, cur, outcome>> /\ KeepMenus
  BY DEF mconfOnly, nconfOnly, KeepMenus
<1>3. Valued' /\ Optioned'
  BY <1>1, <1>2, ConfKept
<1>4. This' = This /\ \A p : Matching(p)' = Matching(p)
  BY <1>2 DEF This, Matching, HasPart
<1>5. FailsOnlyThere'
  <2>1. Shown(This.active)' <=> Shown(This.active)
    BY <1>2, <1>4 DEF KeepMenus, menusVars, confVars, Shown, Visible, Menu
  <2>2. QED
    BY <1>1, <1>2, <1>4, <2>1 DEF FailsOnlyThere
<1>6. ASSUME NOK
      PROVE  NOK'
  <2>1. items \in Seq(Row) /\ cur \in Nat \ {0} /\ (items # <<>> => cur \in DOMAIN items)
    BY <1>6 DEF NOK
  <2>2. WindowsOK(windows, items) /\ SearchOK
    BY <1>6 DEF NOK
  <2>3. (items \in Seq(Row))' /\ WindowsOK(windows, items)'
    BY <1>2, <2>1, <2>2 DEF Row, WindowsOK, WindowOK, Under, Names, Menu, Children, Kind
  <2>4. SearchOK'
    BY <1>2, <1>4, <2>2 DEF SearchOK, Found
  <2>5. QED
    BY <1>2, <2>1, <2>3, <2>4 DEF NOK
<1>7. QED
  BY <1>1, <1>2, <1>3, <1>5, <1>6 DEF Alive

LEMMA MenusKeep ==
  ASSUME MenusInv, [FrontNext]_frontVars
  PROVE  MenusInv'
<1>0. /\ IInv /\ Valued /\ Optioned /\ StackOK(stack) /\ (ended = "no" <=> stack # <<>>)
      /\ (Alive => NOK) /\ FailsOnlyThere
  BY DEF MenusInv
<1>1. IInv'
  BY <1>0, NextKeeps, StutterKeeps DEF frontVars
<1>2. UNCHANGED <<mconfOnly, nconfOnly, menusVars>> => MenusInv'
  BY <1>1, MenusStay DEF MenusInv
<1>3. /\ screen \in Screens /\ StackRight(stack) /\ Honest /\ OneOnly
      /\ outcome # "off" => WindowsRight(windows)
  BY <1>0 DEF IInv, DialogsInv, Lx
<1>4. CASE Next /\ UNCHANGED nconfOnly
  <2>1. Goes
    BY <1>0, <1>3, <1>4, MconfGoes
  <2>2. outcome' = "off"
    BY <1>3, <1>4, Runs DEF Running, OneOnly, nconfOnly
  <2>3. FailsOnlyThere' /\ ~Alive'
    BY <2>2 DEF FailsOnlyThere, Alive
  <2>4. QED
    BY <1>1, <2>1, <2>3 DEF MenusInv, Goes, StackGoes
<1>5. CASE Alive /\ NNext /\ UNCHANGED mconfOnly
  <2>1. WindowsRight(windows)
    BY <1>3, <1>5 DEF Alive
  <2>2. NGoes
    BY <1>0, <1>3, <1>5, <2>1, NconfGoes
  <2>3. StackOK(stack') /\ (ended' = "no" <=> stack' # <<>>)
    BY <1>0, <1>5 DEF mconfOnly
  <2>4. QED
    BY <1>1, <2>2, <2>3 DEF MenusInv, NGoes
<1>6. CASE UNCHANGED frontVars
  <2>1. UNCHANGED <<mconfOnly, nconfOnly, menusVars>>
    BY <1>6 DEF frontVars, vars, nconfVars, mconfOnly, nconfOnly
  <2>2. QED
    BY <1>2, <2>1
<1>7. QED
  BY <1>2, <1>4, <1>5, <1>6 DEF FrontNext

(* The invariant of the menus, the frames and the windows of both: the     *)
(* frames are those of functions that call each other, the configuration   *)
(* has values that its symbols may have, and the list of nconfig, its      *)
(* highlight and its search agree.                                         *)
THEOREM MenusInvariance == FrontSpec => []MenusInv
<1>1. FrontInit => MenusInv
  BY MenusStart
<1>2. MenusInv /\ [FrontNext]_frontVars => MenusInv'
  BY MenusKeep
<1>3. FrontSpec => FrontInit /\ [][FrontNext]_frontVars
  BY PTL DEF FrontSpec, frontVars
<1>4. QED
  BY <1>1, <1>2, <1>3, PTL

(* Menuconfig brings a menu back with the highlight on the item that the   *)
(* dialogs in between were about (conf() and the functions it calls), and  *)
(* a jump from the results of a search opens a menu with the entry in it   *)
(* (get_prompt_str() of menu.c, search_conf()); all frames and all values  *)
(* are those that the program has.                                         *)
THEOREM PlaceIsKept == FrontSpec => PlaceKept
<1>1. MenusInv => TypeOK
  <2>1. SUFFICES ASSUME MenusInv PROVE TypeOK
    OBVIOUS
  <2>2. MenusTypeOK
    BY <2>1, TypesAre DEF MenusInv, IInv
  <2>3. screen \in Screens /\ StackRight(stack)
    BY <2>1 DEF MenusInv, IInv, DialogsInv, Lx
  <2>4. StackOK(stack) /\ (ended = "no" <=> stack # <<>>)
    BY <2>1 DEF MenusInv
  <2>5. DOMAIN stack = 1..Len(stack)
    BY <2>4, ListIs DEF StackOK
  <2>6. \A i \in DOMAIN stack : stack[i].fn \in DOMAIN Needs /\ stack[i].menu \in Names \cup {Nil}
    BY <2>3, <2>4, <2>5 DEF StackRight, IsFrame, StackOK, FrameOK
  <2>7. Len(stack) <= Depth
    BY <2>4 DEF StackOK
  <2>8. QED
    BY <2>2, <2>3, <2>4, <2>6, <2>7 DEF TypeOK
<1>2. MenusInv =>
        ((Running /\ Top.fn = "results") =>
          \A m \in Targets : stack' = Append(stack, Frame("conf", Parent(m), m)) =>
            Listed(Last(stack')) \/ Kind(Parent(m)) = "choice")
  BY JumpsRight DEF MenusInv, IInv
<1>3. FrontSpec => JumpsThere
  BY <1>2, MenusInvariance, PTL DEF JumpsThere
<1>4. FrontSpec => [](TypeOK /\ KeepsPlace)
  BY <1>1, MenusInvariance, PlacesKept, PTL
<1>5. QED
  BY <1>3, <1>4 DEF PlaceKept

(* While one types in a search of nconfig, the highlight is on a line that *)
(* contains the pattern whenever there is one; and nconfig hangs, crashes  *)
(* or reads before the list in the cases of do_match(), get_mext_match()   *)
(* and center_item() only that the property names.                         *)
THEOREM SearchIsRight == FrontSpec => []SearchRight
<1>1. MenusInv => SearchRight
  <2>1. SUFFICES ASSUME MenusInv PROVE SearchRight
    OBVIOUS
  <2>2. FailsOnlyThere
    BY <2>1 DEF MenusInv
  <2>3. SUFFICES ASSUME Alive, Searching, Matching(This.match.pattern) # {}
                 PROVE  cur \in Matching(This.match.pattern)
    BY <2>2 DEF SearchRight, FindsMatch
  <2>4. NGood
    BY <2>1, <2>3 DEF MenusInv, IInv, NGood, NReady, Alive
  <2> DEFINE p == This.match.pattern
  <2>5. p \in Seq(Characters)
    BY <2>4, NThis DEF Matches
  <2>6. SubSeq(p, 1, Len(p)) = p /\ Len(p) \in 0..Len(p)
    BY <2>5, PrefixIs
  <2>7. Found(SubSeq(p, 1, Len(p)))
    BY <2>3, <2>4, <2>6 DEF NGood, NOK, SearchOK, Searching
  <2>8. QED
    BY <2>3, <2>6, <2>7 DEF Found
<1>2. QED
  BY <1>1, MenusInvariance, PTL
=============================================================================
