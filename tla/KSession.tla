------------------------------ MODULE KSession -----------------------------
(***************************************************************************)
(* Configuring: processes of the kconfig programs that one after the other *)
(* read, change and write one .config.  A process is either a menu front   *)
(* end (mconf, nconf), in which the user sets values, loads, saves and     *)
(* quits, or one run of `conf' in a mode that asks nothing.  Between two   *)
(* processes the Kconfig files may be updated.                             *)
(***************************************************************************)
EXTENDS KConfdata

CONSTANTS
  Programs,    \* a sequence of finalized menu trees with their names
  First,       \* the programs to start with
  Updates,     \* pairs of programs: the second is the first's next version
  Order,       \* [programs -> sequence of symbols], the order of the hash table
  Files,       \* [programs -> set of .config files], what users may bring
  Strings,     \* the strings that users type
  Modes,       \* the modes of `conf' that are run
  MaxEdits,    \* bound: edits, loads and saves in the front ends
  MaxRuns,     \* bound: processes
  MaxSyncs     \* bound: runs of syncconfig that make an auto.conf

VARIABLES
  prog,        \* the Kconfig files
  K,           \* the menu tree that a program makes of them
  D,           \* the memory of the running front end, or NotRunning
  dotconfig,   \* .config
  defconfig,   \* the file that savedefconfig writes
  auto,        \* auto.conf
  headers,     \* the symbols whose header is newer than auto.conf
  generated,   \* what a running syncconfig will rename to auto.conf, or Missing
  failed,      \* a save of the running front end has failed
  refused,     \* unsaved changes stopped counting: a load was refused, and no
               \* change has come after it
  edits, runs, syncs, \* counters for the bounds
  last         \* what the last step was, for the properties
kconfig == <<prog, K>>
sync   == <<auto, headers, generated, syncs>>
trouble == <<failed, refused>>
vars == <<kconfig, D, dotconfig, defconfig, sync, trouble, edits, runs, last>>

NotRunning == [running |-> FALSE]
order   == Order[prog]
Fresh(k) == [InitialMemory(k) EXCEPT !.changed = TRUE]     \* after conf_parse()

(* main(): conf_parse() and conf_read().                                    *)
ReadIn(file) == conf_read(K, Fresh(K), FALSE, file, order)[1]

Init ==
  /\ prog \in First /\ K = Programs[prog]
  /\ dotconfig \in Files[prog]
  /\ D = NotRunning /\ defconfig = Missing
  /\ auto = Missing /\ headers = {} /\ generated = Missing /\ syncs = 0
  /\ failed = FALSE /\ refused = FALSE /\ edits = 0 /\ runs = 0 /\ last = <<"none">>

----------------------------------------------------------------------------
(* A front end                                                              *)

(* No program runs.  Bound: of what other programs do to .config after the  *)
(* first syncconfig there is only Bring.                                    *)
Idle   == D = NotRunning /\ generated = Missing
Synced == auto # Missing \/ headers # {}

(* main() of mconf and nconf: conf_parse(), conf_read(NULL).                *)
Start ==
  /\ Idle /\ ~Synced /\ runs < MaxRuns
  /\ D' = ReadIn(dotconfig)
  /\ runs' = runs + 1 /\ edits' = edits /\ last' = <<"start">>
  /\ failed' = FALSE /\ refused' = FALSE
  /\ UNCHANGED <<kconfig, dotconfig, defconfig, sync>>

Editing == D # NotRunning /\ edits < MaxEdits
Edit(d, what) ==
  /\ Editing
  /\ D' = d
  /\ edits' = edits + 1 /\ last' = what
  /\ refused' = (~d.changed /\ (refused \/ (what = <<"load refused">> /\ D.changed)))
  /\ UNCHANGED <<kconfig, dotconfig, defconfig, sync, failed, runs>>

(* The menu that is on the screen has been built from the values.           *)
Shown(d) == FoldInOrder(LAMBDA acc, m : menu_is_visible(K, acc, m)[1],
                     CalcAll(K, d, order), Below(K, Root))

(* The keys y, m and n, and the choice of a value in a radio list; shown is *)
(* the memory once the menus have been built.                               *)
SetTristate(shown, s, val) ==
  /\ K.type[s] \in Logical
  /\ \E r \in {sym_set_tristate_value(K, shown, s, val)} :
       Edit(r[1], <<"set", s, [tri |-> val, str |-> ""], r[2]>>)

(* The space bar, which mconf hands on only where something can be changed. *)
Toggle(shown, s) ==
  /\ K.type[s] \in Logical
  /\ sym_is_changable(shown, s)
  /\ Edit(sym_toggle_tristate_value(K, shown, s), <<"toggle", s>>)

(* The text of an input box.                                                *)
SetString(shown, s, str) ==
  /\ K.type[s] \in Typed \ Logical
  /\ \E r \in {sym_set_string_value(K, shown, s, str)} :
       Edit(r[1], <<"set", s, [tri |-> no, str |-> str], r[2]>>)

(* "Load an alternate configuration": conf_load().  What has been loaded    *)
(* counts as changed; a file that does not exist is refused.                *)
Load(file) ==
  /\ Editing
  /\ \E r \in {conf_read(K, D, TRUE, file, order)} :
       Edit([r[1] EXCEPT !.changed = @ \/ r[2]], <<IF r[2] THEN "load" ELSE "load refused">>)

(* "Save": conf_write(); the last rename may fail, when .config.old has     *)
(* already been made of .config.                                            *)
Save ==
  /\ Editing
  /\ \E w \in {WriteConfig(K, Shown(D))} :
       \/ /\ dotconfig' = w.file
          /\ D' = [w.D EXCEPT !.changed = FALSE]
          /\ last' = <<"saved">> /\ failed' = failed /\ refused' = FALSE
       \/ /\ dotconfig' = Missing
          /\ D' = w.D
          /\ last' = <<"save failed">> /\ failed' = TRUE /\ refused' = refused
  /\ edits' = edits + 1
  /\ UNCHANGED <<kconfig, defconfig, sync, runs>>

(* The front end asks whether to save, and only if something has changed.   *)
Exit ==
  /\ D # NotRunning
  /\ D' = NotRunning
  /\ \/ ~D.changed /\ dotconfig' = dotconfig
     \/ D.changed /\ dotconfig' = WriteConfig(K, Shown(D)).file
     \/ D.changed /\ dotconfig' = dotconfig
  /\ last' = <<"exit">>
  /\ UNCHANGED <<kconfig, defconfig, sync, trouble, edits, runs>>

----------------------------------------------------------------------------
(* One run of conf                                                          *)

Batch(what) ==
  /\ Idle /\ ~Synced /\ runs < MaxRuns
  /\ runs' = (IF what[1] = "def_random" THEN MaxRuns ELSE runs + 1) /\ last' = what
  /\ UNCHANGED <<kconfig, D, trouble, edits>>

(* conf --olddefconfig *)
OldDefconfig ==
  /\ "olddefconfig" \in Modes
  /\ Batch(<<"olddefconfig">>)
  /\ dotconfig' = WriteConfig(K, ReadIn(dotconfig)).file
  /\ UNCHANGED <<defconfig, sync>>

(* conf --defconfig=FILE, with the file that savedefconfig wrote *)
Defconfig ==
  /\ "defconfig" \in Modes /\ defconfig # Missing
  /\ Batch(<<"defconfig">>)
  /\ dotconfig' = WriteConfig(K, conf_set_all_new_symbols(K, ReadIn(defconfig), "def_default",
                                                          <<>>, <<>>, order)[1]).file
  /\ UNCHANGED <<defconfig, sync>>

(* conf --savedefconfig=FILE *)
SaveDefconfig ==
  /\ "savedefconfig" \in Modes
  /\ Batch(<<"savedefconfig">>)
  /\ defconfig' = conf_write_defconfig(K, ReadIn(dotconfig)).file
  /\ UNCHANGED <<dotconfig, sync>>

(* conf --allnoconfig, --allyesconfig, --allmodconfig.  What they and       *)
(* randconfig write depends on nothing but the Kconfig files: it is enough  *)
(* to run them first, and randconfig alone.                                 *)
AllConfig(mode) ==
  /\ runs = 0 /\ Batch(<<mode>>)
  /\ LET value == [s \in Symbols(K) |-> CHOOSE v \in ModeValues(K, s, mode) : TRUE]
     IN  dotconfig' = WriteConfig(K, conf_set_all_new_symbols(K, Fresh(K), mode, value,
                                                              <<>>, order)[1]).file
  /\ UNCHANGED <<defconfig, sync>>

(* conf --randconfig: until nothing is new.                                 *)
RECURSIVE RandLoop(_, _, _)
RandAgain(r, value, pick) == IF r[2] THEN RandLoop(r[1], value, pick) ELSE r[1]
RandLoop(d, value, pick) ==
  RandAgain(conf_set_all_new_symbols(K, d, "def_random", value, pick, order), value, pick)
RandConfig ==
  /\ "def_random" \in Modes
  /\ runs = 0 /\ Batch(<<"def_random">>)
  /\ LET new == {s \in Symbols(K) : K.type[s] \in Logical}
     IN  \E value \in [new -> Tristate], pick \in [K.choice -> UNION {Range(K.members[c]) : c \in K.choice}] :
           /\ \A s \in new : value[s] \in ModeValues(K, s, "def_random")
           /\ \A c \in K.choice : pick[c] \in Range(K.members[c])
           /\ dotconfig' = WriteConfig(K, RandLoop(Fresh(K), value, pick)).file
  /\ UNCHANGED <<defconfig, sync>>

(* conf --syncconfig, once .config answers every question: .config is       *)
(* written if it is not what would be.  Then the headers of the symbols     *)
(* whose value is not the one in auto.conf are touched, one after the       *)
(* other; it may be stopped after any of them, or fail to make one.  Bound: *)
(* the first time it runs after olddefconfig, which has run first.          *)
Answered(d) == \A s \in Symbols(K) : ~sym_has_value(d, s) => ~sym_is_changable(d, s)
SoFar(touched, n) == touched \ {order[i] : i \in (n + 1)..Len(order)}
SyncTouch ==
  /\ Idle /\ dotconfig # Missing /\ syncs < MaxSyncs
  /\ Synced \/ (last = <<"olddefconfig">> /\ runs = 1)
  /\ \E d \in {ReadIn(dotconfig)} :
       /\ Answered(d)
       /\ \E w \in {IF d.changed THEN WriteConfig(K, d) ELSE [D |-> d, file |-> dotconfig]} :
            /\ dotconfig' = w.file
            /\ \E a \in {conf_write_autoconf(K, w.D, auto, order)} :
                 \/ headers' = headers \cup a.touched /\ generated' = a.auto
                 \/ /\ \E n \in 0..Len(order) : headers' = headers \cup SoFar(a.touched, n)
                    /\ generated' = Missing
  /\ last' = <<"touched">>
  /\ UNCHANGED <<kconfig, D, defconfig, auto, syncs, trouble, edits, runs>>

(* Last it renames what it has generated to auto.conf, unless it is stopped *)
(* before.  Bound: only runs that come so far are counted.                  *)
SyncRename ==
  /\ generated # Missing
  /\ auto' = generated /\ headers' = {} /\ generated' = Missing
  /\ syncs' = syncs + 1 /\ last' = <<"syncconfig">>
  /\ UNCHANGED <<kconfig, D, dotconfig, defconfig, trouble, edits, runs>>
SyncStop ==
  /\ generated # Missing /\ generated' = Missing /\ last' = <<"stopped">>
  /\ UNCHANGED <<kconfig, D, dotconfig, defconfig, auto, headers, syncs, trouble, edits, runs>>

(* Between two of these runs users bring another .config and complete it,   *)
(* with make olddefconfig.                                                  *)
Bring(file) ==
  /\ Idle /\ Synced /\ syncs < MaxSyncs
  /\ dotconfig' = WriteConfig(K, ReadIn(file)).file /\ last' = <<"bring">>
  /\ UNCHANGED <<kconfig, D, defconfig, sync, trouble, edits, runs>>

(* The Kconfig files are updated.                                           *)
Update ==
  /\ Idle
  /\ \E q \in DOMAIN Order : <<prog, q>> \in Updates /\ prog' = q /\ K' = Programs[q]
  /\ last' = <<"update">>
  /\ UNCHANGED <<D, dotconfig, defconfig, sync, trouble, edits, runs>>

Next ==
  \/ Start \/ Save \/ Exit
  \/ Editing /\ \E shown \in {Shown(D)}, s \in Symbols(K) :
                   \/ \E val \in Tristate : SetTristate(shown, s, val)
                   \/ Toggle(shown, s)
                   \/ \E str \in Strings : SetString(shown, s, str)
  \/ \E file \in Files[prog] : Load(file) \/ Bring(file)
  \/ OldDefconfig \/ Defconfig \/ SaveDefconfig \/ RandConfig
  \/ SyncTouch \/ SyncRename \/ SyncStop
  \/ \E mode \in Modes \cap {"def_no", "def_yes", "def_mod"} : AllConfig(mode)
  \/ Update

Spec == Init /\ [][Next]_vars

----------------------------------------------------------------------------
(* Properties                                                               *)

Running    == D # NotRunning
Forget(d)  == [d EXCEPT !.flags = Table([s \in DOMAIN @ |-> @[s] \ {"VALID"}])]
Calculated(d) == CalcAll(K, d, order)
LinesOf(file, s) == {file[i] : i \in {j \in DOMAIN file : file[j].sym = s}}

(* The memory has its parts; a bool is never m, nor is anything without     *)
(* modules.                                                                 *)
TypeOK ==
  /\ prog \in DOMAIN Order /\ edits \in 0..MaxEdits /\ runs \in 0..MaxRuns
  /\ syncs \in 0..MaxSyncs
  /\ failed \in BOOLEAN /\ refused \in BOOLEAN
  /\ generated # Missing => ~Running
  /\ Running =>
       /\ DOMAIN D.flags = Symbols(K) /\ D.modules_val \in Tristate /\ D.changed \in BOOLEAN
       /\ \A s \in Symbols(K) :
            /\ D.visible[s] \in Tristate /\ D.rev[s] \in Tristate /\ D.imp[s] \in Tristate
            /\ D.flags[s] \subseteq {"VALID", "WRITE", "DEF_USER", "DEF_AUTO",
                                     "NEED_SET_CHOICE_VALUES"}
            /\ Has(D, s, "VALID") /\ (K.type[s] = "S_BOOLEAN" \/ D.modules_val = no) =>
                 D.curr[s].tri # mod

(* A choice of tristates that was set to y forgets this as soon as one of   *)
(* its values has not been set (sym_calc_choice()).                         *)
Lasting == {s \in Symbols(K) : LET c == IF sym_is_choice_value(K, s) THEN K.choiceOf[s] ELSE s
                               IN  sym_is_choice(K, c) => K.type[c] # "S_TRISTATE"}

(* A value that is marked valid is the one that a calculation from nothing  *)
(* gives: no step that changes a value, a flag or a visibility forgets to   *)
(* take the mark away from what depends on it (sym_clear_all_valid()).      *)
SameAs(values, again) == \A s \in Lasting : Has(D, s, "VALID") => values[s] = again[s]
CacheFresh(again) == SameAs(Values(K, D), again)

(* In which order the symbols are calculated, which is that of the hash     *)
(* table or of the menus, makes no difference to their values.              *)
OrderFree(again) == again = Values(K, CalcAll(K, Forget(D), Reverse(order)))

Exclusive(d) ==
  \A c \in K.choice :
    LET at(v) == {s \in Range(K.members[c]) : d.curr[s].tri = v}
        seen  == {s \in Range(K.members[c]) : d.visible[s] # no}
    IN  CASE d.curr[c].tri = no  -> at(yes) \cup at(mod) = {}
          [] d.curr[c].tri = mod -> at(yes) = {}
          [] OTHER -> IF seen = {} THEN at(yes) = {} ELSE Cardinality(at(yes)) = 1
(* Of the values of a choice that is y exactly one is y, if any can be      *)
(* seen; with a choice that is n none is, and with one that is m none is y. *)
ChoiceExclusive == Running => Exclusive(Calculated(D))

SameLines(file) == \A s \in Lasting : LinesOf(file, s) = LinesOf(dotconfig, s)
(* While nothing counts as changed, the front end lets the user quit        *)
(* without a question: .config is what would be written.  There are two     *)
(* exceptions: after a rename that failed this is not so, nor when unsaved  *)
(* changes stopped counting because a load was refused (confdata.c:413).    *)
QuitLosesNothing ==
  Running /\ ~failed /\ ~refused /\ ~D.changed => SameLines(WriteConfig(K, D).file)

(* What was saved is read as it was: nothing counts as changed, and the     *)
(* same file would be written.                                              *)
Unchanged(d) == ~d.changed /\ WriteConfig(K, d).file = dotconfig
ReadsBack == last = <<"saved">> /\ ~failed => Unchanged(ReadIn(dotconfig))

(* Drawing the menus, whose visibility check marks symbols as set by the    *)
(* user, changes no value.                                                  *)
SameWhenShown(before, d, again) ==
  Values(K, d) = before /\ \A s \in Lasting : again[s] = before[s]
LooksOnly == \E d \in {Shown(D)} :
  SameWhenShown(Values(K, Calculated(D)), d, Values(K, Calculated(Forget(d))))

(* savedefconfig keeps all that matters: its file, completed by the         *)
(* defaults, gives the configuration it was made from.                      *)
GivesBack(d) == WriteConfig(K, ReadIn(conf_write_defconfig(K, d).file)).file = WriteConfig(K, d).file
DefconfigRoundTrip == ~Running /\ dotconfig # Missing => GivesBack(ReadIn(dotconfig))

(* A value that was accepted for a symbol that can be seen is the value     *)
(* that the symbol has.                                                     *)
HasValue(d, s, value) ==
  d.visible[s] # no =>
    IF K.type[s] \in Logical THEN d.curr[s].tri = value.tri
    ELSE d.curr[s].str \in {value.str, Prefixed[value.str]}
SetTakesEffect == [][
  (last'[1] = "set" /\ last'[4]) =>
    \E d \in {Calculated(D')} : HasValue(d, last'[2], last'[3])]_vars

(* allyesconfig leaves nothing below what it could be, and allnoconfig      *)
(* nothing above what it must be, outside of choices.                       *)
IsAll(d, mode) ==
  \A s \in Symbols(K) \ K.choice :
    (K.type[s] \in Logical /\ ~sym_is_choice_value(K, s) /\ d.visible[s] # no) =>
       d.curr[s].tri = IF mode = "def_yes" \/ s \in K.allnoconfig_y
                       THEN EXPR_OR(d.visible[s], d.rev[s]) ELSE d.rev[s]
AllModes == [][
  last'[1] \in {"def_yes", "def_no"} =>
    \E d \in {Calculated(ReadIn(dotconfig'))} : IsAll(d, last'[1])]_vars

(* The symbols whose line in auto.conf the new one changes.  Left out is    *)
(* what the program does not notice: that a line has gone whose symbol the  *)
(* Kconfig files no longer have, if it was a string, or have with a type    *)
(* that the old value is none of.                                           *)
LinesIn(file, s) == IF file = Missing THEN {} ELSE LinesOf(file, s)
NamesIn(file)    == IF file = Missing THEN {} ELSE {file[i].sym : i \in DOMAIN file}
Fits(l) ==
  CASE l.sym \notin Symbols(K) -> IsGone(K, l)
    [] l.sym \in Symbols(K) /\ K.type[l.sym] \in Logical -> ~l.quoted /\ l.v \in {"y", "m"}
    [] OTHER -> l.quoted = (K.type[l.sym] = "S_STRING") /\ sym_string_valid(K, l.sym, l.v)
ChangedIn(new) ==
  {s \in Symbols(K) \cup NamesIn(auto) :
     /\ LinesIn(auto, s) # LinesIn(new, s)
     /\ LinesIn(new, s) = {} => \A l \in LinesIn(auto, s) : Fits(l)}

(* When a new auto.conf takes the place of the old one, every symbol whose  *)
(* line changes has a header that is newer than the old one, so that make   *)
(* builds again what includes it: whatever was in .config between, and      *)
(* wherever runs before this were stopped.  And a run touches nothing else. *)
SyncTouches == [][
  /\ auto' # auto => ChangedIn(auto') \subseteq headers
  /\ generated' \notin {generated, Missing} =>
       headers' \ headers \subseteq ChangedIn(generated')]_vars

(* What a symbol's value is does not depend on when, in which order and how *)
(* often it is looked at.                                                   *)
ValuesRight ==
  /\ TypeOK
  /\ Running => \E again \in {Values(K, Calculated(Forget(D)))} :
       CacheFresh(again) /\ OrderFree(again) /\ LooksOnly

(* What a front end sets, for one symbol or for all, is what they are.      *)
ValuesAsSet == SetTakesEffect /\ AllModes

(* Both kinds of file that are written give back the configuration.         *)
RoundTrips == ReadsBack /\ DefconfigRoundTrip
=============================================================================
