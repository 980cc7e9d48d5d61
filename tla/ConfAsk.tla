------------------------------- MODULE ConfAsk -------------------------------
(***************************************************************************)
(* conf (support/kconfig/conf.c) in the modes that ask: one line of text   *)
(* for each symbol that has no value yet, walking over the menus again     *)
(* until nothing is new.  The functions call each other, while the answers *)
(* change what can be seen.  What they have still to do is a sequence of   *)
(* tasks [fn, menu, is_new], the next one first.                           *)
(***************************************************************************)
EXTENDS KConfdata

CONSTANTS
  Programs,    \* a sequence of finalized menu trees with their names
  First,       \* the programs to run on
  Order,       \* [programs -> sequence of symbols], the order of the hash table
  Files,       \* [programs -> set of .config files], what users may bring
  Strings,     \* what users type for numbers and texts
  AskModes,    \* the modes of `conf' that are run
  MaxAnswers   \* bound: lines of standard input

VARIABLES
  prog,        \* the Kconfig files
  K,           \* the menu tree that conf makes of them
  input_mode,
  noupdate,    \* KCONFIG_NOSILENTUPDATE is set
  D,           \* the memory
  dotconfig, auto,
  todo,        \* the tasks
  conf_cnt, rootEntry,
  left,        \* lines of standard input that are left
  asked,       \* whether a line has been read
  said,        \* the last answer that was taken for each symbol
  ended,       \* "no", "done", "refused", "error"
  beat         \* is other after each step, so that going round in place is a step
kconfig == <<prog, K>>
vars == <<kconfig, input_mode, noupdate, D, dotconfig, auto, todo, conf_cnt, rootEntry, left,
          asked, said, ended, beat>>

order   == Order[prog]
Fresh   == [InitialMemory(K) EXCEPT !.changed = TRUE]

Task(fn, m)    == [fn |-> fn, menu |-> m, is_new |-> FALSE]
Each(fn, m)    == [i \in DOMAIN Children(K, m) |-> Task(fn, Children(K, m)[i])]
Updating       == input_mode \in {"oldconfig", "syncconfig"}
Syncing        == input_mode = "syncconfig"

Now      == Head(todo)
m        == Now.menu
sym      == K.sym[m]
At(fn)   == ended = "no" /\ todo # <<>> /\ Now.fn = fn
Go(more) == todo' = more \o Tail(todo)

Init ==
  /\ prog \in First /\ K = Programs[prog] /\ input_mode \in AskModes /\ noupdate \in BOOLEAN
  /\ noupdate => input_mode = "syncconfig"
  /\ D = Fresh /\ dotconfig \in Files[prog] /\ auto = Missing
  /\ todo = <<Task("main", Root)>> /\ conf_cnt = 0 /\ rootEntry = 0
  /\ left = MaxAnswers /\ asked = FALSE /\ said = <<>> /\ ended = "no"
  /\ beat = FALSE

SameFiles == UNCHANGED <<kconfig, noupdate, dotconfig, auto>>
SameInput == UNCHANGED <<left, asked, said>>
Quiet     == SameFiles /\ SameInput /\ UNCHANGED ended

----------------------------------------------------------------------------
(* main()                                                                   *)

End(how) == ended' = how /\ todo' = <<>>

\* Mutant: the variable is looked at in the wrong mode.
RefusedOld(d) == input_mode = "oldconfig" /\ d.changed /\ noupdate

Refused(d) == Syncing /\ d.changed /\ noupdate

NoConfig ==
  /\ At("main") /\ Syncing /\ dotconfig = Missing
  /\ End("error")
  /\ SameFiles /\ SameInput /\ UNCHANGED <<input_mode, conf_cnt, D, rootEntry>>

Main ==
  /\ At("main") /\ (Syncing => dotconfig # Missing)
  /\ D' = conf_read(K, D, FALSE, dotconfig, order)[1]
  /\ IF Refused(D') THEN End("refused") /\ UNCHANGED rootEntry
     ELSE /\ UNCHANGED ended
          /\ rootEntry' = IF input_mode = "oldaskconfig" THEN Root ELSE rootEntry
          /\ Go(IF input_mode = "oldaskconfig"
                THEN <<Task("conf", Root), Task("asked", Root)>>
                ELSE <<Task("check_conf", Root), Task("loop", Root)>>)
  /\ SameFiles /\ SameInput /\ UNCHANGED <<input_mode, conf_cnt>>

(* oldaskconfig goes on as oldconfig.                                       *)
AskedAll ==
  /\ At("asked")
  /\ input_mode' = "oldconfig" /\ conf_cnt' = 0
  /\ Go(<<Task("check_conf", Root), Task("loop", Root)>>)
  /\ Quiet /\ UNCHANGED <<D, rootEntry>>

\* Mutant: one round is taken to be enough.
LoopOnce ==
  /\ At("loop") /\ conf_cnt' = 0 /\ Go(<<Task("write", Root)>>)
  /\ Quiet /\ UNCHANGED <<input_mode, D, rootEntry>>

(* Update until a loop caused no more changes.                              *)
Loop ==
  /\ At("loop")
  /\ conf_cnt' = 0
  /\ Go(IF conf_cnt # 0 THEN <<Task("check_conf", Root), Now>> ELSE <<Task("write", Root)>>)
  /\ Quiet /\ UNCHANGED <<input_mode, D, rootEntry>>

(* The rename at the end of conf_write() may fail, as in KSession.          *)
Written == IF Syncing /\ ~D.changed THEN [D |-> D, file |-> dotconfig] ELSE WriteConfig(K, D)
Saved(d) == [d EXCEPT !.changed = FALSE]
Write ==
  /\ At("write")
  /\ \/ /\ input_mode = "listnewconfig"
        /\ UNCHANGED <<D, dotconfig, auto>> /\ End("done")
     \/ /\ ~(input_mode = "listnewconfig" \/ Syncing)
        /\ \E w \in {Written} : dotconfig' = w.file /\ D' = Saved(w.D)
        /\ UNCHANGED auto /\ End("done")
     \/ /\ Syncing
        /\ \E w \in {Written} :
             /\ dotconfig' = w.file
             /\ \E sync \in {conf_write_autoconf(K, Saved(w.D), auto, order)} :
                  D' = sync.D /\ auto' = sync.auto
        /\ End("done")
     \/ /\ input_mode # "listnewconfig" /\ (Syncing => D.changed)
        /\ dotconfig' = Missing /\ D' = Written.D /\ UNCHANGED auto
        /\ End("error")
  /\ SameInput /\ UNCHANGED <<kconfig, input_mode, noupdate, conf_cnt, rootEntry>>

----------------------------------------------------------------------------
(* Walking                                                                  *)

IsNew(d, s) == ~sym_has_value(d, s)

\* Mutant: what cannot be changed is asked for as well.
OpenAny(d, s) == TRUE

Open(d, s) == sym_is_changable(d, s) \/ (sym_is_choice(K, s) /\ d.curr[s].tri = yes)

(* Where the questions start again when something new is met.               *)
Restart(menu) == menu_get_parent_menu(K, menu)

Found(d) == sym # "" /\ IsNew(d, sym) /\ Open(d, sym) /\ input_mode # "listnewconfig"

check_conf ==
  /\ At("check_conf")
  /\ \E v \in {menu_is_visible(K, D, m)} :
       /\ D' = v[1]
       /\ \/ ~v[2] /\ Go(<<>>) /\ UNCHANGED <<conf_cnt, rootEntry>>
          \/ /\ v[2] /\ ~Found(v[1])
             /\ Go(Each("check_conf", m)) /\ UNCHANGED <<conf_cnt, rootEntry>>
          \/ /\ v[2] /\ Found(v[1])
             /\ conf_cnt' = conf_cnt + 1 /\ rootEntry' = Restart(m)
             /\ Go(<<Task("conf", Restart(m))>> \o Each("check_conf", m))
  /\ Quiet /\ UNCHANGED input_mode

IsMenu == K.props[K.prompt[m]].type = "P_MENU"

(* Except in oldaskconfig mode, only menus that contain new symbols are     *)
(* shown.                                                                   *)
AskChoice(d) ==
  (IF sym_is_changable(d, sym) THEN <<Task("conf_sym", m)>> ELSE <<>>)
  \o <<[Task("conf_choice", m) EXCEPT !.is_new = IsNew(d, sym)], Task("chosen", m)>>
Ask(d) ==
  CASE IsMenu /\ input_mode # "oldaskconfig" /\ rootEntry # m -> <<Task("check_conf", m)>>
    [] OTHER -> IF sym = "" THEN Each("conf", m)
                ELSE IF sym_is_choice(K, sym) THEN AskChoice(d)
                ELSE <<Task(IF K.type[sym] \in Logical THEN "conf_sym" ELSE "conf_string", m)>>
                     \o Each("conf", m)
conf ==
  /\ At("conf")
  /\ \E v \in {menu_is_visible(K, D, m)} :
       D' = v[1] /\ Go(IF v[2] THEN Ask(v[1]) ELSE <<>>)
  /\ Quiet /\ UNCHANGED <<input_mode, conf_cnt, rootEntry>>

(* Back in conf() after conf_choice(): the values of a choice that is m are *)
(* asked for one by one.                                                    *)
Chosen ==
  /\ At("chosen")
  /\ Go(IF D.curr[sym].tri = mod THEN Each("conf", m) ELSE <<>>)
  /\ Quiet /\ UNCHANGED <<input_mode, D, conf_cnt, rootEntry>>

----------------------------------------------------------------------------
(* Asking                                                                   *)

(* conf_askvalue(): no question is asked for what cannot be changed, nor,   *)
(* when a configuration is updated, for what has a value.                   *)
Given == ~sym_is_changable(D, sym) \/ (Updating /\ sym_has_value(D, sym))

NoQuestion ==
  /\ At("conf_sym") \/ At("conf_string")
  /\ Given /\ Go(<<>>)
  /\ Quiet /\ UNCHANGED <<input_mode, D, conf_cnt, rootEntry>>

(* A line of input is read; at the end of the input it is an empty one.     *)
Read(line) ==
  /\ IF left = 0 THEN line = "" ELSE TRUE
  /\ left' = (IF left = 0 THEN 0 ELSE left - 1) /\ asked' = TRUE
  /\ SameFiles /\ UNCHANGED <<input_mode, conf_cnt, rootEntry, ended>>

(* The answer is taken, or users are helped and asked again.                *)
Take(r, s, v) ==
  /\ D' = r[1]
  /\ IF r[2] THEN Go(<<>>) /\ said' = (s :> v) @@ said
     ELSE UNCHANGED <<todo, said>>
Help == UNCHANGED <<D, todo, said>>

conf_sym ==
  /\ At("conf_sym") /\ ~Given
  /\ \E line \in {"", "n", "m", "y", "?"} :
       /\ Read(line)
       /\ IF line = "?" THEN Help
          ELSE \E val \in {IF line = "" THEN D.curr[sym].tri ELSE LogicalNames[line]} :
               \E r \in {sym_set_tristate_value(K, D, sym, val)} : Take(r, sym, [tri |-> val])

conf_string ==
  /\ At("conf_string") /\ ~Given
  /\ \E line \in {"", "?"} \cup Strings :
       /\ Read(line)
       /\ IF line = "?" THEN Help
          ELSE \E str \in {IF line = "" THEN sym_get_string_value(K, D, sym) ELSE line} :
               \E r \in {sym_set_string_value(K, D, sym, str)} : Take(r, sym, [str |-> str])

(* conf_choice(), for a choice that is y: the values that can be seen are   *)
(* numbered.  0 is none of them.                                            *)
Shown(d) == SelectSeq(Children(K, m), LAMBDA c : K.sym[c] # "" /\ menu_is_visible(K, d, c)[2])
Number(d, shown) == IF \E i \in DOMAIN shown : K.sym[shown[i]] = d.curr[sym].str
                    THEN CHOOSE i \in DOMAIN shown : K.sym[shown[i]] = d.curr[sym].str
                    ELSE 0
Looked(d) == FoldInOrder(LAMBDA acc, c : menu_is_visible(K, acc, c)[1], d, Children(K, m))

(* Which one it is is not asked if there is just one, or if the choice was  *)
(* made before.                                                             *)
NoChoice(n) == n = 1 \/ (Updating /\ ~Now.is_new)

(* sym_set_choice_value(), whether it is taken or not; then the entries     *)
(* below the value.                                                         *)
Choose(d, value) ==
  /\ \E r \in {sym_set_tristate_value(K, d, K.sym[value], yes)} : D' = r[1]
  /\ Go(Each("conf", value))
Again(d) == D' = d /\ UNCHANGED todo

Chose(d, shown, i) ==
  IF i \in DOMAIN shown
  THEN Choose(d, shown[i]) /\ said' = (sym :> [str |-> K.sym[shown[i]]]) @@ said
  ELSE Again(d) /\ UNCHANGED said

(* 0 is an empty line, and one more than there are is no value.             *)
AskNumber(d, shown) ==
  \E i \in 0..(Len(shown) + 1) :
    /\ Read(IF i = 0 THEN "" ELSE "number")
    /\ Chose(d, shown, IF i = 0 THEN Number(d, shown) ELSE i)

KeepChoice(d, shown, i) ==
  /\ IF i = 0 THEN Again(d) ELSE Choose(d, shown[i])
  /\ Quiet /\ UNCHANGED <<input_mode, conf_cnt, rootEntry>>

ChooseShown(d, shown) ==
  IF NoChoice(Len(shown))
  THEN KeepChoice(d, shown, IF Len(shown) = 1 THEN 1 ELSE Number(d, shown))
  ELSE AskNumber(d, shown)

conf_choice ==
  /\ At("conf_choice")
  /\ \E d \in {sym_calc_value(K, D, sym)} :
       \/ /\ d.curr[sym].tri # yes
          /\ D' = d /\ Go(<<>>) /\ Quiet /\ UNCHANGED <<input_mode, conf_cnt, rootEntry>>
       \/ /\ d.curr[sym].tri = yes
          /\ \E seen \in {Looked(d)} : \E shown \in {Shown(seen)} : ChooseShown(seen, shown)

----------------------------------------------------------------------------
Walk == check_conf \/ conf \/ Chosen \/ NoQuestion
Next ==
  /\ beat' = ~beat
  /\ NoConfig \/ Main \/ AskedAll \/ Loop \/ Write \/ Walk \/ conf_sym \/ conf_string \/ conf_choice

(* conf runs on its own, and reads what there is to read: it takes steps    *)
(* for ever, or has ended.  This is WF_vars(Next): there is a next step     *)
(* until it has ended, and each step changes beat.                          *)
Runs == <>[](ended # "no") \/ []<><<TRUE>>_vars
Spec == Init /\ [][Next]_vars /\ Runs

----------------------------------------------------------------------------
(* Properties                                                               *)

Done == ended = "done" /\ input_mode # "listnewconfig"

(* The tasks are functions of conf on nodes of the tree, in a run that is   *)
(* not over, and nothing counts as read before it is.                       *)
TypeOK ==
  /\ \A i \in DOMAIN todo : todo[i].menu \in Nodes(K)
  /\ ended = "no" <=> todo # <<>>
  /\ left \in 0..MaxAnswers /\ rootEntry \in {0} \cup Nodes(K)
  /\ DOMAIN said \subseteq Symbols(K) /\ (said # <<>> => asked)

(* The entries that could be answered and have no answer.                   *)
LookedAll(d) == FoldInOrder(LAMBDA acc, n : menu_is_visible(K, acc, n)[1], CalcAll(K, d, order),
                            Below(K, Root))
NoAnswerYet(all) ==
  {n \in Nodes(K) : /\ K.sym[n] # "" /\ IsNew(all, K.sym[n]) /\ Open(all, K.sym[n])
                    /\ menu_is_visible(K, all, n)[2]}
Unanswered(d) == UNION {NoAnswerYet(all) : all \in {LookedAll(d)}}

(* "Update until a loop caused no more changes" (conf.c:680): when conf has *)
(* ended, nothing is new, although each answer may have shown more entries, *)
(* before or behind it.                                                     *)
NothingNew == Done => Unanswered(D) = {}

(* What conf has written answers every question: when it runs again on it,  *)
(* nothing is asked, and nothing counts as changed.  (It may, after a       *)
(* choice of tristates has gone from y to m: a bool among its values is     *)
(* still marked for writing, by a visibility that is not up to date.)       *)
AsksOnce == Done =>
  \E d \in {conf_read(K, Fresh, FALSE, dotconfig, order)[1]} :
    /\ Unanswered(d) = {}
    /\ d.changed => \E c \in K.choice : K.type[c] = "S_TRISTATE"

(* With KCONFIG_NOSILENTUPDATE the build is refused or goes on without a    *)
(* question: a .config that does not count as changed has no open question. *)
SilentMeansSilent == noupdate => ~asked

(* The last answer that was taken for a symbol is its value at the end, as  *)
(* far as what selects it and what hides it lets it.                        *)
Within(d, s, v) == EXPR_OR(EXPR_AND(v, d.visible[s]), d.rev[s])
IsSaid(d, s) ==
  CASE K.type[s] \notin Logical -> d.curr[s].str \in {said[s].str, Prefixed[said[s].str]}
    [] sym_is_choice(K, s) /\ "str" \in DOMAIN said[s] -> d.curr[s].str = said[s].str
    [] OTHER -> d.curr[s].tri = Within(d, s, said[s].tri)
AnswersKept == Done =>
  \E d \in {CalcAll(K, D, order)} : \A s \in DOMAIN said : d.visible[s] # no => IsSaid(d, s)

(* The questions that have no answer: at the end of the input, a number     *)
(* without a valid default (conf.c:135), and a choice none of whose values  *)
(* can be seen (conf.c:261).                                                *)
NoAnswer ==
  \/ At("conf_string") /\ left = 0
     /\ ~sym_string_within_range(K, D, sym, sym_get_string_value(K, D, sym))[2]
  \/ At("conf_choice") /\ Shown(D) = <<>>

(* conf comes to an end when its input does, or asks one of those questions *)
(* for ever: the loop over the menus (conf.c:680) ends by itself.           *)
Ends == <>[](ended # "no" \/ NoAnswer)

(* When conf has ended, each question was answered, and the answers hold.   *)
AllAnswered == TypeOK /\ NothingNew /\ AnswersKept

(* A configuration that was written needs no questions, and a build that    *)
(* must not be asked is not.                                                *)
AsksNoMore == AsksOnce /\ SilentMeansSilent
=============================================================================
