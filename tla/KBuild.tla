------------------------------- MODULE KBuild -------------------------------
(***************************************************************************)
(* Reading Kconfig files: conf_parse() takes one statement after the other *)
(* (the calls that the grammar rules of zconf.y make are in KMenu), and at *)
(* the end of the file finalizes the menu tree and looks for dependency    *)
(* loops.  The files are all those that can be put together from the       *)
(* entries and blocks of the constants: the symbols of the entries come in *)
(* the order of Names, conditions may name any of them.                    *)
(***************************************************************************)
EXTENDS KConfdata

CONSTANTS
  Names,      \* the symbols, in the order of their entries
  Types,      \* [Names -> types]
  Choice,     \* the symbol of the choice blocks
  Bodies,     \* what an entry may say, as sequences of statements
  Blocks,     \* what a block may start with
  MaxBlocks   \* bound: blocks in a file

VARIABLES
  K,          \* the menu tree
  open,       \* what each block that is open asks of its contents, innermost last
  meant,      \* [properties -> the condition the file gives them]
  used,       \* entries read
  blocks,     \* blocks read
  done        \* the end of the file was reached
vars == <<K, open, meant, used, blocks, done>>

Syms == Range(Names) \cup {Choice}
Bool == {s \in Syms : s = Choice \/ Types[s] = "S_BOOLEAN"}

Init ==
  /\ K = _menu_init(Syms)
  /\ open = <<>> /\ meant = <<NULL>> /\ used = 0 /\ blocks = 0 /\ done = FALSE

----------------------------------------------------------------------------
(* Reading                                                                  *)

AllOf(conds) == FoldInOrder(expr_alloc_and, NULL, conds)
Conditions(stmts, kind) ==
  LET of == SelectSeq(stmts, LAMBDA st : st[1] = kind)
  IN  [i \in DOMAIN of |-> of[i][2]]

Around == IF open = <<>> THEN NULL ELSE Last(open)

(* The tree after some statements, and what their properties mean: the     *)
(* conditions around them, those of their entry, and their own.             *)
Read(stmts) ==
  LET K1 == FoldInOrder(Statement, K, stmts)
      around == AllOf(<<Around>> \o Conditions(stmts, "depends"))
  IN  /\ K' = K1
      /\ meant' = [i \in DOMAIN K1.props |->
                     IF i \in DOMAIN meant THEN meant[i]
                     ELSE expr_alloc_and(around, K1.props[i].visible)]

Config(body) ==
  /\ ~done /\ used < Len(Names)
  /\ LET s == Names[used + 1]
     IN  Read(<<<<"config", s>>, <<"type", Types[s]>>>> \o body)
  /\ used' = used + 1
  /\ UNCHANGED <<open, blocks, done>>

(* What the conditions are in a block.  A choice stands for those around it: *)
(* it is n when they are.                                                    *)
Asks(block) ==
  CASE block[1][1] = "choice" -> expr_alloc_symbol(block[1][2])
    [] block[1][1] = "if"     -> expr_alloc_and(Around, block[1][2])
    [] OTHER                  -> AllOf(<<Around>> \o Conditions(block, "depends"))

Open(block) ==
  /\ ~done /\ blocks < MaxBlocks /\ used < Len(Names)
  /\ block[1][1] = "choice" => Choice \notin K.choice
  /\ Read(block)
  /\ open' = Append(open, Asks(block)) /\ blocks' = blocks + 1
  /\ UNCHANGED <<used, done>>

End ==
  /\ ~done /\ open # <<>>
  /\ K' = Statement(K, <<"end">>)
  /\ open' = Front(open)
  /\ UNCHANGED <<meant, used, blocks, done>>

(* conf_parse() after yyparse(): menu_finalize(&rootmenu).                  *)
EndOfFile ==
  /\ ~done /\ open = <<>> /\ used = Len(Names)
  /\ K' = menu_finalize(K, Root)
  /\ done' = TRUE
  /\ UNCHANGED <<open, meant, used, blocks>>

Next ==
  \/ \E body \in Bodies : Config(body)
  \/ \E block \in Blocks : Open(block)
  \/ End
  \/ EndOfFile

Spec == Init /\ [][Next]_vars

----------------------------------------------------------------------------
(* What the tree means                                                      *)

Valuations == [Syms -> Tristate]
Allowed == {v \in Valuations : \A s \in Bool : v[s] # mod}
Value(v, e) ==
  expr_calc_value(K.type, [s \in Syms \cup Consts |->
                    IF s \in Consts THEN ConstValue(s)
                    ELSE [tri |-> v[s], str |-> <<"n", "m", "y">>[v[s] + 1]]], e)
Seen(s, tri) == IF s \in Bool /\ tri = mod THEN yes ELSE tri
Max2(S) == IF S = {} THEN no ELSE CHOOSE t \in S : \A u \in S : u <= t
Prompted(m) == K.prompt[m] # 0
Added       == DOMAIN meant

(* The calculation depends on these (sym_check_sym_deps()): conditions and  *)
(* defaults, and what selects the symbol.                                   *)
DependsOn(s) ==
  {t \in Syms :
     \/ t \in Range(SymsOf(K.rev_dep[s]))
     \/ \E i \in DOMAIN K.props :
          /\ K.props[i].sym = s /\ K.props[i].type \notin {"P_CHOICE", "P_SELECT"}
          /\ \/ t \in Range(SymsOf(K.props[i].visible))
             \/ K.props[i].type = "P_DEFAULT" /\ s # Choice /\ t \in Range(SymsOf(K.props[i].expr))}
(* A choice value and its siblings stand or fall together; WithChoice takes *)
(* the choice to be one of them.                                            *)
Group(s) == IF K.choiceOf[s] = "" THEN {s} ELSE Range(K.members[K.choiceOf[s]])
WithChoice(s) ==
  IF s = Choice \/ K.choiceOf[s] # "" THEN {Choice} \cup Range(K.members[Choice]) ELSE {s}
Together == Table([s \in Syms |-> Group(s)])
AsOne    == Table([s \in Syms |-> WithChoice(s)])

(* deps leads from some group of symbols back into it.                      *)
Cyclic(group, deps) ==
  LET of    == Table([s \in Syms |-> UNION {deps[t] : t \in group[s]}])
      Step(R, n) == R \cup UNION {of[s] : s \in R}
      Reach(s)   == FoldInOrder(Step, of[s], [n \in 1..Cardinality(Syms) |-> n])
  IN  \E s \in Syms : Reach(s) \cap group[s] # {}

Sorted == SetToSeq(Syms)

----------------------------------------------------------------------------
(* Properties                                                               *)

(* The tree is made of nodes and properties that exist.                     *)
TypeOK ==
  /\ Len(meant) = Len(K.props) \/ done
  /\ \A n \in Nodes(K) : /\ K.list[n] \in {0} \cup Nodes(K) /\ K.next[n] \in {0} \cup Nodes(K)
                         /\ K.parent[n] \in {0} \cup Nodes(K) /\ K.prompt[n] \in {0} \cup DOMAIN K.props
  /\ \A s \in Syms : K.type[s] \in Typed \cup {"S_UNKNOWN"}

(* Moving entries into automatic submenus and out of "if" blocks loses no   *)
(* entry, shows none twice and keeps the order of the files; and a child    *)
(* points at the node whose child it is.                                    *)
TreeKept ==
  /\ Below(K, Root) = [i \in 1..(Len(K.list) - 1) |-> i + 1]
  /\ done => \A n \in Nodes(K) : \A c \in Range(Children(K, n)) : K.parent[c] = n

(* However the conditions were joined, simplified and handed down, each     *)
(* property has the condition that the files give it, for all values that   *)
(* the symbols can have.                                                    *)
ConditionsKept == done =>
  \A i \in Added, v \in Allowed :
    LET s == K.props[i].sym
    IN  Seen(s, Value(v, K.props[i].visible)) = Seen(s, Value(v, meant[i]))

(* A symbol is selected exactly when the files say so, by the selecting     *)
(* symbols with the conditions on their selects, and never further than     *)
(* they say.  (Not as far, where a bool selects under a comparison with a   *)
(* tristate: expr_trans_bool() makes that the tristate itself.)             *)
SelectsKept == done =>
  \A s \in Syms \ {Choice}, v \in Allowed :
    LET kept == Value(v, IF K.rev_dep[s] = NULL THEN No ELSE K.rev_dep[s])
        said == Max2({EXPR_AND(v[K.props[i].sym], Value(v, meant[i])) :
              i \in {j \in Added : K.props[j].type = "P_SELECT" /\ K.props[j].expr.sym = s}})
    IN  kept <= said /\ (kept = no <=> said = no)

(* An entry in the submenu of a symbol can be seen only when that symbol is *)
(* on or can be seen: it is never under an entry that is not shown.         *)
SubmenuReachable == done =>
  \A m \in Nodes(K) \ {Root} :
    LET p == K.parent[m]
    IN  (K.sym[p] # "" /\ Prompted(p) /\ Prompted(m)) =>
          \A v \in Allowed :
            Value(v, K.props[K.prompt[m]].visible) # no =>
              v[K.sym[p]] # no \/ Value(v, K.props[K.prompt[p]].visible) # no

(* A dependency loop is reported, from whichever symbol the search starts,  *)
(* and what is reported is a loop.                                          *)
LoopsFound == done =>
  LET deps    == Table([s \in Syms |-> DependsOn(s)])
      outside == Table([s \in Syms |-> deps[s] \ (IF K.choiceOf[s] = "" THEN {} ELSE {Choice})])
      reported == {LoopReported(K, order) : order \in {Sorted, Reverse(Sorted)}}
  IN  /\ Cyclic(Together, deps) => reported = {TRUE}
      /\ TRUE \in reported => Cyclic(AsOne, outside)

(* Without a loop, the values do not depend on the order in which the       *)
(* symbols are calculated, whatever the user has set.                       *)
UserHas(S) ==
  LET D == InitialMemory(K)
  IN  [D EXCEPT !.def["USER"] = Table([s \in Syms |-> [@[s] EXCEPT !.tri = IF s \in S THEN yes ELSE no]]),
                !.flags = Table([s \in Syms |-> IF s \in S THEN {"DEF_USER"} ELSE {}])]
CalculationSettles == done /\ ~LoopReported(K, Sorted) =>
  \A S \in {{}, Range(Names)} \cup {{s} : s \in Range(Names)} :
    Values(K, CalcAll(K, UserHas(S), Sorted)) = Values(K, CalcAll(K, UserHas(S), Reverse(Sorted)))

(* The finished tree has the entries of the files, each where it can be     *)
(* reached.                                                                 *)
TreeRight == TypeOK /\ TreeKept /\ SubmenuReachable

(* The properties of the symbols say what the files say.                    *)
FilesMeant == ConditionsKept /\ SelectsKept

(* A loop is reported, and what is not reported as one can be calculated.   *)
NoHiddenLoop == LoopsFound /\ CalculationSettles
=============================================================================
