---------------------------- MODULE ExprRewrite ----------------------------
(***************************************************************************)
(* Dependency expressions as menu_finalize() treats them: an expression    *)
(* that the parser has built (e1, and for the superset test of automatic   *)
(* submenus a second one, e2) is rewritten over and over by the functions  *)
(* of expr.c, in an order that depends on where in the menu it stands.     *)
(* The properties compare what the rewritten trees mean under every        *)
(* valuation of the symbols.                                               *)
(***************************************************************************)
EXTENDS KExpr

CONSTANTS
  Type,        \* [symbols and constants -> symbol types]
  Valuations,  \* the values the symbols can have: [symbols and constants -> [tri, str]]
  Singles,     \* expressions the parser may hand over alone
  Pairs,       \* pairs of expressions that are compared with each other
  MaxCompares  \* bound: how often an expression is turned into a comparison

(* What the rules of KTerms are proved from.                                *)
ASSUME ValuationsAssumption ==
  \A v \in Valuations : ValuesFit(Type, v) /\ ConstantsDiffer(Type, v)

VARIABLES
  e1, e2,      \* the expressions; e2 is NULL when there is only one
  compares     \* how often e1 was turned into a comparison
vars == <<e1, e2, compares>>

Init ==
  /\ \E p \in (Singles \X {NULL}) \cup Pairs : e1 = p[1] /\ e2 = p[2]
  /\ compares = 0

Value(v, e) == expr_calc_value(Type, v, e)
Symbols == DOMAIN Type \ Consts

(* dep = expr_transform(dep) *)
Transform ==
  /\ e1' = expr_transform(Type, e1)
  /\ UNCHANGED <<e2, compares>>

(* dep = expr_eliminate_dups(dep) *)
EliminateDups ==
  /\ e1' = expr_eliminate_dups(Type, e1)
  /\ UNCHANGED <<e2, compares>>

(* dep = expr_trans_bool(dep), for the properties of a symbol that is not   *)
(* a tristate                                                               *)
TransBool ==
  /\ e1' = expr_trans_bool(Type, e1)
  /\ UNCHANGED <<e2, compares>>

(* dep = expr_trans_compare(dep, type, sym) *)
TransCompare(type, sym) ==
  /\ compares < MaxCompares
  /\ e1' = expr_trans_compare(e1, type, sym)
  /\ compares' = compares + 1
  /\ UNCHANGED e2

(* expr_eliminate_eq(&dep, &dep2) *)
EliminateEq ==
  /\ e2 # NULL
  /\ LET p == expr_eliminate_eq(e1, e2) IN e1' = p[1] /\ e2' = p[2]
  /\ UNCHANGED compares

Next ==
  \/ Transform
  \/ EliminateDups
  \/ TransBool
  \/ \E type \in {"E_EQUAL", "E_UNEQUAL"}, sym \in {"n", "y"} : TransCompare(type, sym)
  \/ EliminateEq

Spec == Init /\ [][Next]_vars

----------------------------------------------------------------------------
RECURSIVE IsExpr(_)
IsExpr(e) ==
  CASE e.type = "E_SYMBOL"       -> e.sym \in DOMAIN Type
    [] e.type \in Comparisons    -> {e.sym, e.to} \subseteq DOMAIN Type
    [] e.type = "E_NOT"          -> IsExpr(e.left)
    [] e.type \in Connectives    -> IsExpr(e.left) /\ IsExpr(e.right)
    [] OTHER                     -> FALSE

(* Rewriting always leaves a well-formed tree: no operand of a connective   *)
(* is lost, no comparison is left without a symbol.                         *)
TypeOK ==
  /\ IsExpr(e1) /\ (e2 = NULL \/ IsExpr(e2))
  /\ compares \in 0..MaxCompares

(* Transforming and removing duplicates never changes what a dependency     *)
(* evaluates to, whatever the symbols' values (expr.c: expr_transform,      *)
(* expr_eliminate_dups, expr_join_or, expr_join_and).                       *)
RewriteKeeps ==
  [][Transform \/ EliminateDups =>
       \A v \in Valuations : Value(v, e1) = Value(v, e1')]_vars

(* The reduction FOO!=n => FOO may lower y to m, but under a negation it    *)
(* must not change whether a condition is n: as long as nothing is m, a     *)
(* condition of a bool keeps its value (expr.c: expr_trans_bool).           *)
NoMod(v, e) == ~expr_contains_symbol(e, "m") /\ \A s \in Symbols : v[s].tri # mod
BoolKept ==
  [][TransBool => \A v \in Valuations : NoMod(v, e1) => Value(v, e1) = Value(v, e1')]_vars

(* A dependency turned into a comparison is y exactly when the comparison   *)
(* with the whole dependency holds, and n otherwise, as long as nothing is  *)
(* m (expr.c: expr_trans_compare).                                       *)
ConstOf(sym) == IF sym = "y" THEN yes ELSE no
ComparesTheWhole ==
  [][\A type \in {"E_EQUAL", "E_UNEQUAL"}, sym \in {"n", "y"} : TransCompare(type, sym) =>
       \A v \in Valuations : NoMod(v, e1) =>
          Value(v, e1') = (IF Holds(type, <<Value(v, e1), ConstOf(sym)>>) THEN yes ELSE no)]_vars

(* Expressions that expr_eq() takes for equal have the same value always:   *)
(* a duplicate that is dropped was one.                                     *)
EqualMeansSame ==
  e2 # NULL /\ expr_eq(e1, e2) => \A v \in Valuations : Value(v, e1) = Value(v, e2)

(* Dropping what two expressions have in common loses no difference between *)
(* them: where what is left agrees, the two agreed before.                  *)
DifferencesKept ==
  [][EliminateEq => \A v \in Valuations :
       Value(v, e1') = Value(v, e2') => Value(v, e1) = Value(v, e2)]_vars

(* A dependency on a symbol is found where there is one: an expression that *)
(* does not mention a symbol has the same value whatever the symbol's, and  *)
(* one that depends on a symbol absolutely is n when the symbol is.         *)
DependenceSound ==
  \A s \in Symbols :
    /\ expr_contains_symbol(e1, s) \/
         \A v, w \in Valuations :
           (\A t \in Symbols \ {s} : v[t] = w[t]) => Value(v, e1) = Value(w, e1)
    /\ expr_depends_symbol(e1, s) =>
         \A v \in Valuations : v[s].tri = no => Value(v, e1) = no

----------------------------------------------------------------------------
(* The grammar of expressions (zconf.y), as a reference for what is printed *)

TypeOf(token) == CHOOSE t \in DOMAIN Token : Token[t] = token
RECURSIVE ParseOr(_), OrRest(_, _), ParseAnd(_), AndRest(_, _), ParseNot(_)
ParseNot(ts) ==
  CASE Head(ts) = "!" -> LET p == ParseNot(Tail(ts)) IN <<expr_alloc_one("E_NOT", p[1]), p[2]>>
    [] Head(ts) = "(" -> LET p == ParseOr(Tail(ts)) IN <<p[1], Tail(p[2])>>
    [] Len(ts) >= 3 /\ ts[2] \in {Token[c] : c \in Comparisons} ->
         <<expr_alloc_comp(TypeOf(ts[2]), ts[1], ts[3]), SubSeq(ts, 4, Len(ts))>>
    [] OTHER -> <<expr_alloc_symbol(Head(ts)), Tail(ts)>>
AndRest(l, ts) ==
  IF ts = <<>> \/ Head(ts) # "&&" THEN <<l, ts>>
  ELSE LET p == ParseNot(Tail(ts)) IN AndRest(expr_alloc_two("E_AND", l, p[1]), p[2])
ParseAnd(ts) == LET p == ParseNot(ts) IN AndRest(p[1], p[2])
OrRest(l, ts) ==
  IF ts = <<>> \/ Head(ts) # "||" THEN <<l, ts>>
  ELSE LET p == ParseAnd(Tail(ts)) IN OrRest(expr_alloc_two("E_OR", l, p[1]), p[2])
ParseOr(ts) == LET p == ParseAnd(ts) IN OrRest(p[1], p[2])

(* What is printed of an expression reads back, by the grammar's            *)
(* precedences, as an expression with the same value: no pair of            *)
(* parentheses is missing (expr.c: expr_print, expr_compare_type).          *)
PrintedReadsBack ==
  LET p == ParseOr(expr_print(e1, "E_NONE"))
  IN  p[2] = <<>> /\ \A v \in Valuations : Value(v, p[1]) = Value(v, e1)

(* When a reverse dependency is not n, the list of those that select the    *)
(* symbol with that value names at least one (expr.c: expr_print_revdep).   *)
SelectorNamed ==
  \A v \in Valuations :
    Value(v, e1) # no => expr_print_revdep(Type, v, e1, Value(v, e1)) # <<>>

(* No function that rewrites dependencies changes what they mean: neither   *)
(* a rewriting of one tree nor one that compares two.                       *)
MeaningKept == RewriteKeeps /\ BoolKept /\ ComparesTheWhole /\ DifferencesKept

(* What the functions that only look at expressions answer is right.        *)
AnswersSound == TypeOK /\ EqualMeansSame /\ DependenceSound /\ SelectorNamed
=============================================================================
