------------------------------- MODULE KExpr -------------------------------
(***************************************************************************)
(* The dependency expressions of kconfig (support/kconfig/expr.c): how     *)
(* whole trees are simplified, compared, rewritten, evaluated and printed. *)
(* An expression is a record tree; the C code rewrites its trees in place  *)
(* and these operators return the rewritten tree.                          *)
(*                                                                         *)
(* The operators are recursive, so this module and those that use it are   *)
(* for model checking only; KTerms has the rules for one or two operands.  *)
(***************************************************************************)
EXTENDS KTerms, Sequences, SequencesExt

(* FoldLeft() of SequencesExt, but with each intermediate value worked out  *)
(* before the next, so that the depth of TLC's evaluation stays small.      *)
FoldInOrder(op(_, _), base, seq) ==
  LET RECURSIVE Run(_)
      Run(st) == IF st.rest = <<>> THEN st.acc
                 ELSE Run([acc |-> op(st.acc, Head(st.rest)), rest |-> Tail(st.rest)])
  IN  Run([acc |-> base, rest |-> seq])

(* The operands of one level of && or ||, in order, and the same tree with  *)
(* other operands: the code walks to these leaves and replaces them.        *)
RECURSIVE Leaves(_, _)
Leaves(type, e) ==
  IF e.type = type THEN Leaves(type, e.left) \o Leaves(type, e.right) ELSE <<e>>

RECURSIVE WithLeaves(_, _, _)
WithLeaves(type, e, s) ==
  IF e.type # type THEN s[1]
  ELSE LET n == Len(Leaves(type, e.left))
       IN  expr_alloc_two(type, WithLeaves(type, e.left, SubSeq(s, 1, n)),
                                WithLeaves(type, e.right, SubSeq(s, n + 1, Len(s))))

(* Every pair of a leaf of one side and a leaf of the other, in the order   *)
(* in which the nested recursion meets them.                                *)
PairsInOrder(n, m) == [k \in 1..(n * m) |-> <<((k - 1) \div m) + 1, ((k - 1) % m) + 1>>]

----------------------------------------------------------------------------
(* Simplification of constants, and comparison of two expressions           *)

RECURSIVE expr_eliminate_yn(_)
expr_eliminate_yn(e) ==
  IF e.type \notin Connectives THEN e
  ELSE LET l == expr_eliminate_yn(e.left)
           r == expr_eliminate_yn(e.right)
       IN  eliminate_yn(e.type, l, r)

RECURSIVE expr_eq(_, _), eliminate_eq_leaves(_, _, _), expr_eliminate_eq(_, _)

(* __expr_eliminate_eq(): equal leaves of the two sides both become the     *)
(* unit of the connective.                                                  *)
EqualLeaves(a, b) == ~(a = b /\ a \in {Yes, No}) /\ expr_eq(a, b)
Eliminated(type, l1, l2) ==
  FoldInOrder(LAMBDA acc, p :
                IF EqualLeaves(acc[1][p[1]], acc[2][p[2]])
                THEN <<[acc[1] EXCEPT ![p[1]] = Unit(type)], [acc[2] EXCEPT ![p[2]] = Unit(type)]>>
                ELSE acc,
              <<l1, l2>>, PairsInOrder(Len(l1), Len(l2)))
BothWithLeaves(type, e1, e2, res) ==
  <<WithLeaves(type, e1, res[1]), WithLeaves(type, e2, res[2])>>
eliminate_eq_leaves(type, e1, e2) ==
  BothWithLeaves(type, e1, e2, Eliminated(type, Leaves(type, e1), Leaves(type, e2)))

(* First by the connective of one side, then by that of the other.          *)
EliminateLeft(p) ==
  IF p[1].type \in Connectives THEN eliminate_eq_leaves(p[1].type, p[1], p[2]) ELSE p
EliminateRight(p) ==
  IF p[1].type # p[2].type /\ p[2].type \in Connectives
  THEN eliminate_eq_leaves(p[2].type, p[1], p[2]) ELSE p
BothSimple(p) == <<expr_eliminate_yn(p[1]), expr_eliminate_yn(p[2])>>
expr_eliminate_eq(e1, e2) ==
  IF NULL \in {e1, e2} THEN <<e1, e2>>
  ELSE BothSimple(EliminateRight(EliminateLeft(<<e1, e2>>)))

OneSymbol(p) == p[1] = p[2] /\ p[1].type = "E_SYMBOL"
expr_eq(e1, e2) ==
  /\ e1.type = e2.type
  /\ CASE e1.type \in Comparisons \cup {"E_SYMBOL"} -> e1 = e2
       [] e1.type = "E_NOT"        -> expr_eq(e1.left, e2.left)
       [] e1.type \in Connectives  -> OneSymbol(expr_eliminate_eq(e1, e2))
       [] OTHER                    -> FALSE

----------------------------------------------------------------------------
(* Joining two operands of || or && into one                                *)

expr_join_or(ty, e1, e2)  == IF expr_eq(e1, e2) THEN e1 ELSE join_or(ty, e1, e2)
expr_join_and(ty, e1, e2) == IF expr_eq(e1, e2) THEN e1 ELSE join_and(ty, e1, e2)

(* One pass over all pairs of operands of e.  The first of a pair that can  *)
(* be joined becomes the unit, the second the join; a nested level is       *)
(* passed over whenever its leaf is met.                                    *)
RECURSIVE expr_eliminate_dups1(_, _)
PutJoin(type, acc, p, first, joined) ==
  IF joined = NULL
  THEN [leaves |-> [acc.leaves EXCEPT ![p[1]] = first.e], count |-> acc.count + first.count]
  ELSE [leaves |-> [acc.leaves EXCEPT ![p[1]] = Unit(type), ![p[2]] = joined],
        count  |-> acc.count + first.count + 1]
JoinPair(ty, type, acc, p, first) ==
  PutJoin(type, acc, p, first,
          IF type = "E_OR" THEN expr_join_or(ty, first.e, acc.leaves[p[2]])
          ELSE expr_join_and(ty, first.e, acc.leaves[p[2]]))
FirstOf(ty, a) ==
  IF a.type \in Connectives THEN expr_eliminate_dups1(ty, a) ELSE [e |-> a, count |-> 0]
JoinLeaves(ty, type, leaves) ==
  FoldInOrder(LAMBDA acc, p :
                IF p[1] = p[2] THEN acc
                ELSE JoinPair(ty, type, acc, p, FirstOf(ty, acc.leaves[p[1]])),
              [leaves |-> leaves, count |-> 0], PairsInOrder(Len(leaves), Len(leaves)))
WithJoined(e, joined) ==
  [e |-> WithLeaves(e.type, e, joined.leaves), count |-> joined.count]
expr_eliminate_dups1(ty, e) ==
  WithJoined(e, JoinLeaves(ty, e.type, Leaves(e.type, e)))

RECURSIVE expr_eliminate_dups(_, _)
NextPass(ty, pass) ==
  IF pass.count = 0 THEN pass.e ELSE expr_eliminate_dups(ty, expr_eliminate_yn(pass.e))
expr_eliminate_dups(ty, e) ==
  IF e.type \notin Connectives THEN e ELSE NextPass(ty, expr_eliminate_dups1(ty, e))

----------------------------------------------------------------------------
(* Rewriting                                                                *)

RECURSIVE expr_trans_bool(_, _)
expr_trans_bool(ty, e) ==
  CASE e.type \in Connectives ->
         expr_alloc_two(e.type, expr_trans_bool(ty, e.left), expr_trans_bool(ty, e.right))
    [] e.type = "E_NOT" -> expr_alloc_one("E_NOT", expr_trans_bool(ty, e.left))
    [] OTHER -> trans_bool(ty, e)

RECURSIVE expr_transform(_, _)
transform_not(ty, a) ==
  CASE a.type = "E_NOT"        -> expr_transform(ty, a.left)
    [] a.type \in Connectives  ->
         expr_transform(ty, expr_alloc_two(
           IF a.type = "E_OR" THEN "E_AND" ELSE "E_OR",
           expr_alloc_one("E_NOT", a.left), expr_alloc_one("E_NOT", a.right)))
    [] OTHER -> negated(a)

expr_transform(ty, e) ==
  CASE e.type \in Connectives ->
         expr_alloc_two(e.type, expr_transform(ty, e.left), expr_transform(ty, e.right))
    [] e.type = "E_NOT" -> transform_not(ty, expr_transform(ty, e.left))
    [] e.type \in {"E_EQUAL", "E_UNEQUAL"} /\ ty[e.sym] = "S_BOOLEAN" -> bool_compare(e)
    [] OTHER -> e

(* e=sym or e!=sym, pushed down to the symbols of e.                        *)
RECURSIVE expr_trans_compare(_, _, _)
expr_trans_compare(e, type, sym) ==
  LET Negated(x) == IF type = "E_UNEQUAL" THEN expr_alloc_one("E_NOT", x) ELSE x
      l == expr_trans_compare(e.left, "E_EQUAL", sym)
      r == expr_trans_compare(e.right, "E_EQUAL", sym)
      Swapped == IF e.type = "E_AND" THEN "E_OR" ELSE "E_AND"
  IN  CASE e = NULL -> Negated(expr_alloc_symbol(sym))
        [] e.type \in Connectives ->
             Negated(CASE sym = "y" -> expr_alloc_two(e.type, l, r)
                       [] sym = "n" -> expr_alloc_two(Swapped, l, r)
                       [] OTHER     -> e)
        [] e.type = "E_NOT" ->
             expr_trans_compare(e.left, Opposite[type], sym)
        [] OTHER -> trans_compare(e, type, sym)

----------------------------------------------------------------------------
(* Which symbols an expression mentions, and which it cannot do without     *)

RECURSIVE expr_contains_symbol(_, _), expr_depends_symbol(_, _)
expr_contains_symbol(e, sym) ==
  CASE e.type \in Connectives -> \/ expr_contains_symbol(e.left, sym)
                                 \/ expr_contains_symbol(e.right, sym)
    [] e.type = "E_SYMBOL"    -> e.sym = sym
    [] e.type \in Comparisons -> sym \in {e.sym, e.to}
    [] e.type = "E_NOT"       -> expr_contains_symbol(e.left, sym)
    [] OTHER                  -> FALSE

expr_depends_symbol(e, sym) ==
  CASE e.type = "E_AND" -> \/ expr_depends_symbol(e.left, sym)
                           \/ expr_depends_symbol(e.right, sym)
    [] OTHER            -> depends_symbol(e, sym)

----------------------------------------------------------------------------
(* Evaluation                                                               *)

RECURSIVE expr_calc_value(_, _, _)
expr_calc_value(ty, val, e) ==
  CASE e = NULL              -> yes
    [] e.type = "E_AND"      -> EXPR_AND(expr_calc_value(ty, val, e.left),
                                         expr_calc_value(ty, val, e.right))
    [] e.type = "E_OR"       -> EXPR_OR(expr_calc_value(ty, val, e.left),
                                        expr_calc_value(ty, val, e.right))
    [] e.type = "E_NOT"      -> EXPR_NOT(expr_calc_value(ty, val, e.left))
    [] OTHER                 -> LeafValue(ty, val, e)

----------------------------------------------------------------------------
(* Printing: the tokens handed to the print function, in order              *)

\* Mutant: || binds tighter than &&.
TightnessSwapped == [E_NONE |-> 1, E_LIST |-> 2, E_OR |-> 4, E_AND |-> 3, E_NOT |-> 5,
                     E_EQUAL |-> 6, E_UNEQUAL |-> 6, E_LTH |-> 7, E_LEQ |-> 7, E_GTH |-> 7,
                     E_GEQ |-> 7]

Tightness == [E_NONE |-> 1, E_LIST |-> 2, E_OR |-> 3, E_AND |-> 4, E_NOT |-> 5,
              E_EQUAL |-> 6, E_UNEQUAL |-> 6, E_LTH |-> 7, E_LEQ |-> 7, E_GTH |-> 7,
              E_GEQ |-> 7]
expr_compare_type(t1, t2) ==
  IF t1 = t2 THEN 0
  ELSE IF {t1, t2} \subseteq DOMAIN Tightness /\ Tightness[t1] > Tightness[t2] THEN 1
  ELSE -1

Token == [E_EQUAL |-> "=", E_UNEQUAL |-> "!=", E_LTH |-> "<", E_LEQ |-> "<=",
          E_GTH |-> ">", E_GEQ |-> ">=", E_AND |-> "&&", E_OR |-> "||"]

RECURSIVE expr_print(_, _)
expr_print(e, prevtoken) ==
  LET inner == CASE e.type = "E_SYMBOL" -> <<e.sym>>
                 [] e.type = "E_NOT"    -> <<"!">> \o expr_print(e.left, "E_NOT")
                 [] e.type \in Comparisons -> <<e.sym, Token[e.type], e.to>>
                 [] e.type \in Connectives -> expr_print(e.left, e.type)
                                              \o <<Token[e.type]>>
                                              \o expr_print(e.right, e.type)
  IN  IF e = NULL THEN <<"y">>
      ELSE IF expr_compare_type(prevtoken, e.type) > 0 THEN <<"(">> \o inner \o <<")">>
      ELSE inner

\* Mutant: the last operand is not looked at.
expr_print_revdepFirst(ty, val, e, pr_type) ==
  LET Picked(o) == expr_calc_value(ty, val, o) = pr_type
      chosen == SelectSeq(Front(Leaves("E_OR", e)), Picked)
  IN  [i \in DOMAIN chosen |-> expr_print(chosen[i], "E_NONE")]

(* The operands of the top level of || whose value is pr_type, printed one  *)
(* a line.                                                                  *)
expr_print_revdep(ty, val, e, pr_type) ==
  LET Picked(o) == expr_calc_value(ty, val, o) = pr_type
      chosen == SelectSeq(Leaves("E_OR", e), Picked)
  IN  [i \in DOMAIN chosen |-> expr_print(chosen[i], "E_NONE")]
=============================================================================
