------------------------------- MODULE KTerms -------------------------------
(***************************************************************************)
(* The dependency expressions of kconfig (support/kconfig/expr.c), as far  *)
(* as one term or two of them go: how they are built, what a comparison    *)
(* and a symbol are worth, and the rules by which terms are rewritten.     *)
(* KExpr has what expr.c makes of whole trees with them.  An expression is *)
(* a record; the C code rewrites in place and these operators return the   *)
(* rewritten expression.  Allocation is left out.                          *)
(***************************************************************************)
EXTENDS Integers

CONSTANTS
  Consts,    \* the constant symbols: "y", "m", "n" and quoted literals
  StrRanks,  \* [string values -> Nat], the order of strcmp()
  Nums,      \* [{0, 10, 16} -> [string values -> Int or NaN]], strtoll() in a base
  NaN,       \* the string is not a number in that base
  Width      \* 2^64 in the code: where a signed value wraps when read as unsigned

(* The tables under other names, which TLC evaluates only once.             *)
StrRank == StrRanks
Num     == Nums

(* Strings are equal when strcmp() says so, and y, m and n are no numbers.  *)
StringValues == DOMAIN StrRank
ASSUME StringsAssumption ==
  /\ {"y", "m", "n"} \subseteq StringValues
  /\ \A str \in StringValues : StrRank[str] \in Nat
  /\ \A str, other \in StringValues : StrRank[str] = StrRank[other] => str = other
ASSUME NumsAssumption ==
  /\ NaN \in Int /\ Width \in Nat \ {0}
  /\ \A base \in {0, 10, 16} :
       /\ Num[base] \in [StringValues -> Int]
       /\ Num[base]["y"] = NaN /\ Num[base]["m"] = NaN /\ Num[base]["n"] = NaN

no  == 0
mod == 1
yes == 2
Tristate == {no, mod, yes}

EXPR_OR(d1, d2)  == IF d1 > d2 THEN d1 ELSE d2
EXPR_AND(d1, d2) == IF d1 < d2 THEN d1 ELSE d2
EXPR_NOT(d)      == 2 - d

Comparisons == {"E_EQUAL", "E_UNEQUAL", "E_LTH", "E_LEQ", "E_GTH", "E_GEQ"}
Connectives == {"E_AND", "E_OR"}

NULL == [type |-> "E_NONE"]
expr_alloc_symbol(sym)       == [type |-> "E_SYMBOL", sym |-> sym]
expr_alloc_one(type, e)      == [type |-> type, left |-> e]
expr_alloc_two(type, e1, e2) == [type |-> type, left |-> e1, right |-> e2]
expr_alloc_comp(type, s, t)  == [type |-> type, sym |-> s, to |-> t]

expr_alloc_and(e1, e2) ==
  IF e1 = NULL THEN e2 ELSE IF e2 = NULL THEN e1 ELSE expr_alloc_two("E_AND", e1, e2)
expr_alloc_or(e1, e2) ==
  IF e1 = NULL THEN e2 ELSE IF e2 = NULL THEN e1 ELSE expr_alloc_two("E_OR", e1, e2)

Yes == expr_alloc_symbol("y")
No  == expr_alloc_symbol("n")
expr_is_yes(e) == e \in {NULL, Yes}

(* The operand that changes nothing, and the one that decides.              *)
Unit(type) == IF type = "E_OR" THEN No ELSE Yes
Zero(type) == IF type = "E_OR" THEN Yes ELSE No

(* A connective of two operands from which y and n are gone.                *)
eliminate_yn(type, l, r) ==
  CASE Zero(type) \in {l, r} -> Zero(type)
    [] l = Unit(type)        -> r
    [] r = Unit(type)        -> l
    [] OTHER                 -> expr_alloc_two(type, l, r)

----------------------------------------------------------------------------
(* What a comparison is worth.  val[sym] is the symbol's value: its         *)
(* tristate and its string.                                                 *)

SymbolTypes == {"S_BOOLEAN", "S_TRISTATE", "S_INT", "S_HEX", "S_STRING", "S_UNKNOWN", "S_OTHER"}
Parsed(kind, v) == [kind |-> kind, v |-> v]
InBase(n, kind) == IF n = NaN THEN Parsed("k_string", 0) ELSE Parsed(kind, n)
ParseString(str, type) ==
  CASE type \in {"S_BOOLEAN", "S_TRISTATE"} ->
         Parsed("k_signed", CASE str = "n" -> 0 [] str = "m" -> 1 [] str = "y" -> 2 [] OTHER -> -1)
    [] type = "S_INT" -> InBase(Num[10][str], "k_signed")
    [] type = "S_HEX" -> InBase(Num[16][str], "k_unsigned")
    [] type \in {"S_STRING", "S_UNKNOWN"} -> InBase(Num[0][str], "k_signed")
    [] OTHER -> Parsed("k_invalid", 0)
expr_parse_string ==                    \* evaluated once by TLC
  [type \in SymbolTypes |-> [str \in DOMAIN Num[0] |-> ParseString(str, type)]]

(* Two symbols' strings, each read as its type says, compare like a pair of *)
(* numbers.                                                                 *)
ParsedWith(str, t, other) ==
  IF t = "S_STRING" /\ other = "S_STRING" THEN Parsed("k_string", 0)
  ELSE expr_parse_string[t][str]
InOrder(kinds, k1, k2, str1, str2) ==
  CASE kinds \cap {"k_string", "k_invalid"} # {} -> <<StrRank[str1], StrRank[str2]>>
    [] kinds = {"k_signed"}                      -> <<k1.v, k2.v>>
    [] OTHER                                     -> <<k1.v % Width, k2.v % Width>>
Holds(type, p) ==
  CASE type = "E_EQUAL" -> p[1] = p[2]  [] type = "E_UNEQUAL" -> p[1] # p[2]
    [] type = "E_LTH"   -> p[1] < p[2]  [] type = "E_LEQ"     -> p[1] <= p[2]
    [] type = "E_GTH"   -> p[1] > p[2]  [] OTHER              -> p[1] >= p[2]
Compare(type, kinds, k1, k2, str1, str2) ==
  /\ "k_invalid" \in kinds /\ "k_string" \notin kinds => type \in {"E_EQUAL", "E_UNEQUAL"}
  /\ Holds(type, InOrder(kinds, k1, k2, str1, str2))
CompareParsed(type, k1, k2, str1, str2) ==
  Compare(type, {k1.kind, k2.kind}, k1, k2, str1, str2)
compare_strings(type, t1, str1, t2, str2) ==
  CompareParsed(type, ParsedWith(str1, t1, t2), ParsedWith(str2, t2, t1), str1, str2)

compared(ty, val, e) ==
  IF compare_strings(e.type, ty[e.sym], val[e.sym].str, ty[e.to], val[e.to].str) THEN yes ELSE no

(* What a symbol or a comparison is worth.                                  *)
LeafValue(ty, val, e) ==
  IF e.type = "E_SYMBOL" THEN val[e.sym].tri ELSE compared(ty, val, e)

(* The values that symbols can have: a tristate is y, m or n, a bool y or   *)
(* n, and their strings say so; symbol_yes, symbol_mod and symbol_no have   *)
(* no type.                                                                 *)
IsTri(v) ==
  \/ v.tri = no /\ v.str = "n"
  \/ v.tri = mod /\ v.str = "m"
  \/ v.tri = yes /\ v.str = "y"
Truths == {"y", "m", "n"}
ValuesFit(ty, val) ==
  /\ Truths \subseteq DOMAIN ty
  /\ \A s \in DOMAIN ty :
       /\ ty[s] \in SymbolTypes \ {"S_OTHER"}
       /\ val[s].tri \in Tristate /\ val[s].str \in StringValues
       /\ ty[s] \in {"S_BOOLEAN", "S_TRISTATE"} => IsTri(val[s])
       /\ ty[s] = "S_BOOLEAN" => val[s].tri # mod
  /\ \A s \in Truths : ty[s] = "S_UNKNOWN" /\ val[s].str = s /\ IsTri(val[s])

(* No constant is written as a number that a tristate is compared as, and   *)
(* each text is one constant.                                               *)
ConstantsDiffer(ty, val) ==
  /\ Consts \subseteq DOMAIN ty
  /\ \A c \in Consts : ty[c] = "S_UNKNOWN" /\ Num[0][val[c].str] \notin Tristate
  /\ \A c, d \in Consts : val[c].str = val[d].str => c = d

----------------------------------------------------------------------------
(* Joining two operands of || or && into one                                *)

(* The one symbol both operands are about, if they have one.                *)
Plain == {"E_EQUAL", "E_UNEQUAL", "E_SYMBOL"}
join_sym(ty, e1, e2) ==
  LET Inner(e) == IF e.type = "E_NOT" THEN e.left ELSE e
  IN  IF /\ Inner(e1).type \in Plain
         /\ Inner(e2).type \in (IF e2.type = "E_NOT" THEN {"E_SYMBOL"} ELSE Plain)
         /\ Inner(e1).sym = Inner(e2).sym
         /\ ty[Inner(e1).sym] \in {"S_BOOLEAN", "S_TRISTATE"}
      THEN {Inner(e1).sym}
      ELSE {}

Both(type, e1, e2) == e1.type = type /\ e2.type = type
ThirdValue(e1, e2) == CHOOSE v \in {"y", "m", "n"} : v \notin {e1.to, e2.to}
TwoOfThree(e1, e2) == {e1.to, e2.to} \subseteq {"y", "m", "n"}

join_or(ty, e1, e2) ==
  IF join_sym(ty, e1, e2) = {} THEN NULL
  ELSE LET s  == CHOOSE x \in join_sym(ty, e1, e2) : TRUE
           aS == expr_alloc_symbol(s)
       IN  CASE /\ ty[s] = "S_TRISTATE" /\ Both("E_EQUAL", e1, e2)
                /\ TwoOfThree(e1, e2)
                  -> expr_alloc_comp("E_UNEQUAL", s, ThirdValue(e1, e2))
             [] ty[s] = "S_BOOLEAN" /\ {e1, e2} = {aS, expr_alloc_one("E_NOT", aS)}
                  -> Yes
             [] OTHER -> NULL

join_and(ty, e1, e2) ==
  IF join_sym(ty, e1, e2) = {} THEN NULL
  ELSE LET s  == CHOOSE x \in join_sym(ty, e1, e2) : TRUE
           aS == expr_alloc_symbol(s)
           AndWith(type, v) == {e1, e2} = {aS, expr_alloc_comp(type, s, v)}
           Equal(v)         == expr_alloc_comp("E_EQUAL", s, v)
           (* (a='b') && (a!='c') -> 'b'='c' ? 'n' : a='b' *)
           EqualUnequal(p, q) ==
             /\ p.type = "E_EQUAL" /\ q.type = "E_UNEQUAL"
             /\ {p.to, q.to} \subseteq Consts
           Merged(p, q) == IF p.to # q.to THEN Equal(p.to) ELSE No
       IN  CASE AndWith("E_EQUAL", "y")   -> Equal("y")
             [] AndWith("E_UNEQUAL", "n") -> aS
             [] AndWith("E_UNEQUAL", "m") -> Equal("y")
             [] ty[s] = "S_TRISTATE" /\ EqualUnequal(e1, e2) -> Merged(e1, e2)
             [] ty[s] = "S_TRISTATE" /\ EqualUnequal(e2, e1) -> Merged(e2, e1)
             [] /\ ty[s] = "S_TRISTATE" /\ Both("E_UNEQUAL", e1, e2)
                /\ TwoOfThree(e1, e2)     -> Equal(ThirdValue(e1, e2))
             [] OTHER -> NULL

----------------------------------------------------------------------------
(* Rewriting one term                                                       *)

(* bool FOO!=n => FOO, for conditions that only matter as n or not n.       *)
trans_bool(ty, e) ==
  IF e.type = "E_UNEQUAL" /\ ty[e.sym] = "S_TRISTATE" /\ e.to = "n"
  THEN expr_alloc_symbol(e.sym) ELSE e

\* Mutant: not <= becomes >=.
OppositeLoose == [E_EQUAL |-> "E_UNEQUAL", E_UNEQUAL |-> "E_EQUAL", E_LEQ |-> "E_GEQ",
                  E_GEQ |-> "E_LTH", E_LTH |-> "E_GEQ", E_GTH |-> "E_LEQ"]
(* The comparison that holds when this one does not.                        *)
Opposite == [E_EQUAL |-> "E_UNEQUAL", E_UNEQUAL |-> "E_EQUAL", E_LEQ |-> "E_GTH",
             E_GEQ |-> "E_LTH", E_LTH |-> "E_GEQ", E_GTH |-> "E_LEQ"]

(* A comparison of a boolean with y, m or n.                                *)
bool_compare(e) ==
  LET s    == expr_alloc_symbol(e.sym)
      sNot == expr_alloc_one("E_NOT", s)
  IN  CASE e.type = "E_EQUAL"   /\ e.to = "n" -> sNot
        [] e.type = "E_EQUAL"   /\ e.to = "m" -> No
        [] e.type = "E_EQUAL"   /\ e.to = "y" -> s
        [] e.type = "E_UNEQUAL" /\ e.to = "n" -> s
        [] e.type = "E_UNEQUAL" /\ e.to = "m" -> Yes
        [] e.type = "E_UNEQUAL" /\ e.to = "y" -> sNot
        [] OTHER -> e

(* The negation of a term.                                                  *)
negated(a) ==
  CASE a.type \in Comparisons      -> [a EXCEPT !.type = Opposite[a.type]]
    [] a = Yes                     -> No
    [] a = No                      -> Yes
    [] a = expr_alloc_symbol("m")  -> a
    [] OTHER                       -> expr_alloc_one("E_NOT", a)

(* e=sym or e!=sym, where e is a comparison or a symbol.                    *)
trans_compare(e, type, sym) ==
  CASE e.type \in Comparisons ->
         (IF sym = "m" THEN IF type = "E_EQUAL" THEN No ELSE Yes
          ELSE IF (sym = "y") = (type = "E_EQUAL") THEN e
          ELSE expr_alloc_one("E_NOT", e))
    [] e.type = "E_SYMBOL" -> expr_alloc_comp(type, e.sym, sym)
    [] OTHER -> NULL

(* A term that is n whenever sym is.                                        *)
depends_symbol(e, sym) ==
  CASE e.type = "E_SYMBOL"  -> e.sym = sym
    [] e.type = "E_EQUAL"   -> e.sym = sym /\ e.to \in {"y", "m"}
    [] e.type = "E_UNEQUAL" -> e.sym = sym /\ e.to = "n"
    [] OTHER                -> FALSE
=============================================================================
