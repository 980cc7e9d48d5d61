---------------------------- MODULE KTermsProofs ----------------------------
(***************************************************************************)
(* The rules by which expr.c rewrites one term or two of an expression     *)
(* keep what it is worth, for any symbols and any values of them.  What a  *)
(* rule is for is an operand: a symbol, a comparison, or the negation of   *)
(* one.                                                                    *)
(***************************************************************************)
EXTENDS KTerms, TLAPS

Leaf(ty) ==
  [type : {"E_SYMBOL"}, sym : DOMAIN ty] \cup [type : Comparisons, sym : DOMAIN ty, to : DOMAIN ty]
Term(ty) == Leaf(ty) \cup [type : {"E_NOT"}, left : Leaf(ty)]

(* expr_calc_value() of a term.                                             *)
TermValue(ty, val, e) ==
  IF e.type = "E_NOT" THEN EXPR_NOT(LeafValue(ty, val, e.left)) ELSE LeafValue(ty, val, e)

-----------------------------------------------------------------------------
(* Comparisons                                                              *)

LEMMA IsLeaf ==
  ASSUME NEW ty, NEW e \in Term(ty)
  PROVE  /\ e.type = "E_NOT" => e.left \in Leaf(ty) /\ e = expr_alloc_one("E_NOT", e.left)
         /\ e.type # "E_NOT" => e \in Leaf(ty)
         /\ e.type = "E_SYMBOL" => e.sym \in DOMAIN ty /\ e = expr_alloc_symbol(e.sym)
         /\ e.type \in Comparisons => /\ e.sym \in DOMAIN ty /\ e.to \in DOMAIN ty
                                      /\ e = expr_alloc_comp(e.type, e.sym, e.to)
         /\ e.type \in Comparisons \cup {"E_SYMBOL", "E_NOT"}
BY DEF Term, Leaf, Comparisons, expr_alloc_one, expr_alloc_symbol, expr_alloc_comp

(* A string is read as it is, or as a number.                               *)
LEMMA ParsedIs ==
  ASSUME NEW t \in SymbolTypes \ {"S_OTHER"}, NEW other \in SymbolTypes, NEW str \in StringValues
  PROVE  /\ ParsedWith(str, t, other).kind \in {"k_string", "k_signed", "k_unsigned"}
         /\ ParsedWith(str, t, other).v \in Int
<1>1. DOMAIN Num[0] = StringValues /\ \A b \in {0, 10, 16} : Num[b][str] \in Int
  BY NumsAssumption
<1>2. expr_parse_string[t][str] = ParseString(str, t)
  BY <1>1 DEF expr_parse_string
<1>3. ParseString(str, t).kind \in {"k_string", "k_signed", "k_unsigned"} /\ ParseString(str, t).v \in Int
  BY <1>1 DEF ParseString, InBase, Parsed, SymbolTypes
<1>4. QED
  BY <1>2, <1>3 DEF ParsedWith, Parsed

(* Two values are compared like two numbers, and then one of =, < and >     *)
(* holds.                                                                   *)
LEMMA ComparedIs ==
  ASSUME NEW ty, NEW val, ValuesFit(ty, val), NEW s \in DOMAIN ty, NEW t \in DOMAIN ty
  PROVE  \E a, b \in Int : \A type \in Comparisons :
           compare_strings(type, ty[s], val[s].str, ty[t], val[t].str) <=> Holds(type, <<a, b>>)
<1> DEFINE k1 == ParsedWith(val[s].str, ty[s], ty[t])
           k2 == ParsedWith(val[t].str, ty[t], ty[s])
           kinds == {k1.kind, k2.kind}
           p == InOrder(kinds, k1, k2, val[s].str, val[t].str)
<1>1. /\ k1.kind \in {"k_string", "k_signed", "k_unsigned"} /\ k1.v \in Int
      /\ k2.kind \in {"k_string", "k_signed", "k_unsigned"} /\ k2.v \in Int
  BY ParsedIs DEF ValuesFit
<1>2. StrRank[val[s].str] \in Int /\ StrRank[val[t].str] \in Int
  BY StringsAssumption DEF ValuesFit
<1>3. \A n \in Int : n % Width \in Int
  BY NumsAssumption
<1>4. "k_invalid" \notin kinds
  BY <1>1
<1>5. \A type : compare_strings(type, ty[s], val[s].str, ty[t], val[t].str) <=> Holds(type, p)
  BY <1>4 DEF compare_strings, CompareParsed, Compare
<1> HIDE DEF k1, k2
<1>6. p = <<p[1], p[2]>> /\ p[1] \in Int /\ p[2] \in Int
  BY <1>1, <1>2, <1>3 DEF InOrder
<1>7. QED
  BY <1>5, <1>6

(* A bool or tristate equals y, m or n when it has that value.              *)
LEMMA TruthCompared ==
  ASSUME NEW ty, NEW val, ValuesFit(ty, val),
         NEW s \in DOMAIN ty, ty[s] \in {"S_BOOLEAN", "S_TRISTATE"}, NEW c \in Truths
  PROVE  /\ c \in DOMAIN ty
         /\ compare_strings("E_EQUAL", ty[s], val[s].str, ty[c], val[c].str)
              <=> val[s].tri = val[c].tri
         /\ compare_strings("E_UNEQUAL", ty[s], val[s].str, ty[c], val[c].str)
              <=> val[s].tri # val[c].tri
<1> DEFINE k1 == ParsedWith(val[s].str, ty[s], ty[c])
           k2 == ParsedWith(val[c].str, ty[c], ty[s])
           kinds == {k1.kind, k2.kind}
           p == InOrder(kinds, k1, k2, val[s].str, val[c].str)
<1>1. /\ c \in DOMAIN ty /\ ty[c] = "S_UNKNOWN" /\ val[c].str = c /\ c \in StringValues
      /\ val[s].str \in StringValues /\ IsTri(val[s]) /\ IsTri(val[c])
  BY DEF ValuesFit
<1>2. Num[0][c] = NaN /\ c \in DOMAIN Num[0]
  BY NumsAssumption, <1>1 DEF Truths
<1>3. k2.kind = "k_string"
  <2>1. k2 = expr_parse_string["S_UNKNOWN"][c]
    BY <1>1 DEF ParsedWith
  <2>2. expr_parse_string["S_UNKNOWN"][c] = ParseString(c, "S_UNKNOWN")
    BY <1>2 DEF expr_parse_string, SymbolTypes
  <2>3. ParseString(c, "S_UNKNOWN") = Parsed("k_string", 0)
    BY <1>2 DEF ParseString, InBase
  <2>4. QED
    BY <2>1, <2>2, <2>3 DEF Parsed
<1> HIDE DEF k1, k2
<1>4. p = <<StrRank[val[s].str], StrRank[val[c].str]>>
  BY <1>3 DEF InOrder
<1>5. p[1] = p[2] <=> val[s].str = val[c].str
  BY <1>1, <1>4, StringsAssumption
<1>6. val[s].str = val[c].str <=> val[s].tri = val[c].tri
  BY <1>1 DEF IsTri, no, mod, yes
<1>7. \A type : compare_strings(type, ty[s], val[s].str, ty[c], val[c].str)
                  <=> /\ "k_invalid" \in kinds /\ "k_string" \notin kinds => type \in {"E_EQUAL", "E_UNEQUAL"}
                      /\ Holds(type, p)
  BY DEF compare_strings, CompareParsed, Compare, k1, k2
<1>8. QED
  BY <1>1, <1>3, <1>5, <1>6, <1>7 DEF Holds

(* The three constants, and what a term about them is worth.                *)
LEMMA TruthsAre ==
  ASSUME NEW ty, NEW val, ValuesFit(ty, val)
  PROVE  val["y"].tri = yes /\ val["m"].tri = mod /\ val["n"].tri = no
BY DEF ValuesFit, Truths, IsTri

LEMMA SymbolValue ==
  ASSUME NEW ty, NEW val, NEW s
  PROVE  TermValue(ty, val, expr_alloc_symbol(s)) = val[s].tri
BY DEF TermValue, LeafValue, expr_alloc_symbol

LEMMA CompValue ==
  ASSUME NEW ty, NEW val, NEW type \in Comparisons, NEW s, NEW t
  PROVE  TermValue(ty, val, expr_alloc_comp(type, s, t))
           = IF compare_strings(type, ty[s], val[s].str, ty[t], val[t].str) THEN yes ELSE no
BY DEF TermValue, LeafValue, expr_alloc_comp, compared, Comparisons

LEMMA NotValue ==
  ASSUME NEW ty, NEW val, NEW e \in Leaf(ty)
  PROVE  TermValue(ty, val, expr_alloc_one("E_NOT", e)) = EXPR_NOT(TermValue(ty, val, e))
BY DEF TermValue, Leaf, Comparisons, expr_alloc_one

LEMMA TruthValue ==
  ASSUME NEW ty, NEW val, ValuesFit(ty, val),
         NEW s \in DOMAIN ty, ty[s] \in {"S_BOOLEAN", "S_TRISTATE"}, NEW c \in Truths
  PROVE  /\ TermValue(ty, val, expr_alloc_comp("E_EQUAL", s, c))
              = IF val[s].tri = val[c].tri THEN yes ELSE no
         /\ TermValue(ty, val, expr_alloc_comp("E_UNEQUAL", s, c))
              = IF val[s].tri = val[c].tri THEN no ELSE yes
BY TruthCompared, CompValue DEF Comparisons

(* A term is worth a tristate; a comparison is worth y or n.                *)
LEMMA ValueIs ==
  ASSUME NEW ty, NEW val, ValuesFit(ty, val), NEW e \in Term(ty)
  PROVE  /\ TermValue(ty, val, e) \in Tristate
         /\ e.type \in Comparisons => TermValue(ty, val, e) \in {no, yes}
<1>1. \A l \in Leaf(ty) : LeafValue(ty, val, l) \in Tristate
  BY DEF LeafValue, compared, ValuesFit, Leaf, Tristate
<1>2. e.type \in Comparisons => LeafValue(ty, val, e) \in {no, yes}
  BY DEF LeafValue, compared, Comparisons
<1>3. QED
  BY <1>1, <1>2, IsLeaf DEF TermValue, EXPR_NOT, Tristate, no, mod, yes, Comparisons

-----------------------------------------------------------------------------
(* Joining two operands                                                     *)

(* Two operands with a symbol to join are about that one.                   *)
LEMMA JoinSym ==
  ASSUME NEW ty, NEW e1 \in Term(ty), NEW e2 \in Term(ty), join_sym(ty, e1, e2) # {}
  PROVE  \E s \in DOMAIN ty :
           /\ (CHOOSE x \in join_sym(ty, e1, e2) : TRUE) = s
           /\ ty[s] \in {"S_BOOLEAN", "S_TRISTATE"}
           /\ e1.type # "E_NOT" => e1.sym = s
           /\ e2.type # "E_NOT" => e2.sym = s
<1> DEFINE Inner(e) == IF e.type = "E_NOT" THEN e.left ELSE e
           s == Inner(e1).sym
<1>1. join_sym(ty, e1, e2) = {s} /\ Inner(e2).sym = s /\ ty[s] \in {"S_BOOLEAN", "S_TRISTATE"}
  BY DEF join_sym
<1>2. Inner(e1) \in Leaf(ty)
  BY IsLeaf
<1>3. s \in DOMAIN ty
  BY <1>2 DEF Leaf
<1>4. QED
  BY <1>1, <1>3

(* The third of y, m and n.                                                 *)
LEMMA ThirdIs ==
  ASSUME NEW e1, NEW e2, TwoOfThree(e1, e2), e1.to # e2.to
  PROVE  /\ e1.to \in Truths /\ e2.to \in Truths /\ ThirdValue(e1, e2) \in Truths
         /\ ThirdValue(e1, e2) # e1.to /\ ThirdValue(e1, e2) # e2.to
<1>1. \E v \in {"y", "m", "n"} : v \notin {e1.to, e2.to}
  OBVIOUS
<1>2. ThirdValue(e1, e2) \in {"y", "m", "n"} /\ ThirdValue(e1, e2) \notin {e1.to, e2.to}
  BY <1>1 DEF ThirdValue
<1>3. QED
  BY <1>2 DEF TwoOfThree, Truths

(* A tristate has one of three values, and is not the other two.            *)
LEMMA OneOfThree ==
  ASSUME NEW ty, NEW val, ValuesFit(ty, val), NEW s \in DOMAIN ty, ty[s] \in {"S_BOOLEAN", "S_TRISTATE"},
         NEW a \in Truths, NEW b \in Truths, NEW c \in Truths, a # b, b # c, a # c
  PROVE  \/ val[s].tri = val[a].tri /\ val[s].tri # val[b].tri /\ val[s].tri # val[c].tri
         \/ val[s].tri # val[a].tri /\ val[s].tri = val[b].tri /\ val[s].tri # val[c].tri
         \/ val[s].tri # val[a].tri /\ val[s].tri # val[b].tri /\ val[s].tri = val[c].tri
BY TruthsAre DEF ValuesFit, Truths, Tristate, no, mod, yes

(* expr_join_or(): two different operands of || are worth what their join   *)
(* is worth.                                                                *)
THEOREM JoinOrRight ==
  ASSUME NEW ty, NEW val, ValuesFit(ty, val), NEW e1 \in Term(ty), NEW e2 \in Term(ty), e1 # e2,
         join_or(ty, e1, e2) # NULL
  PROVE  TermValue(ty, val, join_or(ty, e1, e2))
           = EXPR_OR(TermValue(ty, val, e1), TermValue(ty, val, e2))
<1>1. join_sym(ty, e1, e2) # {}
  BY DEF join_or
<1>2. PICK s \in DOMAIN ty :
        /\ (CHOOSE x \in join_sym(ty, e1, e2) : TRUE) = s
        /\ ty[s] \in {"S_BOOLEAN", "S_TRISTATE"}
        /\ e1.type # "E_NOT" => e1.sym = s
        /\ e2.type # "E_NOT" => e2.sym = s
  BY <1>1, JoinSym
<1> DEFINE aS == expr_alloc_symbol(s)
           Thirds == ty[s] = "S_TRISTATE" /\ Both("E_EQUAL", e1, e2) /\ TwoOfThree(e1, e2)
           Complements == ty[s] = "S_BOOLEAN" /\ {e1, e2} = {aS, expr_alloc_one("E_NOT", aS)}
<1>3. join_or(ty, e1, e2) =
        CASE Thirds      -> expr_alloc_comp("E_UNEQUAL", s, ThirdValue(e1, e2))
          [] Complements -> Yes
          [] OTHER       -> NULL
  BY <1>1, <1>2 DEF join_or
<1>4. CASE Thirds
  <2>1. join_or(ty, e1, e2) = expr_alloc_comp("E_UNEQUAL", s, ThirdValue(e1, e2))
    <3>1. ~Complements
      BY <1>4
    <3>2. QED
      BY <1>3, <1>4, <3>1
  <2>2. e1 = expr_alloc_comp("E_EQUAL", s, e1.to) /\ e2 = expr_alloc_comp("E_EQUAL", s, e2.to)
    BY <1>2, <1>4, IsLeaf DEF Both, Comparisons
  <2>3. e1.to # e2.to
    BY <2>2
  <2> DEFINE a == e1.to
             b == e2.to
             c == ThirdValue(e1, e2)
  <2>4. a \in Truths /\ b \in Truths /\ c \in Truths /\ a # b /\ b # c /\ a # c
    BY <1>4, <2>3, ThirdIs
  <2> HIDE DEF a, b, c
  <2>5. /\ TermValue(ty, val, expr_alloc_comp("E_EQUAL", s, a)) = IF val[s].tri = val[a].tri THEN yes ELSE no
        /\ TermValue(ty, val, expr_alloc_comp("E_EQUAL", s, b)) = IF val[s].tri = val[b].tri THEN yes ELSE no
        /\ TermValue(ty, val, expr_alloc_comp("E_UNEQUAL", s, c)) = IF val[s].tri = val[c].tri THEN no ELSE yes
    BY <1>2, <2>4, TruthValue
  <2>6. \/ val[s].tri = val[a].tri /\ val[s].tri # val[b].tri /\ val[s].tri # val[c].tri
        \/ val[s].tri # val[a].tri /\ val[s].tri = val[b].tri /\ val[s].tri # val[c].tri
        \/ val[s].tri # val[a].tri /\ val[s].tri # val[b].tri /\ val[s].tri = val[c].tri
    BY <1>2, <2>4, OneOfThree
  <2>7. QED
    <3>1. /\ TermValue(ty, val, e1) = IF val[s].tri = val[a].tri THEN yes ELSE no
          /\ TermValue(ty, val, e2) = IF val[s].tri = val[b].tri THEN yes ELSE no
          /\ TermValue(ty, val, join_or(ty, e1, e2)) = IF val[s].tri = val[c].tri THEN no ELSE yes
      BY <2>1, <2>2, <2>5 DEF a, b, c
    <3>2. QED
      BY <3>1, <2>6 DEF EXPR_OR, no, yes
<1>5. CASE ~Thirds /\ Complements
  <2>1. join_or(ty, e1, e2) = Yes
    BY <1>3, <1>5
  <2>2. TermValue(ty, val, Yes) = yes
    BY SymbolValue, TruthsAre DEF Yes
  <2>3. TermValue(ty, val, aS) = val[s].tri /\ val[s].tri \in {no, yes}
    BY <1>2, <1>5, SymbolValue DEF ValuesFit, Tristate
  <2>4. aS \in Leaf(ty)
    BY <1>2 DEF Leaf, expr_alloc_symbol
  <2>5. TermValue(ty, val, expr_alloc_one("E_NOT", aS)) = EXPR_NOT(val[s].tri)
    BY <2>3, <2>4, NotValue
  <2> DEFINE nS == expr_alloc_one("E_NOT", aS)
  <2>6. (e1 = aS /\ e2 = nS) \/ (e1 = nS /\ e2 = aS)
    BY <1>5
  <2> HIDE DEF aS, nS
  <2>7. CASE e1 = aS /\ e2 = nS
    BY <2>1, <2>2, <2>3, <2>5, <2>7 DEF EXPR_NOT, EXPR_OR, no, yes, nS
  <2>8. CASE e1 = nS /\ e2 = aS
    BY <2>1, <2>2, <2>3, <2>5, <2>8 DEF EXPR_NOT, EXPR_OR, no, yes, nS
  <2>9. QED
    BY <2>6, <2>7, <2>8
<1>6. CASE ~Thirds /\ ~Complements
  <2>1. join_or(ty, e1, e2) = NULL
    BY <1>3, <1>6
  <2>2. QED
    BY <2>1
<1>7. QED
  BY <1>4, <1>5, <1>6

(* A bool or tristate equals a constant when their strings are the same.    *)
LEMMA ConstCompared ==
  ASSUME NEW ty, NEW val, ValuesFit(ty, val), ConstantsDiffer(ty, val),
         NEW s \in DOMAIN ty, ty[s] \in {"S_BOOLEAN", "S_TRISTATE"}, NEW c \in Consts
  PROVE  /\ compare_strings("E_EQUAL", ty[s], val[s].str, ty[c], val[c].str)
              <=> val[s].str = val[c].str
         /\ compare_strings("E_UNEQUAL", ty[s], val[s].str, ty[c], val[c].str)
              <=> val[s].str # val[c].str
<1> DEFINE k1 == ParsedWith(val[s].str, ty[s], ty[c])
           k2 == ParsedWith(val[c].str, ty[c], ty[s])
           kinds == {k1.kind, k2.kind}
           p == InOrder(kinds, k1, k2, val[s].str, val[c].str)
           n == Num[0][val[c].str]
<1>1. /\ c \in DOMAIN ty /\ ty[c] = "S_UNKNOWN" /\ val[c].str \in StringValues
      /\ val[s].str \in Truths /\ val[s].str \in StringValues
      /\ n \notin Tristate
  BY DEF ValuesFit, ConstantsDiffer, IsTri, Truths
<1>2. DOMAIN Num[0] = StringValues /\ n \in Int /\ Num[0][val[s].str] = NaN
  BY NumsAssumption, <1>1 DEF Truths
<1>3. /\ k1 = ParseString(val[s].str, ty[s])
      /\ k2 = ParseString(val[c].str, "S_UNKNOWN")
  BY <1>1, <1>2 DEF ParsedWith, expr_parse_string, SymbolTypes
<1>4. k1.kind = "k_signed" /\ k1.v \in Tristate
  BY <1>1, <1>3 DEF ParseString, Parsed, Truths, Tristate, no, mod, yes
<1>5. k2 = IF n = NaN THEN Parsed("k_string", 0) ELSE Parsed("k_signed", n)
  BY <1>3 DEF ParseString, InBase
<1>6. \A type : compare_strings(type, ty[s], val[s].str, ty[c], val[c].str)
                  <=> /\ "k_invalid" \in kinds /\ "k_string" \notin kinds => type \in {"E_EQUAL", "E_UNEQUAL"}
                      /\ Holds(type, p)
  BY DEF compare_strings, CompareParsed, Compare
<1> HIDE DEF k1, k2, n
<1>7. CASE n = NaN
  <2>1. k2.kind = "k_string"
    BY <1>5, <1>7 DEF Parsed
  <2>2. p = <<StrRank[val[s].str], StrRank[val[c].str]>>
    BY <2>1 DEF InOrder
  <2>3. p[1] = p[2] <=> val[s].str = val[c].str
    BY <1>1, <2>2, StringsAssumption
  <2>4. QED
    BY <1>6, <2>1, <2>3 DEF Holds
<1>8. CASE n # NaN
  <2>1. k2.kind = "k_signed" /\ k2.v = n
    BY <1>5, <1>8 DEF Parsed
  <2>2. p = <<k1.v, n>>
    BY <1>4, <2>1 DEF InOrder
  <2>3. p[1] # p[2]
    BY <1>1, <1>4, <2>2
  <2>4. val[s].str # val[c].str
    BY <1>2, <1>8 DEF n
  <2>5. "k_invalid" \notin kinds
    BY <1>4, <2>1
  <2>6. QED
    BY <1>6, <2>3, <2>4, <2>5 DEF Holds
<1>9. QED
  BY <1>7, <1>8

LEMMA ConstValue ==
  ASSUME NEW ty, NEW val, ValuesFit(ty, val), ConstantsDiffer(ty, val),
         NEW s \in DOMAIN ty, ty[s] \in {"S_BOOLEAN", "S_TRISTATE"}, NEW c \in Consts
  PROVE  /\ TermValue(ty, val, expr_alloc_comp("E_EQUAL", s, c))
              = IF val[s].str = val[c].str THEN yes ELSE no
         /\ TermValue(ty, val, expr_alloc_comp("E_UNEQUAL", s, c))
              = IF val[s].str = val[c].str THEN no ELSE yes
BY ConstCompared, CompValue DEF Comparisons

(* expr_join_and(): the same of two operands of &&.                         *)
THEOREM JoinAndRight ==
  ASSUME NEW ty, NEW val, ValuesFit(ty, val), ConstantsDiffer(ty, val),
         NEW e1 \in Term(ty), NEW e2 \in Term(ty), e1 # e2,
         join_and(ty, e1, e2) # NULL
  PROVE  TermValue(ty, val, join_and(ty, e1, e2))
           = EXPR_AND(TermValue(ty, val, e1), TermValue(ty, val, e2))
<1>1. join_sym(ty, e1, e2) # {}
  BY DEF join_and
<1>2. PICK s \in DOMAIN ty :
        /\ (CHOOSE x \in join_sym(ty, e1, e2) : TRUE) = s
        /\ ty[s] \in {"S_BOOLEAN", "S_TRISTATE"}
        /\ e1.type # "E_NOT" => e1.sym = s
        /\ e2.type # "E_NOT" => e2.sym = s
  BY <1>1, JoinSym
<1> DEFINE aS == expr_alloc_symbol(s)
           AndWith(type, v) == {e1, e2} = {aS, expr_alloc_comp(type, s, v)}
           Equal(v) == expr_alloc_comp("E_EQUAL", s, v)
           Unequal(v) == expr_alloc_comp("E_UNEQUAL", s, v)
           EqualUnequal(p, q) == ty[s] = "S_TRISTATE" /\ p.type = "E_EQUAL" /\ q.type = "E_UNEQUAL"
                                   /\ {p.to, q.to} \subseteq Consts
           Merged(p, q) == IF p.to # q.to THEN Equal(p.to) ELSE No
           Thirds == ty[s] = "S_TRISTATE" /\ Both("E_UNEQUAL", e1, e2) /\ TwoOfThree(e1, e2)
           J == join_and(ty, e1, e2)
           V(e) == TermValue(ty, val, e)
           t == val[s].tri
<1>3. J = CASE AndWith("E_EQUAL", "y")   -> Equal("y")
            [] AndWith("E_UNEQUAL", "n") -> aS
            [] AndWith("E_UNEQUAL", "m") -> Equal("y")
            [] EqualUnequal(e1, e2)      -> Merged(e1, e2)
            [] EqualUnequal(e2, e1)      -> Merged(e2, e1)
            [] Thirds                    -> Equal(ThirdValue(e1, e2))
            [] OTHER                     -> NULL
  BY <1>1, <1>2 DEF join_and
<1>4. \/ AndWith("E_EQUAL", "y") /\ J = Equal("y")
      \/ AndWith("E_UNEQUAL", "n") /\ J = aS
      \/ AndWith("E_UNEQUAL", "m") /\ J = Equal("y")
      \/ EqualUnequal(e1, e2) /\ J = Merged(e1, e2)
      \/ EqualUnequal(e2, e1) /\ J = Merged(e2, e1)
      \/ Thirds /\ J = Equal(ThirdValue(e1, e2))
  <2> HIDE DEF J, AndWith, Equal, aS, EqualUnequal, Merged, Thirds
  <2>1. J # NULL
    BY DEF J
  <2>2. QED
    BY <1>3, <2>1
<1>5. V(aS) = t /\ t \in Tristate
  BY <1>2, SymbolValue DEF ValuesFit
<1>6. \A c \in Truths : /\ V(Equal(c)) = IF t = val[c].tri THEN yes ELSE no
                        /\ V(Unequal(c)) = IF t = val[c].tri THEN no ELSE yes
  BY <1>2, TruthValue
<1>7. val["y"].tri = yes /\ val["m"].tri = mod /\ val["n"].tri = no
  BY TruthsAre
<1>8. CASE AndWith("E_EQUAL", "y") /\ J = Equal("y")
  <2>1. (e1 = aS /\ e2 = Equal("y")) \/ (e1 = Equal("y") /\ e2 = aS)
    BY <1>8
  <2>2. V(Equal("y")) = IF t = yes THEN yes ELSE no
    BY <1>6, <1>7 DEF Truths
  <2> HIDE DEF aS, Equal, J, V, t
  <2>3. V(J) = EXPR_AND(V(e1), V(e2))
    BY <1>5, <1>8, <2>1, <2>2 DEF EXPR_AND, Tristate, no, mod, yes
  <2>4. QED
    BY <2>3 DEF V, J
<1>9. CASE AndWith("E_UNEQUAL", "n") /\ J = aS
  <2>1. (e1 = aS /\ e2 = Unequal("n")) \/ (e1 = Unequal("n") /\ e2 = aS)
    BY <1>9
  <2>2. V(Unequal("n")) = IF t = no THEN no ELSE yes
    BY <1>6, <1>7 DEF Truths
  <2> HIDE DEF aS, Unequal, J, V, t
  <2>3. V(J) = EXPR_AND(V(e1), V(e2))
    BY <1>5, <1>9, <2>1, <2>2 DEF EXPR_AND, Tristate, no, mod, yes
  <2>4. QED
    BY <2>3 DEF V, J
<1>10. CASE AndWith("E_UNEQUAL", "m") /\ J = Equal("y")
  <2>1. (e1 = aS /\ e2 = Unequal("m")) \/ (e1 = Unequal("m") /\ e2 = aS)
    BY <1>10
  <2>2. /\ V(Unequal("m")) = IF t = mod THEN no ELSE yes
        /\ V(Equal("y")) = IF t = yes THEN yes ELSE no
    BY <1>6, <1>7 DEF Truths
  <2> HIDE DEF aS, Unequal, Equal, J, V, t
  <2>3. V(J) = EXPR_AND(V(e1), V(e2))
    BY <1>5, <1>10, <2>1, <2>2 DEF EXPR_AND, Tristate, no, mod, yes
  <2>4. QED
    BY <2>3 DEF V, J
<1>11. ASSUME NEW p \in Term(ty), NEW q \in Term(ty), EqualUnequal(p, q), J = Merged(p, q),
              p.sym = s, q.sym = s
       PROVE  V(J) = EXPR_AND(V(p), V(q))
  <2>1. p = Equal(p.to) /\ q = Unequal(q.to) /\ p.to \in Consts /\ q.to \in Consts
    BY <1>11, IsLeaf DEF Comparisons
  <2> DEFINE b == p.to
             c == q.to
             str == val[s].str
  <2>2. b \in Consts /\ c \in Consts /\ p = Equal(b) /\ q = Unequal(c) /\ J = IF b # c THEN Equal(b) ELSE No
    BY <1>11, <2>1
  <2> HIDE DEF b, c
  <2>3. /\ V(Equal(b)) = IF str = val[b].str THEN yes ELSE no
        /\ V(Unequal(c)) = IF str = val[c].str THEN no ELSE yes
    BY <1>2, <2>2, ConstValue
  <2>4. V(No) = no
    BY <1>7, SymbolValue DEF No
  <2>5. b # c => val[b].str # val[c].str
    BY <2>2 DEF ConstantsDiffer
  <2> HIDE DEF Equal, Unequal, J, V
  <2>6. QED
    BY <2>2, <2>3, <2>4, <2>5 DEF EXPR_AND, no, yes
<1>12. CASE EqualUnequal(e1, e2) /\ J = Merged(e1, e2)
  <2>1. e1.sym = s /\ e2.sym = s
    BY <1>2, <1>12
  <2>2. QED
    BY <1>11, <1>12, <2>1
<1>13. CASE EqualUnequal(e2, e1) /\ J = Merged(e2, e1)
  <2>1. e1.sym = s /\ e2.sym = s
    BY <1>2, <1>13
  <2>2. V(J) = EXPR_AND(V(e2), V(e1))
    BY <1>11, <1>13, <2>1
  <2>3. V(e1) \in Tristate /\ V(e2) \in Tristate
    BY ValueIs
  <2> HIDE DEF V, J
  <2>4. EXPR_AND(V(e2), V(e1)) = EXPR_AND(V(e1), V(e2))
    BY <2>3 DEF EXPR_AND, Tristate, no, mod, yes
  <2>5. QED
    BY <2>2, <2>4 DEF V, J
<1>14. CASE Thirds /\ J = Equal(ThirdValue(e1, e2))
  <2>1. e1 = Unequal(e1.to) /\ e2 = Unequal(e2.to)
    BY <1>2, <1>14, IsLeaf DEF Both, Comparisons
  <2>2. e1.to # e2.to
    BY <2>1
  <2> DEFINE a == e1.to
             b == e2.to
             c == ThirdValue(e1, e2)
  <2>3. a \in Truths /\ b \in Truths /\ c \in Truths /\ a # b /\ b # c /\ a # c
    BY <1>14, <2>2, ThirdIs
  <2>4. e1 = Unequal(a) /\ e2 = Unequal(b) /\ J = Equal(c)
    BY <1>14, <2>1
  <2> HIDE DEF a, b, c
  <2>5. \/ t = val[a].tri /\ t # val[b].tri /\ t # val[c].tri
        \/ t # val[a].tri /\ t = val[b].tri /\ t # val[c].tri
        \/ t # val[a].tri /\ t # val[b].tri /\ t = val[c].tri
    BY <1>2, <2>3, OneOfThree
  <2>6. /\ V(Unequal(a)) = IF t = val[a].tri THEN no ELSE yes
        /\ V(Unequal(b)) = IF t = val[b].tri THEN no ELSE yes
        /\ V(Equal(c)) = IF t = val[c].tri THEN yes ELSE no
    BY <1>6, <2>3
  <2> HIDE DEF Unequal, Equal, J, V, t
  <2>7. V(J) = EXPR_AND(V(e1), V(e2))
    BY <2>4, <2>5, <2>6 DEF EXPR_AND, no, yes
  <2>8. QED
    BY <2>7 DEF V, J
<1>15. QED
  BY <1>4, <1>8, <1>9, <1>10, <1>12, <1>13, <1>14

-----------------------------------------------------------------------------
(* Rewriting one operand                                                    *)

(* expr_transform() of a negation: what it becomes is worth the negation,   *)
(* whatever the two sides of a comparison are.                              *)
THEOREM NegatedRight ==
  ASSUME NEW ty, NEW val, ValuesFit(ty, val), NEW e \in Leaf(ty)
  PROVE  TermValue(ty, val, negated(e)) = EXPR_NOT(TermValue(ty, val, e))
<1>1. CASE e.type \in Comparisons
  <2>1. e = expr_alloc_comp(e.type, e.sym, e.to) /\ e.sym \in DOMAIN ty /\ e.to \in DOMAIN ty
    BY <1>1, IsLeaf DEF Term
  <2> DEFINE type == e.type
             s == e.sym
             t == e.to
             Cmp(op) == compare_strings(op, ty[s], val[s].str, ty[t], val[t].str)
  <2>2. negated(e) = expr_alloc_comp(Opposite[type], s, t)
    <3>1. e # Yes /\ e # No /\ e # expr_alloc_symbol("m")
      BY <1>1 DEF Yes, No, expr_alloc_symbol, Comparisons
    <3>2. negated(e) = [e EXCEPT !.type = Opposite[type]]
      BY <1>1, <3>1 DEF negated
    <3>3. QED
      BY <2>1, <3>2 DEF expr_alloc_comp
  <2>3. type \in Comparisons /\ Opposite[type] \in Comparisons
    BY <1>1 DEF Comparisons, Opposite
  <2>4. /\ TermValue(ty, val, e) = IF Cmp(type) THEN yes ELSE no
        /\ TermValue(ty, val, negated(e)) = IF Cmp(Opposite[type]) THEN yes ELSE no
    BY <2>1, <2>2, <2>3, CompValue
  <2>5. PICK a \in Int, b \in Int : \A op \in Comparisons : Cmp(op) <=> Holds(op, <<a, b>>)
    BY <2>1, ComparedIs
  <2>6. Holds(Opposite[type], <<a, b>>) <=> ~Holds(type, <<a, b>>)
    BY <2>3 DEF Holds, Opposite, Comparisons
  <2>7. Cmp(Opposite[type]) <=> ~Cmp(type)
    BY <2>3, <2>5, <2>6
  <2> HIDE DEF Cmp, type
  <2>8. QED
    BY <2>4, <2>7 DEF EXPR_NOT, no, yes
<1>2. CASE e.type = "E_SYMBOL"
  <2>1. e = expr_alloc_symbol(e.sym)
    BY <1>2, IsLeaf DEF Term
  <2>2. e.type \notin Comparisons
    BY <1>2 DEF Comparisons
  <2>3. TermValue(ty, val, Yes) = yes /\ TermValue(ty, val, No) = no
        /\ TermValue(ty, val, expr_alloc_symbol("m")) = mod
    BY SymbolValue, TruthsAre DEF Yes, No
  <2>4. Yes # No /\ Yes # expr_alloc_symbol("m") /\ No # expr_alloc_symbol("m")
    BY DEF Yes, No, expr_alloc_symbol
  <2>5. \/ e = Yes /\ negated(e) = No
        \/ e = No /\ negated(e) = Yes
        \/ e = expr_alloc_symbol("m") /\ negated(e) = e
        \/ negated(e) = expr_alloc_one("E_NOT", e)
    BY <2>2, <2>4 DEF negated
  <2>6. TermValue(ty, val, expr_alloc_one("E_NOT", e)) = EXPR_NOT(TermValue(ty, val, e))
    BY NotValue
  <2>7. QED
    BY <2>3, <2>5, <2>6 DEF EXPR_NOT, no, mod, yes
<1>3. QED
  BY <1>1, <1>2 DEF Leaf

(* expr_transform() of a comparison of a bool with y, m or n: it is worth   *)
(* what it was, also for m, which a bool never is.                          *)
THEOREM BoolCompareRight ==
  ASSUME NEW ty, NEW val, ValuesFit(ty, val), NEW e \in Leaf(ty),
         e.type \in {"E_EQUAL", "E_UNEQUAL"}, ty[e.sym] = "S_BOOLEAN"
  PROVE  TermValue(ty, val, bool_compare(e)) = TermValue(ty, val, e)
<1> DEFINE s == e.sym
           t == val[s].tri
           aS == expr_alloc_symbol(s)
           V(x) == TermValue(ty, val, x)
<1>1. e = expr_alloc_comp(e.type, s, e.to) /\ s \in DOMAIN ty
  BY IsLeaf DEF Term, Comparisons
<1>2. t \in {no, yes}
  BY <1>1 DEF ValuesFit, Tristate
<1>3. V(aS) = t /\ V(Yes) = yes /\ V(No) = no
  BY SymbolValue, TruthsAre DEF Yes, No
<1>4. V(expr_alloc_one("E_NOT", aS)) = EXPR_NOT(t)
  <2>1. aS \in Leaf(ty)
    BY <1>1 DEF Leaf, expr_alloc_symbol
  <2>2. QED
    BY <1>3, <2>1, NotValue
<1>5. \A c \in Truths :
        /\ V(expr_alloc_comp("E_EQUAL", s, c)) = IF t = val[c].tri THEN yes ELSE no
        /\ V(expr_alloc_comp("E_UNEQUAL", s, c)) = IF t = val[c].tri THEN no ELSE yes
  BY <1>1, TruthValue
<1>6. CASE e.to \notin Truths
  BY <1>6 DEF bool_compare, Truths
<1>7. CASE e.to \in Truths
  <2>1. V(e) = IF (e.type = "E_EQUAL") = (t = val[e.to].tri) THEN yes ELSE no
    <3>1. CASE e.type = "E_EQUAL"
      BY <1>1, <1>5, <1>7, <3>1
    <3>2. CASE e.type = "E_UNEQUAL"
      BY <1>1, <1>5, <1>7, <3>2
    <3>3. QED
      BY <3>1, <3>2
  <2>2. /\ e.type = "E_EQUAL"   /\ e.to = "n" => bool_compare(e) = expr_alloc_one("E_NOT", aS)
        /\ e.type = "E_EQUAL"   /\ e.to = "m" => bool_compare(e) = No
        /\ e.type = "E_EQUAL"   /\ e.to = "y" => bool_compare(e) = aS
        /\ e.type = "E_UNEQUAL" /\ e.to = "n" => bool_compare(e) = aS
        /\ e.type = "E_UNEQUAL" /\ e.to = "m" => bool_compare(e) = Yes
        /\ e.type = "E_UNEQUAL" /\ e.to = "y" => bool_compare(e) = expr_alloc_one("E_NOT", aS)
    BY DEF bool_compare
  <2>3. e.to = "y" \/ e.to = "m" \/ e.to = "n"
    BY <1>7 DEF Truths
  <2>4. val["y"].tri = yes /\ val["m"].tri = mod /\ val["n"].tri = no
    BY TruthsAre
  <2> HIDE DEF V, t, aS
  <2>5. V(bool_compare(e)) = V(e)
    BY <1>2, <1>3, <1>4, <2>1, <2>2, <2>3, <2>4 DEF EXPR_NOT, no, mod, yes
  <2>6. QED
    BY <2>5 DEF V
<1>8. QED
  BY <1>6, <1>7

(* expr_trans_bool(): what is not n stays so, and what is n too; the value  *)
(* itself may fall from y to m.                                             *)
THEOREM TransBoolRight ==
  ASSUME NEW ty, NEW val, ValuesFit(ty, val), NEW e \in Leaf(ty)
  PROVE  TermValue(ty, val, trans_bool(ty, e)) = no <=> TermValue(ty, val, e) = no
<1>1. CASE e.type = "E_UNEQUAL" /\ ty[e.sym] = "S_TRISTATE" /\ e.to = "n"
  <2>1. e = expr_alloc_comp("E_UNEQUAL", e.sym, "n") /\ e.sym \in DOMAIN ty
    BY <1>1, IsLeaf DEF Term, Comparisons
  <2>2. TermValue(ty, val, expr_alloc_comp("E_UNEQUAL", e.sym, "n"))
          = IF val[e.sym].tri = val["n"].tri THEN no ELSE yes
    BY <1>1, <2>1, TruthValue DEF Truths
  <2>3. TermValue(ty, val, trans_bool(ty, e)) = val[e.sym].tri
    BY <1>1, SymbolValue DEF trans_bool
  <2>4. QED
    BY <2>1, <2>2, <2>3, TruthsAre DEF no, yes
<1>2. CASE ~(e.type = "E_UNEQUAL" /\ ty[e.sym] = "S_TRISTATE" /\ e.to = "n")
  BY <1>2 DEF trans_bool
<1>3. QED
  BY <1>1, <1>2

(* expr_trans_compare(): e=sym or e!=sym, for sym one of y, m and n, is     *)
(* worth what the comparison of e's value with it is.                       *)
THEOREM TransCompareRight ==
  ASSUME NEW ty, NEW val, ValuesFit(ty, val), NEW e \in Leaf(ty),
         NEW type \in {"E_EQUAL", "E_UNEQUAL"}, NEW sym \in Truths,
         e.type = "E_SYMBOL" => ty[e.sym] \in {"S_BOOLEAN", "S_TRISTATE"}
  PROVE  TermValue(ty, val, trans_compare(e, type, sym))
           = IF Holds(type, <<TermValue(ty, val, e), val[sym].tri>>) THEN yes ELSE no
<1> DEFINE V(x) == TermValue(ty, val, x)
<1>1. val["y"].tri = yes /\ val["m"].tri = mod /\ val["n"].tri = no
  BY TruthsAre
<1>2. CASE e.type \in Comparisons
  <2>1. V(e) \in {no, yes}
    BY <1>2, ValueIs DEF Term
  <2>2. V(expr_alloc_one("E_NOT", e)) = EXPR_NOT(V(e))
    BY NotValue
  <2>3. V(No) = no /\ V(Yes) = yes
    BY <1>1, SymbolValue DEF Yes, No
  <2>4. trans_compare(e, type, sym) =
          IF sym = "m" THEN IF type = "E_EQUAL" THEN No ELSE Yes
          ELSE IF (sym = "y") = (type = "E_EQUAL") THEN e ELSE expr_alloc_one("E_NOT", e)
    BY <1>2 DEF trans_compare, Comparisons
  <2> HIDE DEF V
  <2>5. V(trans_compare(e, type, sym)) = IF Holds(type, <<V(e), val[sym].tri>>) THEN yes ELSE no
    BY <1>1, <2>1, <2>2, <2>3, <2>4 DEF Holds, EXPR_NOT, Truths, no, mod, yes
  <2>6. QED
    BY <2>5 DEF V
<1>3. CASE e.type = "E_SYMBOL"
  <2>1. e = expr_alloc_symbol(e.sym) /\ e.sym \in DOMAIN ty
    BY <1>3, IsLeaf DEF Term
  <2>2. V(e) = val[e.sym].tri
    BY <2>1, SymbolValue
  <2>3. trans_compare(e, type, sym) = expr_alloc_comp(type, e.sym, sym)
    BY <1>3 DEF trans_compare, Comparisons
  <2>4. /\ V(expr_alloc_comp("E_EQUAL", e.sym, sym)) = IF V(e) = val[sym].tri THEN yes ELSE no
        /\ V(expr_alloc_comp("E_UNEQUAL", e.sym, sym)) = IF V(e) = val[sym].tri THEN no ELSE yes
    BY <1>3, <2>1, <2>2, TruthValue
  <2> HIDE DEF V
  <2>5. V(trans_compare(e, type, sym)) = IF Holds(type, <<V(e), val[sym].tri>>) THEN yes ELSE no
    BY <2>3, <2>4 DEF Holds
  <2>6. QED
    BY <2>5 DEF V
<1>4. QED
  BY <1>2, <1>3 DEF Leaf

(* expr_depends_symbol() of one operand: it is n whenever sym is.           *)
THEOREM DependsRight ==
  ASSUME NEW ty, NEW val, ValuesFit(ty, val), NEW e \in Leaf(ty),
         NEW sym \in DOMAIN ty, ty[sym] \in {"S_BOOLEAN", "S_TRISTATE"}, val[sym].tri = no,
         depends_symbol(e, sym)
  PROVE  TermValue(ty, val, e) = no
<1>1. val["y"].tri = yes /\ val["m"].tri = mod /\ val["n"].tri = no
  BY TruthsAre
<1>2. e \in Term(ty)
  BY DEF Term
<1>3. CASE e.type = "E_SYMBOL"
  BY <1>2, <1>3, IsLeaf, SymbolValue DEF depends_symbol
<1>4. CASE e.type = "E_EQUAL"
  <2>1. e.sym = sym /\ e.to \in {"y", "m"}
    BY <1>4 DEF depends_symbol
  <2>2. e = expr_alloc_comp("E_EQUAL", sym, e.to)
    BY <1>2, <1>4, <2>1, IsLeaf DEF Comparisons
  <2>3. TermValue(ty, val, expr_alloc_comp("E_EQUAL", sym, e.to))
          = IF val[sym].tri = val[e.to].tri THEN yes ELSE no
    BY <2>1, TruthValue DEF Truths
  <2>4. QED
    BY <1>1, <2>1, <2>2, <2>3 DEF no, mod, yes
<1>5. CASE e.type = "E_UNEQUAL"
  <2>1. e.sym = sym /\ e.to = "n"
    BY <1>5 DEF depends_symbol
  <2>2. e = expr_alloc_comp("E_UNEQUAL", sym, "n")
    BY <1>2, <1>5, <2>1, IsLeaf DEF Comparisons
  <2>3. TermValue(ty, val, expr_alloc_comp("E_UNEQUAL", sym, "n"))
          = IF val[sym].tri = val["n"].tri THEN no ELSE yes
    BY TruthValue DEF Truths
  <2>4. QED
    BY <1>1, <2>2, <2>3
<1>6. QED
  BY <1>3, <1>4, <1>5 DEF depends_symbol

(* expr_eliminate_yn() at one connective, whatever its operands are worth:  *)
(* the tree stays as it is, or what replaces it is worth the same.          *)
THEOREM EliminateYnRight ==
  ASSUME NEW worth, worth[Yes] = yes, worth[No] = no,
         NEW l, NEW r, worth[l] \in Tristate, worth[r] \in Tristate, NEW type \in Connectives
  PROVE  \/ eliminate_yn(type, l, r) = expr_alloc_two(type, l, r)
         \/ worth[eliminate_yn(type, l, r)]
              = IF type = "E_OR" THEN EXPR_OR(worth[l], worth[r]) ELSE EXPR_AND(worth[l], worth[r])
<1>1. \/ Zero(type) \in {l, r} /\ eliminate_yn(type, l, r) = Zero(type)
      \/ l = Unit(type) /\ eliminate_yn(type, l, r) = r
      \/ r = Unit(type) /\ eliminate_yn(type, l, r) = l
      \/ eliminate_yn(type, l, r) = expr_alloc_two(type, l, r)
  <2>1. Zero(type) # Unit(type)
    BY DEF Zero, Unit, Yes, No, expr_alloc_symbol
  <2>2. QED
    BY <2>1 DEF eliminate_yn
<1>2. CASE type = "E_OR"
  <2>1. Zero(type) = Yes /\ Unit(type) = No
    BY <1>2 DEF Zero, Unit
  <2>2. QED
    BY <1>1, <1>2, <2>1 DEF EXPR_OR, Tristate, no, mod, yes
<1>3. CASE type = "E_AND"
  <2>1. Zero(type) = No /\ Unit(type) = Yes
    BY <1>3 DEF Zero, Unit
  <2>2. QED
    BY <1>1, <1>3, <2>1 DEF EXPR_AND, Tristate, no, mod, yes
<1>4. QED
  BY <1>2, <1>3 DEF Connectives
=============================================================================
