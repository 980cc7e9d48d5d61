--------------------------- MODULE MCExprRewrite ---------------------------
(* ExprRewrite on a tristate T, a bool B and a hex K, over all expressions  *)
(* of two operands, and those of three and four with fewer operands.        *)
EXTENDS ExprRewrite, TLC

S(s) == expr_alloc_symbol(s)
C(type, s, t) == expr_alloc_comp(type, s, t)
MCType == [T |-> "S_TRISTATE", B |-> "S_BOOLEAN", K |-> "S_HEX",
           y |-> "S_UNKNOWN", m |-> "S_UNKNOWN", n |-> "S_UNKNOWN"]
          @@ ("-1" :> "S_UNKNOWN") @@ ("0x9" :> "S_UNKNOWN") @@ ("x" :> "S_UNKNOWN")

Strings == {"y", "m", "n", "-1", "0x9", "0x10", "x"}
MCStrRank == [s \in Strings |->
  CASE s = "-1" -> 1 [] s = "0x10" -> 2 [] s = "0x9" -> 3 [] s = "m" -> 4 [] s = "n" -> 5
    [] s = "x" -> 6 [] s = "y" -> 7]
MCNaN == 999
MCNum == [base \in {0, 10, 16} |-> [s \in Strings |->
  CASE s = "-1" -> -1
    [] s = "0x9" /\ base # 10 -> 9
    [] s = "0x10" /\ base # 10 -> 16
    [] OTHER -> 999]]

Tri(t) == [tri |-> t, str |-> CASE t = no -> "n" [] t = mod -> "m" [] t = yes -> "y"]
Str(s) == [tri |-> no, str |-> s]
Fixed == [y |-> Tri(yes), m |-> Tri(mod), n |-> Tri(no)]
         @@ ("-1" :> Str("-1")) @@ ("0x9" :> Str("0x9")) @@ ("x" :> Str("x"))
MCValuations ==
  {[T |-> Tri(t), B |-> Tri(b), K |-> Str(k)] @@ Fixed :
     t \in Tristate, b \in {no, yes}, k \in {"0x9", "0x10"}}

Few   == {S("T"), S("B"), S("n"), C("E_EQUAL", "T", "y"), C("E_UNEQUAL", "T", "n")}
Atoms == Few \cup {S("y"), S("m"), C("E_EQUAL", "T", "m"), C("E_EQUAL", "T", "n"),
                   C("E_UNEQUAL", "T", "y"), C("E_UNEQUAL", "T", "m"),
                   C("E_EQUAL", "B", "n"), C("E_UNEQUAL", "B", "y"), C("E_EQUAL", "B", "m"),
                   C("E_LEQ", "K", "0x9"), C("E_GTH", "K", "-1"), C("E_EQUAL", "K", "x")}
Nots(E)   == E \cup {expr_alloc_one("E_NOT", e) : e \in E}
Twos(E, F) == {expr_alloc_two(c, e, f) : c \in Connectives, e \in E, f \in F}

ThreeOf == Twos(Twos(Nots(Few), Few), Few)
Tiny    == {S("T"), S("B"), expr_alloc_one("E_NOT", S("B"))}
FourOf  == Twos(Twos(Tiny, Tiny), Twos(Tiny, Tiny))
MCSingles == Nots(Twos(Nots(Atoms), Atoms)) \cup ThreeOf \cup FourOf
Compared == {S("T"), S("B"), S("y"), S("n")}
MCPairs == Twos(Compared, Compared) \X (Compared \cup Twos(Compared, Compared))
=============================================================================
