------------------------------ MODULE MCKBuild ------------------------------
(* KBuild with three symbols, the second a tristate.                        *)
EXTENDS KBuild

S(s) == expr_alloc_symbol(s)
On(e) == <<<<"depends", e>>>>
Ask   == <<<<"prompt", NULL>>>>
MCNames  == <<"A", "B", "C">>
MCTypes  == [s \in {"A", "B", "C"} |-> IF s = "B" THEN "S_TRISTATE" ELSE "S_BOOLEAN"]
MCBodies ==
  {Ask \o On(S("A")),
   Ask \o On(expr_alloc_two("E_OR", S("A"), expr_alloc_comp("E_UNEQUAL", "B", "n"))),
   Ask \o <<<<"select", "B", S("C")>>>>,
   <<<<"default", S("A"), S("C")>>>>}
MCBlocks ==
  {<<<<"if", S("A")>>, <<"body">>>>,
   <<<<"menu">>, <<"depends", expr_alloc_one("E_NOT", S("B"))>>, <<"visible", S("C")>>, <<"body">>>>,
   <<<<"choice", "CH">>, <<"type", "S_BOOLEAN">>, <<"prompt", NULL>>, <<"body">>>>}

Texts == {"y", "m", "n", "", Null}
MCStrRank == [s \in Texts |->
  CASE s = "" -> 0 [] s = Null -> 1 [] s = "m" -> 2 [] s = "n" -> 3 [] s = "y" -> 4]
MCNum == [base \in {0, 10, 16} |-> [s \in Texts |-> 999]]
MCPrinted == [t \in {"S_INT", "S_HEX"} |-> [n \in {0} |-> ""]]
MCPrefixed == [s \in Texts |-> s]
=============================================================================
