----------------------------- MODULE MCKSession ----------------------------
(* KSession on the small Kconfig files of MCKPrograms.                      *)
EXTENDS KSession, MCKPrograms

Trees == <<Finalized(SymsMod, TextMod), Finalized(SymsChoice, TextChoice),
           Finalized(SymsTriChoice, TextTriChoice), Finalized(SymsNumber, TextNumber),
           Finalized(SymsMenus, TextMenus), Finalized(SymsNext, TextNext)>>
MCOrder == <<<<"MODULES", "A", "B", "C", "E">>, <<"CH", "V1", "V2", "V3", "W", "X", "Z">>,
             <<"CT", "MODULES", "T1", "T2", "T3">>, <<"BIG", "H", "N", "NAME">>,
             <<"G", "P", "Q", "R", "T", "U">>, <<"BIG", "N", "NAME">>>>
MCUpdates == {<<4, 6>>}

(* Files that were edited by hand: values that cannot be, lines in another  *)
(* order, a line twice, names that are not known.                           *)
yesLine(s) == Line(s, "y", FALSE)
offLine(s) == Line(s, "unset", FALSE)
MCFiles == <<
  {Missing, <<Line("B", "m", FALSE), yesLine("A"), yesLine("C"), offLine("MODULES")>>,
            <<yesLine("A"), yesLine("E"), offLine("A"), yesLine("GONE")>>},
  {Missing, <<yesLine("X"), yesLine("V1"), yesLine("V3"), offLine("W")>>,
            <<yesLine("V2"), yesLine("X"), offLine("V1")>>},
  {Missing, <<yesLine("MODULES"), yesLine("T1"), Line("T2", "m", FALSE)>>},
  {Missing, <<yesLine("BIG"), Line("N", "5", FALSE), Line("NAME", "x", TRUE),
              Line("H", "0x9", TRUE)>>},
  {Missing, <<yesLine("U"), yesLine("Q"), offLine("R"), yesLine("P")>>},
  {Missing}>>

Texts == {"y", "m", "n", "1", "5", "0x9", "9", "x", "", Null}
MCStrRank == [s \in Texts |->
  CASE s = "" -> 0 [] s = "0x9" -> 1 [] s = "1" -> 2 [] s = "5" -> 3 [] s = "9" -> 4
    [] s = Null -> 5 [] s = "m" -> 6 [] s = "n" -> 7 [] s = "x" -> 8 [] s = "y" -> 9]
MCNaN == 999
MCNum == [base \in {0, 10, 16} |-> [s \in Texts |->
  CASE s = "1" -> 1 [] s = "5" -> 5 [] s = "9" -> 9
    [] s = "0x9" /\ base # 10 -> 9
    [] OTHER -> MCNaN]]
MCPrinted == [t \in {"S_INT", "S_HEX"} |-> [n \in {0, 1, 5, 9} |->
  CASE t = "S_INT" /\ n = 1 -> "1" [] t = "S_INT" /\ n = 5 -> "5" [] t = "S_INT" /\ n = 9 -> "9"
    [] OTHER -> "0x9"]]
MCPrefixed == [s \in Texts |-> IF s = "9" THEN "0x9" ELSE s]
=============================================================================
