------------------------------ MODULE MCConfAsk ------------------------------
(* ConfAsk on the small Kconfig files of MCKPrograms, and one of menus with *)
(* symbols of their own, where a later answer shows an earlier entry, a     *)
(* number has no default and a choice may have nothing to choose from.      *)
EXTENDS ConfAsk, MCKPrograms

SymsBack == {"EARLY", "MENU", "INNER", "LATE", "NUM", "PICK", "ONE"}
TextBack ==
  bool("EARLY") \o ask \o on(S("LATE"))
  \o bool("MENU") \o ask \o <<<<"menuconfig">>>>
  \o bool("INNER") \o ask \o on(S("MENU"))
  \o menu(<<>>)
  \o bool("LATE") \o ask
  \o config("NUM", "S_INT") \o ask \o on(S("INNER"))
  \o end
  \o choice("PICK", "S_BOOLEAN", on(S("EARLY")))
  \o bool("ONE") \o ask \o on(S("INNER"))
  \o end

Trees == <<Finalized(SymsMod, TextMod), Finalized(SymsChoice, TextChoice),
           Finalized(SymsTriChoice, TextTriChoice), Finalized(SymsNumber, TextNumber),
           Finalized(SymsBack, TextBack)>>
MCOrder == <<<<"MODULES", "A", "B", "C", "E">>, <<"CH", "V1", "V2", "V3", "W", "X", "Z">>,
             <<"CT", "MODULES", "T1", "T2", "T3">>, <<"BIG", "H", "N", "NAME">>,
             <<"EARLY", "INNER", "LATE", "MENU", "NUM", "ONE", "PICK">>>>

yesLine(s) == Line(s, "y", FALSE)
offLine(s) == Line(s, "unset", FALSE)
MCFiles == <<
  {Missing, <<yesLine("MODULES"), yesLine("A")>>},
  {Missing, <<yesLine("X"), yesLine("V1"), offLine("W")>>},
  {Missing, <<yesLine("MODULES"), yesLine("T1")>>},
  {Missing, <<yesLine("BIG"), Line("N", "9", FALSE)>>},
  {Missing, <<yesLine("MENU"), yesLine("INNER"), yesLine("LATE")>>}>>

Texts == {"y", "m", "n", "1", "5", "0x9", "9", "x", "", Null}
MCStrRank == [s \in Texts |->
  CASE s = "" -> 0 [] s = "0x9" -> 1 [] s = "1" -> 2 [] s = "5" -> 3 [] s = "9" -> 4
    [] s = Null -> 5 [] s = "m" -> 6 [] s = "n" -> 7 [] s = "x" -> 8 [] s = "y" -> 9]
MCNaN == 999
MCNum == [base \in {0, 10, 16} |-> [s \in Texts |->
  CASE s = "1" -> 1 [] s = "5" -> 5 [] s = "9" -> 9
    [] s = "0x9" /\ base # 10 -> 9
    [] OTHER -> MCNaN]]
MCPrinted == [t \in {"S_INT", "S_HEX"} |-> [n \in {0, 1, 5, 9} |->
  CASE t = "S_INT" /\ n = 1 -> "1" [] t = "S_INT" /\ n = 5 -> "5" [] t = "S_INT" /\ n = 9 -> "9"
    [] OTHER -> "0x9"]]
MCPrefixed == [s \in Texts |-> IF s = "9" THEN "0x9" ELSE s]
=============================================================================
