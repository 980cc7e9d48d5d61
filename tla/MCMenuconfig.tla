----------------------------- MODULE MCMenuconfig -----------------------------
(* Mconf or Nconf on a main menu with a menu, a menuconfig symbol that the  *)
(* rest depends on, and a choice with a comment among its members; or the   *)
(* dialogs of either by themselves.                                         *)
EXTENDS Frontends

Size(rows, cols) == [rows |-> rows, cols |-> cols]
MCScreens == {Size(21, 80), Size(16, 80), Size(12, 60), Size(9, 80)}

Entry(kind, children, dep, values) ==
  [kind |-> kind, list |-> children, dep |-> dep, values |-> values]
MCEntries == [
  root |-> Entry("menu", <<"M", "B", "C">>, {}, {}),
  M    |-> Entry("menu", <<"T">>, {}, {}),
  T    |-> Entry("tristate", <<>>, {"B"}, {"n", "m"}),
  U    |-> Entry("string", <<>>, {"B"}, {}),
  B    |-> Entry("menuconfig", <<"W">>, {}, {"n", "y"}),
  W    |-> Entry("comment", <<>>, {"B"}, {}),
  C    |-> Entry("choice", <<"Z", "X", "Y">>, {"B"}, {"X", "Y"}),
  Z    |-> Entry("comment", <<>>, {"B"}, {}),
  X    |-> Entry("member", <<"U">>, {"B"}, {}),
  Y    |-> Entry("member", <<>>, {"B"}, {})]

MCItem(n, tag, s) ==
  [data |-> n, tag |-> tag, key |-> IF n % 2 = 0 THEN "d" ELSE "s", selected |-> s]
MCItemLists == {[i \in 1..n |-> MCItem(i, "t", FALSE)] : n \in {0, 1, 8}}
MCMemberLists ==
  {[i \in 1..n |-> MCItem(i, IF i = x THEN "X" ELSE "", i = s)] : n \in {1, 4}, x \in 1..4, s \in 0..4}
MCInputSizes == {Size(10, 75), Size(11, 55)}
MCTextBoxes == {[lines |-> n, height |-> h, update |-> u] : n \in {1, 4, 6, 9}, h \in {0, 5, 6}, u \in BOOLEAN}

MCText == [m \in DOMAIN MCEntries |->
  CASE m \in {"M", "X"} -> <<"a">>
    [] m \in {"C", "U"} -> <<"b", "a">>
    [] OTHER -> <<"b">>]

MCPads == {[lines |-> n, rows |-> Lesser(n, 4), cols |-> 3, width |-> w] : n \in {1, 3, 5, 9}, w \in {2, 3}}
=============================================================================
