---------------------------- MODULE MCKPrograms ----------------------------
(* Small Kconfig files, as sequences of statements, for the model checking  *)
(* of KSession and ConfAsk.                                                 *)
EXTENDS KConfdata

S(s) == expr_alloc_symbol(s)
Or(a, b)  == expr_alloc_two("E_OR", a, b)
Neq(s, t) == expr_alloc_comp("E_UNEQUAL", s, t)

config(s, type) == <<<<"config", s>>, <<"type", type>>>>
ask  == <<<<"prompt", NULL>>>>                                  \* prompt "..."
askIf(e)       == <<<<"prompt", e>>>>                           \* prompt "..." if e
dflt(e)        == <<<<"default", e, NULL>>>>
dfltIf(e, c)   == <<<<"default", e, c>>>>
select(s)      == <<<<"select", s, NULL>>>>
selectIf(s, c) == <<<<"select", s, c>>>>
imply(s)       == <<<<"imply", s, NULL>>>>
range(lo, hi)  == <<<<"range", lo, hi>>>>
on(e)          == <<<<"depends", e>>>>
end            == <<<<"end">>>>
if(e)          == <<<<"if", e>>>>
menu(deps)     == <<<<"menu">>>> \o deps \o <<<<"body">>>>
choice(s, type, rest) ==
  <<<<"choice", s>>, <<"type", type>>, <<"prompt", NULL>>>> \o rest \o <<<<"body">>>>

bool(s)     == config(s, "S_BOOLEAN")
tristate(s) == config(s, "S_TRISTATE")

Finalized(syms, text) == menu_finalize(Parse(syms, text), Root)

(* Modules, dependencies, a select and an imply.                            *)
SymsMod == {"MODULES", "A", "B", "C", "E"}
TextMod ==
  bool("MODULES") \o ask \o dflt(S("y")) \o <<<<"option", "modules">>>>
  \o tristate("A") \o ask
  \o tristate("B") \o ask \o on(S("A")) \o dflt(S("m"))
  \o bool("C") \o ask \o on(Neq("A", "n")) \o selectIf("B", S("A"))
  \o tristate("E") \o askIf(S("C")) \o dflt(S("B"))

(* A choice of bools in a menu, under a condition, with a value that depends *)
(* on another symbol and one that selects a third.                          *)
SymsChoice == {"X", "W", "CH", "V1", "V2", "V3", "Z"}
TextChoice ==
  bool("X") \o ask
  \o bool("W") \o ask \o dflt(S("y"))
  \o menu(on(S("X")))
  \o choice("CH", "S_BOOLEAN", dfltIf(S("V2"), NULL))
  \o bool("V1") \o ask
  \o bool("V2") \o ask \o on(S("W"))
  \o bool("V3") \o ask \o select("Z")
  \o end
  \o end
  \o bool("Z") \o ask \o dflt(S("V1"))

(* A choice of tristates, one of them a bool.                               *)
SymsTriChoice == {"MODULES", "CT", "T1", "T2", "T3"}
TextTriChoice ==
  bool("MODULES") \o ask \o <<<<"option", "modules">>>>
  \o choice("CT", "S_TRISTATE", <<>>)
  \o tristate("T1") \o ask
  \o tristate("T2") \o ask
  \o bool("T3") \o ask
  \o end

(* Numbers and strings with defaults that depend on others.                 *)
SymsNumber == {"BIG", "N", "H", "NAME"}
TextNumber ==
  bool("BIG") \o ask
  \o config("N", "S_INT") \o ask \o <<<<"range", "1", "5">>>> \o dfltIf(S("5"), S("BIG"))
     \o dflt(S("1"))
  \o config("H", "S_HEX") \o askIf(S("BIG")) \o dflt(S("0x9"))
  \o config("NAME", "S_STRING") \o ask \o on(expr_alloc_comp("E_GTH", "N", "1")) \o dflt(S("x"))

(* Visibility of menus, if blocks, promptless symbols and submenus.         *)
SymsMenus == {"P", "Q", "R", "U", "G", "T"}
TextMenus ==
  bool("P") \o ask \o <<<<"option", "allnoconfig_y">>>>
  \o bool("Q") \o ask \o on(S("P"))
  \o if(Or(S("P"), S("Q")))
  \o bool("R") \o ask \o dflt(S("y"))
  \o end
  \o menu(<<<<"visible", S("R")>>>>)
  \o bool("U") \o ask \o imply("G")
  \o bool("G") \o askIf(S("Q"))
  \o bool("T") \o ask \o on(S("G"))
  \o end

(* The next version of the one with numbers: other types, and less.         *)
SymsNext == {"BIG", "N", "NAME"}
TextNext ==
  bool("BIG") \o ask \o dflt(S("y"))
  \o config("N", "S_INT") \o ask \o dflt(S("5"))
  \o bool("NAME") \o ask \o on(S("BIG"))
=============================================================================
