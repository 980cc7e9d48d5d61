------------------------------ MODULE KSymbol ------------------------------
(***************************************************************************)
(* The values of kconfig symbols (symbol.c): how a value is calculated     *)
(* from what the user has set, the conditions, selects, implies, ranges    *)
(* and choices; how it is cached; and how it is set.                       *)
(*                                                                         *)
(* K is the finalized menu tree, which no longer changes.  D is the part   *)
(* of the program's memory that changes: values, visibilities and flags.   *)
(* What the C functions write through pointers they return here.  The      *)
(* SYMBOL_CHANGED and MENU_CHANGED marks, which only tell a window what to *)
(* draw again, are left out.                                               *)
(***************************************************************************)
EXTENDS KMenu

CONSTANTS
  Printed,   \* [{"S_INT", "S_HEX"} -> [Int -> strings]], as printf() writes a number
  Prefixed   \* [strings -> strings], a hexadecimal number with "0x" put in front

Null == "<null>"                     \* a char pointer that points nowhere
Typed   == {"S_BOOLEAN", "S_TRISTATE", "S_INT", "S_HEX", "S_STRING"}
Logical == {"S_BOOLEAN", "S_TRISTATE"}

(* The three constants have their values always, and every other constant   *)
(* is n with its name as its string.                                        *)
ConstValue(c) ==
  [tri |-> CASE c = "y" -> yes [] c = "m" -> mod [] OTHER -> no, str |-> c]

Unset == [tri |-> no, str |-> Null]
InitialMemory(K) ==
  [curr  |-> Table([s \in Symbols(K) \cup Consts |-> IF s \in Consts THEN ConstValue(s) ELSE Unset]),
   def   |-> [USER |-> Table([s \in Symbols(K) |-> Unset]),
              AUTO |-> Table([s \in Symbols(K) |-> Unset])],
   flags |-> Table([s \in Symbols(K) |-> {}]),
   visible |-> Table([s \in Symbols(K) |-> no]),
   dir     |-> Table([s \in Symbols(K) |-> no]),
   rev     |-> Table([s \in Symbols(K) |-> no]),
   imp     |-> Table([s \in Symbols(K) |-> no]),
   pvis    |-> Table([i \in DOMAIN K.props |-> no]),
   modules_val |-> no,
   changed |-> FALSE]

Has(D, s, f)       == f \in D.flags[s]
SetFlag(D, s, f)   == [D EXCEPT !.flags[s] = @ \cup {f}]
ClearFlag(D, s, f) == [D EXCEPT !.flags[s] = @ \ {f}]
SetFlagIf(cond, D, s, f) == IF cond THEN SetFlag(D, s, f) ELSE D
sym_has_value(D, s)      == Has(D, s, "DEF_USER")

(* The properties of a symbol of one type, in the order of their statements. *)
PropsOfType(K, s, type) ==
  SelectSeq([i \in DOMAIN K.props |-> i],
            LAMBDA i : K.props[i].sym = s /\ K.props[i].type = type)
Prompts(K, s) ==
  SelectSeq([i \in DOMAIN K.props |-> i], LAMBDA i : K.props[i].sym = s /\ K.props[i].text)
prop_get_symbol(K, i) == K.props[i].expr.sym

sym_get_type(K, D, s) ==
  IF /\ K.type[s] = "S_TRISTATE"
     /\ \/ sym_is_choice_value(K, s) /\ D.visible[s] = yes
        \/ D.modules_val = no
  THEN "S_BOOLEAN" ELSE K.type[s]

sym_get_string_value(K, D, s) ==
  LET tri == D.curr[s].tri
  IN  IF K.type[s] \notin Logical THEN D.curr[s].str
      ELSE CASE tri = no  -> "n"
             [] tri = mod -> IF D.curr[K.modules_sym].tri = no THEN "n" ELSE "m"
             [] OTHER     -> "y"

Values(K, D) ==
  [s \in DOMAIN D.curr |-> [tri |-> D.curr[s].tri, str |-> sym_get_string_value(K, D, s)]]

(* The symbols of an expression, in the order of its evaluation.            *)
RECURSIVE SymsOf(_)
SymsOf(e) ==
  CASE e.type = "E_SYMBOL"      -> <<e.sym>>
    [] e.type \in Comparisons   -> <<e.sym, e.to>>
    [] e.type = "E_NOT"         -> SymsOf(e.left)
    [] e.type \in Connectives   -> SymsOf(e.left) \o SymsOf(e.right)
    [] OTHER                    -> <<>>

(* strtoll(): a string that does not start with a number is 0.              *)
strtoll(str, base) == IF Num[base][str] = NaN THEN 0 ELSE Num[base][str]
BaseOf(type, base) == CASE type = "S_INT" -> 10 [] type = "S_HEX" -> 16 [] OTHER -> base

RECURSIVE sym_calc_value(_, _, _)
CalcAll(K, D, syms) == FoldInOrder(LAMBDA d, s : sym_calc_value(K, d, s), D, syms)

(* expr_calc_value(): calculates the symbols and returns the new memory and *)
(* the value.                                                               *)
ValueIn(K, D, e) == <<D, expr_calc_value(K.type, Values(K, D), e)>>
Eval(K, D, e)    == ValueIn(K, CalcAll(K, D, SymsOf(e)), e)

(* A condition is kept with its property.                                   *)
Kept(r, i)             == <<[r[1] EXCEPT !.pvis[i] = r[2]], r[2]>>
PropVisible(K, D, i)   == Kept(Eval(K, D, K.props[i].visible), i)

(* The first property whose condition is not n (0: there is none).          *)
Unless(r, i) == <<r[1], IF r[2] = no THEN 0 ELSE i>>
FirstVisible(K, D, props) ==
  FoldInOrder(LAMBDA acc, i : IF acc[2] # 0 THEN acc ELSE Unless(PropVisible(K, acc[1], i), i),
              <<D, 0>>, props)
sym_get_default_prop(K, D, s) == FirstVisible(K, D, PropsOfType(K, s, "P_DEFAULT"))
sym_get_range_prop(K, D, s)   == FirstVisible(K, D, PropsOfType(K, s, "P_RANGE"))

AsNumber(K, D, s, base) == <<D, strtoll(D.curr[s].str, BaseOf(K.type[s], base))>>
sym_get_range_val(K, D, s, base) == AsNumber(K, sym_calc_value(K, D, s), s, base)

(* The bound that a number lies beyond (NaN: none).  Only a number that is  *)
(* not below its range has the upper bound calculated.                      *)
AboveHigh(hi, val) == IF val > hi[2] THEN hi ELSE <<hi[1], NaN>>
BelowLow(K, lo, range, base, val) ==
  IF val < lo[2] THEN lo ELSE AboveHigh(sym_get_range_val(K, lo[1], range.to, base), val)
InProp(K, p, base, val) ==
  IF p[2] = 0 THEN <<p[1], NaN>>
  ELSE BelowLow(K, sym_get_range_val(K, p[1], K.props[p[2]].expr.sym, base),
                K.props[p[2]].expr, base, val)
BoundBeyond(K, D, s, str) ==
  InProp(K, sym_get_range_prop(K, D, s), BaseOf(K.type[s], 10), strtoll(str, BaseOf(K.type[s], 10)))

(* The nearer bound replaces a number outside of the range.                 *)
Nearest(K, r, s) ==
  IF r[2] = NaN THEN r[1] ELSE [r[1] EXCEPT !.curr[s].str = Printed[K.type[s]][r[2]]]
sym_validate_range(K, D, s) ==
  IF K.type[s] \notin {"S_INT", "S_HEX"} THEN D
  ELSE Nearest(K, BoundBeyond(K, D, s, D.curr[s].str), s)

(* A tristate value of a choice that is y cannot be seen as m.              *)
PromptVisible(K, r, s, i) ==
  Kept(IF /\ sym_is_choice_value(K, s) /\ K.type[s] = "S_TRISTATE" /\ r[2] = mod
          /\ r[1].curr[K.choiceOf[s]].tri = yes
       THEN <<r[1], no>> ELSE r, i)
OrTristate(r, tri) == <<r[1], EXPR_OR(r[2], tri)>>
PromptsVisible(K, D, s) ==
  FoldInOrder(LAMBDA acc, i :
                OrTristate(PromptVisible(K, Eval(K, acc[1], K.props[i].visible), s, i), acc[2]),
              <<D, no>>, Prompts(K, s))
SetVisible(K, r, s) ==
  [r[1] EXCEPT !.visible[s] =
     IF r[2] = mod /\ (K.type[s] # "S_TRISTATE" \/ r[1].modules_val = no) THEN yes ELSE r[2]]

CalcVisible(K, D, s) == SetVisible(K, PromptsVisible(K, D, s), s)

(* The values of dir_dep, rev_dep and implied.                              *)
OrNo(e) == IF e = NULL THEN No ELSE e
DepExpr(K, D, s, dep) ==
  CASE dep = "dir" -> K.dir_dep[s]
    [] dep = "rev" -> OrNo(K.rev_dep[s])
    [] dep = "imp" -> IF D.dir[s] = no THEN No ELSE OrNo(K.implied[s])
SetDep(K, r, s, dep) ==
  [r[1] EXCEPT ![dep][s] =
     IF r[2] = mod /\ sym_get_type(K, r[1], s) = "S_BOOLEAN" THEN yes ELSE r[2]]
Dependencies(K, D, s) ==
  IF sym_is_choice_value(K, s) THEN D
  ELSE FoldInOrder(LAMBDA d, dep : SetDep(K, Eval(K, d, DepExpr(K, d, s, dep)), s, dep),
                   D, <<"dir", "rev", "imp">>)
sym_calc_visibility(K, D, s) == Dependencies(K, CalcVisible(K, D, s), s)

(* The first default that can be seen, or else the first value that can.    *)
SeenDefault(r, v) == <<r[1], IF r[2] # no /\ r[1].visible[v] # no THEN v ELSE Null>>
FirstSeen(D, values) == <<D, IF values = <<>> THEN Null ELSE Head(values)>>
OrFirstSeen(K, r, s) ==
  IF r[2] # Null THEN r
  ELSE FirstSeen(r[1], SelectSeq(K.members[s], LAMBDA v : r[1].visible[v] # no))
sym_choice_default(K, D, s) ==
  OrFirstSeen(K, FoldInOrder(LAMBDA acc, i :
                   IF acc[2] # Null THEN acc
                   ELSE SeenDefault(PropVisible(K, acc[1], i), prop_get_symbol(K, i)),
                 <<D, Null>>, PropsOfType(K, s, "P_DEFAULT")), s)

\* Mutant: the user's value counts whether it can be seen or not.
UserChoiceBlind(D, s) == D.def["USER"][s].str # Null

UserChoice(D, s) ==
  LET user == D.def["USER"][s].str IN user # Null /\ D.visible[user] # no
(* A choice with a visible value that was not set is not set by the user.   *)
WithoutNew(K, D, s) ==
  IF \E v \in Range(K.members[s]) : D.visible[v] # no /\ ~sym_has_value(D, v)
  THEN ClearFlag(D, s, "DEF_USER") ELSE D
ChoiceValue(K, D, s) ==
  IF UserChoice(D, s) THEN <<D, D.def["USER"][s].str>> ELSE sym_choice_default(K, D, s)
SetChosen(r, s) ==
  [r[1] EXCEPT !.curr[s] = [tri |-> IF r[2] = Null THEN no ELSE @.tri, str |-> r[2]]]
(* sym_calc_visibility() does no more for a choice value.                   *)
MembersSeen(K, D, s) ==
  FoldInOrder(LAMBDA acc, v : CalcVisible(K, acc, v), D, K.members[s])
sym_calc_choice(K, D, s) ==
  SetChosen(ChoiceValue(K, WithoutNew(K, MembersSeen(K, D, s), s), s), s)

set_all_choice_values(K, D, s) ==
  [D EXCEPT
    !.def["USER"] = Table([v \in DOMAIN @ |->
                      IF v \in Range(K.members[s]) /\ ~sym_has_value(D, v)
                      THEN [@[v] EXCEPT !.tri = no] ELSE @[v]]),
    !.flags[s] = (@ \cup {"DEF_USER"}) \ {"VALID", "NEED_SET_CHOICE_VALUES"}]

(* The value of a bool or a tristate that is not decided by its choice: the *)
(* user's if the symbol is visible, or else the default and what implies    *)
(* it; never below what selects it.                                         *)
AndVisible(r, i)       == <<r[1], EXPR_AND(r[2], r[1].pvis[i])>>
DefaultTristate(K, p)  ==
  IF p[2] = 0 THEN <<p[1], no>> ELSE AndVisible(Eval(K, p[1], K.props[p[2]].expr), p[2])
WithImplied(r, s) ==
  <<SetFlagIf(r[2] # no \/ r[1].imp[s] # no, r[1], s, "WRITE"), EXPR_OR(r[2], r[1].imp[s])>>
WithoutUser(K, D, s) ==
  IF sym_is_choice(K, s) THEN <<D, no>>
  ELSE WithImplied(DefaultTristate(K, sym_get_default_prop(K, D, s)), s)
OwnTristate(K, D, s) ==
  IF D.visible[s] # no /\ sym_has_value(D, s)
  THEN <<D, EXPR_AND(D.def["USER"][s].tri, D.visible[s])>>
  ELSE WithoutUser(K, SetFlagIf(D.rev[s] # no, D, s, "WRITE"), s)
AtLeastSelected(r, s)  == <<r[1], EXPR_OR(r[2], r[1].rev[s])>>

StoreTristate(K, r, s) ==
  [r[1] EXCEPT !.curr[s] =
     [tri |-> IF r[2] = mod /\ (sym_get_type(K, r[1], s) = "S_BOOLEAN" \/ r[1].imp[s] = yes)
              THEN yes ELSE r[2],
      str |-> "n"]]
CalcTristate(K, D, s) ==
  StoreTristate(K, IF sym_is_choice_value(K, s) /\ D.visible[s] = yes
                  THEN <<D, IF D.curr[K.choiceOf[s]].str = s THEN yes ELSE no>>
                  ELSE AtLeastSelected(OwnTristate(K, D, s), s), s)

CopyString(D, s, ds) == [D EXCEPT !.curr[s].str = D.curr[ds].str]
DefaultString(K, p, s) ==
  IF p[2] = 0 THEN [p[1] EXCEPT !.curr[s].str = ""]
  ELSE CopyString(sym_calc_value(K, SetFlag(p[1], s, "WRITE"), prop_get_symbol(K, p[2])),
                  s, prop_get_symbol(K, p[2]))
CalcString(K, D, s) ==
  IF D.visible[s] # no /\ sym_has_value(D, s)
  THEN [D EXCEPT !.curr[s].str = D.def["USER"][s].str]
  ELSE DefaultString(K, sym_get_default_prop(K, D, s), s)

(* A choice that is written has its visible values written, and the symbols *)
(* with a value from elsewhere are not.                                     *)
MarkWritten(K, D, s) ==
  LET d == FoldInOrder(LAMBDA acc, v :
                         SetFlagIf(Has(acc, s, "WRITE") /\ acc.visible[v] # no, acc, v, "WRITE"),
                       D, K.members[s])
  IN  IF s \in K.auto THEN ClearFlag(d, s, "WRITE") ELSE d

(* The value that it has if calculated in a circle.                         *)
StartValue(K, D, s) ==
  [SetFlagIf(D.visible[s] # no, D, s, "WRITE") EXCEPT
     !.curr[s] = [tri |-> no, str |-> IF K.type[s] \in Logical THEN "n" ELSE ""]]
OwnValue(K, D, s) ==
  IF K.type[s] \in Logical THEN CalcTristate(K, D, s) ELSE CalcString(K, D, s)
CalcChosen(K, D, s) ==
  IF sym_is_choice(K, s) /\ D.curr[s].tri = yes THEN sym_calc_choice(K, D, s) ELSE D
NoteModules(K, D, s, old) ==
  IF s = K.modules_sym /\ D.curr[s] # old THEN [D EXCEPT !.modules_val = D.curr[s].tri] ELSE D
SetMembers(K, D, s) ==
  IF Has(D, s, "NEED_SET_CHOICE_VALUES") THEN set_all_choice_values(K, D, s) ELSE D
BeforeRange(K, D, s) == CalcChosen(K, OwnValue(K, StartValue(K, D, s), s), s)
AfterRange(K, D, s, old) == SetMembers(K, MarkWritten(K, NoteModules(K, D, s, old), s), s)
CalcValue(K, D, s) ==
  AfterRange(K, sym_validate_range(K,
                  BeforeRange(K, sym_calc_visibility(K, ClearFlag(D, s, "WRITE"), s), s), s),
             s, D.curr[s])

ChoiceFirst(K, D, s) ==
  IF sym_is_choice_value(K, s) /\ Has(D, s, "NEED_SET_CHOICE_VALUES")
  THEN sym_calc_value(K, ClearFlag(D, s, "NEED_SET_CHOICE_VALUES"), K.choiceOf[s])
  ELSE D
TypedValue(K, D, s) ==
  IF K.type[s] \in Typed THEN CalcValue(K, D, s)
  ELSE [D EXCEPT !.curr[s] = [tri |-> no, str |-> s]]
sym_calc_value(K, D, s) ==
  IF s \in Consts \/ Has(D, s, "VALID") THEN D
  ELSE TypedValue(K, SetFlag(ChoiceFirst(K, D, s), s, "VALID"), s)

\* Mutant: only logical symbols are taken to depend on others.
sym_clear_all_validLogical(K, D) ==
  sym_calc_value(K, [D EXCEPT !.flags = Table([s \in DOMAIN @ |->
                                  IF K.type[s] \in Logical THEN @[s] \ {"VALID"} ELSE @[s]]),
                              !.changed = TRUE], K.modules_sym)

sym_clear_all_valid(K, D) ==
  sym_calc_value(K, [D EXCEPT !.flags = Table([s \in DOMAIN @ |-> @[s] \ {"VALID"}]),
                              !.changed = TRUE], K.modules_sym)

----------------------------------------------------------------------------
(* Setting a value.  The operators return the new memory and whether the    *)
(* value was taken.                                                         *)

sym_is_changable(D, s) == D.visible[s] > D.rev[s]

\* Mutant: nothing keeps a value below the visibility.
sym_tristate_within_rangeAbove(K, D, s, val) ==
  /\ D.visible[s] # no
  /\ sym_get_type(K, D, s) \in Logical
  /\ ~(sym_get_type(K, D, s) = "S_BOOLEAN" /\ val = mod)
  /\ D.visible[s] > D.rev[s]
  /\ ~(D.imp[s] = yes /\ val = mod)
  /\ IF sym_is_choice_value(K, s) /\ D.visible[s] = yes THEN val = yes
     ELSE val >= D.rev[s]

sym_tristate_within_range(K, D, s, val) ==
  /\ D.visible[s] # no
  /\ sym_get_type(K, D, s) \in Logical
  /\ ~(sym_get_type(K, D, s) = "S_BOOLEAN" /\ val = mod)
  /\ D.visible[s] > D.rev[s]
  /\ ~(D.imp[s] = yes /\ val = mod)
  /\ IF sym_is_choice_value(K, s) /\ D.visible[s] = yes THEN val = yes
     ELSE val >= D.rev[s] /\ val <= D.visible[s]

(* Setting a choice value makes it the choice's, and makes the choice and   *)
(* all of its visible values known to the user.                             *)
SetChoiceOf(K, D, s) ==
  LET cs == K.choiceOf[s]
      d  == SetFlag([D EXCEPT !.def["USER"][cs].str = s], cs, "DEF_USER")
  IN  FoldInOrder(LAMBDA a, v : SetFlagIf(a.visible[v] # no, a, v, "DEF_USER"), d, K.members[cs])

sym_set_tristate_value(K, D, s, val) ==
  LET oldval == D.curr[s].tri
      d1 == SetFlag(D, s, "DEF_USER")
      d2 == IF sym_is_choice_value(K, s) /\ val = yes THEN SetChoiceOf(K, d1, s) ELSE d1
      d3 == [d2 EXCEPT !.def["USER"][s].tri = val]
  IN  IF oldval # val /\ ~sym_tristate_within_range(K, D, s, val) THEN <<D, FALSE>>
      ELSE <<IF oldval # val THEN sym_clear_all_valid(K, d3) ELSE d3, TRUE>>

(* n, m, y, n, ...: the first of the next values that can be set; the third *)
(* is the present one, which always can.                                    *)
sym_toggle_tristate_value(K, D, s) ==
  FoldInOrder(LAMBDA r, step :
                IF r[2] THEN r
                ELSE sym_set_tristate_value(K, r[1], s, (r[1].curr[s].tri + step) % 3),
              <<D, FALSE>>, <<1, 2, 3>>)[1]

LogicalNames == [n |-> no, m |-> mod, y |-> yes]
sym_string_valid(K, s, str) ==
  CASE K.type[s] = "S_STRING"    -> TRUE
    [] K.type[s] = "S_INT"       -> Num[10][str] # NaN
    [] K.type[s] = "S_HEX"       -> Num[16][str] # NaN /\ Num[16][str] >= 0
    [] K.type[s] \in Logical     -> str \in DOMAIN LogicalNames
    [] OTHER                     -> FALSE

WithinBounds(r) == <<r[1], r[2] = NaN>>
sym_string_within_range(K, D, s, str) ==
  CASE ~sym_string_valid(K, s, str)  -> <<D, FALSE>>
    [] sym_string_valid(K, s, str) /\ K.type[s] \in Logical ->
         <<D, sym_tristate_within_range(K, D, s, LogicalNames[str])>>
    [] K.type[s] = "S_STRING"        -> <<D, TRUE>>
    [] OTHER                         -> WithinBounds(BoundBeyond(K, D, s, str))

(* A hexadecimal number gets its "0x"; a value that the user gave already   *)
(* changes nothing but the mark.                                            *)
SetText(K, D, s, newval) ==
  IF D.def["USER"][s].str = newval /\ (K.type[s] = "S_HEX" => Prefixed[newval] = newval) THEN D
  ELSE sym_clear_all_valid(K, [D EXCEPT
         !.def["USER"][s].str = IF K.type[s] = "S_HEX" THEN Prefixed[newval] ELSE newval])
SetIfWithin(K, r, s, newval) ==
  IF r[2] THEN <<SetText(K, SetFlag(r[1], s, "DEF_USER"), s, newval), TRUE>> ELSE r
sym_set_string_value(K, D, s, newval) ==
  CASE K.type[s] \in Logical /\ newval \in DOMAIN LogicalNames ->
         sym_set_tristate_value(K, D, s, LogicalNames[newval])
    [] K.type[s] \in Logical /\ newval \notin DOMAIN LogicalNames -> <<D, FALSE>>
    [] OTHER -> SetIfWithin(K, sym_string_within_range(K, D, s, newval), s, newval)

(* The value that the symbol would have without one from the user.          *)
BoolIsYes(K, r, s) ==
  <<r[1], IF /\ r[2] = mod
             /\ \/ ~sym_is_choice_value(K, s) /\ r[1].curr[K.modules_sym].tri = no
                \/ K.type[s] = "S_BOOLEAN"
          THEN yes ELSE r[2]>>
TristateName == <<"n", "m", "y">>

\* Mutant: what implies the symbol is left out.
NamedDefaultPlain(r, s) == <<r[1], TristateName[r[2] + 1]>>

NamedDefault(r, s) == <<r[1], TristateName[EXPR_OR(r[2], r[1].imp[s]) + 1]>>
TextOf(D, s)       == <<D, D.curr[s].str>>
DefaultOf(K, p, s) ==
  IF K.type[s] \in Logical
  THEN NamedDefault(BoolIsYes(K, AtLeastSelected(DefaultTristate(K, p), s), s), s)
  ELSE IF p[2] = 0 THEN <<p[1], "">>
  ELSE TextOf(sym_calc_value(K, p[1], prop_get_symbol(K, p[2])), prop_get_symbol(K, p[2]))
sym_get_string_default(K, D, s) ==
  DefaultOf(K, sym_get_default_prop(K,
                 sym_calc_value(K, sym_calc_visibility(K, D, s), K.modules_sym), s), s)

----------------------------------------------------------------------------
(* The search for dependency loops.  C holds the symbols on the stack, the  *)
(* symbols met and whether a loop was reported; the result is C and the     *)
(* symbol at which the loop closes (Null: none).                            *)

RECURSIVE sym_check_deps(_, _, _)
Enter(C, syms) == [C EXCEPT !.check = @ \cup syms, !.checked = @ \cup syms]
Leave(r, syms) == <<[r[1] EXCEPT !.check = @ \ syms], r[2]>>

sym_check_expr_deps(K, C, e) ==
  FoldInOrder(LAMBDA acc, s : IF acc[2] # Null THEN acc ELSE sym_check_deps(K, acc[1], s),
              <<C, Null>>, SymsOf(e))
CheckExprs(K, C, exprs) ==
  FoldInOrder(LAMBDA acc, e : IF acc[2] # Null THEN acc ELSE sym_check_expr_deps(K, acc[1], e),
              <<C, Null>>, exprs)
(* The conditions of a symbol's properties, and its defaults.               *)
PropExprs(K, sym, i) ==
  <<K.props[i].visible>> \o
  (IF K.props[i].type = "P_DEFAULT" /\ ~sym_is_choice(K, sym) THEN <<K.props[i].expr>> ELSE <<>>)
OwnExprs(K, sym) ==
  FoldInOrder(LAMBDA acc, i : acc \o PropExprs(K, sym, i), <<>>,
    SelectSeq([i \in DOMAIN K.props |-> i],
      LAMBDA i : K.props[i].sym = sym /\ K.props[i].type \notin {"P_CHOICE", "P_SELECT"}))

\* Mutant: what selects the symbol is not followed.
sym_check_sym_depsOwn(K, C, sym) == CheckExprs(K, C, OwnExprs(K, sym))

sym_check_sym_deps(K, C, sym) == CheckExprs(K, C, <<K.rev_dep[sym]>> \o OwnExprs(K, sym))

CheckValues(K, r, values) ==
  FoldInOrder(LAMBDA acc, v : IF acc[2] # Null THEN acc ELSE sym_check_sym_deps(K, acc[1], v),
              r, values)
LeaveChoice(r, choice, values) ==
  Leave(<<r[1], IF r[2] \in values THEN choice ELSE r[2]>>, values)
sym_check_choice_deps(K, C, choice) ==
  LeaveChoice(CheckValues(K,
                Leave(sym_check_sym_deps(K, Enter(C, Range(K.members[choice]) \cup {choice}), choice),
                      {choice}), K.members[choice]),
              choice, Range(K.members[choice]))

AtSymbol(r, sym) == <<r[1], IF r[2] = sym THEN Null ELSE r[2]>>
CheckSymbol(K, C, sym) ==
  CASE sym_is_choice_value(K, sym) -> sym_check_deps(K, C, K.choiceOf[sym])
    [] sym_is_choice(K, sym)       -> sym_check_choice_deps(K, C, sym)
    [] OTHER -> Leave(sym_check_sym_deps(K, Enter(C, {sym}), sym), {sym})
sym_check_deps(K, C, sym) ==
  CASE sym \in Consts    -> <<C, Null>>
    [] sym \in C.check   -> <<[C EXCEPT !.reported = TRUE], sym>>
    [] sym \in C.checked -> <<C, Null>>
    [] OTHER             -> AtSymbol(CheckSymbol(K, C, sym), sym)

(* conf_parse() checks every symbol; a loop is printed and the program goes *)
(* on.                                                                      *)
LoopReported(K, order) ==
  FoldInOrder(LAMBDA C, s : sym_check_deps(K, C, s)[1],
           [check |-> {}, checked |-> {}, reported |-> FALSE], order).reported
=============================================================================
