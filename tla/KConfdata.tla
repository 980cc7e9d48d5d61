----------------------------- MODULE KConfdata -----------------------------
(***************************************************************************)
(* Reading and writing configurations (confdata.c), and the questions the  *)
(* front ends ask of the menu tree once it is final (menu.c).              *)
(*                                                                         *)
(* A file is a sequence of lines [sym, v, quoted]: "# SYM is not set" has  *)
(* v = "unset"; comments and headings are left out.  Missing stands for a  *)
(* file that cannot be opened.                                             *)
(***************************************************************************)
EXTENDS KSymbol

Missing == <<[missing |-> TRUE]>>
Line(s, v, quoted) == [sym |-> s, v |-> v, quoted |-> quoted]
DefFlag(def) == IF def = "USER" THEN "DEF_USER" ELSE "DEF_AUTO"

----------------------------------------------------------------------------
(* Menus                                                                    *)

(* A symbol that is shown only for its children counts as set by the user.  *)
KeepShown(r, sym) == IF r[2] THEN <<SetFlag(r[1], sym, "DEF_USER"), TRUE>> ELSE r

RECURSIVE menu_is_visible(_, _, _)
AnyChild(K, D, menu) ==
  FoldInOrder(LAMBDA acc, c : IF acc[2] THEN acc ELSE menu_is_visible(K, acc[1], c),
              <<D, FALSE>>, Children(K, menu))
ByPrompt(K, r, menu) ==
  CASE r[2] # no -> <<r[1], TRUE>>
    [] r[2] = no /\ (K.sym[menu] = "" \/ r[1].curr[K.sym[menu]].tri = no) -> <<r[1], FALSE>>
    [] OTHER -> KeepShown(AnyChild(K, r[1], menu), K.sym[menu])
PvisOf(D, i) == <<D, D.pvis[i]>>
OwnPrompt(K, D, menu) ==
  IF K.sym[menu] = "" THEN PropVisible(K, D, K.prompt[menu])
  ELSE PvisOf(sym_calc_value(K, D, K.sym[menu]), K.prompt[menu])
ByCondition(K, r, menu) ==
  IF r[2] = no THEN <<r[1], FALSE>> ELSE ByPrompt(K, OwnPrompt(K, r[1], menu), menu)
menu_is_visible(K, D, menu) ==
  IF K.prompt[menu] = 0 THEN <<D, FALSE>>
  ELSE ByCondition(K, Eval(K, D, K.visibility[menu]), menu)

RECURSIVE menu_get_parent_menu(_, _)
menu_get_parent_menu(K, menu) ==
  IF \/ menu = Root
     \/ K.prompt[menu] # 0 /\ K.props[K.prompt[menu]].type = "P_MENU"
  THEN menu ELSE menu_get_parent_menu(K, K.parent[menu])

(* The nodes in the order in which the writers walk them.                   *)
RECURSIVE Below(_, _)
Below(K, menu) ==
  FoldInOrder(LAMBDA acc, c : acc \o <<c>> \o Below(K, c), <<>>, Children(K, menu))

----------------------------------------------------------------------------
(* Reading.  R is [D, warned].                                              *)

Warn(R) == [R EXCEPT !.warned = TRUE]
Taken(R, s, def, value) ==
  [R EXCEPT !.D = SetFlag([@ EXCEPT !.def[def][s] = value], s, DefFlag(def))]
WarnUser(R, def) == IF def = "AUTO" THEN R ELSE Warn(R)

(* The second component says whether the rest of the line is skipped.       *)
conf_set_sym_val(K, R, s, def, line) ==
  LET old == R.D.def[def][s]
      tri == [old EXCEPT !.tri = LogicalNames[line.v]]
      str == [old EXCEPT !.str = line.v]
      type == K.type[s]
  IN  CASE /\ type \in Logical /\ ~line.quoted
           /\ line.v \in (IF type = "S_TRISTATE" THEN {"y", "m", "n"} ELSE {"y", "n"})
             -> <<Taken(R, s, def, tri), FALSE>>
        [] type = "S_STRING" /\ ~line.quoted -> <<R, FALSE>>
        [] /\ type \in {"S_STRING", "S_INT", "S_HEX"}
           /\ line.quoted = (type = "S_STRING") /\ sym_string_valid(K, s, line.v)
             -> <<Taken(R, s, def, str), FALSE>>
        [] type \in Typed -> <<WarnUser(R, def), TRUE>>
        [] OTHER          -> <<R, FALSE>>

(* What a choice learns from the value that was read for one of its own.    *)
WarnIf(cond, R) == IF cond THEN Warn(R) ELSE R
ToChoice(R, s, cs, def, tri, was) ==
  CASE tri = mod /\ was = yes -> [Warn(R) EXCEPT !.D = ClearFlag(@, cs, DefFlag(def))]
    [] tri = yes -> [WarnIf(was # no, R) EXCEPT !.D.def[def][cs].str = s]
    [] OTHER     -> R
OrChoice(R, cs, def, tri) == [R EXCEPT !.D.def[def][cs].tri = EXPR_OR(@, tri)]
SetChoice(K, R, s, def) ==
  IF ~sym_is_choice_value(K, s) THEN R
  ELSE OrChoice(ToChoice(R, s, K.choiceOf[s], def, R.D.def[def][s].tri,
                         R.D.def[def][K.choiceOf[s]].tri),
                K.choiceOf[s], def, R.D.def[def][s].tri)

SetOrUnset(K, R, s, def, line) ==
  CASE line.v # "unset" -> conf_set_sym_val(K, R, s, def, line)
    [] line.v = "unset" /\ K.type[s] \in Logical ->
         <<Taken(R, s, def, [R.D.def[def][s] EXCEPT !.tri = no]), FALSE>>
    [] OTHER -> <<R, FALSE>>
RestOfLine(K, r, s, def) == IF r[2] THEN r[1] ELSE SetChoice(K, r[1], s, def)
ReadLine(K, R, def, line) ==
  IF line.sym \notin Symbols(K)
  THEN IF def = "AUTO" THEN R ELSE [R EXCEPT !.D.changed = TRUE]
  ELSE RestOfLine(K, SetOrUnset(K, WarnIf(Has(R.D, line.sym, DefFlag(def)), R), line.sym, def, line),
                  line.sym, def)

(* Forget the values of this kind, and read the file.                       *)
conf_read_simple(K, D, file, def) ==
  LET f  == DefFlag(def)
      d0 == [D EXCEPT
              !.flags = Table([s \in DOMAIN @ |->
                  (@[s] \ {f, "VALID"}) \cup (IF sym_is_choice(K, s) THEN {f} ELSE {})]),
              !.def[def] = Table([s \in DOMAIN @ |-> Unset])]
  IN  FoldInOrder(LAMBDA R, line : ReadLine(K, R, def, line), [D |-> d0, warned |-> FALSE], file)

\* Mutant: a symbol that is not in the file makes no difference.
DiffersRead(K, D, s) ==
  /\ ~sym_is_choice(K, s) /\ s \notin K.auto
  /\ sym_has_value(D, s) /\ Has(D, s, "WRITE")
  /\ IF K.type[s] \in Logical THEN D.def["USER"][s].tri # D.curr[s].tri
     ELSE D.def["USER"][s].str # D.curr[s].str

(* A symbol for which the file and the calculated value disagree.           *)
Differs(K, D, s) ==
  LET written == Has(D, s, "WRITE")
      user    == D.def["USER"][s]
  IN  /\ ~sym_is_choice(K, s) /\ s \notin K.auto
      /\ IF sym_has_value(D, s) /\ written
         THEN IF K.type[s] \in Logical THEN user.tri # D.curr[s].tri
              ELSE user.str # D.curr[s].str
         ELSE sym_has_value(D, s) \/ written

(* A value that cannot be seen is forgotten if nothing is to be saved, and  *)
(* so is one outside of its range.                                          *)
ResetUnseen(acc, s) ==
  IF acc.D.visible[s] = no /\ ~acc.unsaved
  THEN [acc EXCEPT !.D = ClearFlag(@, s, "DEF_USER")] ELSE acc
ResetUnless(acc, r, s) ==
  IF r[2] THEN [acc EXCEPT !.D = r[1]]
  ELSE [acc EXCEPT !.D = ClearFlag(ClearFlag(r[1], s, "VALID"), s, "DEF_USER"), !.unsaved = TRUE]
ResetOutside(K, acc, s) ==
  IF K.type[s] \notin {"S_STRING", "S_INT", "S_HEX"} THEN acc
  ELSE ResetUnless(acc, sym_string_within_range(K, acc.D, s, acc.D.def["USER"][s].str), s)
ResetValue(K, acc, s) ==
  IF ~sym_has_value(acc.D, s) \/ sym_is_choice_value(K, s) THEN acc
  ELSE ResetOutside(K, ResetUnseen(acc, s), s)

(* What has been read is calculated and compared.                           *)
CheckValue(K, acc, D, s) == [acc EXCEPT !.D = D, !.unsaved = @ \/ Differs(K, D, s)]
CheckAll(K, R, order) ==
  FoldInOrder(LAMBDA acc, s : CheckValue(K, acc, sym_calc_value(K, acc.D, s), s),
              [D |-> sym_calc_value(K, R.D, K.modules_sym), unsaved |-> FALSE, warned |-> R.warned],
              order)
ResetAll(K, acc, order) == FoldInOrder(LAMBDA a, s : ResetValue(K, a, s), acc, order)
ReadDone(z) == [z.D EXCEPT !.changed = @ \/ z.warned \/ z.unsaved]

(* Returns the new memory and whether there was a file.  When there is none *)
(* the flag has been cleared already, and is set again only if it was       *)
(* .config itself that was to be read (name = NULL).                        *)
conf_read(K, D, named, file, order) ==
  IF file = Missing THEN <<sym_calc_value(K, [D EXCEPT !.changed = ~named], K.modules_sym), FALSE>>
  ELSE <<ReadDone(ResetAll(K, CheckAll(K,
           conf_read_simple(K, [D EXCEPT !.changed = FALSE], file, "USER"), order), order)), TRUE>>

----------------------------------------------------------------------------
(* Writing                                                                  *)

(* kconfig_print_symbol(): the lines for a symbol.                          *)
kconfig_print_symbol(K, s, value, skip_unset) ==
  IF K.type[s] \in Logical /\ value = "n"
  THEN IF skip_unset THEN <<>> ELSE <<Line(s, "unset", FALSE)>>
  ELSE <<Line(s, value, K.type[s] = "S_STRING")>>
header_print_symbol(K, s, value) ==
  CASE K.type[s] \in Logical ->
         IF value = "n" THEN <<>>
         ELSE <<Line(IF value = "m" THEN <<s, "_MODULE">> ELSE s, "1", FALSE)>>
    [] K.type[s] = "S_HEX"   -> <<Line(s, Prefixed[value], FALSE)>>
    [] OTHER                 -> <<Line(s, value, K.type[s] = "S_STRING")>>
tristate_print_symbol(K, s, value) ==
  IF K.type[s] = "S_TRISTATE" /\ value # "n" THEN <<Line(s, value, FALSE)>> ELSE <<>>

conf_write_symbol(K, D, s, skip_unset) ==
  IF K.type[s] \notin Typed THEN <<>>
  ELSE kconfig_print_symbol(K, s, sym_get_string_value(K, D, s), skip_unset)

(* One node of the walk that writes a configuration.                        *)
AddSymbol(K, acc, D, s) ==
  IF ~Has(D, s, "WRITE") THEN [acc EXCEPT !.D = D]
  ELSE [D |-> ClearFlag(D, s, "WRITE"), file |-> acc.file \o conf_write_symbol(K, D, s, FALSE)]
WriteNode(K, acc, menu) ==
  CASE K.sym[menu] = ""               -> [acc EXCEPT !.D = menu_is_visible(K, @, menu)[1]]
    [] sym_is_choice(K, K.sym[menu])  -> acc
    [] OTHER -> AddSymbol(K, acc, sym_calc_value(K, acc.D, K.sym[menu]), K.sym[menu])

(* conf_write(): the memory after the walk, and what was written.  Whether  *)
(* the rename succeeds is for the caller.                                   *)
WriteConfig(K, D) ==
  FoldInOrder(LAMBDA acc, menu : WriteNode(K, acc, menu),
           [D |-> IF D.changed THEN D ELSE sym_clear_all_valid(K, D), file |-> <<>>],
           Below(K, Root))

(* A value that differs from what the defaults give; of the values of a     *)
(* choice, not the one that it has by itself.                               *)
IsChoiceDefault(K, r, s) ==
  /\ ~sym_is_optional(K, K.choiceOf[s]) /\ r[2] = s
  /\ K.type[s] = "S_BOOLEAN" /\ r[1].curr[s].tri = yes
AddValue(K, acc, D, s) == [D |-> D, file |-> acc.file \o conf_write_symbol(K, D, s, FALSE)]
AddUnlessDefault(K, acc, r, s) ==
  IF IsChoiceDefault(K, r, s) THEN [acc EXCEPT !.D = r[1]] ELSE AddValue(K, acc, r[1], s)
AddIfNotDefault(K, acc, r, s) ==
  CASE sym_get_string_value(K, r[1], s) = r[2] -> [acc EXCEPT !.D = r[1]]
    [] sym_get_string_value(K, r[1], s) # r[2] /\ ~sym_is_choice_value(K, s) ->
         AddValue(K, acc, r[1], s)
    [] OTHER -> AddUnlessDefault(K, acc, sym_choice_default(K, r[1], K.choiceOf[s]), s)
AddChangable(K, acc, D, s) ==
  IF ~sym_is_changable(D, s) THEN [acc EXCEPT !.D = D]
  ELSE AddIfNotDefault(K, acc, sym_get_string_default(K, D, s), s)
AddWritten(K, acc, D, s) ==
  IF ~Has(D, s, "WRITE") THEN [acc EXCEPT !.D = D]
  ELSE AddChangable(K, acc, ClearFlag(D, s, "WRITE"), s)
WriteMinimal(K, acc, menu) ==
  CASE K.sym[menu] = ""               -> [acc EXCEPT !.D = menu_is_visible(K, @, menu)[1]]
    [] sym_is_choice(K, K.sym[menu])  -> acc
    [] OTHER -> AddWritten(K, acc, sym_calc_value(K, acc.D, K.sym[menu]), K.sym[menu])

conf_write_defconfig(K, D) ==
  FoldInOrder(LAMBDA acc, menu : WriteMinimal(K, acc, menu),
           [D |-> sym_clear_all_valid(K, D), file |-> <<>>], Below(K, Root))

(* conf_split_config(): the symbols whose header is touched, because their  *)
(* value is not the one that auto.conf has.                                 *)
OldDiffers(K, D, s) ==
  LET old == D.def["AUTO"][s]
  IN  IF K.type[s] \in Logical THEN D.curr[s].tri # old.tri
      ELSE sym_get_string_value(K, D, s) # old.str
\* Mutant: only what auto.conf has already is compared.
TouchedOld(K, D, s) ==
  /\ s \notin K.auto
  /\ Has(D, s, "DEF_AUTO")
  /\ Has(D, s, "WRITE") => OldDiffers(K, D, s)

Touched(K, D, s) ==
  /\ s \notin K.auto
  /\ IF Has(D, s, "WRITE")
     THEN IF Has(D, s, "DEF_AUTO") THEN OldDiffers(K, D, s)
          ELSE K.type[s] \notin Logical \/ D.curr[s].tri # no
     ELSE Has(D, s, "DEF_AUTO")
(* A line of auto.conf for a symbol that the Kconfig files no longer have   *)
(* makes a symbol of type string, unless the value is quoted.               *)
IsGone(K, line) == line.sym \notin Symbols(K) /\ ~line.quoted
Split(K, acc, D, s) ==
  [D |-> D, touched |-> acc.touched \cup (IF Touched(K, D, s) THEN {s} ELSE {})]
conf_split_config(K, D, auto, order) ==
  FoldInOrder(LAMBDA acc, s : Split(K, acc, sym_calc_value(K, acc.D, s), s),
    [D |-> sym_calc_value(K, IF auto = Missing THEN D ELSE conf_read_simple(K, D, auto, "AUTO").D,
                          K.modules_sym),
     touched |-> IF auto = Missing THEN {}
                 ELSE {auto[i].sym : i \in {j \in DOMAIN auto : IsGone(K, auto[j])}}],
    order)

(* conf_write_autoconf(): what auto.conf, tristate.conf and autoconf.h get. *)
AddPrinted(K, acc, D, s, v) ==
  [acc EXCEPT !.D = D, !.auto = @ \o kconfig_print_symbol(K, s, v, TRUE),
              !.tristate = @ \o tristate_print_symbol(K, s, v),
              !.header   = @ \o header_print_symbol(K, s, v)]
AddGenerated(K, acc, D, s) ==
  IF ~Has(D, s, "WRITE") \/ K.type[s] \notin Typed THEN [acc EXCEPT !.D = D]
  ELSE AddPrinted(K, acc, D, s, sym_get_string_value(K, D, s))
WriteGenerated(K, split, order) ==
  FoldInOrder(LAMBDA acc, s : AddGenerated(K, acc, sym_calc_value(K, acc.D, s), s),
    [D |-> split.D, touched |-> split.touched, auto |-> <<>>, tristate |-> <<>>, header |-> <<>>],
    SelectSeq(order, LAMBDA s : ~sym_is_choice(K, s)))
conf_write_autoconf(K, D, auto, order) ==
  WriteGenerated(K, conf_split_config(K, sym_clear_all_valid(K, D), auto, order), order)

----------------------------------------------------------------------------
(* New symbols                                                              *)

(* The value that a mode gives to a symbol that has none; random modes may  *)
(* give any, by chance.                                                     *)
ModeValues(K, s, mode) ==
  CASE mode = "def_yes" -> {yes}
    [] mode = "def_mod" -> {mod}
    [] mode = "def_no"  -> {IF s \in K.allnoconfig_y THEN yes ELSE no}
    [] mode = "def_random" -> IF K.type[s] = "S_TRISTATE" THEN Tristate ELSE {no, yes}
    [] OTHER -> {}

(* Which symbols get one.                                                   *)
NewSymbols(K, D) ==
  {s \in Symbols(K) : ~sym_has_value(D, s) /\ ~Has(D, s, "VALID") /\ K.type[s] \in Logical}

randomize_choice_values(K, D, cs, pick) ==
  LET vals == Range(K.members[cs])
  IN  IF D.curr[cs].tri # yes THEN <<D, FALSE>>
      ELSE <<[D EXCEPT
               !.def["USER"] = Table([s \in DOMAIN @ |->
                  IF s \in vals THEN [@[s] EXCEPT !.tri = IF s = pick[cs] THEN yes ELSE no]
                  ELSE IF s = cs THEN [@[s] EXCEPT !.str = pick[cs]] ELSE @[s]]),
               !.flags = Table([s \in DOMAIN @ |->
                  IF s \in vals \cup {cs} THEN (@[s] \cup {"DEF_USER"}) \ {"VALID"} ELSE @[s]])],
             TRUE>>

(* value: what each new symbol gets; pick: the member drawn for each choice. *)
GiveNew(K, D, mode, value, new) ==
  [D EXCEPT
    !.def["USER"] = Table([s \in DOMAIN @ |->
       IF s \in new THEN [@[s] EXCEPT !.tri = value[s]] ELSE @[s]]),
    !.flags = Table([s \in DOMAIN @ |->
       IF s \in new /\ ~(sym_is_choice(K, s) /\ mode = "def_random")
       THEN @[s] \cup {"DEF_USER"} ELSE @[s]])]
Needs(K, D, s) == (sym_is_choice(K, s) /\ ~sym_has_value(D, s)) \/ sym_is_choice_value(K, s)
NeedChoices(K, D, mode) ==
  IF mode = "def_random" THEN D
  ELSE [D EXCEPT !.flags = Table([s \in DOMAIN @ |->
          @[s] \cup (IF Needs(K, D, s) THEN {"NEED_SET_CHOICE_VALUES"} ELSE {})])]
SetOneChoice(K, D, s, mode, pick) ==
  IF mode = "def_random" THEN randomize_choice_values(K, D, s, pick)
  ELSE <<set_all_choice_values(K, D, s), TRUE>>
SetChoices(K, acc, mode, pick, order) ==
  FoldInOrder(LAMBDA r, s :
                IF sym_has_value(r[1], s) \/ ~sym_is_choice(K, s) THEN r
                ELSE SetOneChoice(K, sym_calc_value(K, r[1], s), s, mode, pick),
              acc, order)
conf_set_all_new_symbols(K, D, mode, value, pick, order) ==
  SetChoices(K,
    <<NeedChoices(K, sym_clear_all_valid(K,
        GiveNew(K, D, mode, value, IF mode = "def_default" THEN {} ELSE NewSymbols(K, D))), mode),
      NewSymbols(K, D) # {}>>,
    mode, pick, order)
=============================================================================
