------------------------------- MODULE KMenu -------------------------------
(***************************************************************************)
(* The menu tree of kconfig (menu.c): how the parser builds it, one        *)
(* statement of the Kconfig file at a time, and how menu_finalize() hands  *)
(* the dependencies down, makes automatic submenus, collects the values of *)
(* choices and flattens "if" blocks.                                       *)
(*                                                                         *)
(* The tree is a record K of pointers, as in the code: node 1 is rootmenu, *)
(* 0 is the null pointer.  A property points at the node it was written    *)
(* under.  Texts, warnings and line numbers are left out.                  *)
(***************************************************************************)
EXTENDS KExpr, TLC

Root == 1

(* f itself: TLC evaluates f once and keeps it as a table.                  *)
Table(f) == f @@ <<>>

(* _menu_init() and the main menu's prompt; syms are the names that the     *)
(* Kconfig files mention.                                                   *)
_menu_init(syms) ==
  [list |-> <<0>>, next |-> <<0>>, parent |-> <<0>>, sym |-> <<"">>, prompt |-> <<1>>,
   dep |-> <<NULL>>, visibility |-> <<NULL>>,
   props |-> <<[type |-> "P_MENU", sym |-> "", menu |-> Root, expr |-> NULL,
                visible |-> NULL, text |-> TRUE]>>,
   type     |-> Table([s \in syms \cup Consts |-> "S_UNKNOWN"]),
   choice   |-> {}, optional |-> {}, auto |-> {}, allnoconfig_y |-> {},
   choiceOf |-> Table([s \in syms |-> ""]),
   members  |-> Table([s \in syms |-> <<>>]),
   rev_dep  |-> Table([s \in syms |-> NULL]),
   implied  |-> Table([s \in syms |-> NULL]),
   dir_dep  |-> Table([s \in syms |-> NULL]),
   modules_sym |-> "n",
   current_entry |-> Root, current_menu |-> Root, last_entry_ptr |-> <<"list", Root>>]

Symbols(K) == DOMAIN K.rev_dep
Nodes(K)   == DOMAIN K.list
sym_is_choice(K, s)       == s \in K.choice
sym_is_choice_value(K, s) == s \in Symbols(K) /\ K.choiceOf[s] # ""
sym_is_optional(K, s)     == s \in K.optional

(* The places that a "struct menu **" can point to.                         *)
SetPtr(K, ptr, node) ==
  IF ptr[1] = "list" THEN [K EXCEPT !.list[ptr[2]] = node] ELSE [K EXCEPT !.next[ptr[2]] = node]

prop_alloc(K, type, sym, menu, expr, visible, text) ==
  [K EXCEPT !.props = Append(@, [type |-> type, sym |-> sym, menu |-> menu, expr |-> expr,
                                 visible |-> visible, text |-> text])]

(* All the `visible if' conditions of the menus around the entry.           *)
RECURSIVE UpperVisibility(_, _, _)
UpperVisibility(K, menu, e) ==
  IF menu = 0 THEN e
  ELSE UpperVisibility(K, K.parent[menu], expr_alloc_and(e, K.visibility[menu]))

menu_add_prop(K, type, text, expr, dep) ==
  LET entry   == K.current_entry
      visible == IF type = "P_PROMPT" THEN UpperVisibility(K, K.parent[entry], dep) ELSE dep
      K1      == prop_alloc(K, type, K.sym[entry], entry, expr, visible, text)
  IN  IF text THEN [K1 EXCEPT !.prompt[entry] = Len(K1.props)] ELSE K1

menu_add_prompt(K, type, dep)       == menu_add_prop(K, type, TRUE, NULL, dep)
menu_add_expr(K, type, expr, dep)   == menu_add_prop(K, type, FALSE, expr, dep)
menu_add_symbol(K, type, sym, dep)  ==
  menu_add_prop(K, type, FALSE, expr_alloc_symbol(sym), dep)

menu_add_entry(K, sym) ==
  LET n  == Len(K.list) + 1
      K1 == [K EXCEPT !.list = Append(@, 0), !.next = Append(@, 0),
                      !.parent = Append(@, K.current_menu), !.sym = Append(@, sym),
                      !.prompt = Append(@, 0), !.dep = Append(@, NULL),
                      !.visibility = Append(@, NULL)]
      K2 == [SetPtr(K1, K.last_entry_ptr, n) EXCEPT !.last_entry_ptr = <<"next", n>>,
                                                    !.current_entry = n]
  IN  IF sym = "" THEN K2 ELSE menu_add_symbol(K2, "P_SYMBOL", sym, NULL)

menu_add_menu(K) ==
  [K EXCEPT !.last_entry_ptr = <<"list", K.current_entry>>, !.current_menu = K.current_entry]
menu_end_menu(K) ==
  [K EXCEPT !.last_entry_ptr = <<"next", K.current_menu>>,
            !.current_menu = K.parent[K.current_menu]]

menu_add_dep(K, dep)        == [K EXCEPT !.dep[K.current_entry] = expr_alloc_and(@, dep)]
menu_add_visibility(K, e)   == [K EXCEPT !.visibility[K.current_entry] = expr_alloc_and(@, e)]

menu_set_type(K, entry, type) ==
  IF K.type[K.sym[entry]] = "S_UNKNOWN" THEN [K EXCEPT !.type[K.sym[entry]] = type] ELSE K

menu_add_option(K, option) ==
  LET s == K.sym[K.current_entry]
  IN  CASE option = "modules"       -> [K EXCEPT !.modules_sym = s]
        [] option = "allnoconfig_y" -> [K EXCEPT !.allnoconfig_y = @ \cup {s}]

(* One statement of a Kconfig file, with the calls its grammar rule makes.  *)
Statement(K, st) ==
  CASE st[1] = "config"  -> menu_add_entry([K EXCEPT !.optional = @ \cup {st[2]}], st[2])
    [] st[1] = "type"    -> menu_set_type(K, K.current_entry, st[2])
    [] st[1] = "prompt"  -> menu_add_prompt(K, "P_PROMPT", st[2])
    [] st[1] = "menuconfig" -> [K EXCEPT !.props[K.prompt[K.current_entry]].type = "P_MENU"]
    [] st[1] = "default" -> menu_add_expr(K, "P_DEFAULT", st[2], st[3])
    [] st[1] = "select"  -> menu_add_symbol(K, "P_SELECT", st[2], st[3])
    [] st[1] = "imply"   -> menu_add_symbol(K, "P_IMPLY", st[2], st[3])
    [] st[1] = "range"   ->
         menu_add_expr(K, "P_RANGE", expr_alloc_comp("E_RANGE", st[2], st[3]), NULL)
    [] st[1] = "option"  -> menu_add_option(K, st[2])
    [] st[1] = "depends" -> menu_add_dep(K, st[2])
    [] st[1] = "visible" -> menu_add_visibility(K, st[2])
    [] st[1] = "choice"  ->
         menu_add_expr(menu_add_entry([K EXCEPT !.choice = @ \cup {st[2]},
                                                !.auto = @ \cup {st[2]}], st[2]),
                       "P_CHOICE", NULL, NULL)
    [] st[1] = "optional" -> [K EXCEPT !.optional = @ \cup {K.sym[K.current_entry]}]
    [] st[1] = "if"      -> menu_add_menu(menu_add_dep(menu_add_entry(K, ""), st[2]))
    [] st[1] = "menu"    -> menu_add_prompt(menu_add_entry(K, ""), "P_MENU", NULL)
    [] st[1] = "comment" -> menu_add_prompt(menu_add_entry(K, ""), "P_COMMENT", NULL)
    [] st[1] = "body"    -> menu_add_menu(K)
    [] st[1] = "end"     -> menu_end_menu(K)

Parse(syms, text) == FoldInOrder(Statement, _menu_init(syms), text)

----------------------------------------------------------------------------
(* menu_finalize()                                                          *)

RECURSIVE rewrite_m(_, _)
rewrite_m(K, e) ==
  CASE e.type = "E_NOT" -> expr_alloc_one("E_NOT", rewrite_m(K, e.left))
    [] e.type \in Connectives ->
         expr_alloc_two(e.type, rewrite_m(K, e.left), rewrite_m(K, e.right))
    [] e = expr_alloc_symbol("m") -> expr_alloc_and(e, expr_alloc_symbol(K.modules_sym))
    [] OTHER -> e

RECURSIVE Siblings(_, _)
Siblings(K, menu) == IF menu = 0 THEN <<>> ELSE <<menu>> \o Siblings(K, K.next[menu])
Children(K, menu) == Siblings(K, K.list[menu])

PropsOf(K, menu) == SelectSeq([i \in DOMAIN K.props |-> i], LAMBDA i : K.props[i].menu = menu)
IsChoiceNode(K, menu) == sym_is_choice(K, K.sym[menu])

(* A choice takes its type from the first of its values that has one, and   *)
(* gives it to the values that have none.                                   *)
TypeFromValue(K, parent, typed) ==
  IF K.type[K.sym[parent]] = "S_UNKNOWN" /\ typed # <<>>
  THEN menu_set_type(K, parent, K.type[K.sym[typed[1]]]) ELSE K
ChoiceTypes(K, parent) ==
  FoldInOrder(LAMBDA k, c : IF k.sym[c] = "" THEN k ELSE menu_set_type(k, c, k.type[k.sym[parent]]),
              TypeFromValue(K, parent,
                SelectSeq(Children(K, parent),
                          LAMBDA c : K.sym[c] # "" /\ K.type[K.sym[c]] # "S_UNKNOWN")),
              Children(K, parent))

(* A select or an imply under condition dep changes the other symbol.       *)
AddReverse(K, prop, dep) ==
  LET other == prop.expr.sym
      term  == expr_alloc_and(expr_alloc_symbol(prop.sym), dep)
  IN  CASE prop.type = "P_SELECT" -> [K EXCEPT !.rev_dep[other] = expr_alloc_or(@, term)]
        [] prop.type = "P_IMPLY"  -> [K EXCEPT !.implied[other] = expr_alloc_or(@, term)]
        [] OTHER                  -> K

(* The parent's dependency, joined to the child's and to each property's.   *)
Under(K, dep, e) ==
  expr_eliminate_dups(K.type, expr_alloc_and(dep, expr_transform(K.type, rewrite_m(K, e))))
AsBool(K, menu, dep) ==
  IF K.sym[menu] # "" /\ K.type[K.sym[menu]] # "S_TRISTATE"
  THEN expr_trans_bool(K.type, dep) ELSE dep
SetCondition(K, i, dep) ==
  AddReverse([K EXCEPT !.props[i].visible = dep], K.props[i], dep)
HandDown(K, basedep, menu) ==
  FoldInOrder(LAMBDA k, i : SetCondition(k, i, AsBool(k, menu, Under(k, basedep, k.props[i].visible))),
              [K EXCEPT !.dep[menu] = basedep], PropsOf(K, menu))
Propagate(K, parentdep, menu) == HandDown(K, Under(K, parentdep, K.dep[menu]), menu)

\* Mutant: what has no prompt hands nothing down.
ParentDepMenu(K, parent) ==
  CASE IsChoiceNode(K, parent) -> expr_alloc_symbol(K.sym[parent])
    [] K.prompt[parent] # 0    -> K.props[K.prompt[parent]].visible
    [] OTHER                   -> NULL

ParentDep(K, parent) ==
  CASE IsChoiceNode(K, parent) -> expr_alloc_symbol(K.sym[parent])
    [] K.prompt[parent] # 0    -> K.props[K.prompt[parent]].visible
    [] OTHER                   -> K.dep[parent]

(* The dependency of an entry that decides whether it goes into a submenu.  *)
EntryDep(K, menu) == IF K.prompt[menu] # 0 THEN K.props[K.prompt[menu]].visible ELSE K.dep[menu]
AsCondition(K, e) ==
  expr_eliminate_dups(K.type, expr_transform(K.type, expr_trans_compare(e, "E_UNEQUAL", "n")))
\* Mutant: every entry that names the symbol goes into its submenu.
DependsOnParentAny(K, sym, basedep, menu) == expr_contains_symbol(EntryDep(K, menu), sym)

DependsOnParent(K, sym, basedep, menu) ==
  LET dep == EntryDep(K, menu)
  IN  /\ expr_contains_symbol(dep, sym)
      /\ \/ expr_depends_symbol(dep, sym)
         \/ expr_is_yes(expr_eliminate_eq(AsCondition(K, dep), basedep)[2])

RECURSIVE menu_finalize(_, _), FinalizeAll(_, _), TakeSubmenu(_, _, _, _, _)
FinalizeNext(K, menu) == FinalizeAll(K, K.next[menu])
FinalizeAll(K, menu) ==
  IF menu = 0 THEN K ELSE FinalizeNext(menu_finalize(K, menu), menu)

(* The entries after sym's that depend on it are finalized and become its   *)
(* children, up to the first that does not.                                 *)
TakeNext(K, parent, basedep, menu) ==
  TakeSubmenu([K EXCEPT !.parent[menu] = parent], parent, basedep, K.next[menu], menu)
TakeSubmenu(K, parent, basedep, menu, last_menu) ==
  IF menu # 0 /\ DependsOnParent(K, K.sym[parent], basedep, menu)
  THEN TakeNext(menu_finalize(K, menu), parent, basedep, menu)
  ELSE IF last_menu = 0 THEN K
  ELSE [K EXCEPT !.list[parent] = K.next[parent],
                 !.next = [@ EXCEPT ![parent] = K.next[last_menu], ![last_menu] = 0]]

DirectDep(K, parent) ==
  [K EXCEPT !.dir_dep[K.sym[parent]] = expr_alloc_or(@, K.dep[parent])]
AutoSubmenu(K, parent) ==
  DirectDep(TakeSubmenu(K, parent,
                        AsCondition(K, IF K.prompt[parent] # 0
                                       THEN K.props[K.prompt[parent]].visible ELSE NULL),
                        K.next[parent], 0), parent)

(* A child of a choice becomes one of its values.                           *)
AddChoiceValue(K, choice, menu) ==
  LET val   == K.sym[menu]
      equal == expr_alloc_comp("E_EQUAL", choice, "y")
      K1 == IF K.type[choice] = "S_TRISTATE" /\ K.type[val] # "S_TRISTATE"
            THEN [K EXCEPT
                   !.dep[menu] = expr_alloc_and(equal, @),
                   !.props = Table([i \in DOMAIN @ |->
                      IF @[i].menu # menu THEN @[i]
                      ELSE [@[i] EXCEPT !.visible = expr_alloc_and(equal, @)]])]
            ELSE K
      K2 == prop_alloc(K1, "P_CHOICE", val, menu, expr_alloc_symbol(choice), NULL, FALSE)
  IN  [K2 EXCEPT !.choiceOf[val] = choice, !.members[choice] = Append(@, val)]

(* The children of a node without a prompt move up, behind it.              *)
Flatten(K, parent, menu) ==
  LET children == Children(K, menu)
  IN  IF K.list[menu] = 0 \/ K.prompt[menu] # 0 THEN K
      ELSE [K EXCEPT
             !.parent = Table([n \in DOMAIN @ |-> IF n \in Range(children) THEN parent ELSE @[n]]),
             !.next   = [@ EXCEPT ![Last(children)] = K.next[menu], ![menu] = K.list[menu]],
             !.list[menu] = 0]

RECURSIVE CollectChildren(_, _, _)
CollectNext(K, parent, menu) == CollectChildren(K, parent, K.next[menu])
IsNewValue(K, parent, menu) ==
  IsChoiceNode(K, parent) /\ K.sym[menu] # "" /\ ~sym_is_choice_value(K, K.sym[menu])
CollectChildren(K, parent, menu) ==
  IF menu = 0 THEN K
  ELSE CollectNext(Flatten(IF IsNewValue(K, parent, menu)
                           THEN AddChoiceValue(K, K.sym[parent], menu) ELSE K, parent, menu),
                   parent, menu)

PropagateAll(K, parent, parentdep) ==
  FoldInOrder(LAMBDA k, menu : Propagate(k, parentdep, menu), K, Children(K, parent))
FinalizeChildren(K, parent) ==
  FinalizeAll(PropagateAll(K, parent, ParentDep(K, parent)), K.list[parent])
FinalizeBelow(K, parent) ==
  CASE K.list[parent] # 0 ->
         FinalizeChildren(IF IsChoiceNode(K, parent) THEN ChoiceTypes(K, parent) ELSE K, parent)
    [] K.list[parent] = 0 /\ K.sym[parent] # "" -> AutoSubmenu(K, parent)
    [] OTHER -> K

(* A symbol that is not optional and has a prompt is never below m while    *)
(* its prompt is seen: this selects the choices.                            *)
SelectVisible(K, parent) ==
  IF K.sym[parent] # "" /\ ~sym_is_optional(K, K.sym[parent]) /\ K.prompt[parent] # 0
  THEN [K EXCEPT !.rev_dep[K.sym[parent]] = expr_alloc_or(@,
          expr_alloc_and(K.props[K.prompt[parent]].visible, expr_alloc_symbol("m")))]
  ELSE K
Collected(K, parent) == CollectChildren(K, parent, K.list[parent])
menu_finalize(K, parent) == SelectVisible(Collected(FinalizeBelow(K, parent), parent), parent)
=============================================================================
