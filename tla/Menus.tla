-------------------------------- MODULE Menus --------------------------------
(***************************************************************************)
(* The menus that the full-screen front ends show, mconf.c and nconf.c,    *)
(* and the configuration behind them, which is kept abstract here: an      *)
(* entry is visible when the bool symbols that it depends on are y, and of *)
(* the configuration file only whether it agrees with the memory is kept.  *)
(***************************************************************************)
EXTENDS Integers, SequencesExt

CONSTANTS
  Entries,          \* the menus: [names -> [kind, list, dep, values]]
  Root              \* rootmenu, of which some entry is always visible

ASSUME RootAssumption ==
  \E i \in DOMAIN Entries[Root].list : Entries[Entries[Root].list[i]].dep = {}

VARIABLES
  value,            \* the configuration: [symbols with values -> value]
  changed,          \* conf_get_changed()
  inFile,           \* the file that `filename' names has the configuration
  refused,          \* what had changed stopped counting: a load was refused, and no
                    \* change has come after it
  show_all_options, \* show_all_items in nconf.c
  single_menu_mode,
  data              \* the menus that are shown in place in that mode
confVars == <<value, changed, inFile, refused>>
menusVars == <<confVars, show_all_options, single_menu_mode, data>>

Menu  == Entries    \* evaluated once by TLC
Names == DOMAIN Menu
Kind(m)      == Menu[m].kind
Children(m)  == {Menu[m].list[i] : i \in DOMAIN Menu[m].list}
Parent(m)    == CHOOSE p \in Names : m \in Children(p)
HasSymbol(m) == Kind(m) \notin {"menu", "comment"}
Symbols      == {m \in Names : Menu[m].values # {}}   \* a choice has its members as values
Configurations == {v \in [Symbols -> UNION {Menu[m].values : m \in Symbols}] :
                     \A m \in Symbols : v[m] \in Menu[m].values}

(* What the parser and menu_finalize() make of a configuration: entries of  *)
(* these kinds, where the symbols in a choice are its values; a tree, so    *)
(* that whatever is picked of the entries, some of it has no child that is  *)
(* picked too; and an entry depends on what those around it depend on.      *)
Kinds == {"menu", "menuconfig", "choice", "comment", "string", "bool", "tristate", "member"}
ASSUME EntriesAssumption ==
  /\ Root \in Names /\ Kind(Root) = "menu"
  /\ \A m \in Names :
       /\ Kind(m) \in Kinds /\ Menu[m].list \in Seq(Names)
       /\ Kind(m) = "choice" =>
            Menu[m].values = {c \in Children(m) : HasSymbol(c)} /\ Menu[m].values # {}
       /\ \A c \in Children(m) : Kind(c) = "member" <=> Kind(m) = "choice" /\ HasSymbol(c)
ASSUME TreeAssumption ==
  /\ \A m \in Names \ {Root} : \E p \in Names : m \in Children(p)
  /\ \A S \in SUBSET Names : S # {} => \E m \in S : Children(m) \cap S = {}
ASSUME NestedAssumption ==
  \A m \in Names : \A c \in Children(m) : Menu[m].dep \subseteq Menu[c].dep

(* menu_is_visible()                                                        *)
Visible(m) == \A b \in Menu[m].dep : value[b] = "y"

(* The value of a symbol as a tristate; a choice that is visible is y.      *)
Now(m) == CASE ~Visible(m) -> "n"
            [] Visible(m) /\ Kind(m) = "choice" -> "y"
            [] Visible(m) /\ Kind(m) = "member" -> IF value[Parent(m)] = m THEN "y" ELSE "n"
            [] OTHER -> value[m]

----------------------------------------------------------------------------
(* The items of a menu                                                      *)

An(m, tag) == <<[data |-> m, tag |-> tag]>>
Shown(m) == show_all_options \/ Visible(m)

(* One list for each of them.                                              *)
ForAll(entries, of) == [i \in DOMAIN entries |-> of[entries[i]]]

(* build_conf(): the items of a menu, which are its entries and what is     *)
(* indented below them, but not what is in a menu of its own.  A choice     *)
(* that has a value is one item, but for what is below the member that it   *)
(* has: where there is anything, that member is listed again, with it.      *)
build_conf(current, m, below, chosen) ==
  LET own == HasSymbol(m) /\ Kind(m) # "choice" /\ m = current
  IN  CASE ~Shown(m) -> <<>>
        [] Shown(m) /\ Kind(m) = "menu" ->
             IF m = current THEN below
             ELSE An(m, "m") \o (IF m \in data THEN below ELSE <<>>)
        [] Shown(m) /\ Kind(m) = "choice" ->
             IF Visible(m) THEN An(m, "t") \o chosen ELSE An(m, ":") \o below
        [] Shown(m) /\ (own \/ Kind(m) = "comment") -> An(m, ":") \o below
        [] Shown(m) /\ ~own /\ Kind(m) = "menuconfig" -> An(m, "t")
        [] Shown(m) /\ ~own /\ Kind(m) = "string" -> An(m, "s") \o below
        [] Shown(m) /\ ~own /\ Kind(m) \in {"bool", "tristate"} -> An(m, "t") \o below
        [] Shown(m) /\ ~own /\ Kind(m) = "member" ->
             An(m, IF Now(m) = "y" THEN ":" ELSE "t") \o below

(* The parts of the list, each of which is made the same way.               *)
Below(m, build)  == FlattenSeq(ForAll(Menu[m].list, build))
IsChosen(c)      == Kind(c) = "member" /\ Now(c) = "y" /\ Menu[c].list # <<>>
Chosen(m, build) ==
  FlattenSeq(ForAll(Menu[m].list, [c \in Names |-> IF IsChosen(c) THEN build[c] ELSE <<>>]))
Items(current) ==
  LET Build[m \in Names] == build_conf(current, m, Below(m, Build), Chosen(m, Build))
  IN  Build[current]

(* conf_choice() of nconf.c: the members.                                   *)
Members(m) ==
  FlattenSeq(ForAll(Menu[m].list, [c \in Names |-> IF Shown(c) THEN An(c, ":") ELSE <<>>]))

----------------------------------------------------------------------------
(* Setting symbols                                                          *)

MaySet(m, v) ==
  \/ v = Now(m)
  \/ /\ Visible(m)
     /\ \/ Kind(m) \in {"bool", "menuconfig", "tristate"} /\ v \in Menu[m].values
        \/ Kind(m) = "member" /\ v = "y"

(* A refused load is over with the first change that counts again.          *)
CountsAgain == refused' = (refused /\ ~changed')

\* Mutant: what had a value from the user already does not count as changed.
SetTristateOnce(m, v) ==
  /\ IF v = Now(m) THEN UNCHANGED <<value, inFile>> /\ changed' \in {changed, TRUE}
     ELSE /\ value' = IF Kind(m) = "member" THEN [value EXCEPT ![Parent(m)] = m]
                      ELSE [value EXCEPT ![m] = v]
          /\ changed' \in {changed, TRUE} /\ inFile' = FALSE
  /\ CountsAgain

(* sym_set_tristate_value(), when it is not refused.  The value that it has *)
(* may be a default, which now becomes the user's.                          *)
SetTristate(m, v) ==
  /\ IF v = Now(m) THEN UNCHANGED <<value, inFile>> /\ changed' \in {changed, TRUE}
     ELSE /\ value' = IF Kind(m) = "member" THEN [value EXCEPT ![Parent(m)] = m]
                      ELSE [value EXCEPT ![m] = v]
          /\ changed' = TRUE /\ inFile' = FALSE
  /\ CountsAgain

(* sym_toggle_tristate_value(): the next value that is not refused.         *)
NextValue == [n |-> "m", m |-> "y", y |-> "n"]
Toggled(m) ==
  LET one == NextValue[Now(m)]
      two == NextValue[one]
  IN  CASE MaySet(m, one) -> one
        [] ~MaySet(m, one) /\ MaySet(m, two) -> two
        [] OTHER -> Now(m)

----------------------------------------------------------------------------
(* conf_read() of another file, and conf_write().                           *)
Loaded ==
  /\ value' \in Configurations /\ inFile' \in BOOLEAN
  /\ changed' = TRUE /\ refused' = FALSE
Saved == changed' = FALSE /\ inFile' = TRUE /\ refused' = FALSE /\ UNCHANGED value

(* conf_read() of a file that does not exist: it counts the changes as none *)
(* before it tries to open the file (confdata.c:413).                       *)
LoadRefused == changed' = FALSE /\ refused' = (refused \/ changed) /\ UNCHANGED <<value, inFile>>

(* sym_set_string_value(), when it is not refused.  The text may be the one *)
(* that the symbol has, as a default or not.                                *)
SetString ==
  /\ UNCHANGED value
  /\ \/ changed' = TRUE /\ inFile' = FALSE
     \/ changed' \in {changed, TRUE} /\ UNCHANGED inFile
  /\ CountsAgain

(* A menu that is selected in single menu mode is shown in place, or no     *)
(* longer.                                                                  *)
Unfold(m) ==
  /\ data' = IF m \in data THEN data \ {m} ELSE data \cup {m}
  /\ UNCHANGED <<show_all_options, single_menu_mode>>

MenusInit ==
  /\ value \in Configurations /\ changed \in BOOLEAN /\ inFile = ~changed /\ refused = FALSE
  /\ show_all_options = FALSE /\ single_menu_mode \in BOOLEAN /\ data = {}

MenusTypeOK ==
  /\ value \in Configurations /\ {changed, inFile, refused, show_all_options} \subseteq BOOLEAN
  /\ data \subseteq Names /\ (data # {} => single_menu_mode)
=============================================================================
