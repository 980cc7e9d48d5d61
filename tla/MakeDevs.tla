------------------------------ MODULE MakeDevs ------------------------------
(***************************************************************************)
(* package/makedevs/makedevs.c: applies a device table to the tree of the  *)
(* root file system, line by line: owners and modes of files and           *)
(* directories, recursively or not, capabilities, and device nodes.        *)
(*                                                                         *)
(* A path is a sequence of names.  A node is [kind, owner, mode, to, caps, *)
(* dev], where "to" is the path that a symbolic link leads to, and is no   *)
(* link.  The owner stands for user and group, and is "unset" in a line    *)
(* that has no more than name, type and mode; the mode "keep" is -1.       *)
(* makedevs runs under fakeroot, whose chown() leaves modes and            *)
(* capabilities as they are.                                               *)
(***************************************************************************)
EXTENDS Integers, Sequences, FiniteSets, SequencesExt, TLC

CONSTANTS
  Trees,       \* root file systems before: a set of [paths -> nodes]
  Tables,      \* device tables: a set of sequences of lines
  Users,       \* who etc/passwd and etc/group name
  XATTR        \* EXTENDED_ATTRIBUTES is defined

VARIABLES
  tree0, table,   \* as they were given
  fs,          \* the tree
  linenum,     \* the line that is next
  full_name,   \* the file of the last line that had one, or NoFile
  walk,        \* what nftw() has still to visit, the next one first
  owner,       \* the owner of the line that nftw() walks for
  ret,         \* the exit status so far: "SUCCESS" or "FAILURE"
  failed,      \* the lines that were reported
  status       \* "run", "done" or "died"
mdvars == <<tree0, table, fs, linenum, full_name, walk, owner, ret, failed, status>>

NoFile == <<>>
maxNumber == 1048575        \* 0xfffff

Node(kind, who, mode) ==
  [kind |-> kind, owner |-> who, mode |-> mode, to |-> NoFile, caps |-> {}, dev |-> <<>>]

Nodes ==
  [kind : {"dir", "file", "link", "char", "block", "fifo"}, owner : Users, mode : STRING,
   to : Seq(STRING), caps : SUBSET STRING, dev : Seq(Nat)]
Line ==
  [type : {"f", "F", "d", "r", "c", "b", "p", "x", "xattr"}, name : Seq(STRING), mode : STRING,
   owner : STRING, indented : BOOLEAN, cap : STRING, major : Nat, minor : Nat, start : Nat,
   inc : Nat, count : Nat]

(* A tree has a root, and what a node is in is a directory.                 *)
HasParents(f) ==
  /\ <<>> \in DOMAIN f /\ f[<<>>].kind = "dir"
  /\ \A q \in DOMAIN f \ {<<>>} : Front(q) \in DOMAIN f /\ f[Front(q)].kind = "dir"

ASSUME UsersAssumption == Users \subseteq STRING /\ "root" \in Users
ASSUME TreesAssumption ==
  \A f \in Trees : /\ f \in [DOMAIN f -> Nodes] /\ DOMAIN f \subseteq Seq(STRING)
                   /\ IsFiniteSet(DOMAIN f) /\ HasParents(f)
(* The names in a table are those of what is below the root.                *)
ASSUME TablesAssumption ==
  \A t \in Tables : t \in Seq(Line) /\ \A k \in DOMAIN t : t[k].type # "xattr" => t[k].name # <<>>

MDInit ==
  /\ tree0 \in Trees /\ table \in Tables
  /\ fs = tree0 /\ linenum = 1 /\ full_name = NoFile /\ walk = <<>> /\ owner = "root"
  /\ ret = "SUCCESS" /\ failed = {} /\ status = "run"

----------------------------------------------------------------------------
(* The tree, and the calls that change it                                   *)

(* The path that a system call reaches when it follows symbolic links, and  *)
(* the one that it reaches when it does not follow the last.                *)
Follow(f, q) == IF q \in DOMAIN f /\ f[q].kind = "link" THEN f[q].to ELSE q
Reach(f, p) ==
  LET at[k \in 0..Len(p)] == IF k = 0 THEN <<>> ELSE Follow(f, Append(at[k - 1], p[k]))
  IN  at[Len(p)]
Entry(f, p) == Append(Reach(f, Front(p)), Last(p))

Exists(f, p)    == Reach(f, p) \in DOMAIN f
IsA(f, kind, p) == Exists(f, p) /\ f[Reach(f, p)].kind = kind

Plus(f, new) ==
  [q \in DOMAIN f \cup DOMAIN new |-> IF q \in DOMAIN new THEN new[q] ELSE f[q]]

\* Mutant: the mode -1 is set like any other.
chmodAny(f, p, mode) == [f EXCEPT ![Reach(f, p)].mode = mode]

chmod(f, p, mode) == IF mode = "keep" THEN f ELSE [f EXCEPT ![Reach(f, p)].mode = mode]
chown(f, p, who)  == [f EXCEPT ![Reach(f, p)].owner = who]
lchown(f, p, who) == [f EXCEPT ![Entry(f, p)].owner = who]

(* bb_make_directory() with FILEUTILS_RECUR goes from one name to the next  *)
(* and makes what is not there, unless something that is no directory is in *)
(* its way.  The umask is 0.  The mode -1 has become another number, of     *)
(* which chmod() takes all bits.                                            *)
bb_make_directory(p, mode) ==
  LET upto(k) == SubSeq(p, 1, k)
      none    == {k \in 1..Len(p) : ~IsA(fs, "dir", upto(k))}
      Made(q) == Node("dir", "root", IF q # Reach(fs, p) THEN "0777"
                                     ELSE IF mode = "keep" THEN "07777" ELSE mode)
  IN  IF \E k \in none : Entry(fs, upto(k)) \in DOMAIN fs THEN fs
      ELSE Plus(fs, [q \in {Reach(fs, upto(k)) : k \in none} |-> Made(q)])

----------------------------------------------------------------------------
(* The lines                                                                *)

l       == table[linenum]
At(types) == status = "run" /\ walk = <<>> /\ linenum <= Len(table) /\ l.type \in types
Given   == UNCHANGED <<tree0, table>>
NextLine == linenum' = linenum + 1

Good(f) ==
  /\ fs' = f /\ NextLine /\ Given /\ UNCHANGED <<walk, owner, ret, failed, status>>

Bad(f) ==
  /\ fs' = f /\ NextLine /\ ret' = "FAILURE" /\ failed' = failed \cup {linenum}
  /\ Given /\ UNCHANGED <<walk, owner, status>>
Die ==
  /\ status' = "died" /\ Given
  /\ UNCHANGED <<fs, linenum, full_name, walk, owner, ret, failed>>

WithCap(p, cap) == [fs EXCEPT ![Reach(fs, p)].caps = @ \cup {cap}]

(* Only regular files take capabilities.                                    *)
Xattr ==
  /\ At({"xattr"})
  /\ IF XATTR /\ full_name # NoFile /\ IsA(fs, "file", full_name)
     THEN Good(WithCap(full_name, l.cap)) /\ UNCHANGED full_name
     ELSE Die

Valid(line) == \A n \in {line.major, line.minor, line.start, line.inc, line.count} : n <= maxNumber

(* A line that is not valid is passed over without a word if it is indented.*)
Invalid ==
  /\ At({"f", "F", "d", "r", "c", "b", "p", "x"}) /\ ~Valid(l)
  /\ IF l.indented THEN Good(fs) ELSE Bad(fs)
  /\ UNCHANGED full_name

(* The owner of a line; where the line has none, the memory is read that    *)
(* the line before has left, or anything.                                   *)
Owners == IF l.owner = "unset" THEN Users \cup {"nobody there"} ELSE {l.owner}

UnknownOwner ==
  /\ At({"f", "F", "d", "r", "c", "b", "p", "x"}) /\ Valid(l)
  /\ ~(Owners \subseteq Users) /\ Die

For(types, who) ==
  /\ At(types) /\ Valid(l) /\ who \in Owners /\ full_name' = l.name

Directory(who) ==
  /\ For({"d"}, who)
  /\ LET f == bb_make_directory(l.name, l.mode)
     IN  IF Exists(f, l.name) THEN Good(chmod(chown(f, l.name, who), l.name, l.mode)) ELSE Bad(f)

RegularFile(who) ==
  /\ For({"f", "F"}, who)
  /\ IF IsA(fs, "file", l.name) THEN Good(chmod(chown(fs, l.name, who), l.name, l.mode))
     ELSE IF l.type = "F" THEN Good(fs) ELSE Bad(fs)

(* nftw() visits a directory before what is in it, in the order in which    *)
(* readdir() finds it, follows no links, and stops at a failure.            *)
Recursive(who) ==
  /\ For({"r"}, who)
  /\ IF Entry(fs, l.name) \in DOMAIN fs
     THEN /\ walk' = <<Entry(fs, l.name)>> /\ owner' = who
          /\ Given /\ UNCHANGED <<fs, linenum, ret, failed, status>>
     ELSE Bad(fs)

Content(d) == {q \in DOMAIN fs : Len(q) = Len(d) + 1 /\ Front(q) = d}

(* chmod() is optional, and skipped for a link whose end is there.          *)
NoChmod(q) == l.mode = "keep" \/ (fs[q].kind = "link" /\ Exists(fs, q))

bb_recursive ==
  /\ status = "run" /\ walk # <<>>
  /\ LET q == Head(walk)
         f == lchown(fs, q, owner)
     IN  IF ~NoChmod(q) /\ ~Exists(fs, q)
         THEN /\ fs' = f /\ walk' = <<>> /\ NextLine /\ ret' = "FAILURE"
              /\ failed' = failed \cup {linenum}
         ELSE /\ fs' = IF NoChmod(q) THEN f ELSE chmod(f, q, l.mode)
              /\ \E more \in SetToSeqs(Content(q)) : walk' = more \o Tail(walk)
              /\ linenum' = IF walk' = <<>> THEN linenum + 1 ELSE linenum
              /\ UNCHANGED <<ret, failed>>
  /\ Given /\ UNCHANGED <<full_name, owner, status>>

Kinds == [c |-> "char", b |-> "block", p |-> "fifo"]
Numbered(p, n) == Append(Front(p), Last(p) \o ToString(n))

(* How many nodes follow the first.                                         *)
LastOf(line) == IF line.count = 0 THEN 0 ELSE line.count - 1

NameOf(line, k) == IF LastOf(line) # 0 THEN Numbered(line.name, line.start + k) ELSE line.name
NodeOf(line, who, k) ==
  [Node(Kinds[line.type], who, line.mode) EXCEPT !.dev = <<line.major, line.minor + k * line.inc>>]

CanMake(f, line, k) ==
  LET p == NameOf(line, k)
  IN  line.mode # "keep" /\ Entry(f, p) \notin DOMAIN f /\ IsA(f, "dir", Front(p))

(* Each node is made if it can be, whatever became of those before.         *)
MakeNodes(who) ==
  /\ For({"c", "b", "p"}, who)
  /\ LET made[k \in 0..(LastOf(l) + 1)] ==
           IF k = 0 THEN fs
           ELSE IF ~CanMake(made[k - 1], l, k - 1) THEN made[k - 1]
           ELSE Plus(made[k - 1],
                     [q \in {Entry(made[k - 1], NameOf(l, k - 1))} |-> NodeOf(l, who, k - 1)])
     IN  IF \A k \in 0..LastOf(l) : CanMake(made[k], l, k)
         THEN Good(made[LastOf(l) + 1]) ELSE Bad(made[LastOf(l) + 1])

Unsupported(who) == For({"x"}, who) /\ Bad(fs)

EndOfTable ==
  /\ status = "run" /\ walk = <<>> /\ linenum > Len(table)
  /\ status' = "done" /\ Given
  /\ UNCHANGED <<fs, linenum, full_name, walk, owner, ret, failed>>

MDNext ==
  \/ Xattr \/ Invalid \/ UnknownOwner \/ bb_recursive \/ EndOfTable
  \/ \E who \in Users : \/ Directory(who) \/ RegularFile(who) \/ Recursive(who)
                         \/ MakeNodes(who) \/ Unsupported(who)

MDSpec == MDInit /\ [][MDNext]_mdvars

----------------------------------------------------------------------------
(* Properties                                                               *)

Success == status = "done" /\ ret = "SUCCESS"
Applies(k) == table[k].type # "xattr" /\ Valid(table[k])

(* What the usage text says of the nodes of a line: /dev/gps 251 0 1 1 5    *)
(* gives /dev/gps[1-5] with minor numbers [0-4].                            *)
AskedNodes(line) ==
  IF line.count \in {0, 1} THEN {<<line.name, line.minor>>}
  ELSE {<<Numbered(line.name, line.start + k), line.minor + k * line.inc>> : k \in 0..(line.count - 1)}

MakesNode(k, q) ==
  /\ Applies(k) /\ table[k].type \in {"c", "b", "p"}
  /\ \E n \in AskedNodes(table[k]) : Entry(fs, n[1]) = q

(* Line k names q, which it makes or which is there.  A file is not made.   *)
Names(k, q) ==
  \/ /\ Applies(k) /\ Reach(fs, table[k].name) = q
     /\ table[k].type = "d" \/ (table[k].type \in {"f", "F"} /\ fs[q].kind = "file")
  \/ MakesNode(k, q)

(* q is there after line k because of it.                                   *)
Makes(k, q) ==
  \/ /\ Applies(k) /\ table[k].type = "d"
     /\ \E n \in 1..Len(table[k].name) : Reach(fs, SubSeq(table[k].name, 1, n)) = q
  \/ MakesNode(k, q)

(* Line k is recursive, and q was there by then.                            *)
WalksOver(k, q) ==
  /\ Applies(k) /\ table[k].type = "r" /\ IsPrefix(Entry(fs, table[k].name), q)
  /\ q \in DOMAIN tree0 \/ \E j \in 1..(k - 1) : Makes(j, q)

IsFor(k, q)       == Names(k, q) \/ WalksOver(k, q)
LastFor(k, q)     == IsFor(k, q) /\ \A j \in DOMAIN table : IsFor(j, q) => j <= k
SetsMode(k, q)    == IsFor(k, q) /\ table[k].mode # "keep"
LastModeFor(k, q) == SetsMode(k, q) /\ \A j \in DOMAIN table : SetsMode(j, q) => j <= k

(* The tree consists of nodes that are in directories, and exactly the      *)
(* lines that are reported make the exit status a failure.                  *)
MDTypeOK ==
  /\ \A q \in DOMAIN fs : fs[q].kind \in {"dir", "file", "link", "char", "block", "fifo"}
                          /\ fs[q].owner \in Users
  /\ HasParents(fs)
  /\ failed \subseteq DOMAIN table /\ (ret = "FAILURE" <=> failed # {})
  /\ DOMAIN tree0 \subseteq DOMAIN fs
  /\ walk # <<>> => linenum \in DOMAIN table

(* When makedevs says that all went well, each file has the owner and the   *)
(* mode of the last line for it, be it by name or recursively (and whoever  *)
(* made it).  A link has no mode; a line without an owner gives any.        *)
LastLineWins == Success => \A q \in DOMAIN fs, k \in DOMAIN table :
  /\ LastFor(k, q) /\ table[k].owner # "unset" => fs[q].owner = table[k].owner
  /\ LastModeFor(k, q) /\ fs[q].kind # "link" => fs[q].mode = table[k].mode

(* When all went well, the nodes are those of the usage text, and nothing   *)
(* is there besides them, what was there, and directories of the table.     *)
NodesAsUsage == Success =>
  LET nodes == {k \in DOMAIN table : table[k].type \in {"c", "b", "p"} /\ Applies(k)}
  IN  /\ \A k \in nodes : \A n \in AskedNodes(table[k]) :
           IsA(fs, Kinds[table[k].type], n[1])
           /\ fs[Entry(fs, n[1])].dev = <<table[k].major, n[2]>>
      /\ \A q \in DOMAIN fs \ DOMAIN tree0 : \E k \in DOMAIN table : Makes(k, q)

(* "You can add several capabilities to a file by using several |xattr      *)
(* lines" (docs/manual/makedev-syntax.adoc:100): besides what it had, a     *)
(* file has the capabilities of the |xattr lines that follow a line for it. *)
Follows(k, j) == k < j /\ Applies(k) /\ \A b \in (k + 1)..(j - 1) : ~Applies(b)
CapsAddUp == Success => \A q \in DOMAIN fs : fs[q].caps =
  (IF q \in DOMAIN tree0 THEN tree0[q].caps ELSE {}) \cup
  {table[j].cap : j \in {n \in DOMAIN table :
     table[n].type = "xattr"
     /\ \E k \in DOMAIN table : Follows(k, n) /\ Reach(fs, table[k].name) = q}}

(* A line that is applied recursively changes nothing outside of its        *)
(* directory, although there are links in it that lead there.               *)
WithinTree == [][walk # <<>> =>
  \A q \in DOMAIN fs : ~IsPrefix(Entry(fs, l.name), q) => fs'[q] = fs[q]]_mdvars

(* "chmod() is optional, also skip if dangling symlink" (makedevs.c:448): a *)
(* recursive line is not reported if its directory is there.                *)
DanglingSkipped ==
  \A k \in failed : table[k].type = "r" /\ Valid(table[k]) => Entry(fs, table[k].name) \notin DOMAIN fs

(* When makedevs says that all went well the tree is what the table asks    *)
(* for, and on the way it never leaves the directories that it was given.   *)
TableApplied ==
  /\ [](MDTypeOK /\ LastLineWins /\ NodesAsUsage /\ CapsAddUp)
  /\ WithinTree
=============================================================================
