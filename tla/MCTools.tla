------------------------------ MODULE MCTools ------------------------------
(***************************************************************************)
(* The two C programs that Buildroot compiles for its own use: the         *)
(* toolchain wrapper, for each call that a package makes of the compiler,  *)
(* or makedevs, for a device table.  A behaviour is that of one of them.   *)
(***************************************************************************)
EXTENDS ToolchainWrapper, MakeDevs

CONSTANT MaxArgs, MaxLines    \* bounds

(* Options of each kind that the wrapper tells apart.                       *)
SomeArguments ==
  {File("target"), File("native"), With("-I", "target"), With("-L", "native"), Opt("-I"),
   Opt("-isystem"), Opt("-c"), Opt("-shared"), Opt("-fPIC"), Opt("-fno-pie"), Opt("-static"),
   Opt("-msoft-float"), Opt("-mhard-float"), Opt("-mtune="), Opt("-D__KERNEL__")}
MCOptions == OwnOptions \cup {a.opt : a \in SomeArguments}
MCArguments == UNION {[1..n -> SomeArguments] : n \in 0..MaxArgs}

Plain == [CCACHE |-> FALSE, FLAT |-> TRUE, FLOAT_ABI |-> TRUE, FP32_MODE |-> FALSE, ARCH |-> FALSE,
          CPU |-> TRUE, SOURCE_DATE |-> FALSE, PIC_PIE |-> TRUE, RELRO |-> "partial"]
Full  == [CCACHE |-> TRUE, FLAT |-> TRUE, FLOAT_ABI |-> TRUE, FP32_MODE |-> TRUE, ARCH |-> TRUE,
          CPU |-> TRUE, SOURCE_DATE |-> TRUE, PIC_PIE |-> TRUE, RELRO |-> "full"]
MCBuilds == {Plain, Full}

----------------------------------------------------------------------------
dir  == Node("dir", "root", "0755")
file == Node("file", "root", "0644")
link(to) == [Node("link", "root", "0777") EXCEPT !.to = to]
Root0 == (<<>> :> dir) @@ (<<"bin">> :> dir) @@ (<<"bin", "su">> :> file) @@ (<<"etc">> :> dir)
         @@ (<<"etc", "f">> :> file) @@ (<<"dev">> :> dir)
(* A link that leads out of /etc, and one that leads nowhere.               *)
MCTrees == {Root0 @@ (<<"etc", "su">> :> link(<<"bin", "su">>)),
            Root0 @@ (<<"etc", "rc">> :> link(<<"run", "rc">>))}

L(type, name, mode, who) ==
  [type |-> type, name |-> name, mode |-> mode, owner |-> who, indented |-> FALSE, cap |-> "",
   major |-> 0, minor |-> 0, start |-> 0, inc |-> 0, count |-> 0]
Device(type, name, major, minor, start, inc, count) ==
  [L(type, name, "0640", "root") EXCEPT !.major = major, !.minor = minor, !.start = start,
                                        !.inc = inc, !.count = count]
cap(c) == [L("xattr", <<>>, "", "") EXCEPT !.cap = c]

SomeLines ==
  {L("f", <<"etc", "f">>, "0600", "root"), L("F", <<"etc", "su">>, "4755", "web"),
   L("F", <<"etc", "none">>, "0644", "root"), L("F", <<"etc", "a">>, "0644", "web"),
   L("d", <<"etc", "f">>, "0700", "root"), L("r", <<"etc", "f">>, "0640", "web"), L("f", <<"bin", "su">>, "keep", "unset"),
   L("r", <<"etc">>, "0750", "web"), L("r", <<"etc">>, "keep", "root"),
   L("d", <<"etc", "a", "b">>, "0755", "web"), L("d", <<"etc", "a">>, "keep", "root"),
   L("d", <<"etc", "f", "b">>, "0755", "root"), L("x", <<"etc">>, "0755", "root"),
   L("f", <<"bin", "su">>, "0755", "nobody there"),
   Device("b", <<"dev", "hda">>, 3, 0, 0, 0, 0), Device("b", <<"dev", "hda">>, 3, 1, 1, 1, 3),
   Device("c", <<"dev", "tty">>, 5, 0, 2, 2, 1), Device("c", <<"etc", "a", "tty">>, 4, 1, 0, 2, 2),
   Device("p", <<"dev", "p">>, 1048576, 0, 0, 0, 0),
   [Device("p", <<"dev", "p">>, 1048576, 0, 0, 0, 0) EXCEPT !.indented = TRUE],
   cap("net_raw"), cap("sys_admin")}
MCTables == UNION {[1..n -> SomeLines] : n \in 1..MaxLines}

----------------------------------------------------------------------------
NoWrapper ==
  /\ build = Plain /\ argv = <<>> /\ epoch = "unset" /\ br_use_ccache = "unset"
  /\ step = "paths" /\ i = 1 /\ args = <<>> /\ room = DEFAULT_MAX_ARGS /\ exec_args = <<>>
NoMakeDevs ==
  /\ tree0 = Root0 /\ table = <<>> /\ fs = Root0 /\ linenum = 1 /\ full_name = NoFile
  /\ walk = <<>> /\ owner = "root" /\ ret = "SUCCESS" /\ failed = {} /\ status = "run"
Init == (TWInit /\ NoMakeDevs) \/ (NoWrapper /\ MDInit)
Next == (table = <<>> /\ TWNext /\ UNCHANGED mdvars) \/ (table # <<>> /\ MDNext /\ UNCHANGED twvars)
Spec == Init /\ [][Next]_<<twvars, mdvars>>
=============================================================================
