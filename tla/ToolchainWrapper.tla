-------------------------- MODULE ToolchainWrapper --------------------------
(***************************************************************************)
(* toolchain/toolchain-wrapper.c: what runs in place of each cross         *)
(* compiler, refuses the directories of the build machine, and puts the    *)
(* options of the target in front of those it was called with.             *)
(*                                                                         *)
(* An argument is [opt, path]: an option by its name, together with the    *)
(* path behind it, if it is in the same argument ("none" if not); opt is   *)
(* "file" if it does not begin with "-".  A path begins like one of        *)
(* unsafe_paths ("native") or does not ("target").                         *)
(***************************************************************************)
EXTENDS Naturals, Sequences, SequencesExt

CONSTANTS
  Options,     \* the names of the options there are
  Builds,      \* the ways in which the wrapper is compiled: a set of Build
  Arguments,   \* what it is called with: a set of sequences of arguments
  Epochs,      \* SOURCE_DATE_EPOCH: some of "unset", "valid", "invalid"
  CcacheVars,  \* BR2_USE_CCACHE: some of "unset", "0", "1"
  DEFAULT_MAX_ARGS

Build == [CCACHE : BOOLEAN, FLAT : BOOLEAN, FLOAT_ABI : BOOLEAN, FP32_MODE : BOOLEAN,
          ARCH : BOOLEAN, CPU : BOOLEAN, SOURCE_DATE : BOOLEAN, PIC_PIE : BOOLEAN,
          RELRO : {"none", "partial", "full"}]
Argument == [opt : Options, path : {"none", "native", "target"}]

(* What the wrapper itself writes into args, at most 16 of them at once.    *)
OwnOptions == {"file", "NULL", "ccache", "compiler", "--sysroot", "-Wl,-elf2flt", "-mfloat-abi=BR", "-mfpBR",
        "-march=BR", "-mcpu=BR", "-D__TIME__=", "-D__DATE__=", "-Wno-builtin-macro-redefined",
        "-fPIE", "-pie", "-Wl,-z,now", "-Wl,-z,relro"}
ASSUME OptionsAssumption == OwnOptions \subseteq Options
ASSUME ArgumentsAreArguments == Arguments \subseteq Seq(Argument)
ASSUME BuildsAreBuilds == Builds \subseteq Build
ASSUME RoomForOwn == DEFAULT_MAX_ARGS \in Nat /\ DEFAULT_MAX_ARGS >= 16

VARIABLES
  build, argv, epoch, br_use_ccache,   \* what the process is given
  step,        \* the part of main() that is next; "exec" or "exit" at the end
  i,           \* the argument that is looked at for an unsafe path
  args,        \* the arguments of the compiler; the first is the program
  room,        \* the pointers that the memory of args is for
  exec_args    \* what is executed
twvars == <<build, argv, epoch, br_use_ccache, step, i, args, room, exec_args>>
given  == <<build, argv, epoch, br_use_ccache>>

Opt(name)       == [opt |-> name, path |-> "none"]
With(name, p)   == [opt |-> name, path |-> p]
File(p)         == With("file", p)
If(cond, names) == IF cond THEN [k \in DOMAIN names |-> Opt(names[k])] ELSE <<>>

TWInit ==
  /\ build \in Builds /\ argv \in Arguments
  /\ epoch \in IF build.SOURCE_DATE THEN Epochs ELSE {"unset"}
  /\ br_use_ccache \in IF build.CCACHE THEN CcacheVars ELSE {"unset"}
  /\ step = "paths" /\ i = 1 /\ args = <<>> /\ room = DEFAULT_MAX_ARGS /\ exec_args = <<>>

----------------------------------------------------------------------------
(* What it looks for among its arguments                                    *)

Has(names)      == \E k \in DOMAIN argv : argv[k].opt \in names
found_nonoption == Has({"file"})
own_kernel      == Has({"-D__KERNEL__", "-D__UBOOT__"})
NoPie == {"-r", "-Wl,-r", "-static", "-D__KERNEL__", "-D__UBOOT__", "-fno-pie", "-fno-PIE",
          "-no-pie"}
PositionIndependent == {"-fpie", "-fPIE", "-fpic", "-fPIC"}

\* Mutant: once -fPIE or the like is given, nothing is added.
PieFlagsLate ==
  IF Has({"-fno-pie", "-no-pie", "-static"}) THEN <<>>
  ELSE If(~Has(PositionIndependent), <<"-fPIE">>) \o <<Opt("-pie")>>

(* BR2_PIC_PIE.                                                             *)
PieFlags ==
  IF Has(NoPie) THEN <<>>
  ELSE If(~Has(PositionIndependent), <<"-fPIE">>) \o If(~Has({"-shared"}), <<"-pie">>)

(* The last one of -msoft-float and -mhard-float decides.                   *)
FloatModes == {"-msoft-float", "-mhard-float"}
AddFp32 ==
  LET last[k \in 0..Len(argv)] ==
        IF k = 0 THEN "none"
        ELSE IF argv[k].opt \in FloatModes THEN argv[k].opt ELSE last[k - 1]
  IN  last[Len(argv)] # "-msoft-float"

RelroFlags ==
  IF own_kernel \/ ~found_nonoption THEN <<>>
  ELSE If(build.RELRO = "full", <<"-Wl,-z,now">>) \o If(build.RELRO # "none", <<"-Wl,-z,relro">>)

IsUnsafe(a) == a.opt = "file" /\ a.path = "native"
unsafe_opts == <<"-I", "-idirafter", "-iquote", "-isystem", "-L">>

(* The argument that is looked at, and whether the loops are left there.    *)
Here(k, bad) == [i |-> k, left |-> IF bad THEN "unsafe" ELSE "no"]

\* Mutant: a path in the next argument is not looked at.
LookAttached(at, o) ==
  IF at.left # "no" \/ argv[at.i].opt # o \/ argv[at.i].path = "none" THEN at
  ELSE Here(at.i, argv[at.i].path = "native")

Look(at, o) ==
  IF at.left # "no" \/ argv[at.i].opt # o THEN at
  ELSE IF argv[at.i].path # "none" THEN Here(at.i, argv[at.i].path = "native")
  ELSE IF at.i = Len(argv) THEN [i |-> at.i + 1, left |-> "end"]
  ELSE Here(at.i + 1, IsUnsafe(argv[at.i + 1]))

(* The options are looked for in the order of unsafe_opts.  After a path in *)
(* the next argument the remaining ones are looked for in that argument.    *)
LookAt(k) ==
  LET at[n \in 0..Len(unsafe_opts)] ==
        IF n = 0 THEN Here(k, FALSE) ELSE Look(at[n - 1], unsafe_opts[n])
  IN  at[Len(unsafe_opts)]

----------------------------------------------------------------------------
(* main()                                                                   *)

Exit == step' = "exit" /\ UNCHANGED <<given, i, args, room, exec_args>>
Add(here, flags, next) ==
  /\ step = here /\ step' = next /\ args' = args \o flags
  /\ UNCHANGED <<given, i, room, exec_args>>

CheckUnsafePaths ==
  /\ step = "paths"
  /\ IF i > Len(argv)
     THEN step' = "predef" /\ UNCHANGED <<given, i, args, room, exec_args>>
     ELSE LET at == LookAt(i)
          IN  IF at.left = "unsafe" THEN Exit
              ELSE i' = at.i + 1 /\ UNCHANGED <<given, step, args, room, exec_args>>

(* Linker flags are skipped when it is known that nothing is linked.        *)
Predefined ==
  Add("predef", If(build.CCACHE, <<"ccache">>) \o <<Opt("compiler"), Opt("--sysroot"), File("target")>>
                \o If(build.FLAT /\ found_nonoption, <<"-Wl,-elf2flt">>), "float")

FloatAbi ==
  Add("float", If(build.FLOAT_ABI /\ ~Has({"-mfloat-abi=", "-msoft-float", "-mhard-float"}),
                  <<"-mfloat-abi=BR">>), "fp32")

Fp32Mode == Add("fp32", If(build.FP32_MODE /\ AddFp32, <<"-mfpBR">>), "arch")

ArchCpu ==
  Add("arch", IF Has({"-march=", "-mtune=", "-mcpu="}) THEN <<>>
              ELSE If(build.ARCH, <<"-march=BR">>) \o If(build.CPU, <<"-mcpu=BR">>), "epoch")

SourceDateEpoch ==
  IF step = "epoch" /\ epoch = "invalid" THEN Exit
  ELSE Add("epoch", If(epoch = "valid", <<"-D__TIME__=", "-D__DATE__=",
                                          "-Wno-builtin-macro-redefined">>), "pie")

Pie   == Add("pie", IF build.PIC_PIE THEN PieFlags ELSE <<>>, "relro")
Relro == Add("relro", RelroFlags, "realloc")

argc == Len(argv) + 1

(* The arguments, with the program itself counted for the NULL at the end.  *)
Needed == Len(args) + argc

Realloc ==
  /\ step = "realloc" /\ step' = "copy"
  /\ room' = IF Needed > DEFAULT_MAX_ARGS THEN Needed ELSE room
  /\ UNCHANGED <<given, i, args, exec_args>>

Copy ==
  /\ step = "copy" /\ step' = "ccache" /\ args' = args \o argv \o <<Opt("NULL")>>
  /\ UNCHANGED <<given, i, room, exec_args>>

(* ccache is the first argument, which is skipped if it is disabled.        *)
Skipped == build.CCACHE /\ br_use_ccache # "1"

Execute ==
  /\ step = "ccache" /\ step' = "exec"
  /\ exec_args' = IF Skipped THEN Tail(args) ELSE args
  /\ UNCHANGED <<given, i, args, room>>

TWNext == CheckUnsafePaths \/ Predefined \/ FloatAbi \/ Fp32Mode \/ ArchCpu \/ SourceDateEpoch
          \/ Pie \/ Relro \/ Realloc \/ Copy \/ Execute

----------------------------------------------------------------------------
(* Properties                                                               *)

(* The steps come in order, and what is executed is there at the end only.  *)
TWTypeOK ==
  /\ args \in Seq(Argument) /\ exec_args \in Seq(Argument) /\ i \in 1..(Len(argv) + 2)
  /\ step \in {"paths", "predef", "float", "fp32", "arch", "epoch", "pie", "relro", "realloc",
               "copy", "ccache", "exec", "exit"}
  /\ step = "paths" => args = <<>>
  /\ exec_args # <<>> <=> step = "exec"

(* Whether the compiler would look in a directory of the build machine: it  *)
(* takes the argument behind an option without a path for its path.         *)
TakesNext(a) == a.opt \in ToSet(unsafe_opts) /\ a.path = "none"
Native ==
  \E k \in DOMAIN argv :
    \/ argv[k].opt \in ToSet(unsafe_opts) /\ argv[k].path = "native"
    \/ TakesNext(argv[k]) /\ k < Len(argv) /\ IsUnsafe(argv[k + 1])

(* No option is followed by an option where its path should be.  (The       *)
(* wrapper would go on in that argument, and miss or misread what follows.) *)
Plausible == \A k \in 1..(Len(argv) - 1) : TakesNext(argv[k]) => argv[k + 1].opt = "file"

(* The compiler runs exactly when no directory of the build machine is used *)
(* and SOURCE_DATE_EPOCH is a date, wherever among the arguments the path   *)
(* is (toolchain-wrapper.c:314).                                            *)
RefusedAsMeant ==
  Plausible => (/\ step = "exec" => ~Native /\ epoch # "invalid"
                /\ step = "exit" => Native \/ epoch = "invalid")

Executed(name) == \E k \in DOMAIN exec_args : exec_args[k].opt = name
Added == SubSeq(exec_args, 1, Len(exec_args) - argc)

(* What is linked as a position independent executable is compiled as one,  *)
(* and is no library, no static program, no relocatable object and no       *)
(* kernel: the wrapper's -pie and -fPIE do not meet an option that says     *)
(* otherwise (toolchain-wrapper.c:416).                                     *)
PieConsistent == step = "exec" =>
  (/\ Opt("-pie") \in ToSet(Added) =>
        /\ \E name \in PositionIndependent : Executed(name)
        /\ \A name \in NoPie \cup {"-shared"} : ~Executed(name)
   /\ Opt("-fPIE") \in ToSet(Added) =>
        \A name \in {"-fno-pie", "-fno-PIE", "-fPIC", "-fpic"} : ~Executed(name))

(* "Skip linker flags when we know we are not linking": no own option of    *)
(* the linker without a file (toolchain-wrapper.c:354).                     *)
LinkerOnlyIfLinking ==
  /\ step = "exec"
  /\ ToSet(Added) \cap {Opt("-Wl,-elf2flt"), Opt("-Wl,-z,now"), Opt("-Wl,-z,relro")} # {}
  => \E k \in DOMAIN argv : argv[k].opt = "file"

(* With soft floats, as far as the last such option says, no mode of the    *)
(* floating point registers is given.                                       *)
FloatConsistent == step = "exec" =>
  LET about == {k \in DOMAIN argv : argv[k].opt \in FloatModes}
      last  == CHOOSE k \in about : \A l \in about : l <= k
  IN  about # {} /\ build.FP32_MODE =>
        (Opt("-mfpBR") \in ToSet(Added) <=> argv[last].opt = "-mhard-float")

(* The pointers fit in the memory for them, the NULL included, with one     *)
(* argument more or less around the limit (toolchain-wrapper.c:491).        *)
Fits == Len(args) <= room

(* The program is the compiler, or ccache with the compiler; its last       *)
(* arguments are those that the wrapper was called with, so that they win   *)
(* over the wrapper's own.                                                  *)
CompilerCalled == step = "exec" =>
  LET cc == IF exec_args[1] = Opt("ccache") THEN Tail(exec_args) ELSE exec_args
  IN  /\ cc[1] = Opt("compiler") /\ IsSuffix(argv \o <<Opt("NULL")>>, cc)
      /\ exec_args[1] = Opt("ccache") <=> (build.CCACHE /\ br_use_ccache = "1")

(* The compiler is called when and as it should be.                         *)
CallRight == TWTypeOK /\ RefusedAsMeant /\ CompilerCalled /\ Fits

(* The options that the wrapper adds agree with those it was given.         *)
FlagsAgree == PieConsistent /\ LinkerOnlyIfLinking /\ FloatConsistent
=============================================================================
