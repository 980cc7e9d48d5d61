----------------------------- MODULE ToolsProofs -----------------------------
(***************************************************************************)
(* The two C programs.  The toolchain wrapper calls the compiler when and  *)
(* as it should, for any number of arguments in any order and all ways to  *)
(* compile the wrapper; and whatever the tree and the table are, a device  *)
(* table that is said to have worked has been applied as it says.          *)
(***************************************************************************)
EXTENDS ToolchainWrapper, MakeDevs, SequenceTheorems, FiniteSetTheorems,
        FunctionTheorems, Induction

----------------------------------------------------------------------------
(* The toolchain wrapper                                                    *)

TWSpec == TWInit /\ [][TWNext]_twvars

-----------------------------------------------------------------------------
(* Sequences of arguments                                                   *)

LEMMA NamesAre ==
  ASSUME NEW cond \in BOOLEAN, NEW S, NEW names \in Seq(S), S \subseteq Options
  PROVE  /\ If(cond, names) \in Seq(Argument)
         /\ Len(If(cond, names)) = IF cond THEN Len(names) ELSE 0
         /\ ToSet(If(cond, names)) = IF cond THEN {Opt(names[k]) : k \in 1..Len(names)} ELSE {}
<1>1. CASE cond
  <2> DEFINE s == [k \in DOMAIN names |-> Opt(names[k])]
  <2>1. DOMAIN names = 1..Len(names) /\ Len(names) \in Nat
    OBVIOUS
  <2>2. \A k \in 1..Len(names) : Opt(names[k]) \in Argument
    BY DEF Opt, Argument
  <2>3. s \in [1..Len(names) -> Argument]
    BY <2>1, <2>2
  <2>4. s \in Seq(Argument) /\ Len(s) = Len(names) /\ DOMAIN s = 1..Len(names)
    BY <2>1, <2>3
  <2>5. If(cond, names) = s
    BY <1>1 DEF If
  <2>6. ToSet(s) = {Opt(names[k]) : k \in 1..Len(names)}
    BY <2>1 DEF ToSet
  <2> HIDE DEF s
  <2>7. QED
    BY <1>1, <2>4, <2>5, <2>6
<1>2. CASE ~cond
  BY <1>2 DEF If, ToSet
<1>3. QED
  BY <1>1, <1>2

LEMMA ConcatIs ==
  ASSUME NEW a \in Seq(Argument), NEW b \in Seq(Argument)
  PROVE  /\ a \o b \in Seq(Argument)
         /\ Len(a \o b) = Len(a) + Len(b)
         /\ ToSet(a \o b) = ToSet(a) \cup ToSet(b)
<1>1. a \o b \in Seq(Argument) /\ Len(a \o b) = Len(a) + Len(b)
  OBVIOUS
<1>2. PICK m \in Nat, n \in Nat : m = Len(a) /\ n = Len(b)
  OBVIOUS
<1>3. /\ \A k \in 1..m : (a \o b)[k] = a[k]
      /\ \A k \in 1..n : (a \o b)[m + k] = b[k]
  BY <1>2
<1>4. DOMAIN a = 1..m /\ DOMAIN b = 1..n /\ DOMAIN (a \o b) = 1..(m + n)
  BY <1>1, <1>2
<1> DEFINE c == a \o b
<1> HIDE DEF c
<1>5. \A k \in 1..(m + n) : k \in 1..m \/ k - m \in 1..n
  BY <1>2
<1>6. ToSet(c) \subseteq ToSet(a) \cup ToSet(b)
  <2>1. SUFFICES ASSUME NEW k \in 1..(m + n)
                 PROVE  c[k] \in ToSet(a) \cup ToSet(b)
    BY <1>4 DEF ToSet, c
  <2>2. CASE k \in 1..m
    BY <2>2, <1>3, <1>4 DEF ToSet, c
  <2>3. CASE k - m \in 1..n
    <3>1. c[m + (k - m)] = b[k - m] /\ m + (k - m) = k
      BY <2>3, <1>3, <1>2 DEF c
    <3>2. QED
      BY <2>3, <3>1, <1>4 DEF ToSet
  <2>4. QED
    BY <2>2, <2>3, <1>5
<1>7. ToSet(a) \subseteq ToSet(c)
  BY <1>2, <1>3, <1>4 DEF ToSet, c
<1>8. ToSet(b) \subseteq ToSet(c)
  <2>1. SUFFICES ASSUME NEW k \in 1..n
                 PROVE  b[k] \in ToSet(c)
    BY <1>4 DEF ToSet
  <2>2. m + k \in 1..(m + n) /\ c[m + k] = b[k]
    BY <1>2, <1>3 DEF c
  <2>3. QED
    BY <2>2, <1>4 DEF ToSet, c
<1>9. QED
  BY <1>1, <1>6, <1>7, <1>8 DEF c

(* The first argument, and what is left without it.                         *)
LEMMA TailConcat ==
  ASSUME NEW a \in Seq(Argument), NEW b \in Seq(Argument), a # <<>>
  PROVE  /\ Tail(a \o b) = Tail(a) \o b
         /\ (a \o b)[1] = a[1]
         /\ a \o b # <<>>
<1>1. PICK m \in Nat, n \in Nat : m = Len(a) /\ n = Len(b) /\ m >= 1
  OBVIOUS
<1> DEFINE c == a \o b
           t == Tail(a) \o b
<1>2. c \in Seq(Argument) /\ Len(c) = m + n
      /\ \A k \in 1..(m + n) : c[k] = IF k <= m THEN a[k] ELSE b[k - m]
  BY <1>1, ConcatProperties
<1>3. Tail(a) \in Seq(Argument) /\ Len(Tail(a)) = m - 1
      /\ \A k \in 1..(m - 1) : Tail(a)[k] = a[k + 1]
  BY <1>1, HeadTailProperties
<1>4. t \in Seq(Argument) /\ Len(t) = m - 1 + n
      /\ \A k \in 1..(m - 1 + n) : t[k] = IF k <= m - 1 THEN Tail(a)[k] ELSE b[k - (m - 1)]
  BY <1>1, <1>3, ConcatProperties
<1>5. c # <<>>
  BY <1>1, <1>2
<1>6. Tail(c) \in Seq(Argument) /\ Len(Tail(c)) = m + n - 1
      /\ \A k \in 1..(m + n - 1) : Tail(c)[k] = c[k + 1]
  BY <1>1, <1>2, <1>5, HeadTailProperties
<1> HIDE DEF c, t
<1>7. \A k \in 1..(m + n - 1) : Tail(c)[k] = t[k]
  <2>1. TAKE k \in 1..(m + n - 1)
  <2>2. k + 1 \in 1..(m + n) /\ k \in 1..(m - 1 + n)
    BY <1>1
  <2>3. CASE k <= m - 1
    <3>1. k \in 1..(m - 1) /\ k + 1 <= m
      BY <2>3, <1>1
    <3>2. QED
      BY <3>1, <2>2, <1>2, <1>3, <1>4, <1>6
  <2>4. CASE ~(k <= m - 1)
    <3>1. ~(k + 1 <= m) /\ k + 1 - m = k - (m - 1)
      BY <2>4, <1>1
    <3>2. QED
      BY <3>1, <2>4, <2>2, <1>2, <1>4, <1>6
  <2>5. QED
    BY <2>3, <2>4
<1>8. Tail(c) = t
  <2>1. Len(t) = m + n - 1
    BY <1>1, <1>4
  <2>2. QED
    BY <2>1, <1>4, <1>6, <1>7, SeqEqual
<1>9. c[1] = a[1]
  BY <1>1, <1>2
<1>10. QED
  BY <1>5, <1>8, <1>9 DEF c, t

(* What is appended is at the end.                                          *)
LEMMA SuffixConcat ==
  ASSUME NEW a \in Seq(Argument), NEW b \in Seq(Argument)
  PROVE  /\ IsSuffix(b, a \o b)
         /\ SubSeq(a \o b, 1, Len(a \o b) - Len(b)) = a
<1>1. PICK m \in Nat, n \in Nat : m = Len(a) /\ n = Len(b)
  OBVIOUS
<1> DEFINE c == a \o b
           r == Reverse(b)
           q == Reverse(c)
<1>2. c \in Seq(Argument) /\ Len(c) = m + n
      /\ \A k \in 1..(m + n) : c[k] = IF k <= m THEN a[k] ELSE b[k - m]
  BY <1>1, ConcatProperties
<1> HIDE DEF c
<1>3. r = [k \in 1..n |-> b[n - k + 1]]
  BY <1>1 DEF Reverse
<1>4. q = [k \in 1..(m + n) |-> c[m + n - k + 1]]
  BY <1>2 DEF Reverse
<1>5. r \in Seq(Argument) /\ Len(r) = n
  <2>1. \A k \in 1..n : n - k + 1 \in 1..n
    BY <1>1
  <2>2. \A k \in 1..n : b[k] \in Argument
    BY <1>1
  <2>3. r \in [1..n -> Argument]
    BY <1>3, <2>1, <2>2
  <2>4. QED
    BY <2>3, <1>1
<1>6. q \in Seq(Argument) /\ Len(q) = m + n
  <2>1. \A k \in 1..(m + n) : m + n - k + 1 \in 1..(m + n)
    BY <1>1
  <2>2. \A k \in 1..(m + n) : c[k] \in Argument
    BY <1>2
  <2>3. q \in [1..(m + n) -> Argument]
    BY <1>4, <2>1, <2>2
  <2>4. m + n \in Nat
    BY <1>1
  <2>5. QED
    BY <2>3, <2>4
<1>7. \A k \in 1..n : r[k] = q[k]
  <2>1. TAKE k \in 1..n
  <2>2. k \in 1..(m + n) /\ m + n - k + 1 \in 1..(m + n) /\ ~(m + n - k + 1 <= m)
        /\ m + n - k + 1 - m = n - k + 1
    BY <1>1
  <2>3. q[k] = c[m + n - k + 1] /\ r[k] = b[n - k + 1]
    BY <2>2, <1>3, <1>4
  <2>4. c[m + n - k + 1] = b[m + n - k + 1 - m]
    BY <2>2, <1>2
  <2>5. QED
    BY <2>2, <2>3, <2>4
<1> HIDE DEF r, q
<1> DEFINE front == SubSeq(q, 1, n)
           whole == SubSeq(r, 1, n)
<1>8. /\ front \in Seq(Argument) /\ Len(front) = n
      /\ \A k \in 1..n : front[k] = q[k]
  <2>1. \A k \in 1..n : q[k] \in Argument
    BY <1>1, <1>6
  <2>2. QED
    BY <1>1, <2>1, SubSeqProperties
<1>9. /\ whole \in Seq(Argument) /\ Len(whole) = n
      /\ \A k \in 1..n : whole[k] = r[k]
  <2>1. \A k \in 1..n : r[k] \in Argument
    BY <1>1, <1>5
  <2>2. QED
    BY <1>1, <2>1, SubSeqProperties
<1> HIDE DEF front, whole
<1>10. front = whole
  BY <1>7, <1>8, <1>9, SeqEqual
<1>11. n <= m + n
  BY <1>1
<1>12. IsSuffix(b, c)
  BY <1>5, <1>6, <1>10, <1>11 DEF IsSuffix, IsPrefix, r, q, front, whole
<1> DEFINE p == SubSeq(c, 1, m)
<1>13. /\ p \in Seq(Argument) /\ Len(p) = m
       /\ \A k \in 1..m : p[k] = c[k]
  <2>1. \A k \in 1..m : c[k] \in Argument
    BY <1>1, <1>2
  <2>2. QED
    BY <1>1, <2>1, SubSeqProperties
<1> HIDE DEF p
<1>14. p = a
  <2>1. \A k \in 1..m : p[k] = a[k]
    BY <1>1, <1>2, <1>13
  <2>2. QED
    BY <2>1, <1>1, <1>13, SeqEqual
<1>15. Len(c) - Len(b) = m
  BY <1>1, <1>2
<1>16. QED
  BY <1>12, <1>14, <1>15 DEF c, p

-----------------------------------------------------------------------------
(* The wrapper's own arguments, one group per block of main(), and all that *)
(* args has when a block begins, after s, the arguments up to the sysroot.  *)

Program    == <<Opt("compiler"), Opt("--sysroot"), File("target")>>
FlatArgs   == If(build.FLAT /\ found_nonoption, <<"-Wl,-elf2flt">>)
FloatArgs  == If(build.FLOAT_ABI /\ ~Has({"-mfloat-abi=", "-msoft-float", "-mhard-float"}),
                 <<"-mfloat-abi=BR">>)
Fp32Args   == If(build.FP32_MODE /\ AddFp32, <<"-mfpBR">>)
CpuKnown   == Has({"-march=", "-mtune=", "-mcpu="})
ArchArgs   == IF CpuKnown THEN <<>> ELSE If(build.ARCH, <<"-march=BR">>) \o If(build.CPU, <<"-mcpu=BR">>)
EpochNames == <<"-D__TIME__=", "-D__DATE__=", "-Wno-builtin-macro-redefined">>
EpochArgs  == If(epoch = "valid", EpochNames)
PieArgs    == IF build.PIC_PIE THEN PieFlags ELSE <<>>

AtFloat(s) == s \o FlatArgs
AtFp32(s)  == AtFloat(s) \o FloatArgs
AtArch(s)  == AtFp32(s) \o Fp32Args
AtEpoch(s) == AtArch(s) \o ArchArgs
AtPie(s)   == AtEpoch(s) \o EpochArgs
AtRelro(s) == AtPie(s) \o PieArgs
AtEnd(s)   == AtRelro(s) \o RelroFlags

Ccache == If(build.CCACHE, <<"ccache">>)
Kept   == If(build.CCACHE /\ ~Skipped, <<"ccache">>)
Start  == Ccache \o Program
Called == Kept \o Program
Rest   == argv \o <<Opt("NULL")>>

GoodCall == build \in Build /\ argv \in Seq(Argument)

LEMMA OwnAreOptions == \A name \in OwnOptions : Opt(name) \in Argument /\ name \in Options
  BY OptionsAssumption DEF Opt, Argument

LEMMA NothingIs ==
  ASSUME NEW s, s = <<>>
  PROVE  s \in Seq(Argument) /\ Len(s) = 0 /\ ToSet(s) = {}
<1>1. s \in Seq(Argument) /\ Len(s) = 0
  OBVIOUS
<1>2. ToSet(s) = {}
  BY <1>1 DEF ToSet
<1>3. QED
  BY <1>1, <1>2

(* An option that is there, or not.                                         *)
LEMMA Maybe ==
  ASSUME NEW name \in OwnOptions, NEW s, s = <<>> \/ s = If(TRUE, <<name>>)
  PROVE  /\ s \in Seq(Argument) /\ Len(s) \in 0..1
         /\ s = <<>> => ToSet(s) = {}
         /\ s # <<>> => ToSet(s) = {Opt(name)}
         /\ If(TRUE, <<name>>) # <<>>
<1> DEFINE names == <<name>>
<1>1. names \in Seq(OwnOptions) /\ Len(names) = 1 /\ names[1] = name
  OBVIOUS
<1> HIDE DEF names
<1>2. /\ If(TRUE, names) \in Seq(Argument)
      /\ Len(If(TRUE, names)) = Len(names)
      /\ ToSet(If(TRUE, names)) = {Opt(names[k]) : k \in 1..Len(names)}
  BY <1>1, NamesAre, OptionsAssumption
<1>3. {Opt(names[k]) : k \in 1..Len(names)} = {Opt(name)}
  BY <1>1
<1> DEFINE one == If(TRUE, names)
<1>4. one \in Seq(Argument) /\ Len(one) = 1 /\ ToSet(one) = {Opt(name)}
  BY <1>1, <1>2, <1>3
<1> HIDE DEF one
<1>5. one # <<>>
  BY <1>4
<1>6. (s = <<>> \/ s = one) /\ If(TRUE, <<name>>) = one
  BY DEF names, one
<1>7. CASE s = <<>>
  <2>1. s \in Seq(Argument) /\ Len(s) = 0 /\ ToSet(s) = {}
    BY <1>7, NothingIs
  <2>2. s \in Seq(Argument) /\ Len(s) \in 0..1
    BY <2>1
  <2>3. s = <<>> => ToSet(s) = {}
    BY <2>1
  <2>4. s # <<>> => ToSet(s) = {Opt(name)}
    BY <1>7
  <2>5. If(TRUE, <<name>>) # <<>>
    BY <1>5, <1>6
  <2>6. QED
    BY <2>2, <2>3, <2>4, <2>5
<1>8. CASE s = one
  <2>1. s \in Seq(Argument) /\ Len(s) \in 0..1
    BY <1>4, <1>8
  <2>2. s # <<>> /\ ToSet(s) = {Opt(name)}
    BY <1>4, <1>5, <1>8
  <2>3. If(TRUE, <<name>>) # <<>>
    BY <1>5, <1>6
  <2>4. QED
    BY <2>1, <2>2, <2>3
<1>9. QED
  BY <1>6, <1>7, <1>8

LEMMA ProgramIs ==
  /\ Program \in Seq(Argument) /\ Len(Program) = 3
  /\ Program # <<>> /\ Program[1] = Opt("compiler")
  /\ ToSet(Program) = {Opt("compiler"), Opt("--sysroot"), File("target")}
<1>1. /\ Opt("compiler") \in Argument /\ Opt("--sysroot") \in Argument
      /\ File("target") \in Argument
  BY OptionsAssumption DEF OwnOptions, Opt, File, With, Argument
<1> DEFINE a == Opt("compiler")
           b == Opt("--sysroot")
           c == File("target")
           s == <<a, b, c>>
<1> HIDE DEF a, b, c
<1>2. s \in Seq(Argument) /\ Len(s) = 3 /\ s[1] = a /\ s[2] = b /\ s[3] = c
  BY <1>1 DEF a, b, c
<1> HIDE DEF s
<1>3. DOMAIN s = 1..3
  BY <1>2
<1>4. ToSet(s) = {a, b, c}
  BY <1>2, <1>3 DEF ToSet
<1>5. s # <<>>
  BY <1>2
<1>6. Program = s
  BY DEF Program, s, a, b, c
<1>7. QED
  BY <1>2, <1>4, <1>5, <1>6 DEF a, b, c

LEMMA EpochIs ==
  /\ EpochArgs \in Seq(Argument) /\ Len(EpochArgs) \in 0..3
  /\ ToSet(EpochArgs) \subseteq {Opt("-D__TIME__="), Opt("-D__DATE__="), Opt("-Wno-builtin-macro-redefined")}
<1>1. EpochNames \in Seq(OwnOptions) /\ Len(EpochNames) = 3
      /\ EpochNames[1] = "-D__TIME__=" /\ EpochNames[2] = "-D__DATE__="
      /\ EpochNames[3] = "-Wno-builtin-macro-redefined"
  BY DEF EpochNames, OwnOptions
<1>2. (epoch = "valid") \in BOOLEAN
  OBVIOUS
<1>3. /\ EpochArgs \in Seq(Argument)
      /\ Len(EpochArgs) = IF epoch = "valid" THEN Len(EpochNames) ELSE 0
      /\ ToSet(EpochArgs) = IF epoch = "valid" THEN {Opt(EpochNames[k]) : k \in 1..Len(EpochNames)}
                            ELSE {}
  BY <1>1, <1>2, NamesAre, OptionsAssumption DEF EpochArgs
<1>4. \A k \in 1..3 : EpochNames[k] \in {"-D__TIME__=", "-D__DATE__=", "-Wno-builtin-macro-redefined"}
  BY <1>1
<1>5. QED
  BY <1>1, <1>3, <1>4

(* What each block adds.                                                    *)
LEMMA GroupsAre ==
  ASSUME GoodCall
  PROVE  /\ FlatArgs \in Seq(Argument) /\ Len(FlatArgs) \in 0..1
         /\ ToSet(FlatArgs) = IF build.FLAT /\ found_nonoption THEN {Opt("-Wl,-elf2flt")} ELSE {}
         /\ FloatArgs \in Seq(Argument) /\ Len(FloatArgs) \in 0..1
         /\ ToSet(FloatArgs) \subseteq {Opt("-mfloat-abi=BR")}
         /\ Fp32Args \in Seq(Argument) /\ Len(Fp32Args) \in 0..1
         /\ ToSet(Fp32Args) = IF build.FP32_MODE /\ AddFp32 THEN {Opt("-mfpBR")} ELSE {}
         /\ ArchArgs \in Seq(Argument) /\ Len(ArchArgs) \in 0..2
         /\ ToSet(ArchArgs) \subseteq {Opt("-march=BR"), Opt("-mcpu=BR")}
<1>1. /\ "-Wl,-elf2flt" \in OwnOptions /\ "-mfloat-abi=BR" \in OwnOptions /\ "-mfpBR" \in OwnOptions
      /\ "-march=BR" \in OwnOptions /\ "-mcpu=BR" \in OwnOptions
  BY DEF OwnOptions
<1>2. /\ FlatArgs \in Seq(Argument) /\ Len(FlatArgs) \in 0..1
      /\ ToSet(FlatArgs) = IF build.FLAT /\ found_nonoption THEN {Opt("-Wl,-elf2flt")} ELSE {}
  <2>1. CASE build.FLAT /\ found_nonoption
    <3>1. FlatArgs = If(TRUE, <<"-Wl,-elf2flt">>)
      BY <2>1 DEF FlatArgs, If
    <3>2. QED
      BY <1>1, <2>1, <3>1, Maybe
  <2>2. CASE ~(build.FLAT /\ found_nonoption)
    <3>1. FlatArgs = <<>>
      BY <2>2 DEF FlatArgs, If
    <3>2. QED
      BY <1>1, <2>2, <3>1, Maybe
  <2>3. QED
    BY <2>1, <2>2
<1>3. /\ FloatArgs \in Seq(Argument) /\ Len(FloatArgs) \in 0..1
      /\ ToSet(FloatArgs) \subseteq {Opt("-mfloat-abi=BR")}
  <2>1. CASE build.FLOAT_ABI /\ ~Has({"-mfloat-abi=", "-msoft-float", "-mhard-float"})
    <3>1. FloatArgs = If(TRUE, <<"-mfloat-abi=BR">>)
      BY <2>1 DEF FloatArgs, If
    <3>2. QED
      BY <1>1, <2>1, <3>1, Maybe
  <2>2. CASE ~(build.FLOAT_ABI /\ ~Has({"-mfloat-abi=", "-msoft-float", "-mhard-float"}))
    <3>1. FloatArgs = <<>>
      BY <2>2 DEF FloatArgs, If
    <3>2. QED
      BY <1>1, <2>2, <3>1, Maybe
  <2>3. QED
    BY <2>1, <2>2
<1>4. /\ Fp32Args \in Seq(Argument) /\ Len(Fp32Args) \in 0..1
      /\ ToSet(Fp32Args) = IF build.FP32_MODE /\ AddFp32 THEN {Opt("-mfpBR")} ELSE {}
  <2>1. CASE build.FP32_MODE /\ AddFp32
    <3>1. Fp32Args = If(TRUE, <<"-mfpBR">>)
      BY <2>1 DEF Fp32Args, If
    <3>2. QED
      BY <1>1, <2>1, <3>1, Maybe
  <2>2. CASE ~(build.FP32_MODE /\ AddFp32)
    <3>1. Fp32Args = <<>>
      BY <2>2 DEF Fp32Args, If
    <3>2. QED
      BY <1>1, <2>2, <3>1, Maybe
  <2>3. QED
    BY <2>1, <2>2
<1>5. /\ ArchArgs \in Seq(Argument) /\ Len(ArchArgs) \in 0..2
      /\ ToSet(ArchArgs) \subseteq {Opt("-march=BR"), Opt("-mcpu=BR")}
  <2>1. CASE CpuKnown
    BY <2>1, NothingIs DEF ArchArgs
  <2>2. CASE ~CpuKnown
    <3> DEFINE a == If(build.ARCH, <<"-march=BR">>)
               b == If(build.CPU, <<"-mcpu=BR">>)
    <3>1. /\ a = <<>> \/ a = If(TRUE, <<"-march=BR">>)
          /\ b = <<>> \/ b = If(TRUE, <<"-mcpu=BR">>)
      BY DEF If
    <3>2. a \in Seq(Argument) /\ Len(a) \in 0..1 /\ ToSet(a) \subseteq {Opt("-march=BR")}
      BY <1>1, <3>1, Maybe
    <3>3. b \in Seq(Argument) /\ Len(b) \in 0..1 /\ ToSet(b) \subseteq {Opt("-mcpu=BR")}
      BY <1>1, <3>1, Maybe
    <3>4. ArchArgs = a \o b
      BY <2>2 DEF ArchArgs
    <3> HIDE DEF a, b
    <3>5. QED
      BY <3>2, <3>3, <3>4, ConcatIs
  <2>3. QED
    BY <2>1, <2>2
<1>6. QED
  BY <1>2, <1>3, <1>4, <1>5

(* BR2_PIC_PIE and BR2_RELRO.                                               *)
LEMMA LinkedAs ==
  ASSUME GoodCall
  PROVE  /\ PieArgs \in Seq(Argument) /\ Len(PieArgs) \in 0..2
         /\ ToSet(PieArgs) \subseteq {Opt("-fPIE"), Opt("-pie")}
         /\ Opt("-pie") \in ToSet(PieArgs) => ~Has(NoPie) /\ ~Has({"-shared"})
         /\ Opt("-pie") \in ToSet(PieArgs) /\ ~Has(PositionIndependent) => Opt("-fPIE") \in ToSet(PieArgs)
         /\ Opt("-fPIE") \in ToSet(PieArgs) => ~Has(NoPie) /\ ~Has(PositionIndependent)
         /\ RelroFlags \in Seq(Argument) /\ Len(RelroFlags) \in 0..2
         /\ ToSet(RelroFlags) \subseteq {Opt("-Wl,-z,now"), Opt("-Wl,-z,relro")}
         /\ ToSet(RelroFlags) # {} => found_nonoption
<1>1. /\ "-fPIE" \in OwnOptions /\ "-pie" \in OwnOptions
      /\ "-Wl,-z,now" \in OwnOptions /\ "-Wl,-z,relro" \in OwnOptions
  BY DEF OwnOptions
<1>2. Opt("-fPIE") # Opt("-pie")
  BY DEF Opt
<1>3. /\ PieArgs \in Seq(Argument) /\ Len(PieArgs) \in 0..2
      /\ ToSet(PieArgs) \subseteq {Opt("-fPIE"), Opt("-pie")}
      /\ Opt("-pie") \in ToSet(PieArgs) => ~Has(NoPie) /\ ~Has({"-shared"})
      /\ Opt("-pie") \in ToSet(PieArgs) /\ ~Has(PositionIndependent) => Opt("-fPIE") \in ToSet(PieArgs)
      /\ Opt("-fPIE") \in ToSet(PieArgs) => ~Has(NoPie) /\ ~Has(PositionIndependent)
  <2>1. CASE ~build.PIC_PIE \/ Has(NoPie)
    <3>1. PieArgs = <<>>
      BY <2>1 DEF PieArgs, PieFlags
    <3>2. QED
      BY <3>1, NothingIs
  <2>2. CASE build.PIC_PIE /\ ~Has(NoPie)
    <3> DEFINE a == If(~Has(PositionIndependent), <<"-fPIE">>)
               b == If(~Has({"-shared"}), <<"-pie">>)
    <3>2. PieArgs = a \o b
      BY <2>2 DEF PieArgs, PieFlags
    <3>3. /\ a = IF Has(PositionIndependent) THEN <<>> ELSE If(TRUE, <<"-fPIE">>)
          /\ b = IF Has({"-shared"}) THEN <<>> ELSE If(TRUE, <<"-pie">>)
      BY DEF If
    <3> HIDE DEF a, b
    <3>1. a \in Seq(Argument) /\ Len(a) \in 0..1
          /\ ToSet(a) = IF Has(PositionIndependent) THEN {} ELSE {Opt("-fPIE")}
      BY <1>1, <3>3, Maybe
    <3>4. b \in Seq(Argument) /\ Len(b) \in 0..1
          /\ ToSet(b) = IF Has({"-shared"}) THEN {} ELSE {Opt("-pie")}
      BY <1>1, <3>3, Maybe
    <3> HIDE DEF a, b
    <3>5. PieArgs \in Seq(Argument) /\ Len(PieArgs) \in 0..2 /\ ToSet(PieArgs) = ToSet(a) \cup ToSet(b)
      BY <3>2, <3>1, <3>4, ConcatIs
    <3>6. QED
      BY <1>2, <2>2, <3>1, <3>4, <3>5
  <2>3. QED
    BY <2>1, <2>2
<1>4. /\ RelroFlags \in Seq(Argument) /\ Len(RelroFlags) \in 0..2
      /\ ToSet(RelroFlags) \subseteq {Opt("-Wl,-z,now"), Opt("-Wl,-z,relro")}
      /\ ToSet(RelroFlags) # {} => found_nonoption
  <2>1. CASE own_kernel \/ ~found_nonoption
    <3>1. RelroFlags = <<>>
      BY <2>1 DEF RelroFlags
    <3>2. RelroFlags \in Seq(Argument) /\ Len(RelroFlags) = 0 /\ ToSet(RelroFlags) = {}
      BY <3>1, NothingIs
    <3>3. QED
      BY <3>2
  <2>2. CASE ~own_kernel /\ found_nonoption
    <3> DEFINE a == If(build.RELRO = "full", <<"-Wl,-z,now">>)
               b == If(build.RELRO # "none", <<"-Wl,-z,relro">>)
    <3>1. /\ a = <<>> \/ a = If(TRUE, <<"-Wl,-z,now">>)
          /\ b = <<>> \/ b = If(TRUE, <<"-Wl,-z,relro">>)
      BY DEF If
    <3>2. RelroFlags = a \o b
      BY <2>2 DEF RelroFlags
    <3>3. a \in Seq(Argument) /\ Len(a) \in 0..1 /\ ToSet(a) \subseteq {Opt("-Wl,-z,now")}
      BY <1>1, <3>1, Maybe
    <3>4. b \in Seq(Argument) /\ Len(b) \in 0..1 /\ ToSet(b) \subseteq {Opt("-Wl,-z,relro")}
      BY <1>1, <3>1, Maybe
    <3> HIDE DEF a, b
    <3>5. /\ a \o b \in Seq(Argument) /\ Len(a \o b) = Len(a) + Len(b)
          /\ ToSet(a \o b) = ToSet(a) \cup ToSet(b)
      BY <3>3, <3>4, ConcatIs
    <3>6. Len(RelroFlags) \in 0..2
      <4>1. PICK m \in 0..1, n \in 0..1 : m = Len(a) /\ n = Len(b)
        BY <3>3, <3>4
      <4>2. Len(RelroFlags) = m + n
        BY <3>2, <3>5, <4>1
      <4>3. m + n \in 0..2
        OBVIOUS
      <4>4. QED
        BY <4>2, <4>3
    <3>7. /\ RelroFlags \in Seq(Argument) /\ Len(RelroFlags) \in 0..2
          /\ ToSet(RelroFlags) = ToSet(a) \cup ToSet(b)
      BY <3>2, <3>5, <3>6
    <3>8. QED
      BY <2>2, <3>3, <3>4, <3>7
  <2>3. QED
    BY <2>1, <2>2
<1>5. QED
  BY <1>3, <1>4

(* All of them fit into 16 pointers.                                        *)
LEMMA OwnFit ==
  ASSUME GoodCall, NEW s \in Seq(Argument), Len(s) \in 0..4
  PROVE  /\ AtFloat(s) \in Seq(Argument) /\ Len(AtFloat(s)) \in 0..5
         /\ AtFp32(s) \in Seq(Argument) /\ Len(AtFp32(s)) \in 0..6
         /\ AtArch(s) \in Seq(Argument) /\ Len(AtArch(s)) \in 0..7
         /\ AtEpoch(s) \in Seq(Argument) /\ Len(AtEpoch(s)) \in 0..9
         /\ AtPie(s) \in Seq(Argument) /\ Len(AtPie(s)) \in 0..12
         /\ AtRelro(s) \in Seq(Argument) /\ Len(AtRelro(s)) \in 0..14
         /\ AtEnd(s) \in Seq(Argument) /\ Len(AtEnd(s)) \in 0..16
<1>1. AtFloat(s) \in Seq(Argument) /\ Len(AtFloat(s)) = Len(s) + Len(FlatArgs)
  BY GroupsAre, ConcatIs DEF AtFloat
<1>2. AtFp32(s) \in Seq(Argument) /\ Len(AtFp32(s)) = Len(AtFloat(s)) + Len(FloatArgs)
  BY <1>1, GroupsAre, ConcatIs DEF AtFp32
<1>3. AtArch(s) \in Seq(Argument) /\ Len(AtArch(s)) = Len(AtFp32(s)) + Len(Fp32Args)
  BY <1>2, GroupsAre, ConcatIs DEF AtArch
<1>4. AtEpoch(s) \in Seq(Argument) /\ Len(AtEpoch(s)) = Len(AtArch(s)) + Len(ArchArgs)
  BY <1>3, GroupsAre, ConcatIs DEF AtEpoch
<1>5. AtPie(s) \in Seq(Argument) /\ Len(AtPie(s)) = Len(AtEpoch(s)) + Len(EpochArgs)
  BY <1>4, EpochIs, ConcatIs DEF AtPie
<1>6. AtRelro(s) \in Seq(Argument) /\ Len(AtRelro(s)) = Len(AtPie(s)) + Len(PieArgs)
  BY <1>5, LinkedAs, ConcatIs DEF AtRelro
<1>7. AtEnd(s) \in Seq(Argument) /\ Len(AtEnd(s)) = Len(AtRelro(s)) + Len(RelroFlags)
  BY <1>6, LinkedAs, ConcatIs DEF AtEnd
<1>8. PICK k0 \in 0..4 : k0 = Len(s)
  OBVIOUS
<1>9. PICK k1 \in 0..1, k2 \in 0..1, k3 \in 0..1, k4 \in 0..2 :
        k1 = Len(FlatArgs) /\ k2 = Len(FloatArgs) /\ k3 = Len(Fp32Args) /\ k4 = Len(ArchArgs)
  BY GroupsAre
<1>10. PICK k5 \in 0..3, k6 \in 0..2, k7 \in 0..2 :
        k5 = Len(EpochArgs) /\ k6 = Len(PieArgs) /\ k7 = Len(RelroFlags)
  BY EpochIs, LinkedAs
<1>11. /\ k0 + k1 \in 0..5 /\ k0 + k1 + k2 \in 0..6 /\ k0 + k1 + k2 + k3 \in 0..7
       /\ k0 + k1 + k2 + k3 + k4 \in 0..9 /\ k0 + k1 + k2 + k3 + k4 + k5 \in 0..12
       /\ k0 + k1 + k2 + k3 + k4 + k5 + k6 \in 0..14
       /\ k0 + k1 + k2 + k3 + k4 + k5 + k6 + k7 \in 0..16
  OBVIOUS
<1>12. QED
  BY <1>1, <1>2, <1>3, <1>4, <1>5, <1>6, <1>7, <1>8, <1>9, <1>10, <1>11

(* What is among them.                                                      *)
LEMMA OwnAre ==
  ASSUME GoodCall, NEW s \in Seq(Argument), Len(s) \in 0..4
  PROVE  ToSet(AtEnd(s)) = ToSet(s) \cup ToSet(FlatArgs) \cup ToSet(FloatArgs) \cup ToSet(Fp32Args)
                           \cup ToSet(ArchArgs) \cup ToSet(EpochArgs) \cup ToSet(PieArgs)
                           \cup ToSet(RelroFlags)
<1>1. ToSet(AtFloat(s)) = ToSet(s) \cup ToSet(FlatArgs)
  BY OwnFit, GroupsAre, ConcatIs DEF AtFloat
<1>2. ToSet(AtFp32(s)) = ToSet(AtFloat(s)) \cup ToSet(FloatArgs)
  BY OwnFit, GroupsAre, ConcatIs DEF AtFp32
<1>3. ToSet(AtArch(s)) = ToSet(AtFp32(s)) \cup ToSet(Fp32Args)
  BY OwnFit, GroupsAre, ConcatIs DEF AtArch
<1>4. ToSet(AtEpoch(s)) = ToSet(AtArch(s)) \cup ToSet(ArchArgs)
  BY OwnFit, GroupsAre, ConcatIs DEF AtEpoch
<1>5. ToSet(AtPie(s)) = ToSet(AtEpoch(s)) \cup ToSet(EpochArgs)
  BY OwnFit, EpochIs, ConcatIs DEF AtPie
<1>6. ToSet(AtRelro(s)) = ToSet(AtPie(s)) \cup ToSet(PieArgs)
  BY OwnFit, LinkedAs, ConcatIs DEF AtRelro
<1>7. ToSet(AtEnd(s)) = ToSet(AtRelro(s)) \cup ToSet(RelroFlags)
  BY OwnFit, LinkedAs, ConcatIs DEF AtEnd
<1>8. QED
  BY <1>1, <1>2, <1>3, <1>4, <1>5, <1>6, <1>7

(* The first of them is that of s, and the others do not depend on it.      *)
LEMMA OwnFirst ==
  ASSUME GoodCall, NEW s \in Seq(Argument), Len(s) \in 0..4, s # <<>>
  PROVE  /\ AtEnd(s) # <<>> /\ AtEnd(s)[1] = s[1]
         /\ Tail(AtEnd(s)) = AtEnd(Tail(s))
<1>0. /\ AtFloat(s) \in Seq(Argument) /\ AtFp32(s) \in Seq(Argument) /\ AtArch(s) \in Seq(Argument)
      /\ AtEpoch(s) \in Seq(Argument) /\ AtPie(s) \in Seq(Argument) /\ AtRelro(s) \in Seq(Argument)
  BY OwnFit
<1>1. /\ AtFloat(s) # <<>> /\ AtFloat(s)[1] = s[1]
      /\ Tail(AtFloat(s)) = AtFloat(Tail(s))
  BY GroupsAre, TailConcat DEF AtFloat
<1>2. AtFp32(s) # <<>> /\ AtFp32(s)[1] = s[1] /\ Tail(AtFp32(s)) = AtFp32(Tail(s))
  <2>1. LET a == AtFloat(s)
        IN  /\ a \o FloatArgs # <<>> /\ (a \o FloatArgs)[1] = a[1]
            /\ Tail(a \o FloatArgs) = Tail(a) \o FloatArgs
    BY <1>0, <1>1, GroupsAre, TailConcat
  <2>2. QED
    BY <1>1, <2>1 DEF AtFp32
<1>3. AtArch(s) # <<>> /\ AtArch(s)[1] = s[1] /\ Tail(AtArch(s)) = AtArch(Tail(s))
  <2>1. LET a == AtFp32(s)
        IN  /\ a \o Fp32Args # <<>> /\ (a \o Fp32Args)[1] = a[1]
            /\ Tail(a \o Fp32Args) = Tail(a) \o Fp32Args
    BY <1>0, <1>2, GroupsAre, TailConcat
  <2>2. QED
    BY <1>2, <2>1 DEF AtArch
<1>4. AtEpoch(s) # <<>> /\ AtEpoch(s)[1] = s[1] /\ Tail(AtEpoch(s)) = AtEpoch(Tail(s))
  <2>1. LET a == AtArch(s)
        IN  /\ a \o ArchArgs # <<>> /\ (a \o ArchArgs)[1] = a[1]
            /\ Tail(a \o ArchArgs) = Tail(a) \o ArchArgs
    BY <1>0, <1>3, GroupsAre, TailConcat
  <2>2. QED
    BY <1>3, <2>1 DEF AtEpoch
<1>5. AtPie(s) # <<>> /\ AtPie(s)[1] = s[1] /\ Tail(AtPie(s)) = AtPie(Tail(s))
  <2>1. LET a == AtEpoch(s)
        IN  /\ a \o EpochArgs # <<>> /\ (a \o EpochArgs)[1] = a[1]
            /\ Tail(a \o EpochArgs) = Tail(a) \o EpochArgs
    BY <1>0, <1>4, EpochIs, TailConcat
  <2>2. QED
    BY <1>4, <2>1 DEF AtPie
<1>6. AtRelro(s) # <<>> /\ AtRelro(s)[1] = s[1] /\ Tail(AtRelro(s)) = AtRelro(Tail(s))
  <2>1. LET a == AtPie(s)
        IN  /\ a \o PieArgs # <<>> /\ (a \o PieArgs)[1] = a[1]
            /\ Tail(a \o PieArgs) = Tail(a) \o PieArgs
    BY <1>0, <1>5, LinkedAs, TailConcat
  <2>2. QED
    BY <1>5, <2>1 DEF AtRelro
<1>7. AtEnd(s) # <<>> /\ AtEnd(s)[1] = s[1] /\ Tail(AtEnd(s)) = AtEnd(Tail(s))
  <2>1. LET a == AtRelro(s)
        IN  /\ a \o RelroFlags # <<>> /\ (a \o RelroFlags)[1] = a[1]
            /\ Tail(a \o RelroFlags) = Tail(a) \o RelroFlags
    BY <1>0, <1>6, LinkedAs, TailConcat
  <2>2. QED
    BY <1>6, <2>1 DEF AtEnd
<1>8. QED
  BY <1>7

-----------------------------------------------------------------------------
(* The loops over the arguments                                             *)

(* What the loop over the arguments finds: the last of the two options.     *)
IsLast(last, a, N) ==
  last = [k \in 0..N |-> IF k = 0 THEN "none" ELSE IF a[k].opt \in FloatModes THEN a[k].opt ELSE last[k - 1]]

LEMMA LastExists ==
  ASSUME NEW N \in Nat, NEW a
  PROVE  \E last : IsLast(last, a, N)
<1> DEFINE V == FloatModes \cup {"none"}
           F == [q \in (1..N) \X V |-> IF a[q[1]].opt \in FloatModes THEN a[q[1]].opt ELSE q[2]]
<1>1. F \in [(1..N) \X V -> V] /\ "none" \in V
  OBVIOUS
<1>2. \A k \in 1..N, x \in V : F[<<k, x>>] = IF a[k].opt \in FloatModes THEN a[k].opt ELSE x
  OBVIOUS
<1> HIDE DEF V, F
<1>3. PICK w \in [0..N -> V] : IsSteps(w, "none", F, N)
  BY <1>1, StepByStep
<1>4. \A k \in 0..N : w[k] = IF k = 0 THEN "none" ELSE F[<<k, w[k - 1]>>]
  BY <1>3 DEF IsSteps
<1>5. \A k \in 0..N : w[k] = IF k = 0 THEN "none" ELSE IF a[k].opt \in FloatModes THEN a[k].opt ELSE w[k - 1]
  <2>1. TAKE k \in 0..N
  <2>2. CASE k = 0
    BY <1>4, <2>2
  <2>3. CASE k # 0
    <3>1. k \in 1..N /\ k - 1 \in 0..N
      BY <2>3
    <3>2. w[k - 1] \in V
      BY <3>1
    <3>3. QED
      BY <1>2, <1>4, <2>3, <3>1, <3>2
  <2>4. QED
    BY <2>2, <2>3
<1>6. IsLast(w, a, N)
  BY <1>5 DEF IsLast
<1>7. QED
  BY <1>6

LEMMA LastFound ==
  ASSUME NEW N \in Nat, NEW a, NEW last, IsLast(last, a, N)
  PROVE  LET about == {k \in 1..N : a[k].opt \in FloatModes}
         IN  \/ last[N] = "none" /\ about = {}
             \/ \E k \in about : last[N] = a[k].opt /\ \A h \in about : h <= k
<1> DEFINE About(n) == {k \in 1..n : a[k].opt \in FloatModes}
           Found(n) == \/ last[n] = "none" /\ About(n) = {}
                       \/ \E k \in About(n) : last[n] = a[k].opt /\ \A h \in About(n) : h <= k
           S == {n \in Nat : n <= N => Found(n)}
<1>1. \A k \in 0..N : last[k] = IF k = 0 THEN "none"
                        ELSE IF a[k].opt \in FloatModes THEN a[k].opt ELSE last[k - 1]
  BY DEF IsLast
<1>2. 0 \in S
  <2>1. last[0] = "none" /\ About(0) = {}
    BY <1>1
  <2>2. QED
    BY <2>1
<1>3. ASSUME NEW n \in Nat, n \in S
      PROVE  n + 1 \in S
  <2>1. SUFFICES ASSUME n + 1 <= N
                 PROVE  Found(n + 1)
    OBVIOUS
  <2>2. n + 1 \in 0..N /\ n + 1 # 0 /\ n + 1 - 1 = n
    BY <2>1
  <2>3. last[n + 1] = IF a[n + 1].opt \in FloatModes THEN a[n + 1].opt ELSE last[n]
    BY <1>1, <2>2
  <2>4. CASE a[n + 1].opt \in FloatModes
    <3>1. n + 1 \in About(n + 1) /\ \A h \in About(n + 1) : h <= n + 1
      BY <2>4
    <3>2. QED
      BY <2>3, <2>4, <3>1
  <2>5. CASE a[n + 1].opt \notin FloatModes
    <3>1. About(n + 1) = About(n)
      BY <2>5
    <3>2. Found(n)
      BY <1>3, <2>1
    <3> HIDE DEF About
    <3>3. QED
      BY <2>3, <2>5, <3>1, <3>2
  <2>6. QED
    BY <2>4, <2>5
<1> HIDE DEF S
<1>4. N \in S
  BY <1>2, <1>3, AllNaturals
<1>5. Found(N)
  BY <1>4 DEF S
<1>6. QED
  BY <1>5

LEMMA LastMode ==
  ASSUME argv \in Seq(Argument)
  PROVE  LET about == {k \in DOMAIN argv : argv[k].opt \in FloatModes}
         IN  /\ \A k \in about : (\A h \in about : h <= k)
                  => (AddFp32 <=> argv[k].opt # "-msoft-float")
             /\ about # {} => \E k \in about : \A h \in about : h <= k
<1>1. PICK N \in Nat : N = Len(argv) /\ DOMAIN argv = 1..N
  OBVIOUS
<1> DEFINE last == CHOOSE w : IsLast(w, argv, N)
           about == {k \in 1..N : argv[k].opt \in FloatModes}
<1>2. IsLast(last, argv, N)
  BY LastExists
<1>3. AddFp32 <=> last[N] # "-msoft-float"
  BY <1>1 DEF AddFp32, IsLast
<1> HIDE DEF last
<1>4. \/ last[N] = "none" /\ about = {}
      \/ \E k \in about : last[N] = argv[k].opt /\ \A h \in about : h <= k
  BY <1>2, LastFound
<1>5. ASSUME NEW k \in about, \A h \in about : h <= k
      PROVE  AddFp32 <=> argv[k].opt # "-msoft-float"
  <2>1. PICK m \in about : last[N] = argv[m].opt /\ \A h \in about : h <= m
    BY <1>4
  <2>2. k <= m /\ m <= k /\ k \in Nat /\ m \in Nat
    BY <1>5, <2>1
  <2>3. m = k
    BY <2>2
  <2>4. QED
    BY <1>3, <2>1, <2>3
<1>6. about # {} => \E k \in about : \A h \in about : h <= k
  BY <1>4
<1>7. QED
  BY <1>1, <1>5, <1>6

(* The loop over unsafe_opts.                                               *)
Looks == [i : Nat, left : {"no", "end", "unsafe"}]
IsLook(at, k) == at = [n \in 0..5 |-> IF n = 0 THEN Here(k, FALSE) ELSE Look(at[n - 1], unsafe_opts[n])]

LEMMA UnsafeOpts ==
  /\ Len(unsafe_opts) = 5
  /\ ToSet(unsafe_opts) = {"-I", "-idirafter", "-iquote", "-isystem", "-L"}
  /\ \A n \in 1..5 : unsafe_opts[n] \in ToSet(unsafe_opts)
  /\ \A o \in ToSet(unsafe_opts) : \E n \in 1..5 : unsafe_opts[n] = o
<1>1. /\ Len(unsafe_opts) = 5 /\ DOMAIN unsafe_opts = 1..5
      /\ unsafe_opts[1] = "-I" /\ unsafe_opts[2] = "-idirafter" /\ unsafe_opts[3] = "-iquote"
      /\ unsafe_opts[4] = "-isystem" /\ unsafe_opts[5] = "-L"
  BY DEF unsafe_opts
<1>2. \A n \in 1..5 : n = 1 \/ n = 2 \/ n = 3 \/ n = 4 \/ n = 5
  OBVIOUS
<1>3. ToSet(unsafe_opts) = {"-I", "-idirafter", "-iquote", "-isystem", "-L"}
  BY <1>1, <1>2 DEF ToSet
<1>4. QED
  BY <1>1, <1>3 DEF ToSet

LEMMA LookTyped ==
  ASSUME NEW at \in Looks, NEW o
  PROVE  Look(at, o) \in Looks
  BY DEF Look, Looks, Here

LEMMA LookExists ==
  ASSUME NEW k \in Nat
  PROVE  \E at \in [0..5 -> Looks] : IsLook(at, k)
<1> DEFINE F == [q \in (1..5) \X Looks |-> Look(q[2], unsafe_opts[q[1]])]
<1>1. F \in [(1..5) \X Looks -> Looks]
  BY LookTyped
<1>2. \A n \in 1..5, x \in Looks : F[<<n, x>>] = Look(x, unsafe_opts[n])
  OBVIOUS
<1>3. Here(k, FALSE) \in Looks
  BY DEF Here, Looks
<1> HIDE DEF F
<1>4. PICK w \in [0..5 -> Looks] : IsSteps(w, Here(k, FALSE), F, 5)
  BY <1>1, <1>3, StepByStep
<1>5. \A n \in 0..5 : w[n] = IF n = 0 THEN Here(k, FALSE) ELSE F[<<n, w[n - 1]>>]
  BY <1>4 DEF IsSteps
<1>6. \A n \in 0..5 : w[n] = IF n = 0 THEN Here(k, FALSE) ELSE Look(w[n - 1], unsafe_opts[n])
  <2>1. TAKE n \in 0..5
  <2>2. CASE n = 0
    BY <1>5, <2>2
  <2>3. CASE n # 0
    <3>1. n \in 1..5 /\ n - 1 \in 0..5
      BY <2>3
    <3>2. w[n - 1] \in Looks
      BY <3>1
    <3>3. QED
      BY <1>2, <1>5, <2>3, <3>1, <3>2
  <2>4. QED
    BY <2>2, <2>3
<1>7. IsLook(w, k)
  BY <1>6 DEF IsLook
<1>8. QED
  BY <1>7

(* Nothing in argument j makes the compiler look into the build machine.    *)
Safe(j) ==
  /\ argv[j].opt \in ToSet(unsafe_opts) => argv[j].path # "native"
  /\ TakesNext(argv[j]) /\ j < Len(argv) => ~IsUnsafe(argv[j + 1])

LEMMA NativeIs ==
  ASSUME NEW N \in Nat, DOMAIN argv = 1..N, N = Len(argv)
  PROVE  Native <=> \E j \in 1..N : ~Safe(j)
  BY DEF Native, Safe

(* What holds of the loops whatever the arguments are, and what does when   *)
(* no option is where a path should be; m options have been looked for.     *)
Rough(at, k, N) ==
  /\ at \in Looks /\ at.i \in k..(N + 1)
  /\ at.left = "no" => at.i \in k..N
  /\ at.left = "unsafe" => Native
Nothing(at, k, m) ==
  /\ at.i = k /\ at.left = "no"
  /\ \A n \in 1..m : argv[k].opt = unsafe_opts[n] => argv[k].path \notin {"native", "none"}
PathTo(at, k, N) ==
  /\ at.i = k + 1 /\ at.left = "no" /\ k < N
  /\ TakesNext(argv[k]) /\ argv[k + 1].opt = "file" /\ ~IsUnsafe(argv[k + 1])
NoPath(at, k, N) == at.i = k + 1 /\ at.left = "end" /\ k = N /\ TakesNext(argv[k])
Fine(at, k, m, N) ==
  at.left = "unsafe" \/ Nothing(at, k, m) \/ PathTo(at, k, N) \/ NoPath(at, k, N)

LEMMA RoughLook ==
  ASSUME NEW N \in Nat, argv \in Seq(Argument), N = Len(argv), NEW k \in 1..N,
         NEW at, Rough(at, k, N), NEW o \in ToSet(unsafe_opts)
  PROVE  Rough(Look(at, o), k, N)
<1>0. DOMAIN argv = 1..N /\ \A j \in 1..N : argv[j] \in Argument
  OBVIOUS
<1>1. at \in Looks /\ Look(at, o) \in Looks
  BY LookTyped DEF Rough
<1>2. CASE at.left # "no" \/ argv[at.i].opt # o
  BY <1>2 DEF Look, Rough
<1>3. CASE at.left = "no" /\ argv[at.i].opt = o
  <2>1. at.i \in k..N /\ at.i \in 1..N
    BY <1>3 DEF Rough
  <2>2. CASE argv[at.i].path # "none"
    <3>1. Look(at, o) = Here(at.i, argv[at.i].path = "native")
      BY <1>3, <2>2 DEF Look
    <3>2. CASE argv[at.i].path = "native"
      <4>1. Look(at, o) = [i |-> at.i, left |-> "unsafe"]
        BY <3>1, <3>2 DEF Here
      <4>2. ~Safe(at.i)
        BY <1>3, <3>2 DEF Safe
      <4>3. Native
        BY <1>0, <2>1, <4>2, NativeIs
      <4>4. Look(at, o).i = at.i /\ Look(at, o).left = "unsafe"
        BY <4>1
      <4>5. QED
        BY <1>1, <2>1, <4>3, <4>4 DEF Rough
    <3>3. CASE argv[at.i].path # "native"
      <4>1. Look(at, o) = [i |-> at.i, left |-> "no"]
        BY <3>1, <3>3 DEF Here
      <4>2. Look(at, o).i = at.i /\ Look(at, o).left = "no"
        BY <4>1
      <4>3. QED
        BY <1>1, <2>1, <4>2 DEF Rough
    <3>4. QED
      BY <3>2, <3>3
  <2>3. CASE argv[at.i].path = "none" /\ at.i = N
    <3>1. Look(at, o) = [i |-> at.i + 1, left |-> "end"]
      BY <1>3, <2>3 DEF Look
    <3>2. Look(at, o).i = N + 1 /\ Look(at, o).left = "end"
      BY <2>3, <3>1
    <3>3. QED
      BY <1>1, <2>1, <3>2 DEF Rough
  <2>4. CASE argv[at.i].path = "none" /\ at.i # N
    <3>1. Look(at, o) = Here(at.i + 1, IsUnsafe(argv[at.i + 1]))
      BY <1>3, <2>4 DEF Look
    <3>2. at.i + 1 \in k..N /\ at.i < N
      BY <2>1, <2>4
    <3>3. CASE IsUnsafe(argv[at.i + 1])
      <4>1. Look(at, o) = [i |-> at.i + 1, left |-> "unsafe"]
        BY <3>1, <3>3 DEF Here
      <4>2. ~Safe(at.i)
        BY <1>3, <2>4, <3>2, <3>3 DEF Safe, TakesNext
      <4>3. Native
        BY <1>0, <2>1, <4>2, NativeIs
      <4>4. Look(at, o).i = at.i + 1 /\ Look(at, o).left = "unsafe"
        BY <4>1
      <4>5. QED
        BY <1>1, <3>2, <4>3, <4>4 DEF Rough
    <3>4. CASE ~IsUnsafe(argv[at.i + 1])
      <4>1. Look(at, o) = [i |-> at.i + 1, left |-> "no"]
        BY <3>1, <3>4 DEF Here
      <4>2. Look(at, o).i = at.i + 1 /\ Look(at, o).left = "no"
        BY <4>1
      <4>3. QED
        BY <1>1, <3>2, <4>2 DEF Rough
    <3>5. QED
      BY <3>3, <3>4
  <2>5. QED
    BY <2>2, <2>3, <2>4
<1>4. QED
  BY <1>2, <1>3

LEMMA FineLook ==
  ASSUME NEW N \in Nat, argv \in Seq(Argument), N = Len(argv), Plausible, NEW k \in 1..N,
         NEW at \in Looks, NEW m \in 0..4, Fine(at, k, m, N)
  PROVE  Fine(Look(at, unsafe_opts[m + 1]), k, m + 1, N)
<1> DEFINE o == unsafe_opts[m + 1]
           new == Look(at, o)
<1>0. /\ m + 1 \in 1..5
      /\ o \in ToSet(unsafe_opts)
      /\ o # "file"
  <2>1. m + 1 \in 1..5
    OBVIOUS
  <2>2. o \in ToSet(unsafe_opts)
    BY <2>1, UnsafeOpts
  <2>3. QED
    BY <2>1, <2>2, UnsafeOpts
<1>1. CASE at.left # "no"
  <2>1. new = at
    BY <1>1 DEF Look
  <2>2. at.left = "unsafe" \/ NoPath(at, k, N)
    BY <1>1 DEF Fine, Nothing, PathTo
  <2>3. QED
    BY <2>1, <2>2 DEF Fine
<1>2. CASE PathTo(at, k, N)
  <2>1. argv[at.i].opt # o
    BY <1>0, <1>2 DEF PathTo
  <2>2. new = at
    BY <2>1 DEF Look
  <2>3. QED
    BY <1>2, <2>2 DEF Fine
<1>3. CASE Nothing(at, k, m) /\ argv[k].opt # o
  <2>1. new = at
    BY <1>3 DEF Look, Nothing
  <2>2. \A n \in 1..(m + 1) : n \in 1..m \/ n = m + 1
    OBVIOUS
  <2>3. Nothing(at, k, m + 1)
    BY <1>3, <2>2 DEF Nothing
  <2>4. QED
    BY <2>1, <2>3 DEF Fine
<1>4. CASE Nothing(at, k, m) /\ argv[k].opt = o
  <2>0. at.i = k /\ at.left = "no"
    BY <1>4 DEF Nothing
  <2>1. CASE argv[k].path = "native"
    <3>1. new = [i |-> k, left |-> "unsafe"]
      BY <1>4, <2>0, <2>1 DEF Look, Here
    <3>2. new.left = "unsafe"
      BY <3>1
    <3>3. QED
      BY <3>2 DEF Fine
  <2>2. CASE argv[k].path \notin {"native", "none"}
    <3>1. new = [i |-> k, left |-> "no"]
      BY <1>4, <2>0, <2>2 DEF Look, Here
    <3>2. new.i = k /\ new.left = "no"
      BY <3>1
    <3>3. Nothing(new, k, m + 1)
      BY <2>2, <3>2 DEF Nothing
    <3>4. QED
      BY <3>3 DEF Fine
  <2>3. CASE argv[k].path = "none" /\ k = N
    <3>1. new = [i |-> k + 1, left |-> "end"]
      BY <1>4, <2>0, <2>3 DEF Look
    <3>2. new.i = k + 1 /\ new.left = "end"
      BY <3>1
    <3>3. NoPath(new, k, N)
      BY <1>0, <1>4, <2>3, <3>2 DEF NoPath, TakesNext
    <3>4. QED
      BY <3>3 DEF Fine
  <2>4. CASE argv[k].path = "none" /\ k # N
    <3>1. new = Here(k + 1, IsUnsafe(argv[k + 1]))
      BY <1>4, <2>0, <2>4 DEF Look
    <3>2. k < N /\ k \in 1..(N - 1)
      BY <2>4
    <3>3. TakesNext(argv[k])
      BY <1>0, <1>4, <2>4 DEF TakesNext
    <3>4. argv[k + 1].opt = "file"
      BY <3>2, <3>3 DEF Plausible
    <3>5. CASE IsUnsafe(argv[k + 1])
      <4>1. new = [i |-> k + 1, left |-> "unsafe"]
        BY <3>1, <3>5 DEF Here
      <4>2. new.left = "unsafe"
        BY <4>1
      <4>3. QED
        BY <4>2 DEF Fine
    <3>6. CASE ~IsUnsafe(argv[k + 1])
      <4>1. new = [i |-> k + 1, left |-> "no"]
        BY <3>1, <3>6 DEF Here
      <4>2. new.i = k + 1 /\ new.left = "no"
        BY <4>1
      <4>3. PathTo(new, k, N)
        BY <3>2, <3>3, <3>4, <3>6, <4>2 DEF PathTo
      <4>4. QED
        BY <4>3 DEF Fine
    <3>7. QED
      BY <3>5, <3>6
  <2>5. QED
    BY <2>1, <2>2, <2>3, <2>4
<1>5. QED
  BY <1>1, <1>2, <1>3, <1>4 DEF Fine, NoPath

LEMMA LookAtIs ==
  ASSUME NEW N \in Nat, argv \in Seq(Argument), N = Len(argv), NEW k \in 1..N
  PROVE  /\ Rough(LookAt(k), k, N)
         /\ Plausible => Fine(LookAt(k), k, 5, N)
<1> DEFINE at == CHOOSE w : IsLook(w, k)
<1>1. IsLook(at, k)
  BY LookExists
<1>2. LookAt(k) = at[5]
  BY UnsafeOpts DEF LookAt, IsLook
<1> HIDE DEF at
<1>3. at[0] = Here(k, FALSE) /\ \A n \in 1..5 : at[n] = Look(at[n - 1], unsafe_opts[n])
  <2>1. \A n \in 0..5 : at[n] = IF n = 0 THEN Here(k, FALSE) ELSE Look(at[n - 1], unsafe_opts[n])
    BY <1>1 DEF IsLook
  <2>2. at[0] = Here(k, FALSE)
    <3>1. 0 \in 0..5
      OBVIOUS
    <3>2. QED
      BY <2>1, <3>1, Zenon
  <2>3. ASSUME NEW n \in 1..5
        PROVE  at[n] = Look(at[n - 1], unsafe_opts[n])
    <3>1. n \in 0..5 /\ n # 0
      OBVIOUS
    <3>2. QED
      BY <2>1, <3>1
  <2>4. QED
    BY <2>2, <2>3
<1> DEFINE Right(n) == Rough(at[n], k, N) /\ (Plausible => Fine(at[n], k, n, N))
           S == {n \in Nat : n <= 5 => Right(n)}
<1>4. 0 \in S
  <2>1. at[0] = [i |-> k, left |-> "no"]
    BY <1>3 DEF Here
  <2>2. at[0] \in Looks /\ at[0].i = k /\ at[0].left = "no"
    BY <2>1 DEF Looks
  <2>3. Rough(at[0], k, N)
    BY <2>2 DEF Rough
  <2>4. Nothing(at[0], k, 0)
    BY <2>2 DEF Nothing
  <2>5. Right(0)
    BY <2>3, <2>4 DEF Fine
  <2> HIDE DEF Right
  <2>6. QED
    BY <2>5
<1>5. ASSUME NEW n \in Nat, n \in S
      PROVE  n + 1 \in S
  <2>1. SUFFICES ASSUME n + 1 <= 5
                 PROVE  Right(n + 1)
    OBVIOUS
  <2>2. n \in 0..4 /\ n + 1 \in 1..5 /\ n + 1 - 1 = n /\ n <= 5
    BY <2>1
  <2>3. Right(n)
    BY <1>5, <2>2
  <2>4. at[n + 1] = Look(at[n], unsafe_opts[n + 1]) /\ unsafe_opts[n + 1] \in ToSet(unsafe_opts)
    BY <1>3, <2>2, UnsafeOpts
  <2>5. Rough(at[n + 1], k, N)
    BY <2>3, <2>4, RoughLook
  <2>6. ASSUME Plausible PROVE Fine(at[n + 1], k, n + 1, N)
    <3>1. at[n] \in Looks /\ Fine(at[n], k, n, N)
      BY <2>3, <2>6 DEF Rough
    <3>2. QED
      BY <2>2, <2>4, <2>6, <3>1, FineLook
  <2>7. QED
    BY <2>5, <2>6
<1> HIDE DEF S
<1>6. 5 \in S
  BY <1>4, <1>5, AllNaturals
<1>7. Right(5)
  <2> HIDE DEF Right
  <2>1. QED
    BY <1>6 DEF S
<1>8. QED
  BY <1>2, <1>7

(* The arguments that were looked at are safe.                              *)
LEMMA LookedAt ==
  ASSUME NEW N \in Nat, argv \in Seq(Argument), N = Len(argv), NEW k \in 1..N, Plausible,
         LookAt(k).left # "unsafe"
  PROVE  \A j \in k..(LookAt(k).i) : j <= N => Safe(j)
<1> DEFINE at == LookAt(k)
<1>1. Fine(at, k, 5, N)
  BY LookAtIs
<1> HIDE DEF at
<1>2. CASE Nothing(at, k, 5)
  <2>1. argv[k].opt \in ToSet(unsafe_opts) => argv[k].path \notin {"native", "none"}
    BY <1>2, UnsafeOpts DEF Nothing
  <2>2. Safe(k)
    BY <2>1 DEF Safe, TakesNext
  <2>3. at.i = k
    BY <1>2 DEF Nothing
  <2>4. QED
    BY <2>2, <2>3 DEF at
<1>3. CASE PathTo(at, k, N)
  <2>1. Safe(k)
    BY <1>3 DEF PathTo, Safe, TakesNext
  <2>2. "file" \notin ToSet(unsafe_opts)
    BY UnsafeOpts
  <2>3. Safe(k + 1)
    BY <1>3, <2>2 DEF PathTo, Safe, TakesNext
  <2>4. \A j \in k..(k + 1) : j = k \/ j = k + 1
    OBVIOUS
  <2>5. QED
    BY <1>3, <2>1, <2>3, <2>4 DEF PathTo, at
<1>4. CASE NoPath(at, k, N)
  <2>1. argv[k].path # "native" /\ ~(k < N)
    <3>1. k = N /\ argv[k].path = "none"
      BY <1>4 DEF NoPath, TakesNext
    <3>2. QED
      BY <3>1
  <2>2. Safe(k)
    BY <2>1 DEF Safe
  <2>3. \A j \in k..(k + 1) : j <= N => j = k
    BY <2>1
  <2>4. QED
    BY <1>4, <2>2, <2>3 DEF NoPath, at
<1>5. QED
  BY <1>1, <1>2, <1>3, <1>4 DEF Fine, at

-----------------------------------------------------------------------------
(* The invariant                                                            *)

\* What was looked through has no path of the build machine.
Looked ==
  /\ step = "paths" => (Plausible => \A j \in 1..Len(argv) : j < i => Safe(j))
  /\ step \notin {"paths", "exit"} => (Plausible => ~Native)
  /\ step \in {"pie", "relro", "realloc", "copy", "ccache", "exec"} => epoch # "invalid"
  /\ step = "exit" => Native \/ epoch = "invalid"

\* The arguments so far are those of the blocks that were executed.
BlocksDone ==
  /\ step \in {"paths", "predef"} => args = <<>>
  /\ step = "float" => args = AtFloat(Start)
  /\ step = "fp32" => args = AtFp32(Start)
  /\ step = "arch" => args = AtArch(Start)
  /\ step = "epoch" => args = AtEpoch(Start)
  /\ step = "pie" => args = AtPie(Start)
  /\ step = "relro" => args = AtRelro(Start)
  /\ step \in {"realloc", "copy"} => args = AtEnd(Start)
  /\ step = "ccache" => args = AtEnd(Start) \o Rest
  /\ step = "exec" => exec_args = AtEnd(Called) \o Rest

\* The memory is for those and for what is still to come.
Enough ==
  /\ step \notin {"copy", "ccache", "exec"} => room = DEFAULT_MAX_ARGS
  /\ step = "exit" => Len(args) <= 16
  /\ step = "copy" => Len(args) + Len(argv) + 1 <= room
  /\ step \in {"ccache", "exec"} => Len(args) <= room

TWInv ==
  /\ build \in Builds /\ argv \in Arguments
  /\ room \in Nat /\ TWTypeOK /\ Looked /\ BlocksDone /\ Enough

LEMMA GivenIs == TWInv => GoodCall
  BY BuildsAreBuilds, ArgumentsAreArguments DEF TWInv, GoodCall

(* The steps leave alone what the process was given, and so what the blocks *)
(* make of it.                                                              *)
LEMMA SameGroups ==
  ASSUME UNCHANGED given
  PROVE  /\ FlatArgs' = FlatArgs /\ FloatArgs' = FloatArgs /\ Fp32Args' = Fp32Args
         /\ ArchArgs' = ArchArgs /\ EpochArgs' = EpochArgs /\ PieArgs' = PieArgs
         /\ RelroFlags' = RelroFlags /\ Start' = Start /\ Called' = Called /\ Rest' = Rest
         /\ Native' = Native /\ Plausible' = Plausible
<1>0. build' = build /\ argv' = argv /\ epoch' = epoch /\ br_use_ccache' = br_use_ccache
  BY DEF given
<1>1. FlatArgs' = FlatArgs
  BY <1>0 DEF FlatArgs, found_nonoption, Has
<1>2. FloatArgs' = FloatArgs
  BY <1>0 DEF FloatArgs, Has
<1>3. Fp32Args' = Fp32Args
  BY <1>0 DEF Fp32Args, AddFp32
<1>4. ArchArgs' = ArchArgs
  BY <1>0 DEF ArchArgs, CpuKnown, Has
<1>5. EpochArgs' = EpochArgs
  BY <1>0 DEF EpochArgs
<1>6. PieArgs' = PieArgs
  BY <1>0 DEF PieArgs, PieFlags, Has
<1>7. RelroFlags' = RelroFlags
  BY <1>0 DEF RelroFlags, own_kernel, found_nonoption, Has
<1>8. Start' = Start
  BY <1>0 DEF Start, Ccache
<1>9. Called' = Called
  BY <1>0 DEF Called, Kept, Skipped
<1>10. Rest' = Rest
  BY <1>0 DEF Rest
<1>11. Native' = Native /\ Plausible' = Plausible
  BY <1>0 DEF Native, Plausible, TakesNext, IsUnsafe
<1>12. QED
  BY <1>1, <1>2, <1>3, <1>4, <1>5, <1>6, <1>7, <1>8, <1>9, <1>10, <1>11

LEMMA SameOwn ==
  ASSUME UNCHANGED given
  PROVE  /\ AtFloat(Start)' = AtFloat(Start) /\ AtFp32(Start)' = AtFp32(Start)
         /\ AtArch(Start)' = AtArch(Start) /\ AtEpoch(Start)' = AtEpoch(Start)
         /\ AtPie(Start)' = AtPie(Start) /\ AtRelro(Start)' = AtRelro(Start)
         /\ AtEnd(Start)' = AtEnd(Start) /\ AtEnd(Called)' = AtEnd(Called)
<1> USE SameGroups
<1>1. AtFloat(Start)' = AtFloat(Start)
  BY DEF AtFloat
<1>2. AtFp32(Start)' = AtFp32(Start)
  BY DEF AtFp32, AtFloat
<1>3. AtArch(Start)' = AtArch(Start)
  BY DEF AtArch, AtFp32, AtFloat
<1>4. AtEpoch(Start)' = AtEpoch(Start)
  BY DEF AtEpoch, AtArch, AtFp32, AtFloat
<1>5. AtPie(Start)' = AtPie(Start)
  BY DEF AtPie, AtEpoch, AtArch, AtFp32, AtFloat
<1>6. AtRelro(Start)' = AtRelro(Start)
  BY DEF AtRelro, AtPie, AtEpoch, AtArch, AtFp32, AtFloat
<1>7. AtEnd(Start)' = AtEnd(Start)
  BY DEF AtEnd, AtRelro, AtPie, AtEpoch, AtArch, AtFp32, AtFloat
<1>8. AtEnd(Called)' = AtEnd(Called)
  BY DEF AtEnd, AtRelro, AtPie, AtEpoch, AtArch, AtFp32, AtFloat
<1>9. QED
  BY <1>1, <1>2, <1>3, <1>4, <1>5, <1>6, <1>7, <1>8

LEMMA FrontIs ==
  ASSUME NEW cond \in BOOLEAN, NEW c, c = IF cond THEN If(TRUE, <<"ccache">>) ELSE <<>>
  PROVE  /\ c \o Program \in Seq(Argument) /\ Len(c \o Program) \in 0..4 /\ c \o Program # <<>>
         /\ ToSet(c \o Program) \subseteq {Opt("ccache")} \cup ToSet(Program)
         /\ cond => (c \o Program)[1] = Opt("ccache") /\ Tail(c \o Program) = Program
         /\ ~cond => c \o Program = Program
<1>0. "ccache" \in OwnOptions
  BY DEF OwnOptions
<1>1. c \in Seq(Argument) /\ Len(c) \in 0..1 /\ ToSet(c) \subseteq {Opt("ccache")}
  BY <1>0, Maybe
<1>2. PICK m \in 0..1 : m = Len(c)
  BY <1>1
<1>3. c \o Program \in Seq(Argument) /\ Len(c \o Program) = m + 3
      /\ ToSet(c \o Program) = ToSet(c) \cup ToSet(Program)
  BY <1>1, <1>2, ProgramIs, ConcatIs
<1>4. m + 3 \in 0..4 /\ m + 3 # 0
  OBVIOUS
<1>5. Len(c \o Program) \in 0..4 /\ c \o Program # <<>>
  BY <1>3, <1>4
<1>6. ASSUME cond
      PROVE  (c \o Program)[1] = Opt("ccache") /\ Tail(c \o Program) = Program
  <2>1. c = <<Opt("ccache")>>
    <3>1. c = [k \in 1..1 |-> Opt(<<"ccache">>[k])]
      BY <1>6 DEF If
    <3>2. [k \in 1..1 |-> Opt(<<"ccache">>[k])] = [k \in 1..1 |-> Opt("ccache")]
      OBVIOUS
    <3> DEFINE o == Opt("ccache")
    <3> HIDE DEF o
    <3>3. [k \in 1..1 |-> o] = <<o>>
      OBVIOUS
    <3>4. QED
      BY <3>1, <3>2, <3>3 DEF o
  <2>2. c # <<>> /\ c[1] = Opt("ccache") /\ Tail(c) = <<>>
    <3> DEFINE o == Opt("ccache")
    <3> HIDE DEF o
    <3>1. <<o>> # <<>> /\ <<o>>[1] = o /\ Tail(<<o>>) = <<>>
      OBVIOUS
    <3>2. QED
      BY <2>1, <3>1 DEF o
  <2>3. (c \o Program)[1] = c[1] /\ Tail(c \o Program) = Tail(c) \o Program
    BY <1>1, <2>2, ProgramIs, TailConcat
  <2>4. QED
    BY <2>2, <2>3, ProgramIs, ConcatEmptySeq
<1>7. ASSUME ~cond
      PROVE  c \o Program = Program
  BY <1>7, ProgramIs, ConcatEmptySeq
<1>8. QED
  BY <1>1, <1>3, <1>5, <1>6, <1>7

LEMMA FrontsAre ==
  ASSUME GoodCall
  PROVE  /\ Start \in Seq(Argument) /\ Len(Start) \in 0..4 /\ Start # <<>>
         /\ Called \in Seq(Argument) /\ Len(Called) \in 0..4 /\ Called # <<>>
         /\ ToSet(Called) \subseteq {Opt("ccache")} \cup ToSet(Program)
         /\ Skipped => Tail(Start) = Called /\ Called = Program
         /\ ~Skipped => Start = Called
         /\ build.CCACHE /\ ~Skipped => Called[1] = Opt("ccache") /\ Tail(Called) = Program
         /\ ~(build.CCACHE /\ ~Skipped) => Called = Program
<1>1. /\ Start \in Seq(Argument) /\ Len(Start) \in 0..4 /\ Start # <<>>
      /\ build.CCACHE => Tail(Start) = Program
      /\ ~build.CCACHE => Start = Program
  <2>1. CASE build.CCACHE
    <3>1. Ccache = IF TRUE THEN If(TRUE, <<"ccache">>) ELSE <<>>
      BY <2>1 DEF Ccache, If
    <3>2. QED
      BY <2>1, <3>1, FrontIs DEF Start
  <2>2. CASE ~build.CCACHE
    <3>1. Ccache = IF FALSE THEN If(TRUE, <<"ccache">>) ELSE <<>>
      BY <2>2 DEF Ccache, If
    <3>2. QED
      BY <2>2, <3>1, FrontIs DEF Start
  <2>3. QED
    BY <2>1, <2>2
<1>2. /\ Called \in Seq(Argument) /\ Len(Called) \in 0..4 /\ Called # <<>>
      /\ ToSet(Called) \subseteq {Opt("ccache")} \cup ToSet(Program)
      /\ build.CCACHE /\ ~Skipped => Called[1] = Opt("ccache") /\ Tail(Called) = Program
      /\ ~(build.CCACHE /\ ~Skipped) => Called = Program
  <2>1. CASE build.CCACHE /\ ~Skipped
    <3>1. Kept = IF TRUE THEN If(TRUE, <<"ccache">>) ELSE <<>>
      BY <2>1 DEF Kept, If
    <3>2. QED
      BY <2>1, <3>1, FrontIs DEF Called
  <2>2. CASE ~(build.CCACHE /\ ~Skipped)
    <3>1. Kept = IF FALSE THEN If(TRUE, <<"ccache">>) ELSE <<>>
      BY <2>2 DEF Kept, If
    <3>2. QED
      BY <2>2, <3>1, FrontIs DEF Called
  <2>3. QED
    BY <2>1, <2>2
<1>3. Skipped => build.CCACHE
  BY DEF Skipped
<1>4. ~Skipped => Start = Called
  <2>1. ASSUME ~Skipped PROVE Ccache = Kept
    BY <2>1 DEF Ccache, Kept, If
  <2>2. QED
    BY <2>1 DEF Start, Called
<1>5. QED
  BY <1>1, <1>2, <1>3, <1>4

LEMMA InitInv == TWInit => TWInv
<1> SUFFICES ASSUME TWInit PROVE TWInv
  OBVIOUS
<1>1. /\ build \in Builds /\ argv \in Arguments /\ step = "paths" /\ i = 1 /\ args = <<>>
      /\ room = DEFAULT_MAX_ARGS /\ exec_args = <<>>
  BY DEF TWInit
<1>2. PICK N \in Nat : N = Len(argv)
  BY <1>1, ArgumentsAreArguments
<1>3. 1 \in 1..(N + 2)
  OBVIOUS
<1>4. TWTypeOK
  BY <1>1, <1>2, <1>3 DEF TWTypeOK
<1>5. Looked
  BY <1>1, <1>2 DEF Looked
<1>6. BlocksDone /\ Enough
  BY <1>1 DEF BlocksDone, Enough
<1>7. QED
  BY <1>1, <1>4, <1>5, <1>6, RoomForOwn DEF TWInv

Middle == {"float", "fp32", "arch", "epoch", "pie", "relro", "realloc"}

(* What holds after each block that adds arguments.                         *)
LEMMA BlockKeeps ==
  ASSUME TWInv, UNCHANGED <<given, i, room, exec_args>>,
         step \in Middle \cup {"predef"}, step' \in Middle, step # "realloc",
         args' \in Seq(Argument), step' \in {"pie", "relro", "realloc"} => epoch # "invalid"
  PROVE  /\ build' \in Builds /\ argv' \in Arguments /\ room' \in Nat
         /\ TWTypeOK' /\ Looked' /\ Enough'
<1>1. /\ build' = build /\ argv' = argv /\ epoch' = epoch /\ i' = i /\ room' = room
      /\ exec_args' = exec_args /\ UNCHANGED given
  BY DEF given
<1>2. /\ step \notin {"paths", "exit", "exec", "copy", "ccache"}
      /\ step' \notin {"paths", "exit", "exec", "copy", "ccache"}
  BY DEF Middle
<1>3. TWTypeOK'
  <2>1. i' \in 1..(Len(argv') + 2) /\ exec_args' \in Seq(Argument) /\ exec_args = <<>>
    BY <1>1, <1>2 DEF TWInv, TWTypeOK
  <2>2. QED
    BY <1>1, <1>2, <2>1 DEF TWTypeOK, Middle
<1>4. Looked'
  <2>1. Plausible => ~Native
    BY <1>2 DEF TWInv, Looked
  <2>2. Plausible' => ~Native'
    BY <1>1, <2>1, SameGroups
  <2>3. step' \in {"pie", "relro", "realloc", "copy", "ccache", "exec"} => epoch' # "invalid"
    BY <1>1, <1>2
  <2>4. QED
    BY <1>2, <2>2, <2>3 DEF Looked
<1>5. Enough'
  BY <1>1, <1>2 DEF TWInv, Enough
<1>6. QED
  BY <1>1, <1>3, <1>4, <1>5 DEF TWInv

(* The process that gives up leaves everything as it is.                    *)
LEMMA ExitKeeps ==
  ASSUME TWInv, Exit, step \notin {"exec", "exit", "copy", "ccache"}, Native \/ epoch = "invalid",
         Len(args) <= 16
  PROVE  TWInv'
<1>1. /\ build' = build /\ argv' = argv /\ epoch' = epoch /\ i' = i /\ room' = room /\ args' = args
      /\ exec_args' = exec_args /\ UNCHANGED given /\ step' = "exit"
  BY DEF Exit, given
<1>2. TWTypeOK'
  <2>1. i' \in 1..(Len(argv') + 2) /\ exec_args' \in Seq(Argument) /\ args' \in Seq(Argument)
        /\ exec_args = <<>>
    BY <1>1 DEF TWInv, TWTypeOK
  <2>2. QED
    BY <1>1, <2>1 DEF TWTypeOK
<1>3. Looked'
  <2>1. Native' \/ epoch' = "invalid"
    BY <1>1, SameGroups
  <2>2. QED
    BY <1>1, <2>1 DEF Looked
<1>4. BlocksDone'
  BY <1>1 DEF BlocksDone
<1>5. Enough'
  BY <1>1 DEF TWInv, Enough
<1>6. QED
  BY <1>1, <1>2, <1>3, <1>4, <1>5 DEF TWInv

LEMMA PathsKeep == ASSUME TWInv, CheckUnsafePaths PROVE TWInv'
<1>1. GoodCall /\ argv \in Seq(Argument)
  BY GivenIs DEF GoodCall
<1>2. PICK N \in Nat : N = Len(argv) /\ DOMAIN argv = 1..N
  BY <1>1
<1>3. step = "paths" /\ args = <<>> /\ i \in 1..(N + 2) /\ exec_args = <<>> /\ i \in Nat /\ i >= 1
  BY <1>2 DEF CheckUnsafePaths, TWInv, TWTypeOK
<1>4. Plausible => \A j \in 1..N : j < i => Safe(j)
  BY <1>2, <1>3 DEF TWInv, Looked
<1>5. CASE i > N
  <2>1. step' = "predef" /\ UNCHANGED <<given, i, args, room, exec_args>>
    BY <1>2, <1>5 DEF CheckUnsafePaths
  <2>2. /\ build' = build /\ argv' = argv /\ epoch' = epoch /\ i' = i /\ room' = room /\ args' = args
        /\ exec_args' = exec_args /\ UNCHANGED given
    BY <2>1 DEF given
  <2>3. TWTypeOK'
    BY <1>2, <1>3, <2>1, <2>2 DEF TWInv, TWTypeOK
  <2>4. Looked'
    <3>1. Plausible => ~Native
      BY <1>2, <1>3, <1>4, <1>5, NativeIs
    <3>2. Plausible' => ~Native'
      BY <2>2, <3>1, SameGroups
    <3>3. QED
      BY <2>1, <3>2 DEF Looked
  <2>5. BlocksDone' /\ Enough'
    BY <1>3, <2>1, <2>2 DEF TWInv, BlocksDone, Enough
  <2>6. QED
    BY <2>2, <2>3, <2>4, <2>5 DEF TWInv
<1>6. CASE ~(i > N)
  <2>1. i \in 1..N
    BY <1>3, <1>6
  <2>2. Rough(LookAt(i), i, N)
    BY <1>1, <1>2, <2>1, LookAtIs
  <2>3. CASE LookAt(i).left = "unsafe"
    <3>1. Exit
      BY <1>2, <1>6, <2>3 DEF CheckUnsafePaths
    <3>2. Native
      BY <2>2, <2>3 DEF Rough
    <3>3. Len(args) <= 16
      BY <1>3
    <3>4. QED
      BY <1>3, <3>1, <3>2, <3>3, ExitKeeps
  <2>4. CASE LookAt(i).left # "unsafe"
    <3>1. i' = LookAt(i).i + 1 /\ UNCHANGED <<given, step, args, room, exec_args>>
      BY <1>2, <1>6, <2>4 DEF CheckUnsafePaths
    <3>2. /\ build' = build /\ argv' = argv /\ epoch' = epoch /\ room' = room /\ args' = args
          /\ exec_args' = exec_args /\ UNCHANGED given /\ step' = "paths"
      BY <1>3, <3>1 DEF given
    <3>3. PICK m \in i..(N + 1) : m = LookAt(i).i
      BY <2>2 DEF Rough
    <3>4. m + 1 \in 1..(N + 2) /\ i' = m + 1
      BY <2>1, <3>1, <3>3
    <3>5. TWTypeOK'
      BY <1>2, <1>3, <3>2, <3>4 DEF TWInv, TWTypeOK
    <3>6. Looked'
      <4>1. ASSUME Plausible, NEW j \in 1..N, j < m + 1
            PROVE  Safe(j)
        <5>1. CASE j < i
          BY <1>4, <4>1, <5>1
        <5>2. CASE ~(j < i)
          <6>1. j \in i..m /\ j <= N
            BY <1>3, <3>3, <4>1, <5>2
          <6>2. QED
            BY <1>1, <1>2, <2>1, <2>4, <3>3, <4>1, <6>1, LookedAt
        <5>3. QED
          BY <5>1, <5>2
      <4>2. ASSUME NEW j
            PROVE  Safe(j)' = Safe(j)
        BY <3>2 DEF Safe, TakesNext, IsUnsafe, unsafe_opts
      <4>3. Plausible' => \A j \in 1..N : j < i' => Safe(j)'
        BY <3>2, <3>4, <4>1, <4>2, SameGroups
      <4>4. QED
        BY <1>2, <3>2, <4>3 DEF Looked
    <3>7. BlocksDone' /\ Enough'
      BY <1>3, <3>2 DEF TWInv, BlocksDone, Enough
    <3>8. QED
      BY <3>2, <3>5, <3>6, <3>7 DEF TWInv
  <2>5. QED
    BY <2>3, <2>4
<1>7. QED
  BY <1>5, <1>6

LEMMA BlocksKeep ==
  ASSUME TWInv,
         Predefined \/ FloatAbi \/ Fp32Mode \/ ArchCpu \/ SourceDateEpoch \/ Pie \/ Relro
  PROVE  TWInv'
<1>1. GoodCall
  BY GivenIs
<1>2. Start \in Seq(Argument) /\ Len(Start) \in 0..4
  BY <1>1, FrontsAre
<1>3. /\ AtFloat(Start) \in Seq(Argument) /\ AtFp32(Start) \in Seq(Argument)
      /\ AtArch(Start) \in Seq(Argument) /\ AtEpoch(Start) \in Seq(Argument)
      /\ Len(AtEpoch(Start)) \in 0..9
      /\ AtPie(Start) \in Seq(Argument) /\ AtRelro(Start) \in Seq(Argument)
      /\ AtEnd(Start) \in Seq(Argument)
  BY <1>1, <1>2, OwnFit
<1>4. CASE Predefined
  <2>1. /\ step = "predef" /\ step' = "float" /\ UNCHANGED <<given, i, room, exec_args>>
        /\ args' = args \o ((Ccache \o Program) \o FlatArgs)
    BY <1>4 DEF Predefined, Add, Ccache, Program, FlatArgs
  <2>2. args = <<>>
    BY <2>1 DEF TWInv, BlocksDone
  <2>3. args' = AtFloat(Start)
    <3>1. <<>> \o AtFloat(Start) = AtFloat(Start)
      BY <1>3, ConcatEmptySeq
    <3>2. QED
      BY <2>1, <2>2, <3>1 DEF AtFloat, Start
  <2>4. UNCHANGED given
    BY <2>1
  <2>5. BlocksDone'
    BY <2>1, <2>3, <2>4, SameOwn DEF BlocksDone
  <2>6. QED
    BY <1>3, <2>1, <2>3, <2>5, BlockKeeps DEF TWInv, Middle
<1>5. CASE FloatAbi
  <2>1. /\ step = "float" /\ step' = "fp32" /\ UNCHANGED <<given, i, room, exec_args>>
        /\ args' = args \o FloatArgs
    BY <1>5 DEF FloatAbi, Add, FloatArgs
  <2>2. args' = AtFp32(Start)
    BY <2>1 DEF TWInv, BlocksDone, AtFp32
  <2>3. UNCHANGED given
    BY <2>1
  <2>4. BlocksDone'
    BY <2>1, <2>2, <2>3, SameOwn DEF BlocksDone
  <2>5. QED
    BY <1>3, <2>1, <2>2, <2>4, BlockKeeps DEF TWInv, Middle
<1>6. CASE Fp32Mode
  <2>1. /\ step = "fp32" /\ step' = "arch" /\ UNCHANGED <<given, i, room, exec_args>>
        /\ args' = args \o Fp32Args
    BY <1>6 DEF Fp32Mode, Add, Fp32Args
  <2>2. args' = AtArch(Start)
    BY <2>1 DEF TWInv, BlocksDone, AtArch
  <2>3. UNCHANGED given
    BY <2>1
  <2>4. BlocksDone'
    BY <2>1, <2>2, <2>3, SameOwn DEF BlocksDone
  <2>5. QED
    BY <1>3, <2>1, <2>2, <2>4, BlockKeeps DEF TWInv, Middle
<1>7. CASE ArchCpu
  <2>1. /\ step = "arch" /\ step' = "epoch" /\ UNCHANGED <<given, i, room, exec_args>>
        /\ args' = args \o ArchArgs
    BY <1>7 DEF ArchCpu, Add, ArchArgs, CpuKnown
  <2>2. args' = AtEpoch(Start)
    BY <2>1 DEF TWInv, BlocksDone, AtEpoch
  <2>3. UNCHANGED given
    BY <2>1
  <2>4. BlocksDone'
    BY <2>1, <2>2, <2>3, SameOwn DEF BlocksDone
  <2>5. QED
    BY <1>3, <2>1, <2>2, <2>4, BlockKeeps DEF TWInv, Middle
<1>8. CASE SourceDateEpoch
  <2>1. CASE step = "epoch" /\ epoch = "invalid"
    <3>1. Exit
      BY <1>8, <2>1 DEF SourceDateEpoch
    <3>2. args = AtEpoch(Start)
      BY <2>1 DEF TWInv, BlocksDone
    <3>3. Len(args) <= 16
      <4>1. PICK m \in 0..9 : m = Len(AtEpoch(Start))
        BY <1>3
      <4>2. m <= 16
        OBVIOUS
      <4>3. QED
        BY <3>2, <4>1, <4>2
    <3>4. QED
      BY <2>1, <3>1, <3>3, ExitKeeps
  <2>2. CASE ~(step = "epoch" /\ epoch = "invalid")
    <3>1. /\ step = "epoch" /\ step' = "pie" /\ UNCHANGED <<given, i, room, exec_args>>
          /\ args' = args \o EpochArgs
      BY <1>8, <2>2 DEF SourceDateEpoch, Add, EpochArgs, EpochNames
    <3>2. args' = AtPie(Start)
      BY <3>1 DEF TWInv, BlocksDone, AtPie
    <3>3. UNCHANGED given /\ epoch # "invalid"
      BY <2>2, <3>1
    <3>4. BlocksDone'
      BY <3>1, <3>2, <3>3, SameOwn DEF BlocksDone
    <3>5. QED
      BY <1>3, <3>1, <3>2, <3>3, <3>4, BlockKeeps DEF TWInv, Middle
  <2>3. QED
    BY <2>1, <2>2
<1>9. CASE Pie
  <2>1. /\ step = "pie" /\ step' = "relro" /\ UNCHANGED <<given, i, room, exec_args>>
        /\ args' = args \o PieArgs
    BY <1>9 DEF Pie, Add, PieArgs
  <2>2. args' = AtRelro(Start)
    BY <2>1 DEF TWInv, BlocksDone, AtRelro
  <2>3. UNCHANGED given /\ epoch # "invalid"
    BY <2>1 DEF TWInv, Looked
  <2>4. BlocksDone'
    BY <2>1, <2>2, <2>3, SameOwn DEF BlocksDone
  <2>5. QED
    BY <1>3, <2>1, <2>2, <2>3, <2>4, BlockKeeps DEF TWInv, Middle
<1>10. CASE Relro
  <2>1. /\ step = "relro" /\ step' = "realloc" /\ UNCHANGED <<given, i, room, exec_args>>
        /\ args' = args \o RelroFlags
    BY <1>10 DEF Relro, Add
  <2>2. args' = AtEnd(Start)
    BY <2>1 DEF TWInv, BlocksDone, AtEnd
  <2>3. UNCHANGED given /\ epoch # "invalid"
    BY <2>1 DEF TWInv, Looked
  <2>4. BlocksDone'
    BY <2>1, <2>2, <2>3, SameOwn DEF BlocksDone
  <2>5. QED
    BY <1>3, <2>1, <2>2, <2>3, <2>4, BlockKeeps DEF TWInv, Middle
<1>11. QED
  BY <1>4, <1>5, <1>6, <1>7, <1>8, <1>9, <1>10

(* The arguments that the wrapper was called with, and the NULL.            *)
LEMMA RestIs ==
  ASSUME GoodCall
  PROVE  /\ Rest \in Seq(Argument) /\ Len(Rest) = Len(argv) + 1
         /\ \A s \in Seq(Argument) : s \o argv \o <<Opt("NULL")>> = s \o Rest
<1>1. <<Opt("NULL")>> \in Seq(Argument) /\ Len(<<Opt("NULL")>>) = 1
  <2> DEFINE o == Opt("NULL")
  <2>1. o \in Argument
    BY OwnAreOptions DEF OwnOptions
  <2> HIDE DEF o
  <2>2. <<o>> \in Seq(Argument) /\ Len(<<o>>) = 1
    BY <2>1
  <2>3. QED
    BY <2>2 DEF o
<1>2. argv \in Seq(Argument)
  BY DEF GoodCall
<1> DEFINE last == <<Opt("NULL")>>
<1> HIDE DEF last
<1>3. argv \o last \in Seq(Argument) /\ Len(argv \o last) = Len(argv) + Len(last)
  BY <1>1, <1>2, ConcatIs DEF last
<1>4. ASSUME NEW s \in Seq(Argument)
      PROVE  s \o argv \o last = s \o (argv \o last)
  BY <1>1, <1>2, ConcatAssociative DEF last
<1>5. QED
  BY <1>1, <1>3, <1>4 DEF Rest, last

LEMMA EndKeeps == ASSUME TWInv, Realloc \/ Copy \/ Execute PROVE TWInv'
<1>1. GoodCall /\ argv \in Seq(Argument)
  BY GivenIs DEF GoodCall
<1>2. /\ Start \in Seq(Argument) /\ Len(Start) \in 0..4 /\ Start # <<>>
      /\ Skipped => Tail(Start) = Called
      /\ ~Skipped => Start = Called
  BY <1>1, FrontsAre
<1>3. /\ AtEnd(Start) \in Seq(Argument) /\ Len(AtEnd(Start)) \in 0..16
      /\ AtEnd(Start) # <<>> /\ Tail(AtEnd(Start)) = AtEnd(Tail(Start))
  BY <1>1, <1>2, OwnFit, OwnFirst
<1>4. Rest \in Seq(Argument) /\ Len(Rest) = Len(argv) + 1
  BY <1>1, RestIs
<1>5. PICK N \in Nat : N = Len(argv)
  BY <1>1
<1>6. room \in Nat /\ TWTypeOK /\ Looked /\ BlocksDone /\ Enough
  BY DEF TWInv
<1>7. CASE Realloc
  <2>1. /\ step = "realloc" /\ step' = "copy" /\ UNCHANGED given /\ i' = i /\ args' = args
        /\ exec_args' = exec_args
        /\ room' = IF Len(args) + (Len(argv) + 1) > DEFAULT_MAX_ARGS
                   THEN Len(args) + (Len(argv) + 1) ELSE room
    BY <1>7 DEF Realloc, Needed, argc
  <2>2. args = AtEnd(Start) /\ room = DEFAULT_MAX_ARGS
    BY <1>6, <2>1 DEF BlocksDone, Enough
  <2>3. PICK m \in 0..16 : m = Len(args)
    BY <1>3, <2>2
  <2>4. room' \in Nat /\ m + N + 1 <= room'
    BY <1>5, <1>6, <2>1, <2>2, <2>3, RoomForOwn
  <2>5. build' = build /\ argv' = argv /\ epoch' = epoch
    BY <2>1 DEF given
  <2>6. TWTypeOK'
    BY <1>6, <2>1, <2>5 DEF TWTypeOK
  <2>7. Looked'
    <3>1. (Plausible => ~Native) /\ epoch # "invalid"
      BY <1>6, <2>1 DEF Looked
    <3>2. (Plausible' => ~Native') /\ epoch' # "invalid"
      BY <2>1, <2>5, <3>1, SameGroups
    <3>3. QED
      BY <2>1, <3>2 DEF Looked
  <2>8. BlocksDone'
    BY <2>1, <2>2, SameOwn DEF BlocksDone
  <2>9. Enough'
    BY <1>5, <2>1, <2>3, <2>4, <2>5 DEF Enough
  <2>10. QED
    BY <2>4, <2>5, <2>6, <2>7, <2>8, <2>9 DEF TWInv
<1>8. CASE Copy
  <2>1. /\ step = "copy" /\ step' = "ccache" /\ UNCHANGED given /\ i' = i /\ room' = room
        /\ exec_args' = exec_args
        /\ args' = args \o argv \o <<Opt("NULL")>>
    BY <1>8 DEF Copy
  <2>2. args = AtEnd(Start) /\ Len(args) + Len(argv) + 1 <= room
    BY <1>6, <2>1 DEF BlocksDone, Enough
  <2>3. args' = AtEnd(Start) \o Rest
    BY <1>1, <1>3, <2>1, <2>2, RestIs
  <2>4. args' \in Seq(Argument) /\ Len(args') = Len(args) + Len(Rest)
    BY <1>3, <1>4, <2>2, <2>3, ConcatIs
  <2>5. PICK m \in 0..16 : m = Len(args)
    BY <1>3, <2>2
  <2>6. Len(args') <= room'
    BY <1>4, <1>5, <2>1, <2>2, <2>4, <2>5
  <2>7. build' = build /\ argv' = argv /\ epoch' = epoch
    BY <2>1 DEF given
  <2>8. TWTypeOK'
    BY <1>6, <2>1, <2>4, <2>7 DEF TWTypeOK
  <2>9. Looked'
    <3>1. (Plausible => ~Native) /\ epoch # "invalid"
      BY <1>6, <2>1 DEF Looked
    <3>2. (Plausible' => ~Native') /\ epoch' # "invalid"
      BY <2>1, <2>7, <3>1, SameGroups
    <3>3. QED
      BY <2>1, <3>2 DEF Looked
  <2>10. BlocksDone'
    <3>1. AtEnd(Start)' = AtEnd(Start) /\ Rest' = Rest
      BY <2>1, SameOwn, SameGroups
    <3>2. QED
      BY <2>1, <2>3, <3>1 DEF BlocksDone
  <2>11. Enough'
    BY <2>1, <2>6 DEF Enough
  <2>12. QED
    BY <1>6, <2>1, <2>7, <2>8, <2>9, <2>10, <2>11 DEF TWInv
<1>9. CASE Execute
  <2>1. /\ step = "ccache" /\ step' = "exec" /\ UNCHANGED given /\ i' = i /\ room' = room
        /\ args' = args /\ exec_args' = IF Skipped THEN Tail(args) ELSE args
    BY <1>9 DEF Execute
  <2>2. args = AtEnd(Start) \o Rest /\ Len(args) <= room
    BY <1>6, <2>1 DEF BlocksDone, Enough
  <2>3. exec_args' = AtEnd(Called) \o Rest
    <3>1. CASE Skipped
      <4>1. Tail(AtEnd(Start) \o Rest) = Tail(AtEnd(Start)) \o Rest
        BY <1>3, <1>4, TailConcat
      <4>2. Tail(Start) = Called /\ exec_args' = Tail(args)
        BY <1>2, <2>1, <3>1
      <4>3. QED
        BY <1>3, <2>2, <4>1, <4>2
    <3>2. CASE ~Skipped
      <4>1. exec_args' = args /\ Start = Called
        BY <1>2, <2>1, <3>2
      <4>2. QED
        BY <2>2, <4>1
    <3>3. QED
      BY <3>1, <3>2
  <2>4. exec_args' \in Seq(Argument) /\ exec_args' # <<>>
    <3>1. Called \in Seq(Argument) /\ Len(Called) \in 0..4 /\ Called # <<>>
      BY <1>1, FrontsAre
    <3>2. AtEnd(Called) \in Seq(Argument) /\ AtEnd(Called) # <<>>
      BY <1>1, <3>1, OwnFit, OwnFirst
    <3>3. QED
      BY <1>4, <2>3, <3>2, ConcatIs, TailConcat
  <2>5. build' = build /\ argv' = argv /\ epoch' = epoch
    BY <2>1 DEF given
  <2>6. TWTypeOK'
    BY <1>6, <2>1, <2>4, <2>5 DEF TWTypeOK
  <2>7. Looked'
    <3>1. (Plausible => ~Native) /\ epoch # "invalid"
      BY <1>6, <2>1 DEF Looked
    <3>2. (Plausible' => ~Native') /\ epoch' # "invalid"
      BY <2>1, <2>5, <3>1, SameGroups
    <3>3. QED
      BY <2>1, <3>2 DEF Looked
  <2>8. BlocksDone'
    <3>1. AtEnd(Called)' = AtEnd(Called) /\ Rest' = Rest
      BY <2>1, SameOwn, SameGroups
    <3>2. QED
      BY <2>1, <2>3, <3>1 DEF BlocksDone
  <2>9. Enough'
    BY <2>1, <2>2 DEF Enough
  <2>10. QED
    BY <1>6, <2>1, <2>5, <2>6, <2>7, <2>8, <2>9 DEF TWInv
<1>10. QED
  BY <1>7, <1>8, <1>9

LEMMA StutterKeeps == ASSUME TWInv, UNCHANGED twvars PROVE TWInv'
<1>1. /\ build' = build /\ argv' = argv /\ epoch' = epoch /\ br_use_ccache' = br_use_ccache
      /\ step' = step /\ i' = i /\ args' = args /\ room' = room /\ exec_args' = exec_args
  BY DEF twvars
<1>2. UNCHANGED given
  BY <1>1 DEF given
<1>3. TWTypeOK'
  BY <1>1 DEF TWInv, TWTypeOK
<1>4. Looked'
  <2>1. ASSUME NEW j
        PROVE  Safe(j)' = Safe(j)
    BY <1>1 DEF Safe, TakesNext, IsUnsafe, unsafe_opts
  <2>2. Native' = Native /\ Plausible' = Plausible
    BY <1>2, SameGroups
  <2>3. QED
    BY <1>1, <2>1, <2>2 DEF TWInv, Looked
<1>5. BlocksDone'
  BY <1>1, <1>2, SameGroups, SameOwn DEF TWInv, BlocksDone
<1>6. Enough'
  BY <1>1 DEF TWInv, Enough
<1>7. QED
  BY <1>1, <1>3, <1>4, <1>5, <1>6 DEF TWInv

LEMMA StepInv == TWInv /\ [TWNext]_twvars => TWInv'
<1> SUFFICES ASSUME TWInv, [TWNext]_twvars PROVE TWInv'
  OBVIOUS
<1>1. CASE CheckUnsafePaths
  BY <1>1, PathsKeep
<1>2. CASE Predefined \/ FloatAbi \/ Fp32Mode \/ ArchCpu \/ SourceDateEpoch \/ Pie \/ Relro
  BY <1>2, BlocksKeep
<1>3. CASE Realloc \/ Copy \/ Execute
  BY <1>3, EndKeeps
<1>4. CASE UNCHANGED twvars
  BY <1>4, StutterKeeps
<1>5. QED
  BY <1>1, <1>2, <1>3, <1>4 DEF TWNext

(* What was looked at holds no path of the build machine, the arguments so  *)
(* far are those of the blocks that were executed, in their order, and the  *)
(* memory is for them and for those that are still to come: as main() does  *)
(* its steps one after the other (toolchain-wrapper.c:280).                 *)
THEOREM CallInvariance == TWSpec => []TWInv
<1>1. TWInit => TWInv
  BY InitInv
<1>2. TWInv /\ [TWNext]_twvars => TWInv'
  BY StepInv
<1>3. QED
  BY <1>1, <1>2, PTL DEF TWSpec

-----------------------------------------------------------------------------
(* When and how the compiler is called                                      *)

LEMMA FitsInv == TWInv => Fits
<1> SUFFICES ASSUME TWInv PROVE Fits
  OBVIOUS
<1>1. GoodCall
  BY GivenIs
<1>2. Start \in Seq(Argument) /\ Len(Start) \in 0..4
  BY <1>1, FrontsAre
<1>3. CASE step \in {"ccache", "exec"}
  BY <1>3 DEF TWInv, Enough, Fits
<1>4. CASE step \notin {"ccache", "exec"}
  <2>1. PICK m \in 0..16 : m = Len(args)
    <3>1. CASE step = "exit"
      <4>1. args \in Seq(Argument) /\ Len(args) <= 16
        BY <3>1 DEF TWInv, TWTypeOK, Enough
      <4>2. PICK n \in Nat : n = Len(args)
        BY <4>1
      <4>3. n <= 16
        BY <4>1, <4>2
      <4>4. n \in 0..16
        BY <4>3
      <4>5. QED
        BY <4>2, <4>4
    <3>2. CASE step \in {"paths", "predef"}
      <4>1. args = <<>> /\ 0 \in 0..16
        BY <3>2 DEF TWInv, BlocksDone
      <4>2. Len(args) = 0
        BY <4>1
      <4>3. QED
        BY <4>1, <4>2
    <3>3. CASE step \notin {"exit", "paths", "predef"}
      <4>1. args \in {AtFloat(Start), AtFp32(Start), AtArch(Start), AtEpoch(Start), AtPie(Start),
                      AtRelro(Start), AtEnd(Start)}
        <5>1. step \in {"float", "fp32", "arch", "epoch", "pie", "relro", "realloc", "copy"}
          BY <1>4, <3>3 DEF TWInv, TWTypeOK
        <5>2. QED
          BY <5>1 DEF TWInv, BlocksDone
      <4>2. /\ Len(AtFloat(Start)) \in 0..16 /\ Len(AtFp32(Start)) \in 0..16
            /\ Len(AtArch(Start)) \in 0..16 /\ Len(AtEpoch(Start)) \in 0..16
            /\ Len(AtPie(Start)) \in 0..16 /\ Len(AtRelro(Start)) \in 0..16
            /\ Len(AtEnd(Start)) \in 0..16
        <5>1. /\ 0..5 \subseteq 0..16 /\ 0..6 \subseteq 0..16 /\ 0..7 \subseteq 0..16
              /\ 0..9 \subseteq 0..16 /\ 0..12 \subseteq 0..16 /\ 0..14 \subseteq 0..16
          OBVIOUS
        <5>2. QED
          BY <1>1, <1>2, <5>1, OwnFit
      <4>3. Len(args) \in 0..16
        BY <4>1, <4>2
      <4>4. QED
        BY <4>3
    <3>4. QED
      BY <3>1, <3>2, <3>3
  <2>2. CASE step = "copy"
    <3>1. PICK n \in Nat : n = Len(argv)
      BY <1>1 DEF GoodCall
    <3>2. m + n + 1 <= room /\ room \in Nat
      BY <2>1, <2>2, <3>1 DEF TWInv, Enough
    <3>3. m <= room
      BY <3>2
    <3>4. QED
      BY <2>1, <3>3 DEF Fits
  <2>3. CASE step # "copy"
    <3>1. room = DEFAULT_MAX_ARGS
      BY <1>4, <2>3 DEF TWInv, Enough
    <3>2. m <= room
      BY <3>1, RoomForOwn
    <3>3. QED
      BY <2>1, <3>2 DEF Fits
  <2>4. QED
    BY <2>2, <2>3
<1>5. QED
  BY <1>3, <1>4

LEMMA CalledInv == TWInv => CompilerCalled
<1> SUFFICES ASSUME TWInv, step = "exec" PROVE CompilerCalled
  BY DEF CompilerCalled
<1>1. GoodCall
  BY GivenIs
<1>2. /\ Called \in Seq(Argument) /\ Len(Called) \in 0..4 /\ Called # <<>>
      /\ build.CCACHE /\ ~Skipped => Called[1] = Opt("ccache") /\ Tail(Called) = Program
      /\ ~(build.CCACHE /\ ~Skipped) => Called = Program
  BY <1>1, FrontsAre
<1>3. /\ AtEnd(Called) \in Seq(Argument) /\ AtEnd(Called) # <<>> /\ AtEnd(Called)[1] = Called[1]
      /\ Tail(AtEnd(Called)) = AtEnd(Tail(Called))
  BY <1>1, <1>2, OwnFit, OwnFirst
<1>4. Rest \in Seq(Argument) /\ Rest = argv \o <<Opt("NULL")>>
  BY <1>1, RestIs DEF Rest
<1>5. exec_args = AtEnd(Called) \o Rest
  BY DEF TWInv, BlocksDone
<1>6. exec_args[1] = Called[1] /\ Tail(exec_args) = AtEnd(Tail(Called)) \o Rest
  <2>1. /\ (AtEnd(Called) \o Rest)[1] = AtEnd(Called)[1]
        /\ Tail(AtEnd(Called) \o Rest) = Tail(AtEnd(Called)) \o Rest
    BY <1>3, <1>4, TailConcat
  <2>2. QED
    BY <1>3, <1>5, <2>1
<1>7. /\ AtEnd(Program) \in Seq(Argument)
      /\ (AtEnd(Program) \o Rest)[1] = Opt("compiler")
      /\ IsSuffix(Rest, AtEnd(Program) \o Rest)
  <2>1. 3 \in 0..4
    OBVIOUS
  <2>2. Len(Program) \in 0..4
    BY <2>1, ProgramIs
  <2>3. AtEnd(Program) \in Seq(Argument) /\ AtEnd(Program) # <<>> /\ AtEnd(Program)[1] = Opt("compiler")
    BY <1>1, <2>2, ProgramIs, OwnFit, OwnFirst
  <2>4. QED
    BY <1>4, <2>3, TailConcat, SuffixConcat
<1>8. Opt("compiler") # Opt("ccache")
  BY DEF Opt
<1>9. CASE build.CCACHE /\ ~Skipped
  <2>1. exec_args[1] = Opt("ccache") /\ Tail(exec_args) = AtEnd(Program) \o Rest
    BY <1>2, <1>6, <1>9
  <2>2. build.CCACHE /\ br_use_ccache = "1"
    BY <1>9 DEF Skipped
  <2>3. QED
    BY <1>4, <1>7, <2>1, <2>2 DEF CompilerCalled
<1>10. CASE ~(build.CCACHE /\ ~Skipped)
  <2>1. exec_args = AtEnd(Program) \o Rest
    BY <1>2, <1>5, <1>10
  <2>2. exec_args[1] # Opt("ccache")
    BY <1>7, <1>8, <2>1
  <2>3. ~(build.CCACHE /\ br_use_ccache = "1")
    BY <1>10 DEF Skipped
  <2>4. QED
    BY <1>4, <1>7, <2>1, <2>2, <2>3 DEF CompilerCalled
<1>11. QED
  BY <1>9, <1>10

(* The compiler is called exactly when no directory of the build machine is *)
(* used and the date is one, as itself or through ccache, with the user's   *)
(* arguments at the end, and the memory for the arguments suffices, for all *)
(* numbers of them (toolchain-wrapper.c:314 and :491).                      *)
THEOREM CallsAreRight == TWSpec => []CallRight
<1>1. TWInv => CallRight
  <2>1. TWInv => TWTypeOK
    BY DEF TWInv
  <2>2. TWInv => RefusedAsMeant
    BY DEF TWInv, Looked, RefusedAsMeant
  <2>3. QED
    BY <2>1, <2>2, FitsInv, CalledInv DEF CallRight
<1>2. QED
  BY <1>1, CallInvariance, PTL

-----------------------------------------------------------------------------
(* What the wrapper adds, and what it was given                             *)

LEMMA AddedIs ==
  ASSUME TWInv, step = "exec"
  PROVE  /\ GoodCall
         /\ Added = AtEnd(Called)
         /\ ToSet(exec_args) = ToSet(Added) \cup ToSet(argv) \cup {Opt("NULL")}
         /\ DOMAIN exec_args = 1..Len(exec_args)
<1>1. GoodCall /\ argv \in Seq(Argument)
  BY GivenIs DEF GoodCall
<1>2. Called \in Seq(Argument) /\ Len(Called) \in 0..4
  BY <1>1, FrontsAre
<1>3. AtEnd(Called) \in Seq(Argument)
  BY <1>1, <1>2, OwnFit
<1>4. Rest \in Seq(Argument) /\ Len(Rest) = argc
  BY <1>1, RestIs DEF argc
<1>5. exec_args = AtEnd(Called) \o Rest
  BY DEF TWInv, BlocksDone
<1>6. Added = AtEnd(Called)
  BY <1>3, <1>4, <1>5, SuffixConcat DEF Added
<1>7. ToSet(exec_args) = ToSet(Added) \cup ToSet(Rest)
  BY <1>3, <1>4, <1>5, <1>6, ConcatIs
<1>8. ToSet(Rest) = ToSet(argv) \cup {Opt("NULL")}
  <2> DEFINE o == Opt("NULL")
             last == <<o>>
  <2>1. o \in Argument
    BY OwnAreOptions DEF OwnOptions
  <2> HIDE DEF o
  <2>2. last \in Seq(Argument) /\ DOMAIN last = 1..1 /\ last[1] = o
    BY <2>1
  <2> HIDE DEF last
  <2>3. ToSet(last) = {o}
    BY <2>2 DEF ToSet
  <2>4. Rest = argv \o last
    BY DEF Rest, last, o
  <2>5. QED
    BY <1>1, <2>2, <2>3, <2>4, ConcatIs DEF o
<1>9. exec_args \in Seq(Argument)
  BY DEF TWInv, TWTypeOK
<1>10. QED
  BY <1>1, <1>6, <1>7, <1>8, <1>9

(* Each block adds options of its own.                                      *)
LEMMA AddedAre ==
  ASSUME TWInv, step = "exec"
  PROVE  /\ \A a \in ToSet(Added) : a.opt \in OwnOptions \ {"NULL"}
         /\ Opt("-Wl,-elf2flt") \in ToSet(Added) => found_nonoption
         /\ Opt("-Wl,-z,now") \in ToSet(Added) => found_nonoption
         /\ Opt("-Wl,-z,relro") \in ToSet(Added) => found_nonoption
         /\ Opt("-mfpBR") \in ToSet(Added) <=> build.FP32_MODE /\ AddFp32
         /\ Opt("-pie") \in ToSet(Added) <=> Opt("-pie") \in ToSet(PieArgs)
         /\ Opt("-fPIE") \in ToSet(Added) <=> Opt("-fPIE") \in ToSet(PieArgs)
<1>1. GoodCall /\ Added = AtEnd(Called)
  BY AddedIs
<1>2. /\ Called \in Seq(Argument) /\ Len(Called) \in 0..4
      /\ ToSet(Called) \subseteq {Opt("ccache"), Opt("compiler"), Opt("--sysroot"), File("target")}
  BY <1>1, FrontsAre, ProgramIs
<1>3. ToSet(Added) = ToSet(Called) \cup ToSet(FlatArgs) \cup ToSet(FloatArgs) \cup ToSet(Fp32Args)
                     \cup ToSet(ArchArgs) \cup ToSet(EpochArgs) \cup ToSet(PieArgs)
                     \cup ToSet(RelroFlags)
  BY <1>1, <1>2, OwnAre
<1> DEFINE Name(a) == a.opt
<1>4. \A name \in OwnOptions : Name(Opt(name)) = name
  BY DEF Opt
<1>5. Name(File("target")) = "file"
  BY DEF File, With
<1>6. \A a \in ToSet(Called) : Name(a) \in {"ccache", "compiler", "--sysroot", "file"}
  BY <1>2, <1>4, <1>5 DEF OwnOptions
<1>7. \A a \in ToSet(FlatArgs) : Name(a) = "-Wl,-elf2flt" /\ found_nonoption
  BY <1>1, <1>4, GroupsAre DEF OwnOptions
<1>8. \A a \in ToSet(FloatArgs) : Name(a) = "-mfloat-abi=BR"
  BY <1>1, <1>4, GroupsAre DEF OwnOptions
<1>9. \A a \in ToSet(Fp32Args) : Name(a) = "-mfpBR"
  BY <1>1, <1>4, GroupsAre DEF OwnOptions
<1>10. \A a \in ToSet(ArchArgs) : Name(a) \in {"-march=BR", "-mcpu=BR"}
  BY <1>1, <1>4, GroupsAre DEF OwnOptions
<1>11. \A a \in ToSet(EpochArgs) : Name(a) \in {"-D__TIME__=", "-D__DATE__=", "-Wno-builtin-macro-redefined"}
  BY <1>4, EpochIs DEF OwnOptions
<1>12. \A a \in ToSet(PieArgs) : Name(a) \in {"-fPIE", "-pie"}
  BY <1>1, <1>4, LinkedAs DEF OwnOptions
<1>13. \A a \in ToSet(RelroFlags) : Name(a) \in {"-Wl,-z,now", "-Wl,-z,relro"} /\ found_nonoption
  BY <1>1, <1>4, LinkedAs DEF OwnOptions
<1> DEFINE names == OwnOptions \ {"NULL"}
<1>14. \A a \in ToSet(Added) : Name(a) \in names
  <2>1. /\ {"ccache", "compiler", "--sysroot", "file"} \subseteq names
        /\ "-Wl,-elf2flt" \in names /\ "-mfloat-abi=BR" \in names /\ "-mfpBR" \in names
        /\ {"-march=BR", "-mcpu=BR"} \subseteq names
        /\ {"-D__TIME__=", "-D__DATE__=", "-Wno-builtin-macro-redefined"} \subseteq names
        /\ {"-fPIE", "-pie"} \subseteq names /\ {"-Wl,-z,now", "-Wl,-z,relro"} \subseteq names
    BY DEF OwnOptions
  <2> HIDE DEF names, Name
  <2>2. QED
    BY <1>3, <1>6, <1>7, <1>8, <1>9, <1>10, <1>11, <1>12, <1>13, <2>1
<1> HIDE DEF Name
<1>15. ASSUME NEW name \in {"-Wl,-elf2flt", "-Wl,-z,now", "-Wl,-z,relro"}, Opt(name) \in ToSet(Added)
       PROVE  found_nonoption
  <2>1. Name(Opt(name)) = name
    BY <1>4 DEF OwnOptions
  <2>2. Opt(name) \in ToSet(FlatArgs) \cup ToSet(RelroFlags)
    BY <1>3, <1>6, <1>8, <1>9, <1>10, <1>11, <1>12, <1>15, <2>1
  <2>3. QED
    BY <1>7, <1>13, <2>2
<1>16. Opt("-mfpBR") \in ToSet(Added) <=> build.FP32_MODE /\ AddFp32
  <2>1. Name(Opt("-mfpBR")) = "-mfpBR"
    BY <1>4 DEF OwnOptions
  <2>2. Opt("-mfpBR") \in ToSet(Added) <=> Opt("-mfpBR") \in ToSet(Fp32Args)
    BY <1>3, <1>6, <1>7, <1>8, <1>10, <1>11, <1>12, <1>13, <2>1
  <2>3. ToSet(Fp32Args) = IF build.FP32_MODE /\ AddFp32 THEN {Opt("-mfpBR")} ELSE {}
    BY <1>1, GroupsAre
  <2>4. QED
    BY <2>2, <2>3
<1>17. ASSUME NEW name \in {"-pie", "-fPIE"}
       PROVE  Opt(name) \in ToSet(Added) <=> Opt(name) \in ToSet(PieArgs)
  <2>1. Name(Opt(name)) = name
    BY <1>4 DEF OwnOptions
  <2>2. QED
    BY <1>3, <1>6, <1>7, <1>8, <1>9, <1>10, <1>11, <1>13, <2>1
<1>18. QED
  BY <1>14, <1>15, <1>16, <1>17 DEF Name

(* An option is executed if it was given or is one of the wrapper's own.    *)
LEMMA ExecutedIs ==
  ASSUME TWInv, step = "exec", NEW name
  PROVE  /\ Has({name}) => Executed(name)
         /\ Opt(name) \in ToSet(Added) => Executed(name)
         /\ name \notin OwnOptions /\ ~Has({name}) => ~Executed(name)
<1>1. ToSet(exec_args) = ToSet(Added) \cup ToSet(argv) \cup {Opt("NULL")}
  BY AddedIs
<1>2. \A a \in ToSet(Added) : a.opt \in OwnOptions
  BY AddedAre
<1>3. Opt("NULL").opt \in OwnOptions /\ Opt(name).opt = name
  BY DEF Opt, OwnOptions
<1>4. Executed(name) <=> \E a \in ToSet(exec_args) : a.opt = name
  BY DEF Executed, ToSet
<1>5. Has({name}) <=> \E a \in ToSet(argv) : a.opt = name
  BY DEF Has, ToSet
<1>6. QED
  BY <1>1, <1>2, <1>3, <1>4, <1>5

LEMMA HasOne == ASSUME NEW names, Has(names) PROVE \E name \in names : Has({name})
  BY DEF Has

LEMMA HasNone == ASSUME NEW names, ~Has(names), NEW name \in names PROVE ~Has({name})
  BY DEF Has

LEMMA PieInv == TWInv => PieConsistent
<1> SUFFICES ASSUME TWInv, step = "exec" PROVE PieConsistent
  BY DEF PieConsistent
<1>1. GoodCall
  BY AddedIs
<1>2. ASSUME Opt("-pie") \in ToSet(Added)
      PROVE  /\ \E name \in PositionIndependent : Executed(name)
             /\ \A name \in NoPie \cup {"-shared"} : ~Executed(name)
  <2>1. ~Has(NoPie) /\ ~Has({"-shared"})
        /\ (~Has(PositionIndependent) => Opt("-fPIE") \in ToSet(PieArgs))
    BY <1>1, <1>2, AddedAre, LinkedAs
  <2>2. \E name \in PositionIndependent : Executed(name)
    <3>1. CASE Has(PositionIndependent)
      BY <3>1, HasOne, ExecutedIs
    <3>2. CASE ~Has(PositionIndependent)
      <4>1. Opt("-fPIE") \in ToSet(Added)
        BY <2>1, <3>2, AddedAre
      <4>2. "-fPIE" \in PositionIndependent
        BY DEF PositionIndependent
      <4>3. QED
        BY <4>1, <4>2, ExecutedIs
    <3>3. QED
      BY <3>1, <3>2
  <2>3. ASSUME NEW name \in NoPie \cup {"-shared"}
        PROVE  ~Executed(name)
    <3>1. name \notin OwnOptions
      BY DEF NoPie, OwnOptions
    <3>2. ~Has({name})
      BY <2>1, HasNone
    <3>3. QED
      BY <3>1, <3>2, ExecutedIs
  <2>4. QED
    BY <2>2, <2>3
<1>3. ASSUME Opt("-fPIE") \in ToSet(Added),
             NEW name \in {"-fno-pie", "-fno-PIE", "-fPIC", "-fpic"}
      PROVE  ~Executed(name)
  <2>1. ~Has(NoPie) /\ ~Has(PositionIndependent)
    BY <1>1, <1>3, AddedAre, LinkedAs
  <2>2. name \in NoPie \cup PositionIndependent /\ name \notin OwnOptions
    BY DEF NoPie, PositionIndependent, OwnOptions
  <2>3. ~Has({name})
    BY <2>1, <2>2, HasNone
  <2>4. QED
    BY <2>2, <2>3, ExecutedIs
<1>4. QED
  BY <1>2, <1>3 DEF PieConsistent

LEMMA LinkerInv == TWInv => LinkerOnlyIfLinking
<1> SUFFICES ASSUME TWInv, step = "exec",
                    ToSet(Added) \cap {Opt("-Wl,-elf2flt"), Opt("-Wl,-z,now"), Opt("-Wl,-z,relro")} # {}
             PROVE  \E k \in DOMAIN argv : argv[k].opt = "file"
  BY DEF LinkerOnlyIfLinking
<1>1. found_nonoption
  BY AddedAre
<1>2. QED
  BY <1>1 DEF found_nonoption, Has

LEMMA FloatInv == TWInv => FloatConsistent
<1> SUFFICES ASSUME TWInv, step = "exec" PROVE FloatConsistent
  BY DEF FloatConsistent
<1> DEFINE about == {k \in DOMAIN argv : argv[k].opt \in FloatModes}
           last  == CHOOSE k \in about : \A h \in about : h <= k
<1>1. SUFFICES ASSUME about # {}, build.FP32_MODE
               PROVE  Opt("-mfpBR") \in ToSet(Added) <=> argv[last].opt = "-mhard-float"
  BY DEF FloatConsistent
<1>2. argv \in Seq(Argument)
  BY GivenIs DEF GoodCall
<1>3. last \in about /\ \A h \in about : h <= last
  BY <1>1, <1>2, LastMode
<1>4. AddFp32 <=> argv[last].opt # "-msoft-float"
  <2> HIDE DEF last
  <2>1. QED
    BY <1>2, <1>3, LastMode
<1>5. argv[last].opt # "-msoft-float" <=> argv[last].opt = "-mhard-float"
  <2> HIDE DEF last
  <2>1. QED
    BY <1>3 DEF FloatModes
<1>6. Opt("-mfpBR") \in ToSet(Added) <=> build.FP32_MODE /\ AddFp32
  BY AddedAre
<1>7. QED
  BY <1>1, <1>4, <1>5, <1>6

(* The options that the wrapper adds do not contradict those that it was    *)
(* called with: for the linking of position independent executables, for    *)
(* the linker's own options where nothing is linked, and for the mode of    *)
(* the floating point registers (toolchain-wrapper.c:354 and :416).         *)
THEOREM FlagsDoAgree == TWSpec => []FlagsAgree
<1>1. TWInv => FlagsAgree
  BY PieInv, LinkerInv, FloatInv DEF FlagsAgree
<1>2. QED
  BY <1>1, CallInvariance, PTL

----------------------------------------------------------------------------
(* makedevs                                                                 *)

(* Paths                                                                    *)

(* The names of a table, and those with a number.                           *)
WithNumber(s) == {s \o ToString(n) : n \in Nat}
Name == STRING \cup UNION {WithNumber(s) : s \in STRING}
Path == Seq(Name)

LEMMA GivenPaths == STRING \subseteq Name /\ Seq(STRING) \subseteq Path
<1>1. STRING \subseteq Name
  BY Zenon DEF Name
<1>2. ASSUME NEW p \in Seq(STRING) PROVE p \in Seq(Name)
  <2>1. Len(p) \in Nat /\ p = [n \in 1..Len(p) |-> p[n]] /\ \A n \in 1..Len(p) : p[n] \in STRING
    OBVIOUS
  <2>2. p \in [1..Len(p) -> Name]
    BY <1>1, <2>1
  <2>3. QED
    BY <2>1, <2>2, SeqDef
<1>3. QED
  BY <1>1, <1>2 DEF Path

(* A path that is not empty is what it is in, and a name.                  *)
LEMMA FrontLast ==
  ASSUME NEW S, NEW p \in Seq(S), p # <<>>
  PROVE  /\ Front(p) \in Seq(S) /\ Last(p) \in S /\ Len(Front(p)) = Len(p) - 1
         /\ p = Append(Front(p), Last(p)) /\ Len(p) \in Nat \ {0}
         /\ \A n \in 1..(Len(p) - 1) : Front(p)[n] = p[n]
<1>1. Len(p) \in Nat /\ Len(p) # 0 /\ \A n \in 1..Len(p) : p[n] \in S
  OBVIOUS
<1>2. /\ Front(p) \in Seq(S) /\ Len(Front(p)) = Len(p) - 1
      /\ \A n \in 1..(Len(p) - 1) : Front(p)[n] = p[n]
  <2>1. 1 \in Nat /\ Len(p) - 1 \in 0..Len(p)
    BY <1>1
  <2>2. Front(p) = [n \in 1..(Len(p) - 1) |-> p[n]]
    BY <1>1 DEF Front
  <2>3. \A n \in 1..(Len(p) - 1) : p[n] \in S
    BY <1>1
  <2>4. QED
    BY <1>1, <2>1, <2>2, <2>3
<1>3. Last(p) \in S /\ Last(p) = p[Len(p)]
  BY <1>1 DEF Last
<1>4. Append(Front(p), Last(p)) \in Seq(S) /\ Len(Append(Front(p), Last(p))) = Len(p)
  BY <1>1, <1>2, <1>3
<1>5. \A n \in 1..Len(p) : Append(Front(p), Last(p))[n] = p[n]
  BY <1>1, <1>2, <1>3
<1>6. p = Append(Front(p), Last(p))
  BY <1>4, <1>5, SeqEqual
<1>7. QED
  BY <1>1, <1>2, <1>3, <1>6

LEMMA FrontLastOfAppend ==
  ASSUME NEW S, NEW p \in Seq(S), NEW x \in S
  PROVE  /\ Append(p, x) \in Seq(S) /\ Append(p, x) # <<>> /\ Len(Append(p, x)) = Len(p) + 1
         /\ Front(Append(p, x)) = p /\ Last(Append(p, x)) = x
<1>1. Append(p, x) \in Seq(S) /\ Len(Append(p, x)) = Len(p) + 1 /\ Len(p) \in Nat
  OBVIOUS
<1>2. Append(p, x) # <<>>
  BY <1>1
<1>3. Last(Append(p, x)) = x
  BY <1>1 DEF Last
<1>4. /\ Front(Append(p, x)) \in Seq(S) /\ Len(Front(Append(p, x))) = Len(p)
      /\ \A n \in 1..Len(p) : Front(Append(p, x))[n] = Append(p, x)[n]
  <2>1. Len(Append(p, x)) - 1 = Len(p)
    BY <1>1
  <2>2. QED
    BY <1>1, <1>2, <2>1, FrontLast
<1>5. \A n \in 1..Len(p) : Append(p, x)[n] = p[n]
  OBVIOUS
<1>6. Front(Append(p, x)) = p
  BY <1>4, <1>5, SeqEqual
<1>7. QED
  BY <1>1, <1>2, <1>3, <1>6

(* The first k names of a path.                                            *)
LEMMA Upto ==
  ASSUME NEW p \in Path, NEW k \in 1..Len(p)
  PROVE  /\ SubSeq(p, 1, k) \in Path /\ Len(SubSeq(p, 1, k)) = k /\ SubSeq(p, 1, k) # <<>>
         /\ Front(SubSeq(p, 1, k)) = SubSeq(p, 1, k - 1)
         /\ Last(SubSeq(p, 1, k)) = p[k]
         /\ SubSeq(p, 1, Len(p)) = p
         /\ SubSeq(p, 1, 0) = <<>>
<1>0. p \in Seq(Name) /\ Len(p) \in Nat
  BY DEF Path
<1>1. /\ SubSeq(p, 1, k) \in Seq(Name) /\ Len(SubSeq(p, 1, k)) = k
      /\ \A n \in 1..k : SubSeq(p, 1, k)[n] = p[n]
  BY <1>0
<1>2. SubSeq(p, 1, k) # <<>>
  BY <1>1
<1>3. Last(SubSeq(p, 1, k)) = p[k]
  BY <1>1 DEF Last
<1>4. /\ Front(SubSeq(p, 1, k)) \in Seq(Name) /\ Len(Front(SubSeq(p, 1, k))) = k - 1
      /\ \A n \in 1..(k - 1) : Front(SubSeq(p, 1, k))[n] = SubSeq(p, 1, k)[n]
  BY <1>1, <1>2, FrontLast
<1>5. /\ SubSeq(p, 1, k - 1) \in Seq(Name) /\ Len(SubSeq(p, 1, k - 1)) = k - 1
      /\ \A n \in 1..(k - 1) : SubSeq(p, 1, k - 1)[n] = p[n]
  BY <1>0
<1>6. Front(SubSeq(p, 1, k)) = SubSeq(p, 1, k - 1)
  BY <1>1, <1>4, <1>5, SeqEqual
<1>7. SubSeq(p, 1, Len(p)) = p
  <2>1. /\ SubSeq(p, 1, Len(p)) \in Seq(Name) /\ Len(SubSeq(p, 1, Len(p))) = Len(p)
        /\ \A n \in 1..Len(p) : SubSeq(p, 1, Len(p))[n] = p[n]
    BY <1>0
  <2>2. QED
    BY <1>0, <2>1, SeqEqual
<1>8. SubSeq(p, 1, 0) = <<>>
  BY <1>0
<1>9. QED
  BY <1>1, <1>2, <1>3, <1>6, <1>7, <1>8 DEF Path

----------------------------------------------------------------------------
(* Where a path leads                                                       *)

(* What the links of a tree are, and that they lead to paths.              *)
LinksOK(f) == \A q \in DOMAIN f : f[q].kind = "link" => f[q].to \in Path

IsWay(at, f, p) ==
  at = [k \in 0..Len(p) |-> IF k = 0 THEN <<>> ELSE Follow(f, Append(at[k - 1], p[k]))]

LEMMA FollowTyped ==
  ASSUME NEW f, LinksOK(f), NEW q \in Path
  PROVE  Follow(f, q) \in Path
  BY DEF Follow, LinksOK

LEMMA WayExists ==
  ASSUME NEW f, LinksOK(f), NEW p \in Path
  PROVE  \E at \in [0..Len(p) -> Path] : IsWay(at, f, p)
<1> DEFINE N == Len(p)
           F == [x \in (1..N) \X Path |-> Follow(f, Append(x[2], p[x[1]]))]
<1>1. N \in Nat /\ \A k \in 1..N : p[k] \in Name
  BY DEF Path
<1>2. \A k \in 1..N, q \in Path : Append(q, p[k]) \in Path
  BY <1>1, FrontLastOfAppend DEF Path
<1>3. F \in [(1..N) \X Path -> Path]
  BY <1>2, FollowTyped
<1>4. \A k \in 1..N, q \in Path : F[<<k, q>>] = Follow(f, Append(q, p[k]))
  OBVIOUS
<1>5. <<>> \in Path
  BY DEF Path
<1> HIDE DEF F
<1>6. PICK at \in [0..N -> Path] : IsSteps(at, <<>>, F, N)
  BY <1>1, <1>3, <1>5, StepByStep
<1>7. \A k \in 0..N : at[k] = IF k = 0 THEN <<>> ELSE F[<<k, at[k - 1]>>]
  BY <1>6 DEF IsSteps
<1>8. \A k \in 0..N : at[k] = IF k = 0 THEN <<>> ELSE Follow(f, Append(at[k - 1], p[k]))
  <2>1. TAKE k \in 0..N
  <2>2. CASE k = 0
    BY <1>7, <2>2
  <2>3. CASE k # 0
    <3>1. k \in 1..N /\ k - 1 \in 0..N
      BY <1>1, <2>3
    <3>2. at[k - 1] \in Path
      BY <3>1
    <3>3. QED
      BY <1>4, <1>7, <2>3, <3>1, <3>2
  <2>4. QED
    BY <2>2, <2>3
<1>9. IsWay(at, f, p)
  BY <1>8 DEF IsWay
<1>10. QED
  BY <1>9

(* The two ways to name the function that Reach takes the last value of.   *)
LEMMA ReachIsWay ==
  ASSUME NEW f, LinksOK(f), NEW p \in Path
  PROVE  \E at \in [0..Len(p) -> Path] :
           /\ Reach(f, p) = at[Len(p)] /\ at[0] = <<>>
           /\ \A k \in 1..Len(p) : at[k] = Follow(f, Append(at[k - 1], p[k]))
<1> DEFINE at == CHOOSE w : IsWay(w, f, p)
<1>1. IsWay(at, f, p)
  BY WayExists
<1>2. Reach(f, p) = at[Len(p)]
  BY DEF Reach, IsWay
<1> HIDE DEF at
<1>3. Len(p) \in Nat
  BY DEF Path
<1>4. \A k \in 0..Len(p) : at[k] = IF k = 0 THEN <<>> ELSE Follow(f, Append(at[k - 1], p[k]))
  BY <1>1 DEF IsWay
<1>5. at[0] = <<>> /\ \A k \in 1..Len(p) : at[k] = Follow(f, Append(at[k - 1], p[k]))
  BY <1>3, <1>4
<1>6. at \in [0..Len(p) -> Path]
  <2> DEFINE S == {k \in Nat : k <= Len(p) => at[k] \in Path}
  <2>1. 0 \in S
    <3>1. at[0] \in Path
      BY <1>5 DEF Path
    <3>2. QED
      BY <3>1
  <2>2. ASSUME NEW k \in Nat, k \in S PROVE k + 1 \in S
    <3>1. SUFFICES ASSUME k + 1 <= Len(p) PROVE at[k + 1] \in Path
      OBVIOUS
    <3>2. k + 1 \in 1..Len(p) /\ k + 1 - 1 = k /\ at[k] \in Path
      BY <1>3, <2>2, <3>1
    <3>3. p[k + 1] \in Name
      BY <3>2 DEF Path
    <3>4. Append(at[k], p[k + 1]) \in Path
      BY <3>2, <3>3, FrontLastOfAppend DEF Path
    <3>5. QED
      BY <1>5, <3>2, <3>4, FollowTyped
  <2> HIDE DEF S
  <2>3. Nat \subseteq S
    BY <2>1, <2>2, AllNaturals
  <2>4. \A k \in 0..Len(p) : at[k] \in Path
    BY <1>3, <2>3 DEF S
  <2>5. DOMAIN at = 0..Len(p) /\ at = [k \in 0..Len(p) |-> at[k]]
    BY <1>1 DEF IsWay
  <2>6. QED
    BY <2>4, <2>5
<1>7. QED
  BY <1>2, <1>5, <1>6

(* The last name is looked for where the names before it lead.             *)
LEMMA ReachStep ==
  ASSUME NEW f, LinksOK(f), NEW p \in Path
  PROVE  /\ Reach(f, p) \in Path
         /\ p = <<>> => Reach(f, p) = <<>>
         /\ p # <<>> => /\ Entry(f, p) \in Path /\ Entry(f, p) # <<>>
                        /\ Front(Entry(f, p)) = Reach(f, Front(p))
                        /\ Reach(f, p) = Follow(f, Entry(f, p))
<1>1. PICK at \in [0..Len(p) -> Path] :
        /\ Reach(f, p) = at[Len(p)] /\ at[0] = <<>>
        /\ \A k \in 1..Len(p) : at[k] = Follow(f, Append(at[k - 1], p[k]))
  BY ReachIsWay
<1>2. Len(p) \in Nat
  BY DEF Path
<1>3. Reach(f, p) \in Path
  BY <1>1, <1>2
<1>4. ASSUME p = <<>> PROVE Reach(f, p) = <<>>
  BY <1>1, <1>4
<1>5. ASSUME p # <<>>
      PROVE  /\ Entry(f, p) \in Path /\ Entry(f, p) # <<>>
             /\ Front(Entry(f, p)) = Reach(f, Front(p))
             /\ Reach(f, p) = Follow(f, Entry(f, p))
  <2> DEFINE r == Front(p)
  <2>1. /\ r \in Path /\ Len(r) = Len(p) - 1 /\ Last(p) \in Name /\ Len(p) \in Nat \ {0}
        /\ \A k \in 1..(Len(p) - 1) : r[k] = p[k]
    BY <1>5, FrontLast DEF Path
  <2> HIDE DEF r
  <2>2. PICK w \in [0..Len(r) -> Path] :
          /\ Reach(f, r) = w[Len(r)] /\ w[0] = <<>>
          /\ \A k \in 1..Len(r) : w[k] = Follow(f, Append(w[k - 1], r[k]))
    BY <2>1, ReachIsWay
  <2> DEFINE S == {k \in Nat : k <= Len(r) => w[k] = at[k]}
  <2>3. 0 \in S
    BY <1>1, <2>2
  <2>4. ASSUME NEW k \in Nat, k \in S PROVE k + 1 \in S
    <3>1. SUFFICES ASSUME k + 1 <= Len(r) PROVE w[k + 1] = at[k + 1]
      OBVIOUS
    <3>2. k + 1 \in 1..Len(r) /\ k + 1 \in 1..Len(p) /\ k + 1 - 1 = k /\ w[k] = at[k]
          /\ k + 1 \in 1..(Len(p) - 1)
      BY <2>1, <2>4, <3>1
    <3>3. r[k + 1] = p[k + 1]
      BY <2>1, <3>2
    <3>4. QED
      BY <1>1, <2>2, <3>2, <3>3
  <2> HIDE DEF S
  <2>5. w[Len(r)] = at[Len(r)]
    <3>1. Len(r) \in S
      BY <2>1, <2>3, <2>4, AllNaturals
    <3>2. QED
      BY <2>1, <3>1 DEF S
  <2>6. at[Len(p)] = Follow(f, Append(Reach(f, r), p[Len(p)]))
    BY <1>1, <2>1, <2>2, <2>5
  <2>7. Entry(f, p) = Append(Reach(f, r), p[Len(p)])
    BY DEF Entry, r, Last
  <2>8. Reach(f, r) \in Path /\ p[Len(p)] \in Name
    BY <2>1, <2>2 DEF Last
  <2>9. /\ Entry(f, p) \in Path /\ Entry(f, p) # <<>> /\ Front(Entry(f, p)) = Reach(f, r)
    BY <2>7, <2>8, FrontLastOfAppend DEF Path
  <2>10. QED
    BY <1>1, <2>6, <2>7, <2>9 DEF r
<1>6. QED
  BY <1>3, <1>4, <1>5

(* What has the same links leads to the same place.                        *)
SameLinks(f, g) ==
  \A q : /\ q \in DOMAIN f /\ f[q].kind = "link" <=> q \in DOMAIN g /\ g[q].kind = "link"
         /\ q \in DOMAIN f /\ f[q].kind = "link" => g[q].to = f[q].to

LEMMA ReachSame ==
  ASSUME NEW f, NEW g, LinksOK(f), LinksOK(g), SameLinks(f, g), NEW p \in Path
  PROVE  /\ Reach(f, p) = Reach(g, p)
         /\ p # <<>> => Entry(f, p) = Entry(g, p)
<1> DEFINE S == {n \in Nat : \A q \in Path : Len(q) = n => Reach(f, q) = Reach(g, q)}
<1>1. 0 \in S
  <2>1. ASSUME NEW q \in Path, Len(q) = 0 PROVE Reach(f, q) = Reach(g, q)
    <3>1. q = <<>>
      BY <2>1 DEF Path
    <3>2. QED
      BY <3>1, ReachStep
  <2>2. QED
    BY <2>1
<1>2. ASSUME NEW n \in Nat, n \in S PROVE n + 1 \in S
  <2>1. ASSUME NEW q \in Path, Len(q) = n + 1 PROVE Reach(f, q) = Reach(g, q)
    <3>1. q # <<>>
      BY <2>1
    <3>2. Front(q) \in Path /\ Len(Front(q)) = n
      BY <2>1, <3>1, FrontLast DEF Path
    <3>3. Reach(f, Front(q)) = Reach(g, Front(q))
      BY <1>2, <3>2
    <3>4. Entry(f, q) = Entry(g, q)
      BY <3>3 DEF Entry
    <3>5. Reach(f, q) = Follow(f, Entry(f, q)) /\ Reach(g, q) = Follow(g, Entry(g, q))
      BY <3>1, ReachStep
    <3>6. QED
      BY <3>4, <3>5 DEF Follow, SameLinks
  <2>2. QED
    BY <2>1
<1> HIDE DEF S
<1>3. Nat \subseteq S
  BY <1>1, <1>2, AllNaturals
<1>4. \A q \in Path : Reach(f, q) = Reach(g, q)
  <2>1. \A q \in Path : Len(q) \in Nat
    BY DEF Path
  <2>2. QED
    BY <1>3, <2>1 DEF S
<1>5. ASSUME p # <<>> PROVE Entry(f, p) = Entry(g, p)
  <2>1. Front(p) \in Path
    BY <1>5, FrontLast DEF Path
  <2>2. QED
    BY <1>4, <2>1 DEF Entry
<1>6. QED
  BY <1>4, <1>5

----------------------------------------------------------------------------
(* Trees                                                                    *)

(* The modes of a table, and the two that bb_make_directory() gives.        *)
Mode == STRING \cup {"0777", "07777"}
AnyNode ==
  [kind : {"dir", "file", "link", "char", "block", "fifo"}, owner : Users, mode : Mode,
   to : Seq(STRING), caps : SUBSET STRING, dev : Seq(Nat)]

Tree(f) ==
  /\ \A q \in DOMAIN f : f[q] \in AnyNode
  /\ DOMAIN f \subseteq Path /\ IsFiniteSet(DOMAIN f) /\ HasParents(f)
  /\ f = [q \in DOMAIN f |-> f[q]]

LEMMA TreeLinks ==
  ASSUME NEW f, Tree(f)
  PROVE  LinksOK(f)
<1>1. Seq(STRING) \subseteq Path
  BY GivenPaths
<1>2. QED
  BY <1>1 DEF Tree, AnyNode, LinksOK

(* What is in a tree is where its path leads.                              *)
LEMMA ReachNode ==
  ASSUME NEW f, Tree(f), NEW q \in DOMAIN f
  PROVE  /\ q # <<>> => Entry(f, q) = q /\ Reach(f, Front(q)) = Front(q)
         /\ f[q].kind # "link" => Reach(f, q) = q
<1>1. LinksOK(f)
  BY TreeLinks
<1> DEFINE Own(r) == /\ r # <<>> => Entry(f, r) = r /\ Reach(f, Front(r)) = Front(r)
                     /\ f[r].kind # "link" => Reach(f, r) = r
           S == {n \in Nat : \A r \in DOMAIN f : Len(r) = n => Own(r)}
<1>2. 0 \in S
  <2>1. ASSUME NEW r \in DOMAIN f, Len(r) = 0 PROVE Own(r)
    <3>1. r = <<>> /\ r \in Path
      BY <2>1 DEF Path, Tree
    <3>2. Reach(f, r) = <<>>
      BY <1>1, <3>1, ReachStep
    <3>3. QED
      BY <3>1, <3>2
  <2> HIDE DEF Own
  <2>2. QED
    BY <2>1
<1>3. ASSUME NEW n \in Nat, n \in S PROVE n + 1 \in S
  <2>1. ASSUME NEW r \in DOMAIN f, Len(r) = n + 1 PROVE Own(r)
    <3>1. r # <<>> /\ r \in Path
      BY <2>1 DEF Tree
    <3>2. /\ Front(r) \in Path /\ Len(Front(r)) = n /\ r = Append(Front(r), Last(r))
      BY <2>1, <3>1, FrontLast DEF Path
    <3>3. Front(r) \in DOMAIN f /\ f[Front(r)].kind # "link"
      BY <3>1 DEF Tree, HasParents
    <3>4. Reach(f, Front(r)) = Front(r)
      BY <1>3, <3>2, <3>3
    <3>5. Entry(f, r) = r
      BY <3>2, <3>4 DEF Entry
    <3>6. Reach(f, r) = Follow(f, r)
      BY <1>1, <3>1, <3>5, ReachStep
    <3>7. QED
      BY <3>4, <3>5, <3>6 DEF Follow
  <2> HIDE DEF Own
  <2>2. QED
    BY <2>1
<1> HIDE DEF S
<1>4. Len(q) \in Nat
  BY DEF Tree, Path
<1>5. Len(q) \in S
  BY <1>2, <1>3, <1>4, AllNaturals
<1> HIDE DEF Own
<1>6. Own(q)
  BY <1>5 DEF S
<1>7. QED
  BY <1>6 DEF Own

(* What is there is in a directory.                                        *)
LEMMA InDirectory ==
  ASSUME NEW f, Tree(f), NEW p \in Path, p # <<>>, Entry(f, p) \in DOMAIN f \/ Exists(f, p)
  PROVE  /\ Entry(f, p) \in DOMAIN f
         /\ Front(p) \in Path /\ IsA(f, "dir", Front(p))
<1>1. LinksOK(f)
  BY TreeLinks
<1>2. /\ Entry(f, p) # <<>> /\ Front(Entry(f, p)) = Reach(f, Front(p))
      /\ Reach(f, p) = Follow(f, Entry(f, p))
  BY <1>1, ReachStep
<1>3. Entry(f, p) \in DOMAIN f
  BY <1>2 DEF Exists, Follow
<1>4. Reach(f, Front(p)) \in DOMAIN f /\ f[Reach(f, Front(p))].kind = "dir"
  BY <1>2, <1>3 DEF Tree, HasParents
<1>5. Front(p) \in Path
  BY FrontLast DEF Path
<1>6. QED
  BY <1>3, <1>4, <1>5 DEF IsA, Exists

LEMMA AllThere ==
  ASSUME NEW f, Tree(f), NEW p \in Path, Exists(f, p), NEW n \in 1..Len(p)
  PROVE  Exists(f, SubSeq(p, 1, n))
<1>1. Len(p) \in Nat
  BY DEF Path
<1> DEFINE S == {m \in Nat : m < Len(p) => Exists(f, SubSeq(p, 1, Len(p) - m))}
<1>2. 0 \in S
  <2>1. SUFFICES ASSUME 0 < Len(p) PROVE Exists(f, SubSeq(p, 1, Len(p) - 0))
    OBVIOUS
  <2>2. SubSeq(p, 1, Len(p)) = p
    BY <1>1, Upto
  <2>3. Len(p) - 0 = Len(p)
    BY <1>1
  <2>4. QED
    BY <2>2, <2>3
<1>3. ASSUME NEW m \in Nat, m \in S PROVE m + 1 \in S
  <2>1. SUFFICES ASSUME m + 1 < Len(p) PROVE Exists(f, SubSeq(p, 1, Len(p) - (m + 1)))
    OBVIOUS
  <2> DEFINE k == Len(p) - m
  <2>2. k \in 1..Len(p) /\ Len(p) - (m + 1) = k - 1
    BY <1>1, <2>1
  <2>3. Exists(f, SubSeq(p, 1, k))
    BY <1>1, <1>3, <2>1
  <2> HIDE DEF k
  <2>4. /\ SubSeq(p, 1, k) \in Path /\ SubSeq(p, 1, k) # <<>>
        /\ Front(SubSeq(p, 1, k)) = SubSeq(p, 1, k - 1)
    BY <2>2, Upto
  <2>5. IsA(f, "dir", SubSeq(p, 1, k - 1))
    BY <2>3, <2>4, InDirectory
  <2>6. QED
    BY <2>2, <2>5 DEF IsA
<1> HIDE DEF S
<1>4. Len(p) - n \in Nat /\ Len(p) - n < Len(p) /\ Len(p) - (Len(p) - n) = n
  BY <1>1
<1>5. Len(p) - n \in S
  BY <1>2, <1>3, <1>4, AllNaturals
<1>6. QED
  BY <1>4, <1>5 DEF S

----------------------------------------------------------------------------
(* How a tree changes                                                       *)

(* g is f after some lines: nodes come and none goes, what is there stays   *)
(* what it is, no file and no link is made, and files alone get             *)
(* capabilities.                                                            *)
Grown(f, g) ==
  /\ Tree(g) /\ DOMAIN f \subseteq DOMAIN g
  /\ \A q \in DOMAIN f : /\ g[q].kind = f[q].kind /\ g[q].to = f[q].to /\ g[q].dev = f[q].dev
                         /\ f[q].kind # "file" => g[q].caps = f[q].caps
  /\ \A q \in DOMAIN g \ DOMAIN f : g[q].kind \notin {"file", "link"} /\ g[q].caps = {}

LEMMA GrownReflexive ==
  ASSUME NEW f, Tree(f)
  PROVE  Grown(f, f)
  BY DEF Grown

LEMMA GrownTransitive ==
  ASSUME NEW f, NEW g, NEW h, Grown(f, g), Grown(g, h)
  PROVE  Grown(f, h)
<1>1. \A q \in DOMAIN h \ DOMAIN f : h[q].kind \notin {"file", "link"} /\ h[q].caps = {}
  <2>1. TAKE q \in DOMAIN h \ DOMAIN f
  <2>2. CASE q \in DOMAIN g
    BY <2>1, <2>2 DEF Grown
  <2>3. CASE q \notin DOMAIN g
    BY <2>1, <2>3 DEF Grown
  <2>4. QED
    BY <2>2, <2>3
<1>2. \A q \in DOMAIN f : /\ h[q].kind = f[q].kind /\ h[q].to = f[q].to /\ h[q].dev = f[q].dev
                          /\ f[q].kind # "file" => h[q].caps = f[q].caps
  BY DEF Grown
<1>3. QED
  BY <1>1, <1>2 DEF Grown

(* The same paths lead to the same places, and what is there is there yet. *)
LEMMA GrownReach ==
  ASSUME NEW f, NEW g, Tree(f), Grown(f, g), NEW p \in Path
  PROVE  /\ Reach(g, p) = Reach(f, p)
         /\ p # <<>> => Entry(g, p) = Entry(f, p)
         /\ Exists(f, p) => Exists(g, p)
         /\ \A kind : IsA(f, kind, p) => IsA(g, kind, p)
<1>1. Tree(g) /\ LinksOK(f) /\ LinksOK(g)
  BY TreeLinks DEF Grown
<1>2. SameLinks(f, g)
  <2>1. ASSUME NEW q
        PROVE  /\ q \in DOMAIN f /\ f[q].kind = "link" <=> q \in DOMAIN g /\ g[q].kind = "link"
               /\ q \in DOMAIN f /\ f[q].kind = "link" => g[q].to = f[q].to
    <3>1. CASE q \in DOMAIN f
      BY <3>1 DEF Grown
    <3>2. CASE q \notin DOMAIN f
      BY <3>2 DEF Grown
    <3>3. QED
      BY <3>1, <3>2
  <2>2. QED
    BY <2>1 DEF SameLinks
<1>3. /\ Reach(g, p) = Reach(f, p)
      /\ p # <<>> => Entry(g, p) = Entry(f, p)
  BY <1>1, <1>2, ReachSame
<1>4. QED
  BY <1>3 DEF Exists, IsA, Grown

(* The kinds of nodes stay.                                                *)
LEMMA GrownByFields ==
  ASSUME NEW f, Tree(f), NEW g, g = [q \in DOMAIN f |-> g[q]],
         \A q \in DOMAIN f : /\ g[q] \in AnyNode
                             /\ g[q].kind = f[q].kind /\ g[q].to = f[q].to /\ g[q].dev = f[q].dev
                             /\ f[q].kind # "file" => g[q].caps = f[q].caps
  PROVE  Grown(f, g)
<1>1. DOMAIN g = DOMAIN f
  OBVIOUS
<1>2. HasParents(g)
  <2>1. /\ <<>> \in DOMAIN g /\ g[<<>>].kind = "dir"
    BY <1>1 DEF Tree, HasParents
  <2>2. \A q \in DOMAIN g \ {<<>>} : Front(q) \in DOMAIN g /\ g[Front(q)].kind = "dir"
    BY <1>1 DEF Tree, HasParents
  <2>3. QED
    BY <2>1, <2>2 DEF HasParents
<1>3. Tree(g)
  BY <1>1, <1>2 DEF Tree
<1>4. QED
  BY <1>1, <1>3 DEF Grown

(* chmod(), chown() and lchown() change the mode or the owner of one node.  *)
SetsOnly(f, g, q, x) ==
  /\ g = [r \in DOMAIN f |-> g[r]]
  /\ \A r \in DOMAIN f \ {q} : g[r] = f[r]
  /\ q \in DOMAIN f => /\ g[q] \in AnyNode
                       /\ g[q].kind = f[q].kind /\ g[q].to = f[q].to /\ g[q].dev = f[q].dev
                       /\ x # "owner" => g[q].owner = f[q].owner
                       /\ x # "mode"  => g[q].mode = f[q].mode
                       /\ x # "caps"  => g[q].caps = f[q].caps
                       /\ f[q].kind # "file" => g[q].caps = f[q].caps

LEMMA SetsOnlyGrows ==
  ASSUME NEW f, Tree(f), NEW g, NEW q, NEW x, SetsOnly(f, g, q, x)
  PROVE  Grown(f, g)
<1>1. \A r \in DOMAIN f :
        /\ g[r] \in AnyNode
        /\ g[r].kind = f[r].kind /\ g[r].to = f[r].to /\ g[r].dev = f[r].dev
        /\ f[r].kind # "file" => g[r].caps = f[r].caps
  BY DEF SetsOnly, Tree
<1>2. g = [r \in DOMAIN f |-> g[r]]
  BY DEF SetsOnly
<1>3. QED
  BY <1>1, <1>2, GrownByFields

LEMMA SetMode ==
  ASSUME NEW f, Tree(f), NEW q, NEW mode \in Mode
  PROVE  LET g == [f EXCEPT ![q].mode = mode]
         IN  SetsOnly(f, g, q, "mode") /\ (q \in DOMAIN f => g[q].mode = mode)
<1> DEFINE g == [f EXCEPT ![q].mode = mode]
<1>1. g = [r \in DOMAIN f |-> g[r]] /\ \A r \in DOMAIN f \ {q} : g[r] = f[r]
  BY DEF Tree
<1>2. ASSUME q \in DOMAIN f
      PROVE  /\ g[q] = [f[q] EXCEPT !.mode = mode] /\ f[q] \in AnyNode
             /\ g[q] \in AnyNode /\ g[q].mode = mode
  BY <1>2 DEF Tree, AnyNode
<1> HIDE DEF g
<1>3. ASSUME q \in DOMAIN f
      PROVE  /\ g[q].kind = f[q].kind /\ g[q].to = f[q].to /\ g[q].dev = f[q].dev
             /\ g[q].owner = f[q].owner /\ g[q].caps = f[q].caps
  BY <1>2, <1>3 DEF AnyNode
<1>4. QED
  BY <1>1, <1>2, <1>3 DEF SetsOnly, g

LEMMA SetOwner ==
  ASSUME NEW f, Tree(f), NEW q, NEW who \in Users
  PROVE  LET g == [f EXCEPT ![q].owner = who]
         IN  SetsOnly(f, g, q, "owner") /\ (q \in DOMAIN f => g[q].owner = who)
<1> DEFINE g == [f EXCEPT ![q].owner = who]
<1>1. g = [r \in DOMAIN f |-> g[r]] /\ \A r \in DOMAIN f \ {q} : g[r] = f[r]
  BY DEF Tree
<1>2. ASSUME q \in DOMAIN f
      PROVE  /\ g[q] = [f[q] EXCEPT !.owner = who] /\ f[q] \in AnyNode
             /\ g[q] \in AnyNode /\ g[q].owner = who
  BY <1>2 DEF Tree, AnyNode
<1> HIDE DEF g
<1>3. ASSUME q \in DOMAIN f
      PROVE  /\ g[q].kind = f[q].kind /\ g[q].to = f[q].to /\ g[q].dev = f[q].dev
             /\ g[q].mode = f[q].mode /\ g[q].caps = f[q].caps
  BY <1>2, <1>3 DEF AnyNode
<1>4. QED
  BY <1>1, <1>2, <1>3 DEF SetsOnly, g

LEMMA SetCaps ==
  ASSUME NEW f, Tree(f), NEW q, NEW c \in STRING, q \in DOMAIN f => f[q].kind = "file"
  PROVE  LET g == [f EXCEPT ![q].caps = @ \cup {c}]
         IN  SetsOnly(f, g, q, "caps") /\ (q \in DOMAIN f => g[q].caps = f[q].caps \cup {c})
<1> DEFINE g == [f EXCEPT ![q].caps = @ \cup {c}]
<1>1. g = [r \in DOMAIN f |-> g[r]] /\ \A r \in DOMAIN f \ {q} : g[r] = f[r]
  BY DEF Tree
<1>2. ASSUME q \in DOMAIN f
      PROVE  /\ g[q] = [f[q] EXCEPT !.caps = f[q].caps \cup {c}] /\ f[q] \in AnyNode
             /\ g[q] \in AnyNode /\ g[q].caps = f[q].caps \cup {c}
  <2>1. f[q] \in AnyNode /\ f[q].caps \cup {c} \in SUBSET STRING
    BY <1>2 DEF Tree, AnyNode
  <2>2. g[q] = [f[q] EXCEPT !.caps = f[q].caps \cup {c}]
    BY <1>2 DEF Tree
  <2> HIDE DEF g
  <2>3. QED
    BY <2>1, <2>2 DEF AnyNode
<1> HIDE DEF g
<1>3. ASSUME q \in DOMAIN f
      PROVE  /\ g[q].kind = f[q].kind /\ g[q].to = f[q].to /\ g[q].dev = f[q].dev
             /\ g[q].mode = f[q].mode /\ g[q].owner = f[q].owner
  BY <1>2, <1>3 DEF AnyNode
<1>4. q \in DOMAIN f => f[q].kind = "file"
  OBVIOUS
<1>5. QED
  BY <1>1, <1>2, <1>3, <1>4 DEF SetsOnly, g

(* A node comes where there is a directory.                                *)
LEMMA AddNodes ==
  ASSUME NEW f, Tree(f), NEW new, NEW g, DOMAIN new \cap DOMAIN f = {}, IsFiniteSet(DOMAIN new),
         DOMAIN new \subseteq Path,
         g = [q \in DOMAIN f \cup DOMAIN new |-> IF q \in DOMAIN new THEN new[q] ELSE f[q]],
         \A q \in DOMAIN new :
           /\ q # <<>> /\ new[q] \in AnyNode /\ new[q].kind \notin {"file", "link"} /\ new[q].caps = {}
           /\ \/ Front(q) \in DOMAIN f /\ f[Front(q)].kind = "dir"
              \/ Front(q) \in DOMAIN new /\ new[Front(q)].kind = "dir"
  PROVE  /\ Grown(f, g)
         /\ \A q \in DOMAIN f : g[q] = f[q]
         /\ \A q \in DOMAIN new : g[q] = new[q]
         /\ DOMAIN g = DOMAIN f \cup DOMAIN new
<1>1. /\ DOMAIN g = DOMAIN f \cup DOMAIN new
      /\ \A q \in DOMAIN f : g[q] = f[q]
      /\ \A q \in DOMAIN new : g[q] = new[q]
      /\ g = [q \in DOMAIN g |-> g[q]]
  OBVIOUS
<1>2. IsFiniteSet(DOMAIN g)
  BY <1>1, FS_Union DEF Tree
<1>3. HasParents(g)
  <2>1. <<>> \in DOMAIN g /\ g[<<>>].kind = "dir"
    BY <1>1 DEF Tree, HasParents
  <2>2. ASSUME NEW q \in DOMAIN g \ {<<>>}
        PROVE  Front(q) \in DOMAIN g /\ g[Front(q)].kind = "dir"
    <3>1. CASE q \in DOMAIN f
      BY <1>1, <2>2, <3>1 DEF Tree, HasParents
    <3>2. CASE q \in DOMAIN new
      BY <1>1, <2>2, <3>2
    <3>3. QED
      BY <1>1, <2>2, <3>1, <3>2
  <2>3. QED
    BY <2>1, <2>2 DEF HasParents
<1>4. \A q \in DOMAIN g : g[q] \in AnyNode /\ q \in Path
  BY <1>1 DEF Tree
<1>5. Tree(g)
  BY <1>1, <1>2, <1>3, <1>4 DEF Tree
<1>6. QED
  BY <1>1, <1>5 DEF Grown

LEMMA NodeTyped ==
  ASSUME NEW kind \in {"dir", "file", "link", "char", "block", "fifo"}, NEW who \in Users,
         NEW mode \in Mode
  PROVE  LET n == Node(kind, who, mode)
         IN  n \in AnyNode /\ n.kind = kind /\ n.owner = who /\ n.mode = mode /\ n.caps = {}
<1>1. <<>> \in Seq(STRING) /\ <<>> \in Seq(Nat) /\ {} \in SUBSET STRING
  OBVIOUS
<1>2. QED
  BY <1>1 DEF Node, AnyNode, NoFile

(* The directories on the way are made, all of them or none.               *)
LEMMA DirectoriesMade ==
  ASSUME Tree(fs), NEW p \in Path, p # <<>>, NEW mode \in Mode, NEW g,
         g = bb_make_directory(p, mode)
  PROVE  /\ Grown(fs, g)
         /\ \A q \in DOMAIN fs : g[q] = fs[q]
         /\ \A q \in DOMAIN g \ DOMAIN fs : \E n \in 1..Len(p) : Reach(fs, SubSeq(p, 1, n)) = q
<1> DEFINE upto(k) == SubSeq(p, 1, k)
           none    == {k \in 1..Len(p) : ~IsA(fs, "dir", upto(k))}
           Made(q) == Node("dir", "root", IF q # Reach(fs, p) THEN "0777"
                                          ELSE IF mode = "keep" THEN "07777" ELSE mode)
           new     == [q \in {Reach(fs, upto(k)) : k \in none} |-> Made(q)]
<1>1. LinksOK(fs) /\ Len(p) \in Nat
  BY TreeLinks DEF Path
<1>0. /\ \A k \in 1..Len(p) : /\ upto(k) \in Path /\ upto(k) # <<>>
                               /\ Front(upto(k)) = upto(k - 1)
      /\ upto(0) = <<>>
  <2>1. ASSUME NEW k \in 1..Len(p)
        PROVE  /\ SubSeq(p, 1, k) \in Path /\ SubSeq(p, 1, k) # <<>>
               /\ Front(SubSeq(p, 1, k)) = SubSeq(p, 1, k - 1) /\ SubSeq(p, 1, 0) = <<>>
    BY Upto
  <2>2. 1 \in 1..Len(p)
    BY <1>1 DEF Path
  <2>3. QED
    BY <2>1, <2>2
<1>2. CASE \E k \in none : Entry(fs, upto(k)) \in DOMAIN fs
  <2>1. g = fs
    BY <1>2 DEF bb_make_directory
  <2>2. QED
    BY <2>1, GrownReflexive
<1>3. CASE ~\E k \in none : Entry(fs, upto(k)) \in DOMAIN fs
  <2>1. g = Plus(fs, new)
    BY <1>3 DEF bb_make_directory
  <2>2. \A k \in none : /\ upto(k) \in Path /\ upto(k) # <<>> /\ k \in 1..Len(p)
                        /\ Front(upto(k)) = upto(k - 1)
    BY <1>0
  <2>3. \A k \in none : /\ Reach(fs, upto(k)) = Entry(fs, upto(k)) /\ Reach(fs, upto(k)) \notin DOMAIN fs
                        /\ Reach(fs, upto(k)) \in Path /\ Reach(fs, upto(k)) # <<>>
                        /\ Front(Reach(fs, upto(k))) = Reach(fs, upto(k - 1))
    <3>1. TAKE k \in none
    <3>2. /\ Entry(fs, upto(k)) \in Path /\ Entry(fs, upto(k)) # <<>>
          /\ Front(Entry(fs, upto(k))) = Reach(fs, Front(upto(k)))
          /\ Reach(fs, upto(k)) = Follow(fs, Entry(fs, upto(k)))
      BY <1>1, <2>2, ReachStep
    <3>3. Entry(fs, upto(k)) \notin DOMAIN fs
      BY <1>3
    <3>4. QED
      BY <2>2, <3>2, <3>3 DEF Follow
  <2>4. \A q \in DOMAIN new : new[q] \in AnyNode /\ new[q].kind = "dir" /\ new[q].caps = {}
    <3>1. TAKE q \in DOMAIN new
    <3> DEFINE m == IF q # Reach(fs, p) THEN "0777" ELSE IF mode = "keep" THEN "07777" ELSE mode
    <3>2. new[q] = Made(q) /\ Made(q) = Node("dir", "root", m)
      OBVIOUS
    <3>3. m \in Mode
      <4>1. m = "0777" \/ m = "07777" \/ m = mode
        OBVIOUS
      <4> HIDE DEF m
      <4>2. QED
        BY <4>1 DEF Mode
    <3> HIDE DEF m, new, Made
    <3>4. QED
      BY <3>2, <3>3, NodeTyped, UsersAssumption
  <2>5. ASSUME NEW k \in none
        PROVE  LET r == Reach(fs, upto(k - 1))
               IN  \/ r \in DOMAIN fs /\ fs[r].kind = "dir"
                   \/ r \in DOMAIN new /\ new[r].kind = "dir"
    <3>1. CASE k = 1
      <4>1. upto(0) = <<>> /\ k - 1 = 0
        BY <1>0, <3>1
      <4>2. <<>> \in Path
        BY DEF Path
      <4>3. Reach(fs, <<>>) = <<>>
        BY <1>1, <4>2, ReachStep
      <4> HIDE DEF new, upto, none
      <4>4. Reach(fs, upto(k - 1)) = <<>>
        BY <4>1, <4>3
      <4>5. <<>> \in DOMAIN fs /\ fs[<<>>].kind = "dir"
        BY DEF Tree, HasParents
      <4>6. QED
        BY <4>4, <4>5
    <3>2. CASE k # 1 /\ k - 1 \in none
      BY <2>4, <3>2
    <3>3. CASE k # 1 /\ k - 1 \notin none
      <4>1. k - 1 \in 1..Len(p)
        BY <1>1, <3>3
      <4>2. IsA(fs, "dir", upto(k - 1))
        BY <3>3, <4>1
      <4> HIDE DEF new, upto, none
      <4>3. Reach(fs, upto(k - 1)) \in DOMAIN fs /\ fs[Reach(fs, upto(k - 1))].kind = "dir"
        BY <4>2 DEF IsA, Exists
      <4>4. QED
        BY <4>3
    <3>4. QED
      BY <3>1, <3>2, <3>3
  <2>6. IsFiniteSet(DOMAIN new)
    <3>1. IsFiniteSet(1..Len(p)) /\ none \in SUBSET (1..Len(p))
      BY <1>1, FS_Interval
    <3>2. IsFiniteSet(none)
      BY <3>1, FS_Subset
    <3> DEFINE at == [k \in none |-> Reach(fs, upto(k))]
    <3>3. DOMAIN new = {at[k] : k \in none}
      OBVIOUS
    <3>4. IsFiniteSet({at[k] : k \in none})
      <4>1. at \in Surjection(none, {at[k] : k \in none})
        <5> HIDE DEF none
        <5>1. at \in [none -> {at[k] : k \in none}]
          OBVIOUS
        <5> HIDE DEF at
        <5>2. \A x \in {at[k] : k \in none} : \E k \in none : at[k] = x
          OBVIOUS
        <5>3. QED
          BY <5>1, <5>2 DEF Surjection
      <4> HIDE DEF at, none
      <4>2. QED
        BY <3>2, <4>1, FS_Surjection
    <3>5. QED
      BY <3>3, <3>4
  <2>7. DOMAIN new = {Reach(fs, upto(k)) : k \in none}
    OBVIOUS
  <2>8. DOMAIN new \cap DOMAIN fs = {} /\ DOMAIN new \subseteq Path
    BY <2>3, <2>7
  <2>9. \A q \in DOMAIN new :
          /\ q # <<>> /\ new[q] \in AnyNode /\ new[q].kind \notin {"file", "link"} /\ new[q].caps = {}
          /\ \/ Front(q) \in DOMAIN fs /\ fs[Front(q)].kind = "dir"
             \/ Front(q) \in DOMAIN new /\ new[Front(q)].kind = "dir"
    <3>1. TAKE q \in DOMAIN new
    <3>2. PICK k \in none : q = Reach(fs, upto(k))
      BY <2>7
    <3> HIDE DEF new, none, upto
    <3>3. q # <<>> /\ Front(q) = Reach(fs, upto(k - 1))
      BY <2>3, <3>2
    <3>4. QED
      BY <2>4, <2>5, <3>3
  <2>10. g = [q \in DOMAIN fs \cup DOMAIN new |-> IF q \in DOMAIN new THEN new[q] ELSE fs[q]]
    <3> HIDE DEF new
    <3>1. QED
      BY <2>1 DEF Plus
  <2>11. \A q \in DOMAIN new : \E n \in 1..Len(p) : Reach(fs, upto(n)) = q
    BY <2>7
  <2> HIDE DEF new, none
  <2>12. /\ Grown(fs, g) /\ DOMAIN g = DOMAIN fs \cup DOMAIN new
         /\ \A q \in DOMAIN fs : g[q] = fs[q]
    BY <2>6, <2>8, <2>9, <2>10, AddNodes
  <2>13. QED
    BY <2>11, <2>12
<1>4. QED
  BY <1>2, <1>3

(* The loop over the nodes of a line.                                      *)
IsMade(made, who) ==
  made = [k \in 0..(LastOf(l) + 1) |->
           IF k = 0 THEN fs
           ELSE IF ~CanMake(made[k - 1], l, k - 1) THEN made[k - 1]
           ELSE Plus(made[k - 1],
                     [q \in {Entry(made[k - 1], NameOf(l, k - 1))} |-> NodeOf(l, who, k - 1)])]

(* Names with a number.                                                    *)
LEMMA NumberedTyped ==
  ASSUME NEW p \in Seq(STRING), p # <<>>, NEW n \in Nat
  PROVE  Numbered(p, n) \in Path /\ Numbered(p, n) # <<>>
<1>1. Front(p) \in Seq(STRING) /\ Last(p) \in STRING
  BY FrontLast
<1>2. Last(p) \o ToString(n) \in Name
  <2>1. Last(p) \o ToString(n) \in WithNumber(Last(p))
    BY Zenon DEF WithNumber
  <2>2. QED
    BY <1>1, <2>1 DEF Name
<1>3. Front(p) \in Seq(Name)
  BY <1>1, GivenPaths DEF Path
<1>4. QED
  BY <1>2, <1>3, FrontLastOfAppend DEF Numbered, Path

NodeTypes == {"c", "b", "p"}

LEMMA LineOfNodes ==
  ASSUME NEW line \in Line, line.type \in NodeTypes, line.name # <<>>, NEW who \in Users
  PROVE  /\ LastOf(line) \in Nat
         /\ \A k \in Nat : /\ NameOf(line, k) \in Path /\ NameOf(line, k) # <<>>
                           /\ NodeOf(line, who, k) \in AnyNode
                           /\ NodeOf(line, who, k).kind = Kinds[line.type]
                           /\ NodeOf(line, who, k).owner = who
                           /\ NodeOf(line, who, k).mode = line.mode
                           /\ NodeOf(line, who, k).caps = {}
                           /\ NodeOf(line, who, k).dev = <<line.major, line.minor + k * line.inc>>
         /\ Kinds[line.type] \in {"char", "block", "fifo"}
<1>1. /\ line.name \in Seq(STRING) /\ line.mode \in STRING
      /\ line.major \in Nat /\ line.minor \in Nat /\ line.start \in Nat /\ line.inc \in Nat
      /\ line.count \in Nat
  BY DEF Line
<1>2. LastOf(line) \in Nat
  BY <1>1 DEF LastOf
<1>3. Kinds[line.type] \in {"char", "block", "fifo"}
  BY DEF Kinds, NodeTypes
<1>4. ASSUME NEW k \in Nat
      PROVE  NameOf(line, k) \in Path /\ NameOf(line, k) # <<>>
  <2>1. line.name \in Path
    BY <1>1, GivenPaths
  <2>2. line.start + k \in Nat
    BY <1>1
  <2>3. QED
    BY <1>1, <2>1, <2>2, NumberedTyped DEF NameOf
<1>5. ASSUME NEW k \in Nat
      PROVE  /\ NodeOf(line, who, k) \in AnyNode
             /\ NodeOf(line, who, k).kind = Kinds[line.type]
             /\ NodeOf(line, who, k).owner = who
             /\ NodeOf(line, who, k).mode = line.mode
             /\ NodeOf(line, who, k).caps = {}
             /\ NodeOf(line, who, k).dev = <<line.major, line.minor + k * line.inc>>
  <2> DEFINE node == Node(Kinds[line.type], who, line.mode)
             dev  == <<line.major, line.minor + k * line.inc>>
  <2>1. line.mode \in Mode
    BY <1>1 DEF Mode
  <2>2. node \in AnyNode /\ node.kind = Kinds[line.type] /\ node.owner = who
        /\ node.mode = line.mode /\ node.caps = {}
    BY <1>3, <2>1, NodeTyped
  <2>3. line.minor + k * line.inc \in Nat
    <3>1. k * line.inc \in Nat
      BY <1>1
    <3>2. QED
      BY <1>1, <3>1
  <2>4. dev \in Seq(Nat)
    BY <1>1, <2>3
  <2>5. NodeOf(line, who, k) = [node EXCEPT !.dev = dev]
    BY DEF NodeOf
  <2> HIDE DEF node, dev
  <2>6. QED
    BY <2>2, <2>4, <2>5 DEF AnyNode, dev
<1>6. QED
  BY <1>2, <1>3, <1>4, <1>5

(* What one more node makes of a tree.                                     *)
MadeNode(f, k, who) ==
  IF ~CanMake(f, l, k) THEN f
  ELSE Plus(f, [q \in {Entry(f, NameOf(l, k))} |-> NodeOf(l, who, k)])

AnyTree == UNION {[D -> AnyNode] : D \in SUBSET Path}

LEMMA AnyTreeLinks ==
  ASSUME NEW f \in AnyTree
  PROVE  LinksOK(f)
<1>1. PICK D \in SUBSET Path : f \in [D -> AnyNode]
  BY DEF AnyTree
<1>2. Seq(STRING) \subseteq Path
  BY GivenPaths
<1>3. QED
  BY <1>1, <1>2 DEF AnyNode, LinksOK

LEMMA MadeNodeTyped ==
  ASSUME NEW f \in AnyTree, l \in Line, l.type \in NodeTypes, l.name # <<>>, NEW who \in Users,
         NEW k \in Nat
  PROVE  MadeNode(f, k, who) \in AnyTree
<1>1. PICK D \in SUBSET Path : f \in [D -> AnyNode]
  BY DEF AnyTree
<1> DEFINE p == NameOf(l, k)
           node == NodeOf(l, who, k)
           e == Entry(f, p)
<1>2. p \in Path /\ p # <<>> /\ node \in AnyNode
  BY LineOfNodes
<1> HIDE DEF p, node
<1>3. e \in Path
  BY <1>2, AnyTreeLinks, ReachStep
<1> HIDE DEF e
<1>4. CASE ~CanMake(f, l, k)
  BY <1>4 DEF MadeNode
<1>5. CASE CanMake(f, l, k)
  <2> DEFINE g == [q \in D \cup {e} |-> IF q \in {e} THEN [r \in {e} |-> node][q] ELSE f[q]]
  <2>1. MadeNode(f, k, who) = g
    <3>1. DOMAIN f = D /\ DOMAIN [q \in {e} |-> node] = {e}
      BY <1>1
    <3>2. MadeNode(f, k, who) = Plus(f, [q \in {e} |-> node])
      BY <1>5 DEF MadeNode, e, p, node
    <3>3. QED
      BY <3>1, <3>2 DEF Plus
  <2>2. g \in [D \cup {e} -> AnyNode] /\ D \cup {e} \in SUBSET Path
    BY <1>1, <1>2, <1>3
  <2> HIDE DEF g
  <2>3. QED
    BY <2>1, <2>2 DEF AnyTree
<1>6. QED
  BY <1>4, <1>5

LEMMA MadeExists ==
  ASSUME Tree(fs), l \in Line, l.type \in NodeTypes, l.name # <<>>, NEW who \in Users
  PROVE  \E made : IsMade(made, who)
<1> DEFINE N == LastOf(l) + 1
           F == [x \in (1..N) \X AnyTree |-> MadeNode(x[2], x[1] - 1, who)]
<1>1. LastOf(l) \in Nat /\ N \in Nat
  BY LineOfNodes
<1>2. fs \in AnyTree
  <2>1. fs \in [DOMAIN fs -> AnyNode] /\ DOMAIN fs \in SUBSET Path
    BY DEF Tree
  <2>2. QED
    BY <2>1 DEF AnyTree
<1>3. \A k \in 1..N, f \in AnyTree : MadeNode(f, k - 1, who) \in AnyTree
  <2>1. \A k \in 1..N : k - 1 \in Nat
    BY <1>1
  <2>2. QED
    BY <2>1, MadeNodeTyped
<1>4. F \in [(1..N) \X AnyTree -> AnyTree]
  BY <1>3
<1>5. \A k \in 1..N, f \in AnyTree : F[<<k, f>>] = MadeNode(f, k - 1, who)
  OBVIOUS
<1> HIDE DEF F
<1>6. PICK w \in [0..N -> AnyTree] : IsSteps(w, fs, F, N)
  BY <1>1, <1>2, <1>4, StepByStep
<1>7. w = [k \in 0..N |-> IF k = 0 THEN fs ELSE F[<<k, w[k - 1]>>]]
  BY <1>6 DEF IsSteps
<1>8. \A k \in 0..N : w[k] = IF k = 0 THEN fs ELSE MadeNode(w[k - 1], k - 1, who)
  <2>1. TAKE k \in 0..N
  <2>2. CASE k = 0
    BY <1>7, <2>2
  <2>3. CASE k # 0
    <3>1. k \in 1..N /\ k - 1 \in 0..N
      BY <1>1, <2>3
    <3>2. w[k - 1] \in AnyTree
      BY <3>1
    <3>3. QED
      BY <1>5, <1>7, <2>3, <3>1, <3>2
  <2>4. QED
    BY <2>2, <2>3
<1>9. DOMAIN w = 0..N /\ w = [k \in 0..N |-> w[k]]
  BY <1>6
<1> HIDE DEF N
<1>10. w = [k \in 0..N |-> IF k = 0 THEN fs ELSE MadeNode(w[k - 1], k - 1, who)]
  BY <1>8, <1>9
<1>11. IsMade(w, who)
  BY <1>10 DEF IsMade, MadeNode, N
<1>12. QED
  BY <1>11

(* What there is after the first k nodes, whatever became of each.         *)
MadeUpto(made, who, k) ==
  /\ Grown(fs, made[k])
  /\ \A q \in DOMAIN fs : made[k][q] = fs[q]
  /\ \A q \in DOMAIN made[k] \ DOMAIN fs :
       /\ made[k][q].owner = who /\ made[k][q].mode = l.mode
       /\ \E j \in 0..(k - 1) : Entry(fs, NameOf(l, j)) = q
  /\ \A j \in 0..(k - 1) :
       CanMake(made[j], l, j) => /\ Entry(fs, NameOf(l, j)) \in DOMAIN made[k]
                                 /\ made[k][Entry(fs, NameOf(l, j))] = NodeOf(l, who, j)

LEMMA OneMoreNode ==
  ASSUME Tree(fs), l \in Line, l.type \in NodeTypes, l.name # <<>>, NEW who \in Users,
         NEW made, NEW k \in Nat, MadeUpto(made, who, k), made[k + 1] = MadeNode(made[k], k, who)
  PROVE  MadeUpto(made, who, k + 1)
<1> DEFINE p == NameOf(l, k)
           node == NodeOf(l, who, k)
           e == Entry(fs, p)
           f == made[k]
<1>1. p \in Path /\ p # <<>> /\ node \in AnyNode /\ node.kind \in {"char", "block", "fifo"}
      /\ node.owner = who /\ node.mode = l.mode /\ node.caps = {}
  BY LineOfNodes
<1> HIDE DEF p, node
<1>2. Grown(fs, f) /\ Tree(f) /\ LinksOK(f) /\ \A q \in DOMAIN fs : f[q] = fs[q]
  BY TreeLinks DEF MadeUpto, Grown
<1>3. Entry(f, p) = e /\ e \in Path /\ e # <<>> /\ Front(e) = Reach(f, Front(p))
  BY <1>1, <1>2, GrownReach, ReachStep
<1> HIDE DEF e
<1>4. \A j \in 0..(k + 1 - 1) : j \in 0..(k - 1) \/ j = k
  OBVIOUS
<1>5. \A j \in 0..(k - 1) : j \in 0..(k + 1 - 1)
  OBVIOUS
<1>6. CASE ~CanMake(f, l, k)
  <2>1. made[k + 1] = f
    BY <1>6 DEF MadeNode
  <2> HIDE DEF f
  <2>2. \A j \in 0..(k + 1 - 1) :
          CanMake(made[j], l, j) => /\ Entry(fs, NameOf(l, j)) \in DOMAIN f
                                    /\ f[Entry(fs, NameOf(l, j))] = NodeOf(l, who, j)
    BY <1>4, <1>6 DEF MadeUpto, f
  <2>3. \A q \in DOMAIN f \ DOMAIN fs :
          /\ f[q].owner = who /\ f[q].mode = l.mode
          /\ \E j \in 0..(k + 1 - 1) : Entry(fs, NameOf(l, j)) = q
    BY <1>5 DEF MadeUpto, f
  <2>4. QED
    BY <1>2, <2>1, <2>2, <2>3 DEF MadeUpto
<1>7. CASE CanMake(f, l, k)
  <2> DEFINE new == [q \in {e} |-> node]
             g == Plus(f, new)
  <2>1. made[k + 1] = g
    BY <1>3, <1>7 DEF MadeNode, p, node
  <2>2. e \notin DOMAIN f /\ Front(e) \in DOMAIN f /\ f[Front(e)].kind = "dir"
    BY <1>3, <1>7 DEF CanMake, IsA, Exists, p
  <2>3. DOMAIN new = {e} /\ new[e] = node
    OBVIOUS
  <2> HIDE DEF f, new
  <2>4. IsFiniteSet(DOMAIN new)
    BY <2>3, FS_Singleton
  <2>5. g = [q \in DOMAIN f \cup DOMAIN new |-> IF q \in DOMAIN new THEN new[q] ELSE f[q]]
    BY DEF Plus
  <2> HIDE DEF g
  <2>6. /\ Grown(f, g) /\ DOMAIN g = DOMAIN f \cup {e} /\ g[e] = node
        /\ \A q \in DOMAIN f : g[q] = f[q]
    BY <1>1, <1>2, <1>3, <2>2, <2>3, <2>4, <2>5, AddNodes
  <2>7. Grown(fs, g)
    BY <1>2, <2>6, GrownTransitive
  <2>8. \A q \in DOMAIN fs : g[q] = fs[q]
    BY <1>2, <2>6 DEF Grown
  <2>9. \A q \in DOMAIN g \ DOMAIN fs :
          /\ g[q].owner = who /\ g[q].mode = l.mode
          /\ \E j \in 0..(k + 1 - 1) : Entry(fs, NameOf(l, j)) = q
    <3>1. TAKE q \in DOMAIN g \ DOMAIN fs
    <3>2. CASE q \in DOMAIN f
      BY <1>5, <2>6, <3>2 DEF MadeUpto, f
    <3>3. CASE q = e
      <4>1. k \in 0..(k + 1 - 1)
        OBVIOUS
      <4>2. QED
        BY <1>1, <2>6, <3>3, <4>1 DEF e, p
    <3>4. QED
      BY <2>6, <3>2, <3>3
  <2>10. \A j \in 0..(k + 1 - 1) :
           CanMake(made[j], l, j) => /\ Entry(fs, NameOf(l, j)) \in DOMAIN g
                                     /\ g[Entry(fs, NameOf(l, j))] = NodeOf(l, who, j)
    <3>1. ASSUME NEW j \in 0..(k + 1 - 1), CanMake(made[j], l, j)
          PROVE  /\ Entry(fs, NameOf(l, j)) \in DOMAIN g
                 /\ g[Entry(fs, NameOf(l, j))] = NodeOf(l, who, j)
      <4>1. CASE j = k
        BY <2>6, <4>1 DEF e, p, node
      <4>2. CASE j \in 0..(k - 1)
        BY <2>6, <3>1, <4>2 DEF MadeUpto, f
      <4>3. QED
        BY <1>4, <4>1, <4>2
    <3>2. QED
      BY <3>1
  <2>11. QED
    BY <2>1, <2>7, <2>8, <2>9, <2>10 DEF MadeUpto
<1>8. QED
  BY <1>6, <1>7

LEMMA AllMade ==
  ASSUME Tree(fs), l \in Line, l.type \in NodeTypes, l.name # <<>>, NEW who \in Users,
         NEW made, IsMade(made, who)
  PROVE  \A k \in 0..(LastOf(l) + 1) : MadeUpto(made, who, k)
<1> DEFINE N == LastOf(l) + 1
           S == {k \in Nat : k <= N => MadeUpto(made, who, k)}
<1>1. N \in Nat
  BY LineOfNodes
<1>2. \A k \in 0..N : made[k] = IF k = 0 THEN fs ELSE MadeNode(made[k - 1], k - 1, who)
  BY DEF IsMade, MadeNode
<1> HIDE DEF N
<1>3. 0 \in S
  <2>1. made[0] = fs
    BY <1>1, <1>2
  <2>2. MadeUpto(made, who, 0)
    BY <2>1, GrownReflexive DEF MadeUpto
  <2>3. QED
    BY <2>2
<1>4. ASSUME NEW k \in Nat, k \in S PROVE k + 1 \in S
  <2>1. SUFFICES ASSUME k + 1 <= N PROVE MadeUpto(made, who, k + 1)
    OBVIOUS
  <2>2. k + 1 \in 0..N /\ k + 1 # 0 /\ k + 1 - 1 = k /\ k <= N
    BY <1>1, <2>1
  <2>3. made[k + 1] = MadeNode(made[k], k, who)
    BY <1>2, <2>2
  <2>4. MadeUpto(made, who, k)
    BY <1>4, <2>2
  <2>5. QED
    BY <2>3, <2>4, OneMoreNode
<1> HIDE DEF S
<1>5. Nat \subseteq S
  BY <1>3, <1>4, AllNaturals
<1>6. \A k \in 0..N : MadeUpto(made, who, k)
  BY <1>1, <1>5 DEF S
<1>7. QED
  BY <1>6 DEF N

----------------------------------------------------------------------------
(* The invariant                                                            *)

TypeOK ==
  /\ tree0 \in Trees /\ table \in Tables
  /\ linenum \in Nat \ {0} /\ linenum <= Len(table) + 1
  /\ full_name \in Seq(STRING)
  /\ status \in {"run", "done", "died"}
  /\ ret \in {"SUCCESS", "FAILURE"} /\ (ret = "FAILURE" <=> failed # {})
  /\ failed \subseteq 1..Len(table)
  /\ status = "done" => linenum = Len(table) + 1 /\ walk = <<>>
  /\ Tree(tree0) /\ Grown(tree0, fs)

(* While a line is applied recursively: what is left to visit is there, in  *)
(* the directory of the line, and no part of it is in another.              *)
WalkOK ==
  /\ walk \in Seq(Path)
  /\ walk # <<>> =>
       /\ linenum \in 1..Len(table) /\ l.type = "r" /\ Valid(l) /\ full_name = l.name
       /\ l.owner = "unset" \/ owner = l.owner
       /\ owner \in Users
       /\ \A n \in 1..Len(walk) : walk[n] \in DOMAIN fs /\ IsPrefix(Entry(fs, l.name), walk[n])
       /\ \A n, k \in 1..Len(walk) : IsPrefix(walk[n], walk[k]) => n = k

(* The lines that are done with q: in one that is applied recursively, not  *)
(* all may be visited yet.                                                  *)
Pending(q) == \E n \in 1..Len(walk) : IsPrefix(walk[n], q)
Done(k, q) ==
  \/ k < linenum
  \/ k = linenum /\ walk # <<>> /\ IsPrefix(Entry(fs, l.name), q) /\ ~Pending(q)

LastDone(k, q)     == IsFor(k, q) /\ Done(k, q)
                      /\ \A j \in DOMAIN table : IsFor(j, q) /\ Done(j, q) => j <= k
LastModeDone(k, q) == SetsMode(k, q) /\ Done(k, q)
                      /\ \A j \in DOMAIN table : SetsMode(j, q) /\ Done(j, q) => j <= k

OwnersRight == \A q \in DOMAIN fs, k \in DOMAIN table :
  LastDone(k, q) /\ table[k].owner # "unset" => fs[q].owner = table[k].owner
ModesRight == \A q \in DOMAIN fs, k \in DOMAIN table :
  LastModeDone(k, q) /\ fs[q].kind # "link" => fs[q].mode = table[k].mode

(* What the lines so far make is there, and nothing else has come.          *)
AllMadeOnly ==
  /\ \A k \in DOMAIN table : \A q : k < linenum /\ Makes(k, q) => q \in DOMAIN fs
  /\ \A q \in DOMAIN fs \ DOMAIN tree0 : \E k \in DOMAIN table : k < linenum /\ Makes(k, q)

NodesRight == \A k \in DOMAIN table :
  k < linenum /\ Applies(k) /\ table[k].type \in NodeTypes =>
    \A n \in AskedNodes(table[k]) :
      IsA(fs, Kinds[table[k].type], n[1]) /\ fs[Entry(fs, n[1])].dev = <<table[k].major, n[2]>>

(* As long as no line has failed.                                           *)
Applied == ret = "SUCCESS" => OwnersRight /\ ModesRight /\ AllMadeOnly /\ NodesRight

(* full_name is that of the last line that had one.                         *)
Upcoming == IF walk = <<>> THEN linenum ELSE linenum + 1
NameRight ==
  \/ full_name = <<>> /\ \A k \in DOMAIN table : k < Upcoming => ~Applies(k)
  \/ \E k \in DOMAIN table : Follows(k, Upcoming) /\ full_name = table[k].name

(* The |xattr lines so far whose file is q.                                 *)
CapLines(q, n) == {j \in DOMAIN table :
  /\ j < n /\ table[j].type = "xattr"
  /\ \E k \in DOMAIN table : Follows(k, j) /\ Reach(fs, table[k].name) = q}
CapsRight == \A q : 
  /\ q \in DOMAIN fs =>
       fs[q].caps = (IF q \in DOMAIN tree0 THEN tree0[q].caps ELSE {})
                    \cup {table[j].cap : j \in CapLines(q, linenum)}
  /\ q \notin DOMAIN tree0 => CapLines(q, linenum) = {}

MDInv == TypeOK /\ WalkOK /\ Applied /\ NameRight /\ CapsRight

----------------------------------------------------------------------------
(* What a line says stays the same while the tree grows                     *)

LEMMA Lines ==
  ASSUME TypeOK
  PROVE  /\ Len(table) \in Nat /\ DOMAIN table = 1..Len(table)
         /\ \A k \in DOMAIN table :
              /\ table[k] \in Line
              /\ table[k].name \in Seq(STRING) /\ table[k].name \in Path
              /\ Applies(k) => table[k].name # <<>>
         /\ Tree(fs) /\ Tree(tree0)
<1>1. table \in Seq(Line) /\ \A k \in DOMAIN table : table[k].type # "xattr" => table[k].name # <<>>
  BY TablesAssumption DEF TypeOK
<1>2. Len(table) \in Nat /\ DOMAIN table = 1..Len(table) /\ \A k \in DOMAIN table : table[k] \in Line
  BY <1>1
<1>3. \A k \in DOMAIN table : table[k].name \in Seq(STRING)
  BY <1>2 DEF Line
<1>4. Tree(fs) /\ Tree(tree0)
  BY DEF TypeOK, Grown
<1>5. QED
  BY <1>1, <1>2, <1>3, <1>4, GivenPaths DEF Applies

(* The nodes that the usage text promises are those of the loop.           *)
LEMMA AskedAre ==
  ASSUME NEW line \in Line, line.type \in NodeTypes, line.name # <<>>
  PROVE  /\ \A n \in AskedNodes(line) : \E k \in 0..LastOf(line) :
              n[1] = NameOf(line, k) /\ n[2] = line.minor + k * line.inc
         /\ \A k \in 0..LastOf(line) : \E n \in AskedNodes(line) : n[1] = NameOf(line, k)
         /\ \A n \in AskedNodes(line) : n[1] \in Path /\ n[1] # <<>>
<1>1. /\ line.name \in Seq(STRING) /\ line.minor \in Nat /\ line.start \in Nat /\ line.inc \in Nat
      /\ line.count \in Nat
  BY DEF Line
<1>2. CASE line.count \in {0, 1}
  <2>1. LastOf(line) = 0
    BY <1>2 DEF LastOf
  <2>2. NameOf(line, 0) = line.name
    BY <2>1 DEF NameOf
  <2>3. line.minor + 0 * line.inc = line.minor
    BY <1>1
  <2>4. AskedNodes(line) = {<<line.name, line.minor>>}
    BY <1>2 DEF AskedNodes
  <2>5. \A n \in AskedNodes(line) : n[1] = line.name /\ n[2] = line.minor
    BY <2>4
  <2>6. 0 \in 0..LastOf(line) /\ \A k \in 0..LastOf(line) : k = 0
    BY <2>1
  <2>7. \E n \in AskedNodes(line) : n[1] = line.name
    BY <2>4, <2>5
  <2>8. line.name \in Path
    BY <1>1, GivenPaths
  <2>9. QED
    BY <2>2, <2>3, <2>5, <2>6, <2>7, <2>8
<1>3. CASE line.count \notin {0, 1}
  <2>1. LastOf(line) = line.count - 1 /\ LastOf(line) # 0 /\ LastOf(line) \in Nat
    BY <1>1, <1>3 DEF LastOf
  <2>2. \A k \in 0..LastOf(line) : NameOf(line, k) = Numbered(line.name, line.start + k)
    BY <2>1 DEF NameOf
  <2>3. AskedNodes(line) = {<<Numbered(line.name, line.start + k), line.minor + k * line.inc>> :
                              k \in 0..LastOf(line)}
    BY <1>3, <2>1 DEF AskedNodes
  <2>4. \A n \in AskedNodes(line) : \E k \in 0..LastOf(line) :
          n[1] = Numbered(line.name, line.start + k) /\ n[2] = line.minor + k * line.inc
    BY <2>3
  <2>5. ASSUME NEW k \in 0..LastOf(line)
        PROVE  \E n \in AskedNodes(line) : n[1] = Numbered(line.name, line.start + k)
    <3>1. <<Numbered(line.name, line.start + k), line.minor + k * line.inc>> \in AskedNodes(line)
      BY <2>3
    <3>2. QED
      BY <3>1
  <2>6. \A k \in 0..LastOf(line) : line.start + k \in Nat
    BY <1>1, <2>1
  <2>7. \A k \in 0..LastOf(line) : /\ Numbered(line.name, line.start + k) \in Path
                                   /\ Numbered(line.name, line.start + k) # <<>>
    BY <1>1, <2>6, NumberedTyped
  <2>8. QED
    BY <2>2, <2>4, <2>5, <2>7
<1>4. QED
  BY <1>2, <1>3

LEMMA Stable ==
  ASSUME TypeOK, UNCHANGED <<tree0, table>>, Grown(fs, fs'), NEW k \in DOMAIN table
  PROVE  /\ Applies(k)' <=> Applies(k)
         /\ \A q : /\ MakesNode(k, q)' <=> MakesNode(k, q)
                   /\ Makes(k, q)' <=> Makes(k, q)
                   /\ q \in DOMAIN fs => (Names(k, q)' <=> Names(k, q))
         /\ Applies(k) => /\ Reach(fs', table[k].name) = Reach(fs, table[k].name)
                          /\ Entry(fs', table[k].name) = Entry(fs, table[k].name)
<1>1. /\ table[k] \in Line /\ table[k].name \in Path /\ (Applies(k) => table[k].name # <<>>)
      /\ Tree(fs)
  BY Lines
<1>2. Applies(k)' <=> Applies(k)
  BY DEF Applies
<1>3. Applies(k) => /\ Reach(fs', table[k].name) = Reach(fs, table[k].name)
                    /\ Entry(fs', table[k].name) = Entry(fs, table[k].name)
  BY <1>1, GrownReach
<1>4. ASSUME NEW q PROVE MakesNode(k, q)' <=> MakesNode(k, q)
  <2>1. CASE Applies(k) /\ table[k].type \in NodeTypes
    <3>1. \A n \in AskedNodes(table[k]) : n[1] \in Path /\ n[1] # <<>>
      BY <1>1, <2>1, AskedAre
    <3>2. \A n \in AskedNodes(table[k]) : Entry(fs', n[1]) = Entry(fs, n[1])
      BY <1>1, <3>1, GrownReach
    <3>3. QED
      BY <1>2, <3>2 DEF MakesNode
  <2>2. CASE ~(Applies(k) /\ table[k].type \in NodeTypes)
    BY <1>2, <2>2 DEF MakesNode, NodeTypes
  <2>3. QED
    BY <2>1, <2>2
<1>5. ASSUME NEW q PROVE Makes(k, q)' <=> Makes(k, q)
  <2>1. \A n \in 1..Len(table[k].name) :
          Reach(fs', SubSeq(table[k].name, 1, n)) = Reach(fs, SubSeq(table[k].name, 1, n))
    <3>1. TAKE n \in 1..Len(table[k].name)
    <3>2. SubSeq(table[k].name, 1, n) \in Path
      BY <1>1, Upto
    <3>3. QED
      BY <1>1, <3>2, GrownReach
  <2>2. QED
    BY <1>2, <1>4, <2>1 DEF Makes
<1>6. ASSUME NEW q \in DOMAIN fs PROVE Names(k, q)' <=> Names(k, q)
  <2>1. fs'[q].kind = fs[q].kind
    BY DEF Grown
  <2>2. QED
    BY <1>2, <1>3, <1>4, <2>1 DEF Names
<1>7. QED
  BY <1>2, <1>3, <1>4, <1>5, <1>6

LEMMA StableFor ==
  ASSUME TypeOK, UNCHANGED <<tree0, table>>, Grown(fs, fs'), NEW k \in DOMAIN table, NEW q
  PROVE  /\ WalksOver(k, q)' <=> WalksOver(k, q)
         /\ q \in DOMAIN fs => /\ IsFor(k, q)' <=> IsFor(k, q)
                               /\ SetsMode(k, q)' <=> SetsMode(k, q)
<1>1. WalksOver(k, q)' <=> WalksOver(k, q)
  <2>1. Len(table) \in Nat /\ DOMAIN table = 1..Len(table)
    BY Lines
  <2>2. \A j \in 1..(k - 1) : j \in DOMAIN table
    BY <2>1
  <2>3. \A j \in 1..(k - 1) : Makes(j, q)' <=> Makes(j, q)
    BY <2>2, Stable
  <2>4. (\E j \in 1..(k - 1) : Makes(j, q))' <=> \E j \in 1..(k - 1) : Makes(j, q)
    BY <2>3
  <2>5. /\ Applies(k)' <=> Applies(k)
        /\ Applies(k) => Entry(fs', table[k].name) = Entry(fs, table[k].name)
    BY Stable
  <2>6. QED
    BY <2>4, <2>5 DEF WalksOver
<1>2. ASSUME q \in DOMAIN fs PROVE Names(k, q)' <=> Names(k, q)
  BY <1>2, Stable
<1>3. QED
  BY <1>1, <1>2 DEF IsFor, SetsMode

----------------------------------------------------------------------------
(* What a line that is done owes                                            *)

(* What comes with a line is not what an earlier line was for.             *)
LEMMA NewIsNew ==
  ASSUME TypeOK, UNCHANGED <<tree0, table>>, Grown(fs, fs'), AllMadeOnly,
         NEW k \in DOMAIN table, k < linenum, NEW q \in DOMAIN fs', q \notin DOMAIN fs
  PROVE  ~IsFor(k, q)'
<1>1. SUFFICES ASSUME IsFor(k, q)' PROVE FALSE
  OBVIOUS
<1>2. ~Makes(k, q)
  BY DEF AllMadeOnly
<1>3. CASE Names(k, q)'
  <2>1. CASE MakesNode(k, q)'
    BY <1>2, <2>1, Stable DEF Makes
  <2>2. CASE ~MakesNode(k, q)'
    <3>1. /\ Applies(k)' /\ Reach(fs', table[k].name) = q
          /\ table[k].type = "d" \/ fs'[q].kind = "file"
      BY <1>3, <2>2 DEF Names
    <3>2. fs'[q].kind # "file"
      BY DEF Grown
    <3>3. Applies(k) /\ table[k].type = "d" /\ Reach(fs, table[k].name) = q
      BY <3>1, <3>2, Stable
    <3>4. table[k].name \in Path /\ table[k].name # <<>>
      BY <3>3, Lines
    <3>5. Len(table[k].name) \in 1..Len(table[k].name)
      BY <3>4 DEF Path
    <3>6. SubSeq(table[k].name, 1, Len(table[k].name)) = table[k].name
      BY <3>4, <3>5, Upto
    <3>7. Makes(k, q)
      BY <3>3, <3>5, <3>6 DEF Makes
    <3>8. QED
      BY <1>2, <3>7
  <2>3. QED
    BY <2>1, <2>2
<1>4. CASE WalksOver(k, q)'
  <2>1. WalksOver(k, q)
    BY <1>4, StableFor
  <2>2. q \notin DOMAIN tree0
    BY DEF TypeOK, Grown
  <2>3. PICK j \in 1..(k - 1) : Makes(j, q)
    BY <2>1, <2>2 DEF WalksOver
  <2>4. j \in DOMAIN table /\ j < linenum
    BY Lines DEF TypeOK
  <2>5. QED
    BY <2>3, <2>4 DEF AllMadeOnly
<1>5. QED
  BY <1>1, <1>3, <1>4 DEF IsFor

(* What line m has done, for the owners and the modes of what was there and *)
(* of what it has made.                                                     *)
Did(m) ==
  /\ \A q \in DOMAIN fs' : IsFor(m, q)' /\ table[m].owner # "unset" => fs'[q].owner = table[m].owner
  /\ \A q \in DOMAIN fs : ~IsFor(m, q) => fs'[q].owner = fs[q].owner
  /\ \A q \in DOMAIN fs' : SetsMode(m, q)' /\ fs'[q].kind # "link" => fs'[q].mode = table[m].mode
  /\ \A q \in DOMAIN fs : ~SetsMode(m, q) => fs'[q].mode = fs[q].mode
  /\ \A q : Makes(m, q)' => q \in DOMAIN fs'
  /\ \A q \in DOMAIN fs' \ DOMAIN fs : Makes(m, q)'
  /\ Applies(m) /\ table[m].type \in NodeTypes =>
       \A n \in AskedNodes(table[m]) :
         /\ IsA(fs', Kinds[table[m].type], n[1])
         /\ fs'[Entry(fs', n[1])].dev = <<table[m].major, n[2]>>

LEMMA LineDone ==
  ASSUME TypeOK, UNCHANGED <<tree0, table>>, Grown(fs, fs'), Applied, ret = "SUCCESS",
         walk = <<>>, walk' = <<>>, NEW m \in DOMAIN table, linenum = m, linenum' = m + 1, Did(m)
  PROVE  Applied'
<1>1. m \in Nat /\ DOMAIN table \subseteq Nat /\ OwnersRight /\ ModesRight /\ AllMadeOnly /\ NodesRight
  BY Lines DEF Applied
<1>2. \A k \in DOMAIN table : \A q : (Done(k, q) <=> k < m) /\ (Done(k, q)' <=> k <= m)
  BY <1>1 DEF Done
<1>3. \A k \in DOMAIN table, q \in DOMAIN fs :
        (IsFor(k, q)' <=> IsFor(k, q)) /\ (SetsMode(k, q)' <=> SetsMode(k, q))
  BY StableFor
<1>4. \A k \in DOMAIN table, q \in DOMAIN fs' : k < m /\ q \notin DOMAIN fs => ~IsFor(k, q)'
  BY <1>1, NewIsNew
<1>5. OwnersRight'
  <2>1. ASSUME NEW q \in DOMAIN fs', NEW k \in DOMAIN table, LastDone(k, q)', table[k].owner # "unset"
        PROVE  fs'[q].owner = table[k].owner
    <3>1. IsFor(k, q)' /\ k <= m /\ \A j \in DOMAIN table : IsFor(j, q)' /\ j <= m => j <= k
      BY <1>2, <2>1 DEF LastDone
    <3>2. CASE k = m
      BY <2>1, <3>1, <3>2 DEF Did
    <3>3. CASE k < m
      <4>1. q \in DOMAIN fs
        BY <1>4, <3>1, <3>3
      <4>2. IsFor(k, q) /\ \A j \in DOMAIN table : IsFor(j, q) /\ j <= m => j <= k
        BY <1>3, <3>1, <4>1
      <4>3. LastDone(k, q)
        BY <1>1, <1>2, <3>3, <4>2 DEF LastDone
      <4>4. fs[q].owner = table[k].owner
        BY <1>1, <2>1, <4>1, <4>3 DEF OwnersRight
      <4>5. ~IsFor(m, q)
        BY <1>1, <3>3, <4>2
      <4>6. QED
        BY <4>1, <4>4, <4>5 DEF Did
    <3>4. QED
      BY <1>1, <3>1, <3>2, <3>3
  <2>2. QED
    BY <2>1 DEF OwnersRight
<1>6. ModesRight'
  <2>1. ASSUME NEW q \in DOMAIN fs', NEW k \in DOMAIN table, LastModeDone(k, q)', fs'[q].kind # "link"
        PROVE  fs'[q].mode = table[k].mode
    <3>1. SetsMode(k, q)' /\ k <= m /\ \A j \in DOMAIN table : SetsMode(j, q)' /\ j <= m => j <= k
      BY <1>2, <2>1 DEF LastModeDone
    <3>2. CASE k = m
      BY <2>1, <3>1, <3>2 DEF Did
    <3>3. CASE k < m
      <4>1. q \in DOMAIN fs
        BY <1>4, <3>1, <3>3 DEF SetsMode
      <4>2. SetsMode(k, q) /\ \A j \in DOMAIN table : SetsMode(j, q) /\ j <= m => j <= k
        BY <1>3, <3>1, <4>1
      <4>3. LastModeDone(k, q)
        BY <1>1, <1>2, <3>3, <4>2 DEF LastModeDone
      <4>4. fs[q].kind # "link"
        BY <2>1, <4>1 DEF Grown
      <4>5. fs[q].mode = table[k].mode
        BY <1>1, <4>1, <4>3, <4>4 DEF ModesRight
      <4>6. ~SetsMode(m, q)
        BY <1>1, <3>3, <4>2
      <4>7. QED
        BY <4>1, <4>5, <4>6 DEF Did
    <3>4. QED
      BY <1>1, <3>1, <3>2, <3>3
  <2>2. QED
    BY <2>1 DEF ModesRight
<1>7. AllMadeOnly'
  <2>1. ASSUME NEW k \in DOMAIN table, NEW q, k < m + 1, Makes(k, q)' PROVE q \in DOMAIN fs'
    <3>1. CASE k = m
      BY <2>1, <3>1 DEF Did
    <3>2. CASE k # m
      <4>1. k < m
        BY <1>1, <2>1, <3>2
      <4>2. Makes(k, q)
        BY <2>1, Stable
      <4>3. q \in DOMAIN fs
        BY <1>1, <4>1, <4>2 DEF AllMadeOnly
      <4>4. QED
        BY <4>3 DEF Grown
    <3>3. QED
      BY <3>1, <3>2
  <2>2. ASSUME NEW q \in DOMAIN fs' \ DOMAIN tree0
        PROVE  \E k \in DOMAIN table : k < m + 1 /\ Makes(k, q)'
    <3>1. CASE q \in DOMAIN fs
      <4>1. PICK k \in DOMAIN table : k < m /\ Makes(k, q)
        BY <1>1, <2>2, <3>1 DEF AllMadeOnly
      <4>2. k < m + 1 /\ Makes(k, q)'
        BY <1>1, <4>1, Stable
      <4>3. QED
        BY <4>2
    <3>2. CASE q \notin DOMAIN fs
      <4>1. Makes(m, q)' /\ m < m + 1
        BY <1>1, <2>2, <3>2 DEF Did
      <4>2. QED
        BY <4>1
    <3>3. QED
      BY <3>1, <3>2
  <2>3. QED
    BY <2>1, <2>2 DEF AllMadeOnly
<1>8. NodesRight'
  <2>1. ASSUME NEW k \in DOMAIN table, k < m + 1, Applies(k)', table[k].type \in NodeTypes,
               NEW n \in AskedNodes(table[k])
        PROVE  /\ IsA(fs', Kinds[table[k].type], n[1])
               /\ fs'[Entry(fs', n[1])].dev = <<table[k].major, n[2]>>
    <3>1. Applies(k)
      BY <2>1, Stable
    <3>2. CASE k = m
      BY <2>1, <3>1, <3>2 DEF Did
    <3>3. CASE k # m
      <4>1. k < m
        BY <1>1, <2>1, <3>3
      <4>2. IsA(fs, Kinds[table[k].type], n[1]) /\ fs[Entry(fs, n[1])].dev = <<table[k].major, n[2]>>
        BY <1>1, <2>1, <3>1, <4>1 DEF NodesRight
      <4>3. n[1] \in Path /\ n[1] # <<>> /\ Tree(fs)
        BY <2>1, <3>1, Lines, AskedAre
      <4>4. Entry(fs, n[1]) \in DOMAIN fs
        BY <4>2, <4>3, InDirectory DEF IsA
      <4>5. IsA(fs', Kinds[table[k].type], n[1]) /\ Entry(fs', n[1]) = Entry(fs, n[1])
        BY <4>2, <4>3, GrownReach
      <4>6. QED
        BY <4>2, <4>4, <4>5 DEF Grown
    <3>4. QED
      BY <3>2, <3>3
  <2>2. QED
    BY <2>1 DEF NodesRight
<1>9. QED
  BY <1>5, <1>6, <1>7, <1>8 DEF Applied

----------------------------------------------------------------------------
(* What is below a path                                                     *)

LEMMA PrefixIs ==
  ASSUME NEW p \in Path, NEW q \in Path
  PROVE  IsPrefix(p, q) <=> Len(p) <= Len(q) /\ \A n \in 1..Len(p) : p[n] = q[n]
<1>1. p \in Seq(Name) /\ q \in Seq(Name) /\ Len(p) \in Nat /\ Len(q) \in Nat
  BY DEF Path
<1>2. ASSUME Len(p) <= Len(q)
      PROVE  (SubSeq(p, 1, Len(p)) = SubSeq(q, 1, Len(p))) <=> \A n \in 1..Len(p) : p[n] = q[n]
  <2>1. /\ SubSeq(p, 1, Len(p)) \in Seq(Name) /\ Len(SubSeq(p, 1, Len(p))) = Len(p)
        /\ \A n \in 1..Len(p) : SubSeq(p, 1, Len(p))[n] = p[n]
    BY <1>1
  <2>2. /\ SubSeq(q, 1, Len(p)) \in Seq(Name) /\ Len(SubSeq(q, 1, Len(p))) = Len(p)
        /\ \A n \in 1..Len(p) : SubSeq(q, 1, Len(p))[n] = q[n]
    BY <1>1, <1>2
  <2>3. ASSUME \A n \in 1..Len(p) : p[n] = q[n]
        PROVE  SubSeq(p, 1, Len(p)) = SubSeq(q, 1, Len(p))
    BY <2>1, <2>2, <2>3, SeqEqual
  <2>4. QED
    BY <2>1, <2>2, <2>3
<1>3. QED
  BY <1>2 DEF IsPrefix

LEMMA PrefixOrder ==
  ASSUME NEW p \in Path, NEW q \in Path, NEW r \in Path
  PROVE  /\ IsPrefix(p, p)
         /\ IsPrefix(p, q) /\ IsPrefix(q, r) => IsPrefix(p, r)
         /\ IsPrefix(p, q) /\ Len(p) = Len(q) => p = q
         /\ IsPrefix(p, q) => Len(p) <= Len(q)
         /\ IsPrefix(p, r) /\ IsPrefix(q, r) /\ Len(p) <= Len(q) => IsPrefix(p, q)
<1>1. /\ p \in Seq(Name) /\ q \in Seq(Name) /\ r \in Seq(Name)
      /\ Len(p) \in Nat /\ Len(q) \in Nat /\ Len(r) \in Nat
  BY DEF Path
<1>2. /\ IsPrefix(p, p) <=> Len(p) <= Len(p) /\ \A n \in 1..Len(p) : p[n] = p[n]
      /\ IsPrefix(p, q) <=> Len(p) <= Len(q) /\ \A n \in 1..Len(p) : p[n] = q[n]
      /\ IsPrefix(q, r) <=> Len(q) <= Len(r) /\ \A n \in 1..Len(q) : q[n] = r[n]
      /\ IsPrefix(p, r) <=> Len(p) <= Len(r) /\ \A n \in 1..Len(p) : p[n] = r[n]
  BY PrefixIs
<1>3. Len(p) <= Len(q) => \A n \in 1..Len(p) : n \in 1..Len(q)
  BY <1>1
<1>4. ASSUME IsPrefix(p, q), Len(p) = Len(q) PROVE p = q
  BY <1>1, <1>2, <1>4, SeqEqual
<1>5. ASSUME IsPrefix(p, q), IsPrefix(q, r) PROVE IsPrefix(p, r)
  BY <1>1, <1>2, <1>3, <1>5
<1>6. ASSUME IsPrefix(p, r), IsPrefix(q, r), Len(p) <= Len(q) PROVE IsPrefix(p, q)
  BY <1>1, <1>2, <1>3, <1>6
<1>7. QED
  BY <1>1, <1>2, <1>4, <1>5, <1>6

LEMMA PrefixFront ==
  ASSUME NEW p \in Path, NEW q \in Path, q # <<>>
  PROVE  IsPrefix(p, q) <=> p = q \/ IsPrefix(p, Front(q))
<1>1. /\ Front(q) \in Path /\ Len(Front(q)) = Len(q) - 1
      /\ \A n \in 1..(Len(q) - 1) : Front(q)[n] = q[n]
  BY FrontLast DEF Path
<1>2. Len(p) \in Nat /\ Len(q) \in Nat
  BY DEF Path
<1> DEFINE r == Front(q)
<1> HIDE DEF r
<1>3. r \in Path /\ Len(r) = Len(q) - 1 /\ \A n \in 1..(Len(q) - 1) : r[n] = q[n]
  BY <1>1 DEF r
<1>4. /\ IsPrefix(p, q) <=> Len(p) <= Len(q) /\ \A n \in 1..Len(p) : p[n] = q[n]
      /\ IsPrefix(p, r) <=> Len(p) <= Len(r) /\ \A n \in 1..Len(p) : p[n] = r[n]
  BY <1>3, PrefixIs
<1>5. ASSUME IsPrefix(p, r) PROVE IsPrefix(p, q)
  <2>1. \A n \in 1..Len(p) : n \in 1..(Len(q) - 1)
    BY <1>2, <1>3, <1>4, <1>5
  <2>2. QED
    BY <1>2, <1>3, <1>4, <1>5, <2>1
<1>6. ASSUME IsPrefix(p, q), p # q PROVE IsPrefix(p, r)
  <2>1. Len(p) # Len(q)
    BY <1>6, PrefixOrder
  <2>2. Len(p) <= Len(r) /\ \A n \in 1..Len(p) : n \in 1..(Len(q) - 1)
    BY <1>2, <1>3, <1>4, <1>6, <2>1
  <2>3. QED
    BY <1>3, <1>4, <1>6, <2>2
<1>7. QED
  BY <1>5, <1>6, PrefixOrder DEF r

(* Between a node and what is below it there is one that is in the node.   *)
LEMMA ChildBetween ==
  ASSUME NEW f, Tree(f), NEW h \in Path, NEW q \in DOMAIN f, IsPrefix(h, q), q # h
  PROVE  \E c \in DOMAIN f : Len(c) = Len(h) + 1 /\ Front(c) = h /\ IsPrefix(c, q)
<1>1. \A r \in DOMAIN f : r \in Path /\ Len(r) \in Nat
  BY DEF Tree, Path
<1>2. Len(h) \in Nat
  BY DEF Path
<1> DEFINE Between(r) == \E c \in DOMAIN f : Len(c) = Len(h) + 1 /\ Front(c) = h /\ IsPrefix(c, r)
           S == {n \in Nat : \A r \in DOMAIN f : Len(r) = n /\ IsPrefix(h, r) /\ r # h => Between(r)}
<1>3. 0 \in S
  <2>1. ASSUME NEW r \in DOMAIN f, Len(r) = 0, IsPrefix(h, r) PROVE r = h
    <3>1. Len(h) = Len(r)
      BY <1>1, <1>2, <2>1, PrefixOrder
    <3>2. QED
      BY <1>1, <2>1, <3>1, PrefixOrder
  <2> HIDE DEF Between
  <2>2. QED
    BY <2>1
<1>4. ASSUME NEW n \in Nat, n \in S PROVE n + 1 \in S
  <2>1. ASSUME NEW r \in DOMAIN f, Len(r) = n + 1, IsPrefix(h, r), r # h PROVE Between(r)
    <3>1. r # <<>> /\ r \in Path
      BY <1>1, <2>1
    <3>2. Front(r) \in DOMAIN f
      BY <3>1 DEF Tree, HasParents
    <3>3. Front(r) \in Path /\ Len(Front(r)) = n /\ IsPrefix(h, Front(r)) /\ IsPrefix(r, r)
      <4>1. Front(r) \in Path /\ Len(Front(r)) = n
        BY <2>1, <3>1, FrontLast DEF Path
      <4>2. IsPrefix(h, Front(r))
        BY <2>1, <3>1, PrefixFront
      <4>3. QED
        BY <3>1, <4>1, <4>2, PrefixOrder
    <3>4. CASE Front(r) = h
      BY <2>1, <3>3, <3>4
    <3>5. CASE Front(r) # h
      <4>1. Between(Front(r))
        BY <1>4, <3>2, <3>3, <3>5
      <4>2. PICK c \in DOMAIN f : Len(c) = Len(h) + 1 /\ Front(c) = h /\ IsPrefix(c, Front(r))
        BY <4>1
      <4>3. IsPrefix(c, r)
        BY <1>1, <3>1, <4>2, PrefixFront
      <4>4. QED
        BY <4>2, <4>3
    <3>6. QED
      BY <3>4, <3>5
  <2> HIDE DEF Between
  <2>2. QED
    BY <2>1
<1> HIDE DEF S
<1>5. Len(q) \in S
  BY <1>1, <1>3, <1>4, AllNaturals
<1>6. QED
  BY <1>5 DEF S

----------------------------------------------------------------------------
(* The steps                                                                *)

(* A line that ends, and the next that is taken up.                        *)
LEMMA LineEnds ==
  ASSUME TypeOK, UNCHANGED <<tree0, table, status>>, Grown(fs, fs'), NEW m \in DOMAIN table,
         linenum = m, linenum' = m + 1, walk' = <<>>, full_name' \in Seq(STRING), status = "run",
         \/ UNCHANGED <<ret, failed>>
         \/ ret' = "FAILURE" /\ failed' = failed \cup {m}
  PROVE  TypeOK' /\ WalkOK'
<1>1. Len(table) \in Nat /\ m \in 1..Len(table)
  BY Lines
<1>2. Grown(tree0, fs')
  BY GrownTransitive DEF TypeOK
<1>3. linenum' \in Nat \ {0} /\ linenum' <= Len(table) + 1
  BY <1>1
<1>4. TypeOK'
  <2>1. /\ ret' \in {"SUCCESS", "FAILURE"} /\ (ret' = "FAILURE" <=> failed' # {})
        /\ failed' \subseteq 1..Len(table)
    BY <1>1 DEF TypeOK
  <2>2. QED
    BY <1>2, <1>3, <2>1 DEF TypeOK
<1>5. <<>> \in Seq(Path)
  OBVIOUS
<1>6. QED
  BY <1>4, <1>5 DEF WalkOK

(* The capabilities stay, unless there is an |xattr line.                  *)
LEMMA CapLinesSame ==
  ASSUME TypeOK, UNCHANGED <<tree0, table>>, Grown(fs, fs'), NEW q, NEW n \in Nat
  PROVE  CapLines(q, n)' = CapLines(q, n)
<1>1. ASSUME NEW k \in DOMAIN table, NEW j \in DOMAIN table
      PROVE  /\ Follows(k, j)' <=> Follows(k, j)
             /\ Follows(k, j) => Reach(fs', table[k].name) = Reach(fs, table[k].name)
  <2>1. \A b \in DOMAIN table : Applies(b)' <=> Applies(b)
    BY Stable
  <2>2. \A b \in (k + 1)..(j - 1) : b \in DOMAIN table
    BY Lines
  <2>3. Follows(k, j)' <=> Follows(k, j)
    BY <2>1, <2>2 DEF Follows
  <2>4. Applies(k) => Reach(fs', table[k].name) = Reach(fs, table[k].name)
    BY Stable
  <2>5. QED
    BY <2>3, <2>4 DEF Follows
<1>2. \A j \in DOMAIN table :
        (\E k \in DOMAIN table : Follows(k, j)' /\ Reach(fs', table[k].name) = q)
          <=> \E k \in DOMAIN table : Follows(k, j) /\ Reach(fs, table[k].name) = q
  BY <1>1
<1>3. \A j \in DOMAIN table : j \in CapLines(q, n)' <=> j \in CapLines(q, n)
  BY <1>2 DEF CapLines
<1>4. CapLines(q, n) \subseteq DOMAIN table /\ CapLines(q, n)' \subseteq DOMAIN table
  BY DEF CapLines
<1>5. QED
  BY <1>3, <1>4

LEMMA CapsStay ==
  ASSUME TypeOK, UNCHANGED <<tree0, table>>, Grown(fs, fs'), CapsRight,
         \A q \in DOMAIN fs : fs'[q].caps = fs[q].caps,
         \/ UNCHANGED linenum
         \/ linenum' = linenum + 1 /\ linenum \in DOMAIN table /\ table[linenum].type # "xattr"
  PROVE  CapsRight'
<1>1. linenum \in Nat /\ linenum' \in Nat
  BY DEF TypeOK
<1>2. ASSUME NEW q PROVE CapLines(q, linenum)' = CapLines(q, linenum)
  <2>1. CapLines(q, linenum') = CapLines(q, linenum)
    <3>1. CASE UNCHANGED linenum
      BY <3>1
    <3>2. CASE linenum' = linenum + 1 /\ linenum \in DOMAIN table /\ table[linenum].type # "xattr"
      <4>1. DOMAIN table \subseteq Nat
        BY Lines
      <4>2. \A j \in DOMAIN table :
              j < linenum' /\ table[j].type = "xattr" <=> j < linenum /\ table[j].type = "xattr"
        BY <1>1, <3>2, <4>1
      <4>3. QED
        BY <4>2 DEF CapLines
    <3>3. QED
      BY <3>1, <3>2
  <2>2. ASSUME NEW z \in Nat PROVE CapLines(q, z)' = CapLines(q, z)
    BY CapLinesSame
  <2>3. CapLines(q, linenum)' = CapLines(q, linenum')
    BY <1>1, <2>2 DEF CapLines, Follows, Applies, Valid
  <2>4. QED
    BY <2>1, <2>3
<1>3. QED
  BY <1>2 DEF CapsRight, Grown, TypeOK

(* The name that an |xattr line takes.                                     *)
LEMMA NameStays ==
  ASSUME TypeOK, NameRight, UNCHANGED <<table, full_name>>, walk = <<>>, walk' = <<>>,
         linenum' = linenum + 1, linenum \in DOMAIN table, ~Applies(linenum)
  PROVE  NameRight'
<1>1. linenum \in Nat /\ DOMAIN table \subseteq Nat /\ Upcoming = linenum /\ Upcoming' = linenum + 1
  BY Lines DEF TypeOK, Upcoming
<1>2. \A k : Applies(k)' <=> Applies(k)
  BY DEF Applies
<1>3. CASE full_name = <<>> /\ \A k \in DOMAIN table : k < Upcoming => ~Applies(k)
  <2>1. \A k \in DOMAIN table : k < linenum + 1 => k < linenum \/ k = linenum
    BY <1>1
  <2>2. QED
    BY <1>1, <1>2, <1>3, <2>1 DEF NameRight
<1>4. CASE \E k \in DOMAIN table : Follows(k, Upcoming) /\ full_name = table[k].name
  <2>1. PICK k \in DOMAIN table : Follows(k, linenum) /\ full_name = table[k].name
    BY <1>1, <1>4
  <2>2. k < linenum + 1 /\ \A b \in (k + 1)..(linenum + 1 - 1) : b \in (k + 1)..(linenum - 1) \/ b = linenum
    BY <1>1, <2>1 DEF Follows
  <2>3. k < linenum + 1 /\ Applies(k)' /\ \A b \in (k + 1)..(linenum + 1 - 1) : ~Applies(b)'
    BY <1>2, <2>1, <2>2 DEF Follows
  <2>4. Follows(k, Upcoming)'
    BY <1>1, <2>3 DEF Follows
  <2>5. QED
    BY <2>1, <2>4 DEF NameRight
<1>5. QED
  BY <1>3, <1>4 DEF NameRight

LEMMA NameTaken ==
  ASSUME TypeOK, UNCHANGED table, linenum \in DOMAIN table, Applies(linenum), full_name' = l.name,
         \/ walk' = <<>> /\ linenum' = linenum + 1
         \/ walk' # <<>> /\ linenum' = linenum
  PROVE  NameRight'
<1>1. linenum \in Nat /\ Upcoming' = linenum + 1
  BY DEF TypeOK, Upcoming
<1>2. linenum < linenum + 1 /\ \A b \in (linenum + 1)..(linenum + 1 - 1) : FALSE
  BY <1>1
<1>4. ASSUME NEW k \in DOMAIN table, k = linenum PROVE Follows(k, Upcoming)' /\ full_name' = table'[k].name
  BY <1>1, <1>2, <1>4 DEF Follows, Applies, l
<1>5. \E k \in DOMAIN table : k = linenum
  OBVIOUS
<1>6. QED
  BY <1>4, <1>5 DEF NameRight

TypesRead == {"f", "F", "d", "r", "c", "b", "p", "x"}

LEMMA AtLine ==
  ASSUME TypeOK, NEW types, types \subseteq TypesRead \cup {"xattr"}, At(types)
  PROVE  /\ linenum \in DOMAIN table /\ l \in Line /\ l.type \in types
         /\ walk = <<>> /\ status = "run" /\ l.name \in Seq(STRING) /\ l.name \in Path
         /\ l.mode \in Mode
         /\ l.type # "xattr" => l.name # <<>>
         /\ Applies(linenum) <=> l.type # "xattr" /\ Valid(l)
<1>1. linenum \in DOMAIN table /\ l.type \in types /\ walk = <<>> /\ status = "run"
  <2>1. Len(table) \in Nat /\ DOMAIN table = 1..Len(table)
    BY Lines
  <2>2. QED
    BY <2>1 DEF At, TypeOK
<1>2. /\ l \in Line /\ l.name \in Seq(STRING) /\ l.name \in Path
  BY <1>1, Lines DEF l
<1>3. l.mode \in Mode
  BY <1>2 DEF Line, Mode
<1>4. l.type # "xattr" => l.name # <<>>
  BY <1>1, TablesAssumption DEF TypeOK, l
<1>5. Applies(linenum) <=> l.type # "xattr" /\ Valid(l)
  BY DEF Applies, l
<1>6. QED
  BY <1>1, <1>2, <1>3, <1>4, <1>5

(* A line that is reported.                                                *)
LEMMA BadLine ==
  ASSUME MDInv, NEW types, types \subseteq TypesRead, At(types),
         NEW f, Grown(fs, f), \A q \in DOMAIN fs : f[q].caps = fs[q].caps,
         Bad(f), full_name' \in Seq(STRING)
  PROVE  TypeOK' /\ WalkOK' /\ Applied' /\ CapsRight'
<1>1. linenum \in DOMAIN table /\ walk = <<>> /\ status = "run" /\ l.type # "xattr"
      /\ table[linenum].type # "xattr" /\ TypeOK
  BY AtLine DEF MDInv, TypesRead, l
<1>2. /\ UNCHANGED <<tree0, table, status>> /\ fs' = f /\ linenum' = linenum + 1 /\ walk' = <<>>
      /\ ret' = "FAILURE" /\ failed' = failed \cup {linenum}
  BY <1>1 DEF Bad, NextLine, Given
<1>3. TypeOK' /\ WalkOK'
  BY <1>1, <1>2, LineEnds
<1>4. Applied'
  BY <1>2 DEF Applied
<1>5. CapsRight'
  BY <1>1, <1>2, CapsStay DEF MDInv
<1>6. QED
  BY <1>3, <1>4, <1>5

(* A line that is not, and has done what it says.                          *)
LEMMA GoodLine ==
  ASSUME MDInv, NEW types, types \subseteq TypesRead, At(types),
         NEW f, Grown(fs, f), \A q \in DOMAIN fs : f[q].caps = fs[q].caps,
         Good(f), full_name' \in Seq(STRING),
         \A m \in DOMAIN table : m = linenum => Did(m)
  PROVE  TypeOK' /\ WalkOK' /\ Applied' /\ CapsRight'
<1>1. linenum \in DOMAIN table /\ walk = <<>> /\ status = "run" /\ l.type # "xattr"
      /\ table[linenum].type # "xattr" /\ TypeOK /\ Applied
  BY AtLine DEF MDInv, TypesRead, l
<1>2. /\ UNCHANGED <<tree0, table, status, ret, failed>> /\ fs' = f /\ linenum' = linenum + 1
      /\ walk' = <<>>
  BY <1>1 DEF Good, NextLine, Given
<1>3. TypeOK' /\ WalkOK'
  BY <1>1, <1>2, LineEnds
<1>4. Applied'
  <2>1. CASE ret = "SUCCESS"
    BY <1>1, <1>2, <2>1, LineDone
  <2>2. CASE ret # "SUCCESS"
    BY <1>2, <2>2 DEF Applied
  <2>3. QED
    BY <2>1, <2>2
<1>5. CapsRight'
  BY <1>1, <1>2, CapsStay DEF MDInv
<1>6. QED
  BY <1>3, <1>4, <1>5

(* What the lines say changes with the tree alone.                         *)
LEMMA SameLines ==
  ASSUME UNCHANGED <<tree0, table, fs>>, NEW k, NEW q
  PROVE  /\ IsFor(k, q)' <=> IsFor(k, q)
         /\ SetsMode(k, q)' <=> SetsMode(k, q)
         /\ Makes(k, q)' <=> Makes(k, q)
         /\ Applies(k)' <=> Applies(k)
<1>1. Applies(k)' <=> Applies(k)
  BY DEF Applies
<1>2. (\A j, r : MakesNode(j, r)' <=> MakesNode(j, r)) /\ \A j, r : Makes(j, r)' <=> Makes(j, r)
  BY DEF Makes, MakesNode, Applies
<1>3. (Names(k, q)' <=> Names(k, q)) /\ (WalksOver(k, q)' <=> WalksOver(k, q))
  BY <1>1, <1>2 DEF Names, WalksOver
<1>4. QED
  BY <1>1, <1>2, <1>3 DEF IsFor, SetsMode

LEMMA AppliedStays ==
  ASSUME Applied, UNCHANGED <<tree0, table, fs, linenum, ret>>,
         ret = "SUCCESS" => \A k \in DOMAIN table, q \in DOMAIN fs : Done(k, q)' <=> Done(k, q)
  PROVE  Applied'
<1>1. SUFFICES ASSUME ret = "SUCCESS"
               PROVE  OwnersRight' /\ ModesRight' /\ AllMadeOnly' /\ NodesRight'
  BY DEF Applied
<1>2. OwnersRight /\ ModesRight /\ AllMadeOnly /\ NodesRight
  BY <1>1 DEF Applied
<1>3. \A k \in DOMAIN table, q \in DOMAIN fs :
        (LastDone(k, q)' <=> LastDone(k, q)) /\ (LastModeDone(k, q)' <=> LastModeDone(k, q))
  BY <1>1, SameLines DEF LastDone, LastModeDone
<1>4. OwnersRight' /\ ModesRight'
  BY <1>2, <1>3 DEF OwnersRight, ModesRight
<1>5. AllMadeOnly' /\ NodesRight'
  BY <1>2, SameLines DEF AllMadeOnly, NodesRight
<1>6. QED
  BY <1>4, <1>5

LEMMA KeepsDie ==
  ASSUME MDInv, Die
  PROVE  MDInv'
<1>1. UNCHANGED <<tree0, table, fs, linenum, full_name, walk, owner, ret, failed>> /\ status' = "died"
  BY DEF Die, Given
<1>2. TypeOK'
  BY <1>1 DEF MDInv, TypeOK
<1>3. WalkOK'
  BY <1>1 DEF MDInv, WalkOK, l, Valid
<1>4. Applied'
  BY <1>1, AppliedStays DEF MDInv, Done, Pending, l
<1>5. NameRight' /\ CapsRight'
  BY <1>1 DEF MDInv, NameRight, CapsRight, CapLines, Follows, Upcoming, Applies, Valid
<1>6. QED
  BY <1>2, <1>3, <1>4, <1>5 DEF MDInv

LEMMA KeepsEnd ==
  ASSUME MDInv, EndOfTable
  PROVE  MDInv'
<1>1. /\ UNCHANGED <<tree0, table, fs, linenum, full_name, walk, owner, ret, failed>>
      /\ status' = "done" /\ walk = <<>> /\ linenum > Len(table)
  BY DEF EndOfTable, Given
<1>2. TypeOK'
  <2>1. Len(table) \in Nat
    BY Lines DEF MDInv
  <2>2. linenum = Len(table) + 1
    BY <1>1, <2>1 DEF MDInv, TypeOK
  <2>3. QED
    BY <1>1, <2>2 DEF MDInv, TypeOK
<1>3. WalkOK'
  BY <1>1 DEF MDInv, WalkOK, l, Valid
<1>4. Applied'
  BY <1>1, AppliedStays DEF MDInv, Done, Pending, l
<1>5. NameRight' /\ CapsRight'
  BY <1>1 DEF MDInv, NameRight, CapsRight, CapLines, Follows, Upcoming, Applies, Valid
<1>6. QED
  BY <1>2, <1>3, <1>4, <1>5 DEF MDInv

(* A line that names nothing, makes nothing and changes no owner or mode.  *)
LEMMA DoesNothing ==
  ASSUME TypeOK, UNCHANGED table, NEW m \in DOMAIN table, ~Applies(m), DOMAIN fs' = DOMAIN fs,
         \A q \in DOMAIN fs : fs'[q].owner = fs[q].owner /\ fs'[q].mode = fs[q].mode
  PROVE  Did(m)
<1>1. ~Applies(m)'
  BY DEF Applies
<1>2. \A q : ~IsFor(m, q)' /\ ~SetsMode(m, q)' /\ ~Makes(m, q)'
  BY <1>1 DEF IsFor, SetsMode, Names, WalksOver, Makes, MakesNode
<1>3. QED
  BY <1>2 DEF Did

LEMMA KeepsInvalid ==
  ASSUME MDInv, Invalid
  PROVE  MDInv'
<1>1. /\ At(TypesRead) /\ ~Valid(l) /\ UNCHANGED full_name /\ (Good(fs) \/ Bad(fs)) /\ TypeOK
      /\ CapsRight
  BY DEF Invalid, TypesRead, MDInv
<1>2. /\ linenum \in DOMAIN table /\ walk = <<>> /\ l.type # "xattr" /\ ~Applies(linenum)
  BY <1>1, AtLine DEF TypesRead
<1>3. Tree(fs) /\ Grown(fs, fs)
  BY <1>1, Lines, GrownReflexive
<1>4. /\ UNCHANGED <<tree0, table>> /\ fs' = fs /\ linenum' = linenum + 1 /\ walk' = <<>>
  BY <1>1, <1>2 DEF Good, Bad, NextLine, Given
<1>5. \A m \in DOMAIN table : m = linenum => Did(m)
  BY <1>1, <1>2, <1>4, DoesNothing
<1>6. full_name' \in Seq(STRING)
  BY <1>1 DEF TypeOK
<1>7. TypeOK' /\ WalkOK' /\ Applied' /\ CapsRight'
  BY <1>1, <1>3, <1>5, <1>6, GoodLine, BadLine
<1>8. NameRight'
  BY <1>1, <1>2, <1>4, NameStays DEF MDInv
<1>9. QED
  BY <1>7, <1>8 DEF MDInv

LEMMA KeepsUnsupported ==
  ASSUME MDInv, NEW who \in Users, Unsupported(who)
  PROVE  MDInv'
<1>1. /\ At({"x"}) /\ Valid(l) /\ full_name' = l.name /\ Bad(fs) /\ TypeOK
  BY DEF Unsupported, For, MDInv
<1>2. /\ linenum \in DOMAIN table /\ walk = <<>> /\ l.type # "xattr" /\ Applies(linenum)
      /\ l.name \in Seq(STRING)
  BY <1>1, AtLine DEF TypesRead
<1>3. Tree(fs) /\ Grown(fs, fs)
  BY <1>1, Lines, GrownReflexive
<1>4. /\ UNCHANGED <<tree0, table>> /\ fs' = fs /\ linenum' = linenum + 1 /\ walk' = <<>>
  BY <1>1, <1>2 DEF Bad, NextLine, Given
<1>5. TypeOK' /\ WalkOK' /\ Applied' /\ CapsRight'
  BY <1>1, <1>2, <1>3, BadLine DEF TypesRead
<1>6. NameRight'
  BY <1>1, <1>2, <1>4, NameTaken
<1>7. QED
  BY <1>5, <1>6 DEF MDInv

(* What chown() and chmod() do to the node that a line names.              *)
LEMMA OwnerAndMode ==
  ASSUME NEW f, Tree(f), NEW p \in Path, Exists(f, p), NEW who \in Users, NEW mode \in Mode,
         NEW g, g = chmod(chown(f, p, who), p, mode)
  PROVE  /\ Grown(f, g) /\ DOMAIN g = DOMAIN f /\ Reach(g, p) = Reach(f, p)
         /\ g[Reach(f, p)].owner = who
         /\ g[Reach(f, p)].mode = IF mode = "keep" THEN f[Reach(f, p)].mode ELSE mode
         /\ \A q \in DOMAIN f : g[q].caps = f[q].caps
         /\ \A q \in DOMAIN f \ {Reach(f, p)} : g[q] = f[q]
<1> DEFINE r == Reach(f, p)
           h == chown(f, p, who)
<1>1. r \in DOMAIN f
  BY DEF Exists
<1>2. h = [f EXCEPT ![r].owner = who]
  BY DEF chown
<1> HIDE DEF r, h
<1>3. SetsOnly(f, h, r, "owner") /\ h[r].owner = who
  BY <1>1, <1>2, SetOwner
<1>4. Grown(f, h) /\ Tree(h)
  BY <1>3, SetsOnlyGrows DEF Grown
<1>5. Reach(h, p) = r
  BY <1>4, GrownReach DEF r
<1>6. DOMAIN h = DOMAIN f /\ (\A q \in DOMAIN f \ {r} : h[q] = f[q])
      /\ h[r].mode = f[r].mode /\ h[r].caps = f[r].caps
  BY <1>1, <1>3 DEF SetsOnly
<1>7. CASE mode = "keep"
  <2>1. g = h
    BY <1>7 DEF chmod, h
  <2>2. QED
    BY <1>3, <1>4, <1>5, <1>6, <1>7, <2>1 DEF r
<1>8. CASE mode # "keep"
  <2>1. g = [h EXCEPT ![r].mode = mode]
    BY <1>5, <1>8 DEF chmod, h
  <2>2. SetsOnly(h, g, r, "mode") /\ g[r].mode = mode
    <3>1. Tree(h) /\ r \in DOMAIN h
      BY <1>1, <1>4, <1>6
    <3>2. SetsOnly(h, [h EXCEPT ![r].mode = mode], r, "mode")
          /\ (r \in DOMAIN h => [h EXCEPT ![r].mode = mode][r].mode = mode)
      BY <3>1, SetMode
    <3>3. QED
      BY <2>1, <3>1, <3>2
  <2>3. Grown(h, g) /\ Grown(f, g)
    BY <1>4, <2>2, SetsOnlyGrows, GrownTransitive
  <2>4. Reach(g, p) = r
    BY <2>3, GrownReach DEF r
  <2>5. DOMAIN g = DOMAIN h /\ (\A q \in DOMAIN h \ {r} : g[q] = h[q])
        /\ g[r].owner = h[r].owner /\ g[r].caps = h[r].caps
    BY <1>1, <1>6, <2>2 DEF SetsOnly
  <2>6. \A q \in DOMAIN f : g[q].caps = f[q].caps
    BY <1>6, <2>5
  <2>7. \A q \in DOMAIN f \ {r} : g[q] = f[q]
    BY <1>6, <2>5
  <2>8. QED
    BY <1>3, <1>6, <1>8, <2>2, <2>3, <2>4, <2>5, <2>6, <2>7 DEF r
<1>9. QED
  BY <1>7, <1>8

LEMMA KeepsDirectory ==
  ASSUME MDInv, NEW who \in Users, Directory(who)
  PROVE  MDInv'
<1> DEFINE f == bb_make_directory(l.name, l.mode)
           g == chmod(chown(f, l.name, who), l.name, l.mode)
           r == Reach(fs, l.name)
<1>1. /\ At({"d"}) /\ Valid(l) /\ who \in Owners /\ full_name' = l.name /\ TypeOK
      /\ IF Exists(f, l.name) THEN Good(g) ELSE Bad(f)
  BY DEF Directory, For, MDInv
<1>2. /\ linenum \in DOMAIN table /\ walk = <<>> /\ l.type = "d" /\ Applies(linenum)
      /\ l.name \in Seq(STRING) /\ l.name \in Path /\ l.name # <<>> /\ l.mode \in Mode
  BY <1>1, AtLine DEF TypesRead
<1>3. Tree(fs) /\ {"d"} \subseteq TypesRead
  BY <1>1, Lines DEF TypesRead
<1>4. f = bb_make_directory(l.name, l.mode)
  OBVIOUS
<1> HIDE DEF f
<1>5. /\ Grown(fs, f) /\ Tree(f) /\ \A q \in DOMAIN fs : f[q] = fs[q]
      /\ \A q \in DOMAIN f \ DOMAIN fs : \E n \in 1..Len(l.name) : Reach(fs, SubSeq(l.name, 1, n)) = q
  BY <1>2, <1>3, <1>4, DirectoriesMade DEF Grown
<1>6. UNCHANGED <<tree0, table>> /\ linenum' = linenum + 1 /\ walk' = <<>>
  BY <1>1, <1>2 DEF Good, Bad, NextLine, Given
<1>7. NameRight'
  BY <1>1, <1>2, <1>6, NameTaken
<1>8. CASE ~Exists(f, l.name)
  <2>1. Bad(f)
    BY <1>1, <1>8
  <2>2. TypeOK' /\ WalkOK' /\ Applied' /\ CapsRight'
    BY <1>1, <1>2, <1>3, <1>5, <2>1, BadLine
  <2>3. QED
    BY <1>7, <2>2 DEF MDInv
<1>9. CASE Exists(f, l.name)
  <2>1. Good(g) /\ g = chmod(chown(f, l.name, who), l.name, l.mode)
    BY <1>1, <1>9
  <2> HIDE DEF g
  <2>2. fs' = g
    BY <2>1 DEF Good
  <2>3. /\ Grown(f, g) /\ DOMAIN g = DOMAIN f /\ Reach(f, l.name) = r /\ Reach(g, l.name) = r
        /\ g[r].owner = who
        /\ g[r].mode = IF l.mode = "keep" THEN f[r].mode ELSE l.mode
        /\ \A q \in DOMAIN f : g[q].caps = f[q].caps
        /\ \A q \in DOMAIN f \ {r} : g[q] = f[q]
    <3>1. Reach(f, l.name) = Reach(fs, l.name)
      BY <1>2, <1>3, <1>5, GrownReach
    <3>2. QED
      BY <1>2, <1>5, <1>9, <2>1, <3>1, OwnerAndMode
  <2>4. Grown(fs, g) /\ Tree(g) /\ \A q \in DOMAIN fs : g[q].caps = fs[q].caps
    BY <1>5, <2>3, GrownTransitive DEF Grown
  <2>5. ASSUME NEW m \in DOMAIN table, m = linenum PROVE Did(m)
    <3>1. /\ table[m] = l /\ l.type = "d" /\ Applies(m) /\ Applies(m)'
      BY <1>2, <1>6, <2>5 DEF Applies, l
    <3>2. \A q : /\ IsFor(m, q)' <=> q = r
                 /\ IsFor(m, q) <=> q = r
                 /\ SetsMode(m, q)' <=> q = r /\ l.mode # "keep"
                 /\ SetsMode(m, q) <=> q = r /\ l.mode # "keep"
      BY <1>6, <2>2, <2>3, <3>1 DEF IsFor, SetsMode, Names, MakesNode, WalksOver
    <3>3. \A q : Makes(m, q)' <=> \E n \in 1..Len(l.name) : Reach(g, SubSeq(l.name, 1, n)) = q
      BY <1>6, <2>2, <3>1 DEF Makes, MakesNode
    <3>4. l.owner # "unset" => who = l.owner
      BY <1>1 DEF Owners
    <3>5. \A q \in DOMAIN g : IsFor(m, q)' /\ l.owner # "unset" => g[q].owner = l.owner
      BY <2>3, <3>2, <3>4
    <3>6. \A q \in DOMAIN fs : ~IsFor(m, q) => g[q].owner = fs[q].owner
      BY <1>5, <2>3, <3>2 DEF Grown
    <3>7. \A q \in DOMAIN g : SetsMode(m, q)' => g[q].mode = l.mode
      BY <2>3, <3>2
    <3>8. \A q \in DOMAIN fs : ~SetsMode(m, q) => g[q].mode = fs[q].mode
      <4>1. ASSUME NEW q \in DOMAIN fs, ~SetsMode(m, q) PROVE g[q].mode = fs[q].mode
        <5>1. q \in DOMAIN f /\ f[q] = fs[q]
          BY <1>5 DEF Grown
        <5>2. CASE q = r
          BY <2>3, <3>2, <4>1, <5>1, <5>2
        <5>3. CASE q # r
          BY <2>3, <5>1, <5>3
        <5>4. QED
          BY <5>2, <5>3
      <4>2. QED
        BY <4>1
    <3>9. \A q : Makes(m, q)' => q \in DOMAIN g
      <4>1. Exists(g, l.name)
        BY <1>9, <2>3 DEF Exists
      <4>2. \A n \in 1..Len(l.name) : Exists(g, SubSeq(l.name, 1, n))
        BY <1>2, <2>4, <4>1, AllThere
      <4>3. QED
        BY <3>3, <4>2 DEF Exists
    <3>10. \A q \in DOMAIN g \ DOMAIN fs : Makes(m, q)'
      <4>1. \A n \in 1..Len(l.name) : Reach(g, SubSeq(l.name, 1, n)) = Reach(fs, SubSeq(l.name, 1, n))
        <5>1. \A n \in 1..Len(l.name) : SubSeq(l.name, 1, n) \in Path
          BY <1>2, Upto
        <5>2. QED
          BY <1>3, <2>4, <5>1, GrownReach
      <4>2. QED
        BY <1>5, <2>3, <3>3, <4>1
    <3>11. QED
      BY <2>2, <3>1, <3>5, <3>6, <3>7, <3>8, <3>9, <3>10 DEF Did, NodeTypes
  <2>6. TypeOK' /\ WalkOK' /\ Applied' /\ CapsRight'
    BY <1>1, <1>2, <1>3, <2>1, <2>4, <2>5, GoodLine
  <2>7. QED
    BY <1>7, <2>6 DEF MDInv
<1>10. QED
  BY <1>8, <1>9

LEMMA KeepsRegularFile ==
  ASSUME MDInv, NEW who \in Users, RegularFile(who)
  PROVE  MDInv'
<1> DEFINE g == chmod(chown(fs, l.name, who), l.name, l.mode)
           r == Reach(fs, l.name)
<1>1. /\ At({"f", "F"}) /\ Valid(l) /\ who \in Owners /\ full_name' = l.name /\ TypeOK
      /\ IF IsA(fs, "file", l.name) THEN Good(g)
         ELSE IF l.type = "F" THEN Good(fs) ELSE Bad(fs)
  BY DEF RegularFile, For, MDInv
<1>2. /\ linenum \in DOMAIN table /\ walk = <<>> /\ l.type \in {"f", "F"} /\ Applies(linenum)
      /\ l.name \in Seq(STRING) /\ l.name \in Path /\ l.name # <<>> /\ l.mode \in Mode
  BY <1>1, AtLine DEF TypesRead
<1>3. Tree(fs) /\ {"f", "F"} \subseteq TypesRead /\ Grown(fs, fs)
  BY <1>1, Lines, GrownReflexive DEF TypesRead
<1>4. UNCHANGED <<tree0, table>> /\ linenum' = linenum + 1 /\ walk' = <<>>
  BY <1>1, <1>2 DEF Good, Bad, NextLine, Given
<1>5. NameRight'
  BY <1>1, <1>2, <1>4, NameTaken
<1>6. CASE ~IsA(fs, "file", l.name)
  <2>1. Good(fs) \/ Bad(fs)
    BY <1>1, <1>6
  <2>2. fs' = fs
    BY <2>1 DEF Good, Bad
  <2>3. ASSUME NEW m \in DOMAIN table, m = linenum PROVE Did(m)
    <3>1. /\ table[m] = l /\ l.type \in {"f", "F"} /\ Applies(m) /\ Applies(m)'
      BY <1>2, <1>4, <2>3 DEF Applies, l
    <3>2. \A q \in DOMAIN fs : ~IsFor(m, q)
      BY <1>6, <3>1 DEF IsFor, Names, MakesNode, WalksOver, IsA, Exists
    <3>3. \A q : ~Makes(m, q)
      BY <3>1 DEF Makes, MakesNode
    <3>4. \A q : (IsFor(m, q)' <=> IsFor(m, q)) /\ (SetsMode(m, q)' <=> SetsMode(m, q))
                 /\ (Makes(m, q)' <=> Makes(m, q))
      BY <1>4, <2>2, SameLines
    <3>5. QED
      BY <2>2, <3>1, <3>2, <3>3, <3>4 DEF Did, NodeTypes, SetsMode
  <2>4. TypeOK' /\ WalkOK' /\ Applied' /\ CapsRight'
    BY <1>1, <1>2, <1>3, <2>1, <2>3, GoodLine, BadLine
  <2>5. QED
    BY <1>5, <2>4 DEF MDInv
<1>7. CASE IsA(fs, "file", l.name)
  <2>1. Good(g) /\ g = chmod(chown(fs, l.name, who), l.name, l.mode) /\ Exists(fs, l.name)
        /\ fs[r].kind = "file"
    BY <1>1, <1>7 DEF IsA
  <2> HIDE DEF g
  <2>2. fs' = g
    BY <2>1 DEF Good
  <2>3. /\ Grown(fs, g) /\ DOMAIN g = DOMAIN fs /\ Reach(g, l.name) = r /\ g[r].owner = who
        /\ g[r].mode = IF l.mode = "keep" THEN fs[r].mode ELSE l.mode
        /\ \A q \in DOMAIN fs : g[q].caps = fs[q].caps
        /\ \A q \in DOMAIN fs \ {r} : g[q] = fs[q]
    BY <1>2, <1>3, <2>1, OwnerAndMode
  <2>4. r \in DOMAIN fs /\ g[r].kind = "file"
    BY <2>1, <2>3 DEF Exists, Grown
  <2>5. ASSUME NEW m \in DOMAIN table, m = linenum PROVE Did(m)
    <3>1. /\ table[m] = l /\ l.type \in {"f", "F"} /\ Applies(m) /\ Applies(m)'
      BY <1>2, <1>4, <2>5 DEF Applies, l
    <3>2. \A q : /\ IsFor(m, q)' <=> q = r
                 /\ IsFor(m, q) <=> q = r
                 /\ SetsMode(m, q)' <=> q = r /\ l.mode # "keep"
                 /\ SetsMode(m, q) <=> q = r /\ l.mode # "keep"
                 /\ ~Makes(m, q)'
      BY <1>4, <2>1, <2>2, <2>3, <2>4, <3>1
         DEF IsFor, SetsMode, Names, MakesNode, WalksOver, Makes
    <3>3. l.owner # "unset" => who = l.owner
      BY <1>1 DEF Owners
    <3>4. \A q \in DOMAIN g : IsFor(m, q)' /\ l.owner # "unset" => g[q].owner = l.owner
      BY <2>3, <3>2, <3>3
    <3>5. \A q \in DOMAIN fs : ~IsFor(m, q) => g[q].owner = fs[q].owner
      BY <2>3, <3>2
    <3>6. \A q \in DOMAIN g : SetsMode(m, q)' => g[q].mode = l.mode
      BY <2>3, <3>2
    <3>7. \A q \in DOMAIN fs : ~SetsMode(m, q) => g[q].mode = fs[q].mode
      BY <2>3, <3>2
    <3>8. QED
      BY <2>2, <2>3, <3>1, <3>2, <3>4, <3>5, <3>6, <3>7 DEF Did, NodeTypes
  <2>6. TypeOK' /\ WalkOK' /\ Applied' /\ CapsRight'
    BY <1>1, <1>2, <1>3, <2>1, <2>3, <2>5, GoodLine
  <2>7. QED
    BY <1>5, <2>6 DEF MDInv
<1>8. QED
  BY <1>6, <1>7

LEMMA KeepsMakeNodes ==
  ASSUME MDInv, NEW who \in Users, MakeNodes(who)
  PROVE  MDInv'
<1> DEFINE made == CHOOSE f : IsMade(f, who)
           N == LastOf(l) + 1
           g == made[N]
<1>1. /\ At(NodeTypes) /\ Valid(l) /\ who \in Owners /\ full_name' = l.name /\ TypeOK
  BY DEF MakeNodes, For, MDInv, NodeTypes
<1>2. /\ linenum \in DOMAIN table /\ walk = <<>> /\ l \in Line /\ l.type \in NodeTypes
      /\ Applies(linenum) /\ l.name \in Seq(STRING) /\ l.name # <<>>
  BY <1>1, AtLine DEF TypesRead, NodeTypes
<1>3. IF \A k \in 0..LastOf(l) : CanMake(made[k], l, k) THEN Good(g) ELSE Bad(g)
  BY DEF MakeNodes, IsMade
<1>4. Tree(fs) /\ NodeTypes \subseteq TypesRead
  BY <1>1, Lines DEF TypesRead, NodeTypes
<1>5. IsMade(made, who)
  BY <1>2, <1>4, MadeExists
<1> HIDE DEF made
<1>6. N \in Nat /\ N \in 0..N /\ N - 1 = LastOf(l)
  BY <1>2, LineOfNodes
<1>7. MadeUpto(made, who, N)
  BY <1>2, <1>4, <1>5, <1>6, AllMade
<1>8. /\ Grown(fs, g)
      /\ \A q \in DOMAIN fs : g[q] = fs[q]
      /\ \A q \in DOMAIN g \ DOMAIN fs :
           /\ g[q].owner = who /\ g[q].mode = l.mode
           /\ \E j \in 0..LastOf(l) : Entry(fs, NameOf(l, j)) = q
      /\ \A j \in 0..LastOf(l) :
           CanMake(made[j], l, j) => /\ Entry(fs, NameOf(l, j)) \in DOMAIN g
                                     /\ g[Entry(fs, NameOf(l, j))] = NodeOf(l, who, j)
  BY <1>6, <1>7 DEF MadeUpto
<1> HIDE DEF N, g
<1>9. UNCHANGED <<tree0, table>> /\ linenum' = linenum + 1 /\ walk' = <<>> /\ fs' = g
  BY <1>2, <1>3 DEF Good, Bad, NextLine, Given
<1>10. NameRight'
  BY <1>1, <1>2, <1>9, NameTaken
<1>11. CASE ~\A k \in 0..LastOf(l) : CanMake(made[k], l, k)
  <2>1. Bad(g)
    BY <1>3, <1>11
  <2>2. TypeOK' /\ WalkOK' /\ Applied' /\ CapsRight'
    BY <1>1, <1>2, <1>4, <1>8, <2>1, BadLine
  <2>3. QED
    BY <1>10, <2>2 DEF MDInv
<1>12. CASE \A k \in 0..LastOf(l) : CanMake(made[k], l, k)
  <2>1. Good(g)
    BY <1>3, <1>12
  <2>2. \A j \in 0..LastOf(l) : /\ Entry(fs, NameOf(l, j)) \in DOMAIN g
                                /\ g[Entry(fs, NameOf(l, j))] = NodeOf(l, who, j)
    BY <1>8, <1>12
  <2>3. ASSUME NEW n \in AskedNodes(l)
        PROVE  /\ n[1] \in Path /\ n[1] # <<>>
               /\ Entry(g, n[1]) = Entry(fs, n[1]) /\ Entry(fs, n[1]) \in DOMAIN g
               /\ g[Entry(fs, n[1])].owner = who /\ g[Entry(fs, n[1])].mode = l.mode
               /\ g[Entry(fs, n[1])].kind = Kinds[l.type]
               /\ g[Entry(fs, n[1])].dev = <<l.major, n[2]>>
               /\ IsA(g, Kinds[l.type], n[1])
    <3>1. n[1] \in Path /\ n[1] # <<>>
      BY <1>2, AskedAre
    <3>2. PICK k \in 0..LastOf(l) : n[1] = NameOf(l, k) /\ n[2] = l.minor + k * l.inc
      BY <1>2, AskedAre
    <3>3. k \in Nat
      BY <1>2, LineOfNodes
    <3>4. /\ NodeOf(l, who, k).kind = Kinds[l.type] /\ Kinds[l.type] # "link"
          /\ NodeOf(l, who, k).owner = who /\ NodeOf(l, who, k).mode = l.mode
          /\ NodeOf(l, who, k).dev = <<l.major, n[2]>>
      BY <1>2, <3>2, <3>3, LineOfNodes
    <3>5. /\ Entry(fs, n[1]) \in DOMAIN g /\ g[Entry(fs, n[1])] = NodeOf(l, who, k)
      BY <2>2, <3>2
    <3>6. Entry(g, n[1]) = Entry(fs, n[1])
      BY <1>4, <1>8, <3>1, GrownReach
    <3>7. Reach(g, n[1]) = Follow(g, Entry(g, n[1]))
      BY <1>8, <3>1, TreeLinks, ReachStep DEF Grown
    <3>8. IsA(g, Kinds[l.type], n[1])
      BY <3>4, <3>5, <3>6, <3>7 DEF IsA, Exists, Follow
    <3>9. QED
      BY <3>1, <3>4, <3>5, <3>6, <3>8
  <2>4. ASSUME NEW m \in DOMAIN table, m = linenum PROVE Did(m)
    <3>1. /\ table[m] = l /\ l.type \in NodeTypes /\ Applies(m) /\ Applies(m)'
      BY <1>2, <1>9, <2>4 DEF Applies, l
    <3>2. \A q : /\ Makes(m, q)' <=> \E n \in AskedNodes(l) : Entry(g, n[1]) = q
                 /\ IsFor(m, q)' <=> \E n \in AskedNodes(l) : Entry(g, n[1]) = q
                 /\ SetsMode(m, q)' => \E n \in AskedNodes(l) : Entry(g, n[1]) = q
      BY <1>9, <3>1 DEF IsFor, SetsMode, Names, MakesNode, WalksOver, Makes, NodeTypes
    <3>3. l.owner # "unset" => who = l.owner
      BY <1>1 DEF Owners
    <3>4. ASSUME NEW q, \E n \in AskedNodes(l) : Entry(g, n[1]) = q
          PROVE  q \in DOMAIN g /\ g[q].owner = who /\ g[q].mode = l.mode
      BY <2>3, <3>4
    <3>5. \A q \in DOMAIN g : IsFor(m, q)' /\ l.owner # "unset" => g[q].owner = l.owner
      BY <3>2, <3>3, <3>4
    <3>6. \A q \in DOMAIN g : SetsMode(m, q)' => g[q].mode = l.mode
      BY <3>2, <3>4
    <3>7. \A q : Makes(m, q)' => q \in DOMAIN g
      BY <3>2, <3>4
    <3>8. \A q \in DOMAIN g \ DOMAIN fs : Makes(m, q)'
      <4>1. ASSUME NEW q \in DOMAIN g \ DOMAIN fs PROVE \E n \in AskedNodes(l) : Entry(g, n[1]) = q
        <5>1. PICK j \in 0..LastOf(l) : Entry(fs, NameOf(l, j)) = q
          BY <1>8
        <5>2. PICK n \in AskedNodes(l) : n[1] = NameOf(l, j)
          BY <1>2, AskedAre
        <5>3. QED
          BY <2>3, <5>1, <5>2
      <4>2. QED
        BY <3>2, <4>1
    <3>9. \A n \in AskedNodes(l) :
            IsA(g, Kinds[l.type], n[1]) /\ g[Entry(g, n[1])].dev = <<l.major, n[2]>>
      BY <2>3
    <3>10. QED
      BY <1>8, <1>9, <3>1, <3>5, <3>6, <3>7, <3>8, <3>9 DEF Did
  <2>5. TypeOK' /\ WalkOK' /\ Applied' /\ CapsRight'
    BY <1>1, <1>2, <1>4, <1>8, <2>1, <2>4, GoodLine
  <2>6. QED
    BY <1>10, <2>5 DEF MDInv
<1>13. QED
  BY <1>11, <1>12

LEMMA KeepsXattr ==
  ASSUME MDInv, Xattr
  PROVE  MDInv'
<1>1. At({"xattr"}) /\ TypeOK /\ CapsRight /\ NameRight
  BY DEF Xattr, MDInv
<1>2. /\ linenum \in DOMAIN table /\ l \in Line /\ l.type = "xattr" /\ walk = <<>> /\ status = "run"
      /\ ~Applies(linenum)
  BY <1>1, AtLine
<1>3. Tree(fs) /\ linenum \in Nat /\ DOMAIN table \subseteq Nat
  BY <1>1, Lines DEF TypeOK
<1>4. CASE Die
  BY <1>4, KeepsDie
<1> DEFINE r == Reach(fs, full_name)
           g == WithCap(full_name, l.cap)
<1>5. CASE full_name # NoFile /\ IsA(fs, "file", full_name) /\ Good(g) /\ UNCHANGED full_name
  <2>1. /\ UNCHANGED <<tree0, table, ret, failed, status, full_name>>
        /\ linenum' = linenum + 1 /\ walk' = <<>> /\ fs' = g
    BY <1>2, <1>5 DEF Good, NextLine, Given
  <2>2. r \in DOMAIN fs /\ fs[r].kind = "file" /\ l.cap \in STRING
    BY <1>2, <1>5 DEF IsA, Exists, Line
  <2>3. g = [fs EXCEPT ![r].caps = @ \cup {l.cap}]
    BY DEF WithCap
  <2> HIDE DEF g, r
  <2>4. SetsOnly(fs, g, r, "caps") /\ g[r].caps = fs[r].caps \cup {l.cap}
    BY <1>3, <2>2, <2>3, SetCaps
  <2>5. Grown(fs, g)
    BY <1>3, <2>4, SetsOnlyGrows
  <2>6. DOMAIN g = DOMAIN fs /\ (\A q \in DOMAIN fs \ {r} : g[q] = fs[q])
        /\ \A q \in DOMAIN fs : g[q].owner = fs[q].owner /\ g[q].mode = fs[q].mode
    BY <2>2, <2>4 DEF SetsOnly
  <2>7. TypeOK' /\ WalkOK'
    <3>1. full_name' \in Seq(STRING)
      BY <1>1, <2>1 DEF TypeOK
    <3>2. QED
      BY <1>1, <1>2, <2>1, <2>5, <3>1, LineEnds
  <2>8. Applied'
    <3>1. \A m \in DOMAIN table : m = linenum => Did(m)
      BY <1>1, <1>2, <2>1, <2>6, DoesNothing
    <3>2. CASE ret = "SUCCESS"
      BY <1>1, <1>2, <2>1, <2>5, <3>1, <3>2, LineDone DEF MDInv
    <3>3. CASE ret # "SUCCESS"
      BY <2>1, <3>3 DEF Applied
    <3>4. QED
      BY <3>2, <3>3
  <2>9. NameRight'
    BY <1>1, <1>2, <2>1, NameStays
  <2>10. PICK k \in DOMAIN table : Follows(k, linenum) /\ full_name = table[k].name
    BY <1>1, <1>2, <1>5 DEF NameRight, Upcoming, NoFile
  <2>11. ASSUME NEW q
         PROVE  CapLines(q, linenum)' = CapLines(q, linenum) \cup (IF q = r THEN {linenum} ELSE {})
    <3>1. CapLines(q, linenum)' = CapLines(q, linenum + 1)
      <4>1. ASSUME NEW z \in Nat PROVE CapLines(q, z)' = CapLines(q, z)
        BY <1>1, <2>1, <2>5, CapLinesSame
      <4>2. CapLines(q, linenum)' = CapLines(q, linenum')
        BY <1>3, <2>1, <4>1 DEF CapLines, Follows, Applies, Valid
      <4>3. QED
        BY <2>1, <4>2
    <3>2. ASSUME NEW j \in DOMAIN table, Follows(j, linenum) PROVE j = k
      BY <1>3, <2>10, <3>2 DEF Follows
    <3>3. (\E j \in DOMAIN table : Follows(j, linenum) /\ Reach(fs, table[j].name) = q) <=> q = r
      BY <2>10, <3>2 DEF r
    <3>4. \A j \in DOMAIN table : j < linenum + 1 <=> j < linenum \/ j = linenum
      BY <1>3
    <3>5. \A j \in DOMAIN table :
            j \in CapLines(q, linenum + 1) <=> j \in CapLines(q, linenum) \/ (j = linenum /\ q = r)
      BY <1>2, <1>3, <3>3, <3>4 DEF CapLines, l
    <3>6. CapLines(q, linenum) \subseteq DOMAIN table /\ CapLines(q, linenum + 1) \subseteq DOMAIN table
      BY DEF CapLines
    <3>7. QED
      BY <1>2, <3>1, <3>5, <3>6
  <2>12. CapsRight'
    <3>1. ASSUME NEW q \in DOMAIN fs'
          PROVE  fs'[q].caps = (IF q \in DOMAIN tree0 THEN tree0[q].caps ELSE {})
                               \cup {table[j].cap : j \in CapLines(q, linenum)'}
      <4>1. fs[q].caps = (IF q \in DOMAIN tree0 THEN tree0[q].caps ELSE {})
                         \cup {table[j].cap : j \in CapLines(q, linenum)}
        BY <1>1, <2>1, <2>6, <3>1 DEF CapsRight
      <4>2. CASE q = r
        <5>1. {table[j].cap : j \in CapLines(q, linenum)'}
                = {table[j].cap : j \in CapLines(q, linenum)} \cup {l.cap}
          BY <2>11, <4>2 DEF l
        <5>2. fs'[q].caps = fs[q].caps \cup {l.cap}
          BY <2>1, <2>4, <4>2
        <5>3. QED
          BY <4>1, <5>1, <5>2
      <4>3. CASE q # r
        <5>1. CapLines(q, linenum)' = CapLines(q, linenum)
          BY <2>11, <4>3
        <5>2. fs'[q].caps = fs[q].caps
          BY <2>1, <2>6, <3>1, <4>3
        <5>3. QED
          BY <4>1, <5>1, <5>2
      <4>4. QED
        BY <4>2, <4>3
    <3>2. ASSUME NEW q, q \notin DOMAIN tree0 PROVE CapLines(q, linenum)' = {}
      <4>1. q # r
        BY <1>1, <2>2, <3>2 DEF TypeOK, Grown
      <4>2. QED
        BY <1>1, <2>11, <3>2, <4>1 DEF CapsRight
    <3>3. QED
      BY <2>1, <3>1, <3>2 DEF CapsRight
  <2>13. QED
    BY <2>7, <2>8, <2>9, <2>12 DEF MDInv
<1>6. QED
  BY <1>4, <1>5 DEF Xattr

LEMMA KeepsRecursive ==
  ASSUME MDInv, NEW who \in Users, Recursive(who)
  PROVE  MDInv'
<1> DEFINE e == Entry(fs, l.name)
<1>1. /\ At({"r"}) /\ Valid(l) /\ who \in Owners /\ full_name' = l.name /\ TypeOK
  BY DEF Recursive, For, MDInv
<1>2. /\ linenum \in DOMAIN table /\ walk = <<>> /\ l.type = "r" /\ Applies(linenum)
      /\ l.name \in Seq(STRING) /\ l.name \in Path /\ l.name # <<>> /\ status = "run"
  BY <1>1, AtLine DEF TypesRead
<1>3. Tree(fs) /\ {"r"} \subseteq TypesRead /\ Grown(fs, fs) /\ DOMAIN table = 1..Len(table)
      /\ linenum \in Nat
  BY <1>1, Lines, GrownReflexive DEF TypesRead, TypeOK
<1>4. CASE e \notin DOMAIN fs
  <2>1. Bad(fs)
    BY <1>4 DEF Recursive
  <2>2. UNCHANGED <<tree0, table>> /\ linenum' = linenum + 1 /\ walk' = <<>>
    BY <1>2, <2>1 DEF Bad, NextLine, Given
  <2>3. NameRight'
    BY <1>1, <1>2, <2>2, NameTaken
  <2>4. TypeOK' /\ WalkOK' /\ Applied' /\ CapsRight'
    BY <1>1, <1>2, <1>3, <2>1, BadLine
  <2>5. QED
    BY <2>3, <2>4 DEF MDInv
<1>5. CASE e \in DOMAIN fs
  <2>1. /\ UNCHANGED <<tree0, table, fs, linenum, ret, failed, status>>
        /\ walk' = <<e>> /\ owner' = who /\ full_name' = l.name
    BY <1>1, <1>5 DEF Recursive, Given
  <2>2. e \in Path
    BY <1>3, <1>5 DEF Tree
  <2> HIDE DEF e
  <2>3. walk' \in Seq(Path) /\ walk' # <<>> /\ Len(walk') = 1 /\ walk'[1] = e
    BY <2>1, <2>2
  <2>4. TypeOK'
    BY <1>1, <1>2, <2>1 DEF TypeOK
  <2>5. IsPrefix(e, e)
    BY <2>2, PrefixOrder
  <2>6. WalkOK'
    <3>1. l' = l
      BY <2>1 DEF l
    <3>2. \A n \in 1..Len(walk') : n = 1
      BY <2>3
    <3>3. l.owner = "unset" \/ owner' = l.owner
      BY <1>1, <2>1 DEF Owners
    <3>4. Valid(l)'
      BY <1>1, <3>1 DEF Valid
    <3>5. \A n \in 1..Len(walk') : walk'[n] \in DOMAIN fs' /\ IsPrefix(Entry(fs', l'.name), walk'[n])
      BY <1>5, <2>1, <2>3, <2>5, <3>1, <3>2 DEF e
    <3>6. \A n, k \in 1..Len(walk') : n = k
      BY <3>2
    <3>7. QED
      BY <1>2, <1>3, <2>1, <2>3, <3>1, <3>3, <3>4, <3>5, <3>6 DEF WalkOK
  <2>7. Applied'
    <3>1. ASSUME NEW k \in DOMAIN table, NEW q \in DOMAIN fs PROVE Done(k, q)' <=> Done(k, q)
      <4>1. Pending(q)' <=> IsPrefix(e, q)
        BY <2>3 DEF Pending
      <4>2. QED
        BY <1>2, <2>1, <4>1 DEF Done, l, e
    <3>2. QED
      BY <2>1, <3>1, AppliedStays DEF MDInv
  <2>8. NameRight'
    BY <1>1, <1>2, <2>1, <2>3, NameTaken
  <2>9. CapsRight'
    BY <1>1, <1>3, <2>1, CapsStay DEF MDInv
  <2>10. QED
    BY <2>4, <2>6, <2>7, <2>8, <2>9 DEF MDInv
<1>6. QED
  BY <1>4, <1>5

(* A visit changes the node that is visited and no other.                  *)
LEMMA Visit ==
  ASSUME MDInv, bb_recursive
  PROVE  LET h == Head(walk)
         IN  /\ h \in DOMAIN fs /\ h \in Path /\ IsPrefix(Entry(fs, l.name), h)
             /\ linenum \in DOMAIN table /\ l.type = "r" /\ Applies(linenum)
             /\ walk # <<>> /\ status = "run"
             /\ UNCHANGED <<tree0, table, full_name, owner, status>>
             /\ Grown(fs, fs') /\ DOMAIN fs' = DOMAIN fs
             /\ \A q \in DOMAIN fs : fs'[q].caps = fs[q].caps
             /\ \A q \in DOMAIN fs \ {h} : fs'[q] = fs[q]
             /\ fs'[h].owner = owner
             /\ \/ /\ walk' = <<>> /\ linenum' = linenum + 1 /\ ret' = "FAILURE"
                   /\ failed' = failed \cup {linenum}
                \/ /\ \E more \in SetToSeqs(Content(h)) : walk' = more \o Tail(walk)
                   /\ linenum' = IF walk' = <<>> THEN linenum + 1 ELSE linenum
                   /\ UNCHANGED <<ret, failed>>
                   /\ IF l.mode = "keep" THEN fs'[h].mode = fs[h].mode
                      ELSE fs[h].kind # "link" => fs'[h].mode = l.mode
<1> DEFINE h == Head(walk)
           f == lchown(fs, h, owner)
<1>1. TypeOK /\ WalkOK /\ walk # <<>> /\ Tree(fs) /\ walk \in Seq(Path)
  BY Lines DEF MDInv, bb_recursive, WalkOK
<1>2. /\ linenum \in DOMAIN table /\ l.type = "r" /\ Valid(l) /\ Applies(linenum)
      /\ owner \in Users /\ l.name \in Path /\ l.name # <<>> /\ l.mode \in Mode
  <2>1. linenum \in DOMAIN table /\ l.type = "r" /\ Valid(l) /\ owner \in Users
    BY <1>1, Lines DEF WalkOK
  <2>2. Applies(linenum)
    BY <2>1 DEF Applies, l
  <2>3. l \in Line /\ l.name \in Path /\ l.name # <<>>
    BY <1>1, <2>1, <2>2, Lines DEF l
  <2>4. QED
    BY <2>1, <2>2, <2>3 DEF Line, Mode
<1>3. 1 \in 1..Len(walk) /\ h = walk[1]
  BY <1>1
<1>4. h \in DOMAIN fs /\ IsPrefix(Entry(fs, l.name), h) /\ h \in Path
  BY <1>1, <1>3 DEF WalkOK, Tree
<1> HIDE DEF h
<1>5. h # <<>>
  <2>1. Entry(fs, l.name) \in Path /\ Entry(fs, l.name) # <<>>
    BY <1>1, <1>2, TreeLinks, ReachStep
  <2>2. Len(Entry(fs, l.name)) <= Len(h)
    BY <1>4, <2>1, PrefixOrder
  <2>3. Len(Entry(fs, l.name)) # 0 /\ Len(Entry(fs, l.name)) \in Nat
    BY <2>1 DEF Path
  <2>4. QED
    BY <2>2, <2>3
<1>6. f = [fs EXCEPT ![h].owner = owner]
  BY <1>1, <1>4, <1>5, ReachNode DEF lchown
<1> HIDE DEF f
<1>7. SetsOnly(fs, f, h, "owner") /\ f[h].owner = owner
  BY <1>1, <1>2, <1>4, <1>6, SetOwner
<1>8. Grown(fs, f) /\ Tree(f)
  BY <1>1, <1>7, SetsOnlyGrows DEF Grown
<1>9. /\ DOMAIN f = DOMAIN fs /\ (\A q \in DOMAIN fs \ {h} : f[q] = fs[q])
      /\ f[h].mode = fs[h].mode /\ f[h].caps = fs[h].caps
  BY <1>4, <1>7 DEF SetsOnly
<1>10. \A q \in DOMAIN fs : f[q].caps = fs[q].caps
  BY <1>9
<1>11. UNCHANGED <<tree0, table, full_name, owner, status>> /\ status = "run"
  BY DEF bb_recursive, Given
<1>12. CASE ~NoChmod(h) /\ ~Exists(fs, h)
  <2>1. /\ fs' = f /\ walk' = <<>> /\ linenum' = linenum + 1 /\ ret' = "FAILURE"
        /\ failed' = failed \cup {linenum}
    BY <1>12 DEF bb_recursive, NextLine, f, h
  <2>2. QED
    BY <1>1, <1>2, <1>4, <1>7, <1>8, <1>9, <1>10, <1>11, <2>1 DEF h
<1>13. CASE ~(~NoChmod(h) /\ ~Exists(fs, h))
  <2>1. /\ fs' = IF NoChmod(h) THEN f ELSE chmod(f, h, l.mode)
        /\ \E more \in SetToSeqs(Content(h)) : walk' = more \o Tail(walk)
        /\ linenum' = IF walk' = <<>> THEN linenum + 1 ELSE linenum
        /\ UNCHANGED <<ret, failed>>
    BY <1>13 DEF bb_recursive, f, h
  <2>2. CASE NoChmod(h)
    <3>1. fs' = f
      BY <2>1, <2>2
    <3>2. IF l.mode = "keep" THEN f[h].mode = fs[h].mode
          ELSE fs[h].kind # "link" => f[h].mode = l.mode
      BY <1>9, <2>2 DEF NoChmod
    <3>3. QED
      BY <1>1, <1>2, <1>4, <1>7, <1>8, <1>9, <1>10, <1>11, <2>1, <3>1, <3>2 DEF h
  <2>3. CASE ~NoChmod(h)
    <3>1. l.mode # "keep" /\ fs[h].kind # "link"
      BY <1>13, <2>3 DEF NoChmod
    <3>2. Reach(f, h) = h
      BY <1>1, <1>4, <1>8, <3>1, ReachNode, GrownReach
    <3>3. fs' = [f EXCEPT ![h].mode = l.mode]
      BY <2>1, <2>3, <3>1, <3>2 DEF chmod
    <3>4. SetsOnly(f, fs', h, "mode") /\ fs'[h].mode = l.mode
      <4>1. h \in DOMAIN f
        BY <1>4, <1>9
      <4>2. SetsOnly(f, [f EXCEPT ![h].mode = l.mode], h, "mode")
            /\ (h \in DOMAIN f => [f EXCEPT ![h].mode = l.mode][h].mode = l.mode)
        BY <1>2, <1>8, SetMode
      <4>3. QED
        BY <3>3, <4>1, <4>2
    <3>5. Grown(f, fs') /\ Grown(fs, fs')
      BY <1>8, <3>4, SetsOnlyGrows, GrownTransitive
    <3>6. /\ DOMAIN fs' = DOMAIN f /\ (\A q \in DOMAIN f \ {h} : fs'[q] = f[q])
          /\ fs'[h].owner = f[h].owner /\ fs'[h].caps = f[h].caps
      BY <1>4, <1>9, <3>4 DEF SetsOnly
    <3>7. /\ DOMAIN fs' = DOMAIN fs /\ (\A q \in DOMAIN fs \ {h} : fs'[q] = fs[q])
          /\ fs'[h].owner = owner
      BY <1>7, <1>9, <3>6
    <3>8. \A q \in DOMAIN fs : fs'[q].caps = fs[q].caps
      BY <1>9, <3>6
    <3>9. IF l.mode = "keep" THEN fs'[h].mode = fs[h].mode
          ELSE fs[h].kind # "link" => fs'[h].mode = l.mode
      BY <3>1, <3>4
    <3>10. QED
      BY <1>1, <1>2, <1>4, <1>11, <2>1, <3>5, <3>7, <3>8, <3>9 DEF h
  <2>4. QED
    BY <2>2, <2>3
<1>14. QED
  BY <1>12, <1>13

(* The content of a directory, in some order.                              *)
LEMMA InSomeOrder ==
  ASSUME Tree(fs), NEW h \in Path, NEW more \in SetToSeqs(Content(h))
  PROVE  /\ more \in Seq(Path) /\ Len(more) \in Nat
         /\ \A n \in 1..Len(more) : more[n] \in Content(h)
         /\ \A n, k \in 1..Len(more) : more[n] = more[k] => n = k
         /\ \A c \in Content(h) : \E n \in 1..Len(more) : more[n] = c
<1> DEFINE S == Content(h)
           D == 1..Cardinality(S)
<1>1. IsFiniteSet(S) /\ S \subseteq Path
  <2>1. S \subseteq DOMAIN fs
    BY DEF Content
  <2>2. QED
    BY <2>1, FS_Subset DEF Tree
<1> HIDE DEF S
<1>2. Cardinality(S) \in Nat
  BY <1>1, FS_CardinalityType
<1>3. more \in [D -> S] /\ \A z, j \in D : z # j => more[z] # more[j]
  BY DEF SetToSeqs, S
<1>4. IsFiniteSet(D) /\ Cardinality(D) = Cardinality(S)
  <2>1. 1 \in Int /\ Cardinality(S) \in Int
    BY <1>2
  <2>2. IsFiniteSet(D) /\ Cardinality(D) = IF 1 > Cardinality(S) THEN 0 ELSE Cardinality(S) - 1 + 1
    BY <2>1, FS_Interval
  <2>3. QED
    BY <1>2, <2>2
<1> HIDE DEF D
<1>5. more \in Injection(D, S)
  BY <1>3 DEF Injection, IsInjective
<1>6. more \in Surjection(D, S)
  BY <1>1, <1>4, <1>5, FS_Injection
<1>7. \A c \in S : \E n \in D : more[n] = c
  BY <1>6 DEF Surjection
<1>8. more \in Seq(S) /\ Len(more) = Cardinality(S)
  BY <1>2, <1>3 DEF D
<1>9. more \in [D -> Path]
  BY <1>1, <1>3
<1>10. more \in Seq(Path)
  BY <1>2, <1>9 DEF D
<1>11. D = 1..Len(more)
  BY <1>8 DEF D
<1>12. QED
  BY <1>2, <1>3, <1>7, <1>8, <1>10, <1>11 DEF S

(* What is left to visit: that a directory is visited takes the directory  *)
(* alone from it.                                                           *)
LEMMA WalkOn ==
  ASSUME MDInv, walk # <<>>, NEW more \in SetToSeqs(Content(Head(walk))),
         walk' = more \o Tail(walk)
  PROVE  LET h == Head(walk)
         IN  /\ walk' \in Seq(Path)
             /\ \A n \in 1..Len(walk') : walk'[n] \in DOMAIN fs /\ IsPrefix(Entry(fs, l.name), walk'[n])
             /\ \A n, k \in 1..Len(walk') : IsPrefix(walk'[n], walk'[k]) => n = k
             /\ \A q \in DOMAIN fs : Pending(q)' <=> Pending(q) /\ q # h
<1> DEFINE h == Head(walk)
           M == Len(more)
           L == Len(walk)
           E == Entry(fs, l.name)
<1>1. /\ TypeOK /\ WalkOK /\ Tree(fs) /\ walk \in Seq(Path) /\ L \in Nat \ {0} /\ h = walk[1]
      /\ \A n \in 1..L : walk[n] \in DOMAIN fs /\ IsPrefix(E, walk[n]) /\ walk[n] \in Path
      /\ \A n, k \in 1..L : IsPrefix(walk[n], walk[k]) => n = k
  BY Lines DEF MDInv, WalkOK, Tree
<1>2. h \in DOMAIN fs /\ h \in Path /\ IsPrefix(E, h) /\ 1 \in 1..L
  BY <1>1
<1>3. E \in Path
  <2>1. l.name \in Path /\ l.name # <<>>
    <3>1. linenum \in DOMAIN table /\ Applies(linenum) /\ table[linenum] = l
      BY <1>1, Lines DEF WalkOK, Applies, l
    <3>2. QED
      BY <1>1, <3>1, Lines
  <2>2. QED
    BY <1>1, <2>1, TreeLinks, ReachStep
<1> HIDE DEF h, E
<1>4. /\ more \in Seq(Path) /\ M \in Nat
      /\ \A n \in 1..M : more[n] \in Content(h)
      /\ \A n, k \in 1..M : more[n] = more[k] => n = k
      /\ \A c \in Content(h) : \E n \in 1..M : more[n] = c
  BY <1>1, <1>2, InSomeOrder DEF h
<1>5. /\ walk' \in Seq(Path) /\ Len(walk') = M + (L - 1)
      /\ \A n \in 1..M : walk'[n] = more[n]
      /\ \A n \in 2..L : walk'[M + n - 1] = walk[n]
  <2>1. Tail(walk) \in Seq(Path) /\ Len(Tail(walk)) = L - 1 /\ \A n \in 1..(L - 1) : Tail(walk)[n] = walk[n + 1]
    BY <1>1
  <2>2. walk' \in Seq(Path) /\ Len(walk') = M + (L - 1)
    BY <1>4, <2>1
  <2>3. \A n \in 1..M : walk'[n] = more[n]
    BY <1>4, <2>1
  <2>4. ASSUME NEW n \in 2..L PROVE walk'[M + n - 1] = walk[n]
    <3>1. M + n - 1 \in (M + 1)..(M + (L - 1)) /\ (M + n - 1) - M = n - 1 /\ n - 1 \in 1..(L - 1)
      BY <1>1, <1>4, <2>4
    <3>2. walk'[M + n - 1] = Tail(walk)[n - 1]
      BY <1>4, <2>1, <3>1
    <3>3. QED
      BY <1>1, <2>1, <3>1, <3>2
  <2>5. QED
    BY <2>2, <2>3, <2>4
<1>6. ASSUME NEW n \in 1..Len(walk')
      PROVE  \/ n \in 1..M /\ walk'[n] = more[n] /\ walk'[n] \in Content(h)
             \/ \E k \in 2..L : n = M + k - 1 /\ walk'[n] = walk[k]
  <2>1. CASE n <= M
    <3>1. n \in 1..M
      BY <1>4, <2>1
    <3>2. QED
      BY <1>4, <1>5, <3>1
  <2>2. CASE n > M
    <3>1. n - M + 1 \in 2..L /\ n = M + (n - M + 1) - 1
      BY <1>1, <1>4, <1>5, <1>6, <2>2
    <3>2. walk'[n] = walk[n - M + 1]
      BY <1>5, <3>1
    <3>3. QED
      BY <3>1, <3>2
  <2>3. QED
    BY <1>4, <2>1, <2>2
<1>7. ASSUME NEW c \in Content(h)
      PROVE  /\ c \in DOMAIN fs /\ c \in Path /\ c # <<>> /\ Front(c) = h /\ Len(c) = Len(h) + 1
             /\ IsPrefix(h, c) /\ IsPrefix(E, c)
  <2>1. c \in DOMAIN fs /\ c \in Path /\ Front(c) = h /\ Len(c) = Len(h) + 1
    BY <1>1 DEF Content, Tree
  <2>2. c # <<>>
    BY <1>2, <2>1 DEF Path
  <2>3. IsPrefix(h, h)
    BY <1>2, PrefixOrder
  <2>4. IsPrefix(h, c)
    BY <1>2, <2>1, <2>2, <2>3, PrefixFront
  <2>5. IsPrefix(E, c)
    BY <1>2, <1>3, <2>1, <2>4, PrefixOrder
  <2>6. QED
    BY <2>1, <2>2, <2>4, <2>5
<1>8. \A n \in 1..Len(walk') : walk'[n] \in DOMAIN fs /\ IsPrefix(E, walk'[n])
  <2>1. \A k \in 2..L : k \in 1..L
    BY <1>1
  <2>2. QED
    BY <1>1, <1>6, <1>7, <2>1
<1>9. ASSUME NEW c \in Content(h), NEW k \in 2..L
      PROVE  ~IsPrefix(c, walk[k]) /\ ~IsPrefix(walk[k], c) /\ ~IsPrefix(walk[k], h)
  <2>1. k \in 1..L /\ k # 1 /\ walk[k] \in Path
    BY <1>1
  <2>2. ~IsPrefix(h, walk[k]) /\ ~IsPrefix(walk[k], h)
    BY <1>1, <1>2, <2>1
  <2>3. ~IsPrefix(c, walk[k])
    BY <1>2, <1>7, <2>1, <2>2, PrefixOrder
  <2>4. ~IsPrefix(walk[k], c)
    <3>1. walk[k] # c
      BY <1>7, <2>2
    <3>2. QED
      BY <1>7, <2>1, <2>2, <3>1, PrefixFront
  <2>5. QED
    BY <2>2, <2>3, <2>4
<1>10. ASSUME NEW n \in 1..Len(walk'), NEW k \in 1..Len(walk'), IsPrefix(walk'[n], walk'[k])
       PROVE  n = k
  <2>1. CASE n \in 1..M /\ walk'[n] \in Content(h) /\ k \in 1..M /\ walk'[k] \in Content(h)
    <3>1. walk'[n] = walk'[k]
      BY <1>7, <1>10, <2>1, PrefixOrder
    <3>2. QED
      BY <1>4, <1>5, <2>1, <3>1
  <2>2. CASE walk'[n] \in Content(h) /\ \E z \in 2..L : k = M + z - 1 /\ walk'[k] = walk[z]
    BY <1>9, <1>10, <2>2
  <2>3. CASE walk'[k] \in Content(h) /\ \E z \in 2..L : n = M + z - 1 /\ walk'[n] = walk[z]
    BY <1>9, <1>10, <2>3
  <2>4. CASE /\ \E z \in 2..L : n = M + z - 1 /\ walk'[n] = walk[z]
             /\ \E j \in 2..L : k = M + j - 1 /\ walk'[k] = walk[j]
    <3>1. PICK z \in 2..L : n = M + z - 1 /\ walk'[n] = walk[z]
      BY <2>4
    <3>2. PICK j \in 2..L : k = M + j - 1 /\ walk'[k] = walk[j]
      BY <2>4
    <3>3. z \in 1..L /\ j \in 1..L
      BY <1>1
    <3>4. z = j
      BY <1>1, <1>10, <3>1, <3>2, <3>3
    <3>5. QED
      BY <3>1, <3>2, <3>4
  <2>5. QED
    BY <1>6, <2>1, <2>2, <2>3, <2>4
<1>11. ASSUME NEW q \in DOMAIN fs, Pending(q)' PROVE Pending(q) /\ q # h
  <2>0. q \in Path
    BY <1>1 DEF Tree
  <2>1. PICK n \in 1..Len(walk') : IsPrefix(walk'[n], q)
    BY <1>11 DEF Pending
  <2>2. CASE walk'[n] \in Content(h)
    <3>1. IsPrefix(h, q)
      BY <1>2, <1>7, <2>0, <2>1, <2>2, PrefixOrder
    <3>2. q # h
      <4>1. Len(walk'[n]) = Len(h) + 1 /\ Len(h) \in Nat /\ walk'[n] \in Path
        BY <1>2, <1>7, <2>2 DEF Path
      <4>2. Len(walk'[n]) <= Len(q)
        BY <2>0, <2>1, <4>1, PrefixOrder
      <4>3. QED
        BY <4>1, <4>2
    <3>3. QED
      BY <1>1, <1>2, <3>1, <3>2 DEF Pending
  <2>3. CASE \E k \in 2..L : walk'[n] = walk[k]
    <3>1. PICK k \in 2..L : walk'[n] = walk[k]
      BY <2>3
    <3>2. k \in 1..L /\ k # 1
      BY <1>1
    <3>3. IsPrefix(walk[k], q)
      BY <2>1, <3>1
    <3>4. q # h
      BY <1>1, <1>2, <3>2, <3>3
    <3>5. QED
      BY <3>2, <3>3, <3>4 DEF Pending
  <2>4. QED
    BY <1>6, <2>2, <2>3
<1>12. ASSUME NEW q \in DOMAIN fs, Pending(q), q # h PROVE Pending(q)'
  <2>0. q \in Path
    BY <1>1 DEF Tree
  <2>1. PICK n \in 1..L : IsPrefix(walk[n], q)
    BY <1>12 DEF Pending
  <2>2. CASE n = 1
    <3>1. IsPrefix(h, q)
      BY <1>1, <2>1, <2>2
    <3>2. PICK c \in DOMAIN fs : Len(c) = Len(h) + 1 /\ Front(c) = h /\ IsPrefix(c, q)
      BY <1>1, <1>2, <1>12, <3>1, ChildBetween
    <3>3. c \in Content(h)
      BY <3>2 DEF Content
    <3>4. PICK k \in 1..M : more[k] = c
      BY <1>4, <3>3
    <3>5. k \in 1..Len(walk') /\ walk'[k] = c
      BY <1>1, <1>4, <1>5, <3>4
    <3>6. QED
      BY <3>2, <3>5 DEF Pending
  <2>3. CASE n # 1
    <3>1. n \in 2..L
      BY <1>1, <2>3
    <3>2. walk'[M + n - 1] = walk[n] /\ M + n - 1 \in 1..Len(walk')
      BY <1>1, <1>4, <1>5, <3>1
    <3>3. QED
      BY <2>1, <3>2 DEF Pending
  <2>4. QED
    BY <2>2, <2>3
<1>13. QED
  BY <1>5, <1>8, <1>10, <1>11, <1>12 DEF h, E

(* A visit that goes well is one more thing that the line has done.        *)
LEMMA VisitDone ==
  ASSUME MDInv, bb_recursive, ret' = "SUCCESS", ret = "SUCCESS",
         NEW h, h = Head(walk), NEW m, m = linenum
  PROVE  Applied'
<1> DEFINE E == Entry(fs, l.name)
<1>1. /\ h \in DOMAIN fs /\ h \in Path /\ IsPrefix(E, h)
      /\ m \in DOMAIN table /\ l.type = "r" /\ Applies(m) /\ walk # <<>>
      /\ UNCHANGED <<tree0, table, full_name, owner, status>>
      /\ Grown(fs, fs') /\ DOMAIN fs' = DOMAIN fs
      /\ \A q \in DOMAIN fs \ {h} : fs'[q] = fs[q]
      /\ fs'[h].owner = owner
  BY Visit
<1>2. /\ \E more \in SetToSeqs(Content(h)) : walk' = more \o Tail(walk)
      /\ linenum' = IF walk' = <<>> THEN m + 1 ELSE m
      /\ IF l.mode = "keep" THEN fs'[h].mode = fs[h].mode
         ELSE fs[h].kind # "link" => fs'[h].mode = l.mode
  BY Visit
<1>3. /\ TypeOK /\ WalkOK /\ OwnersRight /\ ModesRight /\ AllMadeOnly /\ NodesRight
      /\ m \in Nat /\ DOMAIN table = 1..Len(table) /\ Len(table) \in Nat /\ l = table[m]
  BY Lines DEF MDInv, Applied, TypeOK, l
<1>4. l.owner = "unset" \/ owner = l.owner
  BY <1>1 DEF MDInv, WalkOK
<1> HIDE DEF E
<1>5. \A q \in DOMAIN fs : Pending(q)' <=> Pending(q) /\ q # h
  BY <1>1, <1>2, WalkOn DEF MDInv
<1>6. Pending(h)
  <2>1. walk \in Seq(Path) /\ walk # <<>>
    BY <1>1, <1>3 DEF WalkOK
  <2>2. 1 \in 1..Len(walk) /\ walk[1] = h
    BY <2>1
  <2>3. IsPrefix(h, h)
    BY <1>1, PrefixOrder
  <2>4. QED
    BY <2>2, <2>3 DEF Pending
<1>7. \A k \in DOMAIN table, q \in DOMAIN fs :
        (IsFor(k, q)' <=> IsFor(k, q)) /\ (SetsMode(k, q)' <=> SetsMode(k, q))
  BY <1>1, <1>3, StableFor
<1>8. ASSUME NEW q \in DOMAIN fs, IsFor(m, q) PROVE IsPrefix(E, q)
  BY <1>1, <1>3, <1>8 DEF IsFor, Names, MakesNode, WalksOver, E
<1>9. IsFor(m, h)
  <2>1. CASE h \in DOMAIN tree0
    BY <1>1, <1>3, <2>1 DEF IsFor, WalksOver, E
  <2>2. CASE h \notin DOMAIN tree0
    <3>1. PICK k \in DOMAIN table : k < m /\ Makes(k, h)
      BY <1>1, <1>3, <2>2 DEF AllMadeOnly
    <3>2. k \in 1..(m - 1)
      BY <1>3, <3>1
    <3>3. QED
      BY <1>1, <1>3, <3>1, <3>2 DEF IsFor, WalksOver, E
  <2>3. QED
    BY <2>1, <2>2
<1>10. ASSUME NEW k \in DOMAIN table, NEW q \in DOMAIN fs
       PROVE  /\ Done(k, q) => k <= m
              /\ Done(k, q)' => k <= m
              /\ IsFor(k, q) => (Done(k, q)' <=> Done(k, q) \/ (k = m /\ q = h))
  <2>1. Done(k, q) <=> k < m \/ (k = m /\ IsPrefix(E, q) /\ ~Pending(q))
    BY <1>1 DEF Done, E
  <2>2. k \in Nat /\ (Pending(q)' <=> Pending(q) /\ q # h)
    BY <1>3, <1>5
  <2>3. CASE walk' = <<>>
    <3>1. linenum' = m + 1 /\ ~Pending(q)'
      <4>1. Len(walk') = 0
        BY <2>3
      <4>2. \A n \in 1..Len(walk') : FALSE
        BY <4>1
      <4>3. ~Pending(q)'
        BY <4>2 DEF Pending
      <4>4. QED
        BY <1>2, <2>3, <4>3
    <3>2. Done(k, q)' <=> k <= m
      BY <1>3, <2>2, <2>3, <3>1 DEF Done
    <3>3. Pending(q) => q = h
      BY <2>2, <3>1
    <3>4. IsFor(m, q) => IsPrefix(E, q)
      BY <1>8
    <3>5. CASE k = m
      BY <2>1, <3>2, <3>3, <3>4, <3>5, <1>3
    <3>6. CASE k # m
      BY <1>3, <2>1, <2>2, <3>2, <3>6
    <3>7. QED
      BY <3>5, <3>6
  <2>4. CASE walk' # <<>>
    <3>1. linenum' = m
      BY <1>2, <2>4
    <3>2. Entry(fs', l'.name) = E
      <4>1. l' = l
        BY <1>1, <3>1 DEF l
      <4>2. Entry(fs', table[m].name) = Entry(fs, table[m].name)
        BY <1>1, <1>3, Stable
      <4>3. QED
        BY <1>3, <4>1, <4>2 DEF E
    <3>3. Done(k, q)' <=> k < m \/ (k = m /\ IsPrefix(E, q) /\ ~Pending(q)')
      BY <2>4, <3>1, <3>2 DEF Done
    <3>4. q = h => IsPrefix(E, q) /\ Pending(q)
      BY <1>1, <1>6
    <3>5. QED
      BY <1>3, <2>1, <2>2, <3>3, <3>4
  <2>5. QED
    BY <2>3, <2>4
<1>11. ASSUME NEW k \in DOMAIN table, NEW q \in DOMAIN fs, q # h
       PROVE  /\ LastDone(k, q)' <=> LastDone(k, q)
              /\ LastModeDone(k, q)' <=> LastModeDone(k, q)
  <2>1. \A j \in DOMAIN table : IsFor(j, q) => (Done(j, q)' <=> Done(j, q))
    BY <1>10, <1>11
  <2>2. LastDone(k, q)' <=> LastDone(k, q)
    BY <1>1, <1>7, <2>1 DEF LastDone
  <2>3. \A j \in DOMAIN table : SetsMode(j, q) => IsFor(j, q)
    BY DEF SetsMode
  <2>4. LastModeDone(k, q)' <=> LastModeDone(k, q)
    BY <1>1, <1>7, <2>1, <2>3 DEF LastModeDone
  <2>5. QED
    BY <2>2, <2>4
<1>12. OwnersRight'
  <2>1. ASSUME NEW q \in DOMAIN fs, NEW k \in DOMAIN table, LastDone(k, q)', table[k].owner # "unset"
        PROVE  fs'[q].owner = table[k].owner
    <3>1. CASE q # h
      <4>1. fs[q].owner = table[k].owner
        BY <1>3, <1>11, <2>1, <3>1 DEF OwnersRight
      <4>2. QED
        BY <1>1, <3>1, <4>1
    <3>2. CASE q = h
      <4>1. Done(k, h)' /\ \A j \in DOMAIN table : IsFor(j, h)' /\ Done(j, h)' => j <= k
        BY <1>1, <2>1, <3>2 DEF LastDone
      <4>2. IsFor(m, h)' /\ Done(m, h)'
        BY <1>1, <1>7, <1>9, <1>10
      <4>3. m <= k /\ k <= m
        BY <1>1, <1>10, <4>1, <4>2
      <4>4. k = m
        BY <1>3, <4>3
      <4>5. QED
        BY <1>1, <1>3, <1>4, <2>1, <3>2, <4>4
    <3>3. QED
      BY <3>1, <3>2
  <2>2. QED
    BY <1>1, <2>1 DEF OwnersRight
<1>13. ModesRight'
  <2>1. ASSUME NEW q \in DOMAIN fs, NEW k \in DOMAIN table, LastModeDone(k, q)', fs'[q].kind # "link"
        PROVE  fs'[q].mode = table[k].mode
    <3>0. fs[q].kind = fs'[q].kind
      BY <1>1 DEF Grown
    <3>1. CASE q # h
      <4>1. fs[q].mode = table[k].mode
        BY <1>3, <1>11, <2>1, <3>0, <3>1 DEF ModesRight
      <4>2. QED
        BY <1>1, <3>1, <4>1
    <3>2. CASE q = h
      <4>1. /\ SetsMode(k, h) /\ Done(k, h)'
            /\ \A j \in DOMAIN table : SetsMode(j, h) /\ Done(j, h)' => j <= k
        BY <1>1, <1>7, <2>1, <3>2 DEF LastModeDone
      <4>2. Done(m, h)'
        BY <1>1, <1>9, <1>10
      <4>3. CASE l.mode # "keep"
        <5>1. SetsMode(m, h)
          BY <1>3, <1>9, <4>3 DEF SetsMode
        <5>2. m <= k /\ k <= m
          BY <1>1, <1>10, <4>1, <4>2, <5>1
        <5>3. k = m
          BY <1>3, <5>2
        <5>4. QED
          BY <1>2, <1>3, <2>1, <3>0, <3>2, <4>3, <5>3
      <4>4. CASE l.mode = "keep"
        <5>1. ~SetsMode(m, h)
          BY <1>3, <4>4 DEF SetsMode
        <5>2. \A j \in DOMAIN table : SetsMode(j, h) => (Done(j, h)' <=> Done(j, h))
          BY <1>1, <1>10, <5>1 DEF SetsMode
        <5>3. LastModeDone(k, h)
          BY <4>1, <5>2 DEF LastModeDone
        <5>4. fs[h].mode = table[k].mode
          BY <1>1, <1>3, <2>1, <3>0, <3>2, <5>3 DEF ModesRight
        <5>5. QED
          BY <1>2, <3>2, <4>4, <5>4
      <4>5. QED
        BY <4>3, <4>4
    <3>3. QED
      BY <3>1, <3>2
  <2>2. QED
    BY <1>1, <2>1 DEF ModesRight
<1>14. \A k \in DOMAIN table : k < linenum' <=> k < m \/ (k = m /\ linenum' = m + 1)
  BY <1>2, <1>3
<1>15. AllMadeOnly'
  <2>1. \A q : ~Makes(m, q)
    BY <1>3, <1>1 DEF Makes, MakesNode
  <2>2. \A k \in DOMAIN table : \A q : Makes(k, q)' <=> Makes(k, q)
    BY <1>1, <1>3, Stable
  <2>3. QED
    BY <1>1, <1>3, <1>14, <2>1, <2>2 DEF AllMadeOnly
<1>16. NodesRight'
  <2>1. ASSUME NEW k \in DOMAIN table, k < linenum', Applies(k)', table[k].type \in NodeTypes,
               NEW n \in AskedNodes(table[k])
        PROVE  /\ IsA(fs', Kinds[table[k].type], n[1])
               /\ fs'[Entry(fs', n[1])].dev = <<table[k].major, n[2]>>
    <3>1. Applies(k) /\ k < m
      BY <1>1, <1>3, <1>14, <2>1, Stable DEF NodeTypes
    <3>2. IsA(fs, Kinds[table[k].type], n[1]) /\ fs[Entry(fs, n[1])].dev = <<table[k].major, n[2]>>
      BY <1>3, <2>1, <3>1 DEF NodesRight
    <3>3. n[1] \in Path /\ n[1] # <<>> /\ Tree(fs)
      BY <1>3, <2>1, <3>1, Lines, AskedAre
    <3>4. Entry(fs, n[1]) \in DOMAIN fs
      BY <3>2, <3>3, InDirectory DEF IsA
    <3>5. IsA(fs', Kinds[table[k].type], n[1]) /\ Entry(fs', n[1]) = Entry(fs, n[1])
      BY <1>1, <3>2, <3>3, GrownReach
    <3>6. QED
      BY <1>1, <3>2, <3>4, <3>5 DEF Grown
  <2>2. QED
    BY <1>1, <2>1 DEF NodesRight
<1>17. QED
  BY <1>12, <1>13, <1>15, <1>16 DEF Applied

LEMMA KeepsVisit ==
  ASSUME MDInv, bb_recursive
  PROVE  MDInv'
<1> DEFINE h == Head(walk)
<1>1. /\ h \in DOMAIN fs /\ linenum \in DOMAIN table /\ l.type = "r" /\ Applies(linenum)
      /\ walk # <<>> /\ status = "run"
      /\ UNCHANGED <<tree0, table, full_name, owner, status>>
      /\ Grown(fs, fs') /\ DOMAIN fs' = DOMAIN fs
      /\ \A q \in DOMAIN fs : fs'[q].caps = fs[q].caps
  BY Visit
<1>2. \/ /\ walk' = <<>> /\ linenum' = linenum + 1 /\ ret' = "FAILURE"
         /\ failed' = failed \cup {linenum}
      \/ /\ \E more \in SetToSeqs(Content(h)) : walk' = more \o Tail(walk)
         /\ linenum' = IF walk' = <<>> THEN linenum + 1 ELSE linenum
         /\ UNCHANGED <<ret, failed>>
  BY Visit
<1>3. TypeOK /\ WalkOK /\ linenum \in Nat /\ table[linenum].type = "r" /\ full_name \in Seq(STRING)
  BY <1>1 DEF MDInv, TypeOK, l
<1>4. CapsRight'
  <2>1. \/ UNCHANGED linenum
        \/ linenum' = linenum + 1 /\ linenum \in DOMAIN table /\ table[linenum].type # "xattr"
    BY <1>1, <1>2, <1>3
  <2>2. QED
    BY <1>1, <1>3, <2>1, CapsStay DEF MDInv
<1>5. NameRight'
  <2>1. linenum' = IF walk' = <<>> THEN linenum + 1 ELSE linenum
    BY <1>2
  <2>2. full_name' = l.name
    BY <1>1, <1>3 DEF WalkOK
  <2>3. QED
    BY <1>1, <1>3, <2>1, <2>2, NameTaken
<1>6. CASE walk' = <<>>
  <2>1. linenum' = linenum + 1 /\ ret' \in {"SUCCESS", "FAILURE"} /\ ret \in {"SUCCESS", "FAILURE"}
        /\ \/ UNCHANGED <<ret, failed>>
           \/ ret' = "FAILURE" /\ failed' = failed \cup {linenum}
    <3>1. ret \in {"SUCCESS", "FAILURE"}
      BY <1>3 DEF TypeOK
    <3>2. CASE ret' = "FAILURE" /\ linenum' = linenum + 1 /\ failed' = failed \cup {linenum}
      BY <3>1, <3>2
    <3>3. CASE linenum' = (IF walk' = <<>> THEN linenum + 1 ELSE linenum) /\ UNCHANGED <<ret, failed>>
      <4>1. linenum' = linenum + 1
        BY <1>6, <3>3
      <4>2. ret' \in {"SUCCESS", "FAILURE"}
        BY <3>1, <3>3
      <4>3. QED
        BY <3>1, <3>3, <4>1, <4>2
    <3>4. QED
      BY <1>2, <3>2, <3>3
  <2>2. TypeOK' /\ WalkOK'
    BY <1>1, <1>3, <1>6, <2>1, LineEnds
  <2>3. Applied'
    <3>1. CASE ret = "SUCCESS" /\ ret' = "SUCCESS"
      BY <3>1, VisitDone
    <3>2. CASE ret' # "SUCCESS"
      BY <3>2 DEF Applied
    <3>3. QED
      BY <2>1, <3>1, <3>2
  <2>4. QED
    BY <1>4, <1>5, <2>2, <2>3 DEF MDInv
<1>7. CASE walk' # <<>>
  <2>1. /\ \E more \in SetToSeqs(Content(h)) : walk' = more \o Tail(walk)
        /\ linenum' = linenum /\ UNCHANGED <<ret, failed>>
    BY <1>2, <1>7
  <2>2. TypeOK'
    <3>1. Grown(tree0, fs')
      BY <1>1, <1>3, GrownTransitive DEF TypeOK
    <3>2. QED
      BY <1>1, <1>3, <2>1, <3>1 DEF TypeOK
  <2>3. /\ walk' \in Seq(Path)
        /\ \A n \in 1..Len(walk') : walk'[n] \in DOMAIN fs /\ IsPrefix(Entry(fs, l.name), walk'[n])
        /\ \A n, k \in 1..Len(walk') : IsPrefix(walk'[n], walk'[k]) => n = k
    BY <1>1, <2>1, WalkOn
  <2>4. l' = l /\ Entry(fs', l.name) = Entry(fs, l.name)
    <3>1. l' = l
      BY <1>1, <2>1 DEF l
    <3>2. Entry(fs', table[linenum].name) = Entry(fs, table[linenum].name)
      BY <1>1, <1>3, Stable
    <3>3. QED
      BY <3>1, <3>2 DEF l
  <2>5. WalkOK'
    <3>1. /\ linenum \in 1..Len(table) /\ l.type = "r" /\ Valid(l) /\ full_name = l.name
          /\ l.owner = "unset" \/ owner = l.owner
          /\ owner \in Users
      BY <1>1, <1>3 DEF WalkOK
    <3>2. Valid(l)'
      BY <2>4, <3>1 DEF Valid
    <3>3. QED
      BY <1>1, <2>1, <2>3, <2>4, <3>1, <3>2 DEF WalkOK
  <2>6. Applied'
    <3>1. CASE ret = "SUCCESS"
      BY <2>1, <3>1, VisitDone
    <3>2. CASE ret # "SUCCESS"
      BY <2>1, <3>2 DEF Applied
    <3>3. QED
      BY <3>1, <3>2
  <2>7. QED
    BY <1>4, <1>5, <2>2, <2>5, <2>6 DEF MDInv
<1>8. QED
  BY <1>6, <1>7

----------------------------------------------------------------------------
(* The theorems                                                             *)

LEMMA GivenTrees ==
  ASSUME NEW f \in Trees
  PROVE  Tree(f)
<1>1. /\ f \in [DOMAIN f -> Nodes] /\ DOMAIN f \subseteq Seq(STRING) /\ IsFiniteSet(DOMAIN f)
      /\ HasParents(f)
  BY TreesAssumption
<1>2. Nodes \subseteq AnyNode
  BY DEF Nodes, AnyNode, Mode
<1>3. \A q \in DOMAIN f : f[q] \in AnyNode
  BY <1>1, <1>2
<1>4. QED
  BY <1>1, <1>3, GivenPaths DEF Tree

LEMMA InitKeeps ==
  ASSUME MDInit
  PROVE  MDInv
<1>1. /\ tree0 \in Trees /\ table \in Tables
      /\ fs = tree0 /\ linenum = 1 /\ full_name = <<>> /\ walk = <<>>
      /\ ret = "SUCCESS" /\ failed = {} /\ status = "run"
  BY DEF MDInit, NoFile
<1>2. Tree(tree0) /\ Grown(tree0, fs)
  BY <1>1, GivenTrees, GrownReflexive
<1>3. table \in Seq(Line)
  BY <1>1, TablesAssumption
<1>4. Len(table) \in Nat /\ <<>> \in Seq(STRING) /\ <<>> \in Seq(Path) /\ \A n \in 1..Len(<<>>) : FALSE
  BY <1>3
<1>5. TypeOK
  BY <1>1, <1>2, <1>4 DEF TypeOK
<1>6. WalkOK
  BY <1>1, <1>4 DEF WalkOK
<1>7. \A k \in DOMAIN table : ~(k < linenum) /\ \A q : ~Done(k, q)
  <2>1. \A k \in DOMAIN table : k \in 1..Len(table)
    BY <1>3
  <2>2. QED
    BY <1>1, <1>4, <2>1 DEF Done
<1>8. Applied
  BY <1>1, <1>7 DEF Applied, OwnersRight, ModesRight, LastDone, LastModeDone, AllMadeOnly, NodesRight
<1>9. NameRight
  BY <1>1, <1>7 DEF NameRight, Upcoming
<1>10. CapsRight
  <2>1. \A q : CapLines(q, linenum) = {}
    BY <1>7 DEF CapLines
  <2>2. \A q : {table[j].cap : j \in CapLines(q, linenum)} = {}
    BY <2>1
  <2>3. QED
    BY <1>1, <2>1, <2>2 DEF CapsRight
<1>11. QED
  BY <1>5, <1>6, <1>8, <1>9, <1>10 DEF MDInv

LEMMA NextKeeps ==
  ASSUME MDInv, [MDNext]_mdvars
  PROVE  MDInv'
<1>1. CASE Xattr
  BY <1>1, KeepsXattr
<1>2. CASE Invalid
  BY <1>2, KeepsInvalid
<1>3. CASE UnknownOwner
  BY <1>3, KeepsDie DEF UnknownOwner
<1>4. CASE bb_recursive
  BY <1>4, KeepsVisit
<1>5. CASE EndOfTable
  BY <1>5, KeepsEnd
<1>6. ASSUME NEW who \in Users,
             Directory(who) \/ RegularFile(who) \/ Recursive(who) \/ MakeNodes(who) \/ Unsupported(who)
      PROVE  MDInv'
  BY <1>6, KeepsDirectory, KeepsRegularFile, KeepsRecursive, KeepsMakeNodes, KeepsUnsupported
<1>7. CASE UNCHANGED mdvars
  <2>1. UNCHANGED <<tree0, table, fs, linenum, full_name, walk, owner, ret, failed, status>>
    BY <1>7 DEF mdvars
  <2>2. TypeOK' /\ WalkOK'
    BY <2>1 DEF MDInv, TypeOK, WalkOK, l, Valid
  <2>3. Applied'
    BY <2>1, AppliedStays DEF MDInv, Done, Pending, l
  <2>4. NameRight' /\ CapsRight'
    BY <2>1 DEF MDInv, NameRight, CapsRight, CapLines, Follows, Upcoming, Applies, Valid
  <2>5. QED
    BY <2>2, <2>3, <2>4 DEF MDInv
<1>8. QED
  BY <1>1, <1>2, <1>3, <1>4, <1>5, <1>6, <1>7 DEF MDNext

(* A recursive line leaves alone what is not below its directory.          *)
LEMMA StaysWithin ==
  ASSUME MDInv, [MDNext]_mdvars, walk # <<>>, NEW q \in DOMAIN fs, ~IsPrefix(Entry(fs, l.name), q)
  PROVE  fs'[q] = fs[q]
<1>1. CASE bb_recursive
  <2>1. q # Head(walk)
    BY <1>1, Visit
  <2>2. QED
    BY <1>1, <2>1, Visit
<1>2. CASE Xattr \/ Invalid \/ UnknownOwner \/ EndOfTable
  BY <1>2 DEF Xattr, Invalid, UnknownOwner, EndOfTable, At
<1>3. CASE \E who \in Users : \/ Directory(who) \/ RegularFile(who) \/ Recursive(who)
                              \/ MakeNodes(who) \/ Unsupported(who)
  BY <1>3 DEF Directory, RegularFile, Recursive, MakeNodes, Unsupported, For, At
<1>4. CASE UNCHANGED mdvars
  BY <1>4 DEF mdvars
<1>5. QED
  BY <1>1, <1>2, <1>3, <1>4 DEF MDNext

(* What the invariant says when makedevs has succeeded.                    *)
LEMMA AtTheEnd ==
  ASSUME MDInv
  PROVE  MDTypeOK /\ LastLineWins /\ NodesAsUsage /\ CapsAddUp
<1>1. /\ TypeOK /\ WalkOK /\ DOMAIN table = 1..Len(table) /\ Len(table) \in Nat /\ Tree(fs)
  BY Lines DEF MDInv
<1>2. MDTypeOK
  <2>1. \A q \in DOMAIN fs : fs[q].kind \in {"dir", "file", "link", "char", "block", "fifo"}
                             /\ fs[q].owner \in Users
    BY <1>1 DEF Tree, AnyNode
  <2>2. HasParents(fs) /\ DOMAIN tree0 \subseteq DOMAIN fs
    BY <1>1 DEF TypeOK, Grown, Tree
  <2>3. failed \subseteq DOMAIN table /\ (ret = "FAILURE" <=> failed # {})
    BY <1>1 DEF TypeOK
  <2>4. walk # <<>> => linenum \in DOMAIN table
    BY <1>1 DEF WalkOK
  <2>5. QED
    BY <2>1, <2>2, <2>3, <2>4 DEF MDTypeOK
<1>3. ASSUME Success
      PROVE  /\ OwnersRight /\ ModesRight /\ AllMadeOnly /\ NodesRight
             /\ linenum = Len(table) + 1 /\ walk = <<>>
             /\ \A k \in DOMAIN table : k < linenum /\ \A q : Done(k, q)
  <2>1. linenum = Len(table) + 1 /\ walk = <<>> /\ ret = "SUCCESS"
    BY <1>1, <1>3 DEF Success, TypeOK
  <2>2. OwnersRight /\ ModesRight /\ AllMadeOnly /\ NodesRight
    BY <2>1 DEF MDInv, Applied
  <2>3. \A k \in DOMAIN table : k < linenum
    BY <1>1, <2>1
  <2>4. QED
    BY <2>1, <2>2, <2>3 DEF Done
<1>4. LastLineWins
  BY <1>3 DEF LastLineWins, OwnersRight, ModesRight, LastDone, LastModeDone, LastFor, LastModeFor, SetsMode
<1>5. NodesAsUsage
  BY <1>3 DEF NodesAsUsage, AllMadeOnly, NodesRight, NodeTypes
<1>6. CapsAddUp
  <2>1. ASSUME Success, NEW q \in DOMAIN fs
        PROVE  fs[q].caps = (IF q \in DOMAIN tree0 THEN tree0[q].caps ELSE {}) \cup
                 {table[j].cap : j \in {n \in DOMAIN table :
                    table[n].type = "xattr"
                    /\ \E k \in DOMAIN table : Follows(k, n) /\ Reach(fs, table[k].name) = q}}
    <3>1. CapLines(q, linenum) = {n \in DOMAIN table :
             table[n].type = "xattr"
             /\ \E k \in DOMAIN table : Follows(k, n) /\ Reach(fs, table[k].name) = q}
      BY <1>3, <2>1 DEF CapLines
    <3>2. fs[q].caps = (IF q \in DOMAIN tree0 THEN tree0[q].caps ELSE {})
                       \cup {table[j].cap : j \in CapLines(q, linenum)}
      BY <2>1 DEF MDInv, CapsRight
    <3>3. QED
      BY <3>1, <3>2
  <2>2. QED
    BY <2>1 DEF CapsAddUp
<1>7. QED
  BY <1>2, <1>4, <1>5, <1>6

(* The invariant: the tree is a tree that has grown from what it was, what *)
(* the lines so far have said of owners, modes, nodes and capabilities is  *)
(* so, and what a recursive line has still to visit is in its directory.   *)
THEOREM TableInvariance == MDSpec => []MDInv
<1>1. MDInit => MDInv
  BY InitKeeps
<1>2. MDInv /\ [MDNext]_mdvars => MDInv'
  BY NextKeeps
<1>3. QED
  BY <1>1, <1>2, PTL DEF MDSpec

(* For all trees and tables: when makedevs says that all went well, each   *)
(* file has the owner and the mode of the last line for it, the nodes are  *)
(* those that the usage text promises, capabilities have added up, and no  *)
(* recursive line has changed anything outside of its directory.           *)
THEOREM TableIsApplied == MDSpec => TableApplied
<1>1. MDInv => MDTypeOK /\ LastLineWins /\ NodesAsUsage /\ CapsAddUp
  BY AtTheEnd
<1>2. MDInv /\ [MDNext]_mdvars =>
        [walk # <<>> => \A q \in DOMAIN fs : ~IsPrefix(Entry(fs, l.name), q) => fs'[q] = fs[q]]_mdvars
  BY StaysWithin
<1>3. QED
  BY <1>1, <1>2, TableInvariance, PTL DEF MDSpec, TableApplied, WithinTree
=============================================================================
