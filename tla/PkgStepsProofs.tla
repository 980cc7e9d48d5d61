--------------------------- MODULE PkgStepsProofs ---------------------------
(***************************************************************************)
(* Proofs about PkgSteps, for any packages, number of patches, of edits    *)
(* and of stops.                                                           *)
(*                                                                         *)
(* make only knows which stamps exist and which of two is newer.  The      *)
(* invariant says what such a piece of knowledge is worth: what the trees  *)
(* hold when a stamp exists and is not older than those it depends on.     *)
(* Each part asks no more of the stamps than make itself looks at before   *)
(* it skips the step, and it survives the loss of any of them.             *)
(***************************************************************************)
EXTENDS PkgSteps, SequenceTheorems, TLAPS

\* The stamp of s exists and is not older than those it depends on.
Fresh(s) == ~Remake(s)

-----------------------------------------------------------------------------
(* Where make is                                                           *)

\* The edits give sources increasing versions, and times that go with them.
Dated(x, limit) == x.v <= limit /\ x.v # 2 /\ x.t = IF x.v = 1 THEN 2 ELSE x.v
Clock == Dated(src, now) /\ Dated(tree, now) /\ src.v # 0

\* The steps before the one that make considers are up to date.
Walked ==
  /\ pc \in {"walk", "recipe", "applying"} => \A i \in 1..(pos - 1) : Fresh(Chain[i])
  /\ pc \in {"recipe", "applying"} => pos \in Place /\ Remake(Chain[pos])
  /\ pc = "clean" => pos = 1

\* A patch is applied in the patch step only, and its name is on the list.
Patching == pc = "applying" => At("patched") /\ patch <= NPatches /\ listed = patch

\* TypeOK, with each variable by itself.
Typed ==
  /\ build \in Builds
  /\ stamps \subseteq Step /\ newer \subseteq stamps \X stamps
  /\ src \in [v : Version, t : Version]
  /\ tree \in Tree /\ built \in Tree /\ staging \in Tree /\ target \in Tree
  /\ listed \in 0..NPatches
  /\ before \in BOOLEAN /\ fresh \in BOOLEAN /\ list \in BOOLEAN
  /\ broken \in BOOLEAN
  /\ pc \in {"none", "clean", "walk", "recipe", "applying", "dirclean"}
  /\ todo \in Seq(Step)
  /\ pos \in 1..(Len(Chain) + 1) /\ last \in Place
  /\ patch \in 1..(NPatches + 1)
  /\ wanted \in Version /\ asked \in Version
  /\ now \in 2..(MaxEdits + 2)
  /\ stops \in 0..MaxStops

Where == Typed /\ Clock /\ Walked /\ Patching

-----------------------------------------------------------------------------
(* What the stamps are worth                                               *)

\* What make takes from the stamps.
Unpacked == "downloaded" \in stamps /\ Fresh("extracted")
PatchedUp == "extracted" \in stamps /\ Fresh("patched")
Compiled == "configured" \in stamps /\ Fresh("built")
InStaging == "built" \in stamps /\ Fresh("staging_installed")
InTarget ==
  /\ {"built", "target_installed"} \subseteq stamps
  /\ <<"built", "target_installed">> \notin newer
AllInTarget == "built" \in stamps /\ "staging_installed" \in stamps /\ Fresh("target_installed")

\* Sources from an archive: patched they have all patches.  Unless a dirclean
\* was interrupted they are whole, or a patch is on the list that stops the
\* patch step from ever being done.
TreePatched ==
  /\ PatchedUp => tree.patches = NPatches
  /\ ~broken /\ Unpacked => tree.whole \/ listed # 0
  /\ ~broken /\ Unpacked /\ PatchedUp => tree.whole
  /\ pc \in {"recipe", "applying"} /\ At("patched") =>
       /\ patch # 1 => tree.patches = patch - 1
       /\ broken \/ tree.whole \/ (pc = "recipe" /\ patch = 1 /\ listed # 0)

\* Sources of the user.
TreeSynced == ~broken /\ "rsynced" \in stamps => tree.whole

\* What is compiled.
BuiltRight ==
  /\ "built" \in stamps => built.patches = NPatches
  /\ ~broken /\ Compiled => built.whole

\* What is installed is what was last compiled, unless that is newer.
InstalledRight ==
  /\ InStaging => Same(staging, built) /\ (broken \/ staging.whole)
  /\ InTarget => Same(target, built)
  /\ AllInTarget => broken \/ target.whole

\* What a -rebuild asked for is in the sources, or the step that brings it
\* there has to run; and in what was compiled, or that has to be done again.
WantedComes ==
  /\ wanted <= Sources
  /\ ~Override \/ "rsynced" \in stamps => wanted <= tree.v
  /\ "built" \in stamps => wanted <= built.v
  /\ pc = "recipe" /\ At("extracted") => wanted = 0
  /\ pc = "clean" =>
       /\ asked <= Sources
       /\ Override /\ "rsynced" \in stamps => todo # <<>> /\ Head(todo) = "rsynced"
       /\ asked \in {0, wanted} \/ \E i \in DOMAIN todo : todo[i] = "built"

Worth ==
  TreePatched /\ TreeSynced /\ BuiltRight /\ InstalledRight /\ WantedComes

IInv == Where /\ Worth
-----------------------------------------------------------------------------
(* The steps of a package                                                  *)

ArchiveChain == <<"downloaded", "extracted", "patched", "configured", "built",
                  "staging_installed", "target_installed", "installed">>
OverrideChain == <<"rsynced", "configured", "built", "staging_installed",
                   "target_installed", "installed">>

LEMMA ChainIs == Chain = IF Override THEN OverrideChain ELSE ArchiveChain
<1> DEFINE S == {OverrideChain[i] : i \in 1..6} \cup {ArchiveChain[i] : i \in 1..8}
           common == <<"configured", "built", "staging_installed",
                       "target_installed", "installed">>
<1>0. common \in Seq(S) /\ Len(common) = 5
  BY DEF OverrideChain
<1>1. CASE Override
  <2>1. <<"rsynced">> \in Seq(S) /\ Len(<<"rsynced">>) = 1
    BY DEF OverrideChain
  <2>2. OverrideChain \in Seq(S) /\ Len(OverrideChain) = 6
    BY DEF OverrideChain
  <2>3. /\ <<"rsynced">> \o common \in Seq(S) /\ Len(<<"rsynced">> \o common) = 6
        /\ \A i \in 1..6 : (<<"rsynced">> \o common)[i] =
             IF i <= 1 THEN <<"rsynced">>[i] ELSE common[i - 1]
    BY <1>0, <2>1, ConcatProperties
  <2>4. \A i \in 1..6 : (<<"rsynced">> \o common)[i] = OverrideChain[i]
    BY <2>3 DEF OverrideChain
  <2>5. <<"rsynced">> \o common = OverrideChain
    BY <2>2, <2>3, <2>4, SeqEqual
  <2>6. QED
    BY <1>1, <2>5, Zenon DEF Chain
<1>2. CASE ~Override
  <2> DEFINE first == <<"downloaded", "extracted", "patched">>
  <2>1. first \in Seq(S) /\ Len(first) = 3
    BY DEF ArchiveChain
  <2>2. ArchiveChain \in Seq(S) /\ Len(ArchiveChain) = 8
    BY DEF ArchiveChain
  <2>3. /\ first \o common \in Seq(S) /\ Len(first \o common) = 8
        /\ \A i \in 1..8 : (first \o common)[i] =
             IF i <= 3 THEN first[i] ELSE common[i - 3]
    BY <1>0, <2>1, ConcatProperties
  <2>4. \A i \in 1..8 : (first \o common)[i] = ArchiveChain[i]
    BY <2>3 DEF ArchiveChain
  <2>5. first \o common = ArchiveChain
    BY <2>2, <2>3, <2>4, SeqEqual
  <2>6. QED
    BY <1>2, <2>5, Zenon DEF Chain
<1>3. QED
  BY <1>1, <1>2

LEMMA ChainLength ==
  /\ Len(Chain) = IF Override THEN 6 ELSE 8
  /\ Place = IF Override THEN 1..6 ELSE 1..8
BY ChainIs DEF Place, OverrideChain, ArchiveChain

(* What each step depends on.                                              *)
LEMMA Dependencies ==
  /\ Prerequisites("downloaded") = {} /\ Prerequisites("rsynced") = {}
  /\ Prerequisites("extracted") = {"downloaded"}
  /\ Prerequisites("patched") = {"extracted"}
  /\ Prerequisites("configured") = IF Override THEN {} ELSE {"patched"}
  /\ Prerequisites("built") = {"configured"}
  /\ Prerequisites("staging_installed") = {"built"}
  /\ Prerequisites("target_installed") = {"built", "staging_installed"}
  /\ Prerequisites("installed") = {"built", "target_installed", "staging_installed"}
BY DEF Prerequisites

(* No step depends on itself or on a later one.                            *)
LEMMA ChainOrder ==
  ASSUME NEW i \in Place, NEW j \in Place, i < j
  PROVE  Chain[i] # Chain[j] /\ Chain[j] \notin Prerequisites(Chain[i])
<1>1. CASE Override
  BY <1>1, ChainIs, ChainLength, Dependencies DEF OverrideChain
<1>2. CASE ~Override
  BY <1>2, ChainIs, ChainLength, Dependencies DEF ArchiveChain
<1>3. QED
  BY <1>1, <1>2

LEMMA NoSelfDependency ==
  ASSUME NEW i \in Place
  PROVE  Chain[i] \notin Prerequisites(Chain[i])
<1>1. CASE Override
  BY <1>1, ChainIs, ChainLength, Dependencies DEF OverrideChain
<1>2. CASE ~Override
  BY <1>2, ChainIs, ChainLength, Dependencies DEF ArchiveChain
<1>3. QED
  BY <1>1, <1>2

LEMMA Steps ==
  Step = (IF Override THEN {"rsynced"} ELSE {"downloaded", "extracted", "patched"})
           \cup {"configured", "built", "staging_installed", "target_installed",
                 "installed"}
<1>1. CASE Override
  <2>1. Place = {1, 2, 3, 4, 5, 6}
    BY <1>1, ChainLength
  <2>2. QED
    BY <1>1, <2>1, ChainIs DEF Step, OverrideChain
<1>2. CASE ~Override
  <2>1. Place = {1, 2, 3, 4, 5, 6, 7, 8}
    BY <1>2, ChainLength
  <2>2. QED
    BY <1>2, <2>1, ChainIs DEF Step, ArchiveChain
<1>3. QED
  BY <1>1, <1>2
(* The bounds, and what a package is.                                      *)
LEMMA BuildTyped ==
  ASSUME build \in Builds
  PROVE  /\ Override \in BOOLEAN /\ ArchOK \in BOOLEAN
         /\ NPatches \in Nat /\ MaxEdits \in Nat /\ MaxStops \in Nat
         /\ Override => NPatches = 0
BY BuildsAssumption DEF Build, Override, ArchOK, NPatches, MaxEdits, MaxStops

LEMMA SameBuild ==
  ASSUME build' = build
  PROVE  /\ Override' = Override /\ NPatches' = NPatches /\ MaxEdits' = MaxEdits
         /\ MaxStops' = MaxStops /\ ArchOK' = ArchOK /\ Events' = Events
         /\ Chain' = Chain /\ Place' = Place /\ Step' = Step
         /\ Version' = Version /\ Tree' = Tree
BY DEF Override, NPatches, MaxEdits, MaxStops, ArchOK, Events, Chain, Place, Step,
   Version, Tree

LEMMA SameDependencies ==
  ASSUME build' = build
  PROVE  \A s : Prerequisites(s)' = Prerequisites(s)
BY SameBuild DEF Prerequisites

-----------------------------------------------------------------------------
(* What happens to the stamps                                              *)

(* A step that is up to date stays so when other stamps are touched, but   *)
(* for the steps that depend on them; and a step that was just done is.    *)
LEMMA FreshAfterTouch ==
  ASSUME build' = build, newer \subseteq stamps \X stamps,
         NEW s, s \notin Prerequisites(s), Touch(s)
  PROVE  /\ Fresh(s)'
         /\ \A d : d # s => (Fresh(d)' <=> Fresh(d) /\ s \notin Prerequisites(d))
<1>1. \A d : Prerequisites(d)' = Prerequisites(d)
  BY SameDependencies
<1>2. /\ stamps' = stamps \cup {s}
      /\ newer' = (newer \ {<<p, s>> : p \in stamps})
                    \cup {<<s, d>> : d \in {d \in stamps : s \in Prerequisites(d)}}
  BY DEF Touch
<1>3. \A p, d : <<p, d>> \in newer' <=>
        \/ <<p, d>> \in newer /\ ~(d = s /\ p \in stamps)
        \/ p = s /\ d \in stamps /\ s \in Prerequisites(d)
  BY <1>2
<1>4. \A p : <<p, s>> \in newer => p \in stamps
  OBVIOUS
<1>5. Fresh(s)'
  BY <1>1, <1>2, <1>3, <1>4 DEF Fresh, Remake
<1>6. ASSUME NEW d, d # s
      PROVE  Fresh(d)' <=> Fresh(d) /\ s \notin Prerequisites(d)
  BY <1>1, <1>2, <1>3, <1>6 DEF Fresh, Remake
<1>7. QED
  BY <1>5, <1>6

\* Stamps are lost, or not; none is touched.
Drop == stamps' \subseteq stamps /\ newer' = newer \cap (stamps' \X stamps')

(* What then looks up to date was so, as far as what it depends on has     *)
(* stamps still.                                                           *)
LEMMA FreshAfterDrop ==
  ASSUME build' = build, Drop, NEW d, Fresh(d)'
  PROVE  /\ d \in stamps
         /\ \A p \in Prerequisites(d) : p \in stamps' => <<p, d>> \notin newer
<1>1. Prerequisites(d)' = Prerequisites(d)
  BY SameDependencies
<1>2. QED
  BY <1>1 DEF Drop, Fresh, Remake

LEMMA FreshAfterNothing ==
  ASSUME build' = build, UNCHANGED stampVars
  PROVE  \A d : Fresh(d)' <=> Fresh(d)
<1>1. \A d : Prerequisites(d)' = Prerequisites(d)
  BY SameDependencies
<1>2. QED
  BY <1>1 DEF stampVars, Fresh, Remake

(* Where make is says what is up to date.                                  *)
LEMMA DoneBefore ==
  ASSUME Typed, Walked, pc \in {"walk", "recipe", "applying"}
  PROVE  /\ At("rsynced") => Override
         /\ At("downloaded") => ~Override
         /\ At("extracted") => ~Override /\ Fresh("downloaded")
         /\ At("patched") => ~Override /\ Fresh("downloaded") /\ Fresh("extracted")
         /\ At("built") \/ At("staging_installed") \/ At("target_installed") =>
              /\ Fresh("configured")
              /\ IF Override THEN Fresh("rsynced")
                 ELSE Fresh("downloaded") /\ Fresh("extracted") /\ Fresh("patched")
         /\ At("staging_installed") => Fresh("built")
         /\ At("target_installed") => Fresh("built") /\ Fresh("staging_installed")
<1>1. \A i \in 1..(pos - 1) : Fresh(Chain[i])
  BY DEF Walked
<1>2. Override \in BOOLEAN /\ pos \in Nat
  BY BuildTyped, ChainLength DEF Typed
<1>3. CASE Override
  <2>1. /\ At("rsynced") => TRUE
        /\ ~At("downloaded") /\ ~At("extracted") /\ ~At("patched")
        /\ At("built") => pos = 3
        /\ At("staging_installed") => pos = 4
        /\ At("target_installed") => pos = 5
    BY <1>2, <1>3, ChainIs, ChainLength DEF At, OverrideChain
  <2>2. /\ Chain[1] = "rsynced" /\ Chain[2] = "configured" /\ Chain[3] = "built"
        /\ Chain[4] = "staging_installed"
    BY <1>3, ChainIs DEF OverrideChain
  <2>3. /\ pos > 1 => Fresh("rsynced")
        /\ pos > 2 => Fresh("configured")
        /\ pos > 3 => Fresh("built")
        /\ pos > 4 => Fresh("staging_installed")
    BY <1>1, <1>2, <2>2
  <2>4. QED
    BY <1>3, <2>1, <2>3
<1>4. CASE ~Override
  <2>1. /\ ~At("rsynced")
        /\ At("extracted") => pos = 2
        /\ At("patched") => pos = 3
        /\ At("built") => pos = 5
        /\ At("staging_installed") => pos = 6
        /\ At("target_installed") => pos = 7
    BY <1>2, <1>4, ChainIs, ChainLength DEF At, ArchiveChain
  <2>2. /\ Chain[1] = "downloaded" /\ Chain[2] = "extracted"
        /\ Chain[3] = "patched" /\ Chain[4] = "configured"
        /\ Chain[5] = "built" /\ Chain[6] = "staging_installed"
    BY <1>4, ChainIs DEF ArchiveChain
  <2>3. /\ pos > 1 => Fresh("downloaded")
        /\ pos > 2 => Fresh("extracted")
        /\ pos > 3 => Fresh("patched")
        /\ pos > 4 => Fresh("configured")
        /\ pos > 5 => Fresh("built")
        /\ pos > 6 => Fresh("staging_installed")
    BY <1>1, <1>2, <2>2
  <2>4. /\ At("extracted") => Fresh("downloaded")
        /\ At("patched") => Fresh("downloaded") /\ Fresh("extracted")
    BY <2>1, <2>3
  <2>5. At("built") \/ At("staging_installed") \/ At("target_installed") =>
          /\ Fresh("configured")
          /\ Fresh("downloaded") /\ Fresh("extracted") /\ Fresh("patched")
    BY <2>1, <2>3
  <2>6. /\ At("staging_installed") => Fresh("built")
        /\ At("target_installed") => Fresh("built") /\ Fresh("staging_installed")
    BY <2>1, <2>3
  <2>7. QED
    BY <1>4, <2>1, <2>4, <2>5, <2>6, Zenon
<1>5. QED
  BY <1>2, <1>3, <1>4

-----------------------------------------------------------------------------
(* Types                                                                   *)

LEMMA TypedIsTypeOK == Typed <=> TypeOK
<1>1. Typed => TypeOK
  BY DEF Typed, TypeOK
<1>2. TypeOK => Typed
  BY DEF Typed, TypeOK
<1>3. QED
  BY <1>1, <1>2

LEMMA Bounds ==
  ASSUME Typed
  PROVE  /\ NPatches \in Nat /\ MaxEdits \in Nat /\ MaxStops \in Nat
         /\ Len(Chain) \in Nat \ {0} /\ Place = 1..Len(Chain)
         /\ 0 \in Version /\ 1 \in Version /\ 2 \in Version
         /\ NoTree \in Tree /\ Pristine \in Tree
<1>1. /\ NPatches \in Nat /\ MaxEdits \in Nat /\ MaxStops \in Nat
      /\ Len(Chain) \in Nat \ {0}
  BY BuildTyped, ChainLength DEF Typed
<1>2. 0 \in Version /\ 1 \in Version /\ 2 \in Version
  BY <1>1 DEF Version
<1>3. 0 \in 0..NPatches
  BY <1>1
<1>4. NoTree \in Tree /\ Pristine \in Tree
  BY <1>2, <1>3 DEF NoTree, Pristine, Tree
<1>5. QED
  BY <1>1, <1>2, <1>4 DEF Place

(* No action changes the package.                                          *)
LEMMA NextKeepsBuild == [Next]_vars => build' = build
BY DEF Next, Progress, Recipe, EditSource, EditTree, Start, Make, MakeClean,
   Dirclean, StopDirclean, Stop, Fail, Remove, Removed, Done, Skip, RemoveAll,
   BeginDownload, FinishDownload, BeginExtract, FinishExtract, BeginRsync,
   FinishRsync, BeginPatch, ListPatch, Duplicate, ApplyPatch, FinishPatch,
   BeginConfigure, FinishConfigure, BeginBuild, FinishBuild, BeginStaging,
   FinishStaging, BeginTarget, FinishTarget, BeginInstalled, FinishInstalled,
   userVars, vars

(* What -reinstall, -rebuild and -reconfigure remove are steps.            *)
LEMMA CleansTyped ==
  ASSUME Typed
  PROVE  {CleanForReinstall, CleanForRebuild, CleanForReconfigure} \subseteq Seq(Step)
<1>1. <<"rsynced">> \in Seq(Step) \/ ~Override
  BY Steps
<1>2. <<>> \in Seq(Step)
  OBVIOUS
<1>3. <<"installed", "staging_installed", "target_installed">> \in Seq(Step)
  BY Steps
<1>4. <<"built">> \in Seq(Step) /\ <<"configured">> \in Seq(Step)
  BY Steps
<1>5. CleanForReinstall \in Seq(Step)
  BY <1>1, <1>2, <1>3, ConcatProperties DEF CleanForReinstall
<1>6. CleanForRebuild \in Seq(Step)
  BY <1>4, <1>5, ConcatProperties DEF CleanForRebuild
<1>7. CleanForReconfigure \in Seq(Step)
  BY <1>4, <1>6, ConcatProperties DEF CleanForReconfigure
<1>8. QED
  BY <1>5, <1>6, <1>7

(* What a list with something at its end begins with, and what is in it.   *)
LEMMA Appended ==
  ASSUME NEW S, NEW s \in Seq(S), NEW x \in S
  PROVE  /\ s \o <<x>> \in Seq(S)
         /\ s # <<>> => s \o <<x>> # <<>> /\ Head(s \o <<x>>) = Head(s)
         /\ \A i \in DOMAIN s : i \in DOMAIN (s \o <<x>>) /\ (s \o <<x>>)[i] = s[i]
         /\ \E i \in DOMAIN (s \o <<x>>) : (s \o <<x>>)[i] = x
<1> DEFINE t == s \o <<x>>
<1>1. <<x>> \in Seq(S) /\ Len(<<x>>) = 1 /\ <<x>>[1] = x
  OBVIOUS
<1>2. /\ t \in Seq(S) /\ Len(t) = Len(s) + 1
      /\ \A i \in 1..(Len(s) + 1) : t[i] = IF i <= Len(s) THEN s[i] ELSE <<x>>[i - Len(s)]
  BY <1>1, ConcatProperties
<1>3. /\ Len(s) \in Nat /\ DOMAIN s = 1..Len(s) /\ DOMAIN t = 1..(Len(s) + 1)
      /\ s # <<>> => Len(s) > 0
  BY <1>2, LenProperties, EmptySeq
<1>4. \A i \in DOMAIN s : i \in DOMAIN t /\ t[i] = s[i]
  BY <1>2, <1>3
<1>5. t[Len(s) + 1] = x /\ Len(s) + 1 \in DOMAIN t
  BY <1>1, <1>2, <1>3
<1>6. s # <<>> => t # <<>> /\ Head(t) = Head(s)
  <2> HAVE s # <<>>
  <2>1. t # <<>> /\ 1 \in DOMAIN s
    BY <1>2, <1>3
  <2>2. Head(t) = t[1] /\ Head(s) = s[1]
    BY <1>2, <2>1, HeadTailProperties
  <2>3. QED
    BY <1>4, <2>1, <2>2
<1>7. QED
  BY <1>2, <1>4, <1>5, <1>6

(* With sources of the user they are taken anew first; and a -rebuild and  *)
(* a -reconfigure remove the stamp of the build.                           *)
LEMMA WhatIsCleaned ==
  ASSUME Typed
  PROVE  /\ \A c \in {CleanForReinstall, CleanForRebuild, CleanForReconfigure} :
              Override => c # <<>> /\ Head(c) = "rsynced"
         /\ \A c \in {CleanForRebuild, CleanForReconfigure} :
              \E i \in DOMAIN c : c[i] = "built"
<1>1. CleanForReinstall \in Seq(Step) /\ CleanForRebuild \in Seq(Step)
  BY CleansTyped
<1>2. "built" \in Step /\ "configured" \in Step
  BY Steps
<1>3. Override => CleanForReinstall # <<>> /\ Head(CleanForReinstall) = "rsynced"
  <2> HAVE Override
  <2> DEFINE rest == <<"installed", "staging_installed", "target_installed">>
  <2>1. <<"rsynced">> \in Seq(Step) /\ rest \in Seq(Step)
    BY Steps
  <2>2. /\ CleanForReinstall = <<"rsynced">> \o rest
        /\ <<"rsynced">>[1] = "rsynced" /\ Len(<<"rsynced">>) = 1 /\ Len(rest) = 3
    BY DEF CleanForReinstall
  <2>3. CleanForReinstall[1] = "rsynced" /\ Len(CleanForReinstall) = 4
    BY <2>1, <2>2, ConcatProperties
  <2>4. CleanForReinstall # <<>>
    <3>1. Len(<<>>) = 0
      OBVIOUS
    <3>2. QED
      BY <2>3, <3>1
  <2>5. QED
    BY <1>1, <2>3, <2>4, HeadTailProperties
<1>4. /\ Override => CleanForRebuild # <<>> /\ Head(CleanForRebuild) = "rsynced"
      /\ \E i \in DOMAIN CleanForRebuild : CleanForRebuild[i] = "built"
  BY <1>1, <1>2, <1>3, Appended DEF CleanForRebuild
<1>5. /\ Override => CleanForReconfigure # <<>> /\ Head(CleanForReconfigure) = "rsynced"
      /\ \E i \in DOMAIN CleanForReconfigure : CleanForReconfigure[i] = "built"
  BY <1>1, <1>2, <1>4, Appended DEF CleanForReconfigure
<1>6. QED
  BY <1>3, <1>4, <1>5

(* What the user does keeps the types.                                     *)
LEMMA UserTyped ==
  ASSUME Typed, EditSource \/ EditTree \/ Start \/ Dirclean
  PROVE  Typed'
<1>1. build' = build
  BY DEF EditSource, EditTree, Start, Make, MakeClean, Dirclean, userVars
<1> USE SameBuild, Bounds, <1>1
<1>2. CASE EditSource
  <2>1. now + 1 \in 2..(MaxEdits + 2)
    BY <1>2 DEF EditSource, Typed
  <2>2. now + 1 \in Version
    BY <2>1 DEF Version
  <2>3. src' \in [v : Version, t : Version]
    BY <1>2, <2>2 DEF EditSource
  <2>4. now' \in 2..(MaxEdits + 2)
    BY <1>2, <2>1 DEF EditSource
  <2>5. QED
    BY <1>2, <2>3, <2>4
       DEF EditSource, Typed, stampVars, treeVars, fileVars, installVars, makeVars
<1>3. CASE EditTree
  <2>1. now + 1 \in 2..(MaxEdits + 2)
    BY <1>3 DEF EditTree, Typed
  <2>2. now + 1 \in Version
    BY <2>1 DEF Version
  <2>3. tree' \in Tree
    BY <1>3, <2>2 DEF EditTree, Typed, Tree
  <2>4. now' \in 2..(MaxEdits + 2)
    BY <1>3, <2>1 DEF EditTree
  <2>5. QED
    BY <1>3, <2>3, <2>4
       DEF EditTree, Typed, stampVars, fileVars, installVars, makeVars
<1>4. CASE \E goal \in Place : Make(goal)
  BY <1>4 DEF Make, Typed, stampVars, userVars, treeVars, fileVars, installVars
<1>5. ASSUME NEW removed \in Seq(Step), NEW sources \in Version,
             MakeClean(removed, sources)
      PROVE  Typed'
  BY <1>5 DEF MakeClean, Typed, stampVars, userVars, treeVars, fileVars, installVars
<1>6. Sources \in Version
  BY DEF Sources, Typed, Tree
<1>7. CASE Dirclean
  BY <1>7 DEF Dirclean, Typed, stampVars, userVars, treeVars, fileVars, installVars
<1>8. QED
  BY <1>2, <1>3, <1>4, <1>5, <1>6, <1>7, CleansTyped DEF Start

(* So does what make does between the recipes.                             *)
LEMMA MakeTyped ==
  ASSUME Typed,
         \/ Remove \/ Removed \/ Done \/ Skip \/ RemoveAll \/ StopDirclean
         \/ Stop \/ Fail \/ Duplicate
  PROVE  Typed'
<1>1. build' = build
  BY DEF Remove, Removed, Done, Skip, RemoveAll, StopDirclean, Stop, Fail,
     Duplicate, userVars
<1> USE SameBuild, Bounds, <1>1
<1>2. End => /\ pc' = "none" /\ todo' \in Seq(Step) /\ pos' \in 1..(Len(Chain) + 1)
             /\ last' \in Place /\ patch' \in 1..(NPatches + 1) /\ asked' \in Version
  <2>1. <<>> \in Seq(Step)
    OBVIOUS
  <2>2. QED
    BY <2>1 DEF End
<1>3. CASE Remove
  <2>1. Tail(todo) \in Seq(Step)
    BY <1>3, HeadTailProperties DEF Remove, Typed
  <2>2. QED
    BY <1>3, <2>1
       DEF Remove, Typed, treeVars, fileVars, installVars
<1>4. CASE Removed
  BY <1>4 DEF Removed, Typed, stampVars, treeVars, fileVars, installVars
<1>5. CASE Done \/ Fail \/ Duplicate
  <2>1. End /\ UNCHANGED <<stampVars, userVars, treeVars, fileVars, installVars>>
    BY <1>5 DEF Done, Fail, Duplicate
  <2>2. QED
    BY <1>2, <2>1
       DEF Typed, stampVars, userVars, treeVars, fileVars, installVars
<1>6. CASE Skip
  <2>1. pos + 1 \in 1..(Len(Chain) + 1)
    BY <1>6 DEF Skip, Typed
  <2>2. QED
    BY <1>6, <2>1
       DEF Skip, Typed, stampVars, userVars, treeVars, fileVars, installVars
<1>7. CASE RemoveAll
  <2>1. /\ stamps' \subseteq Step /\ newer' \subseteq stamps' \X stamps'
        /\ listed' \in 0..NPatches
        /\ tree' \in Tree /\ built' \in Tree
    BY <1>7 DEF RemoveAll
  <2>2. /\ before' \in BOOLEAN /\ list' \in BOOLEAN /\ broken' \in BOOLEAN
        /\ wanted' \in Version
    BY <1>7 DEF RemoveAll, Typed
  <2>3. QED
    BY <1>2, <1>7, <2>1, <2>2 DEF RemoveAll, Typed, installVars
<1>8. CASE StopDirclean
  <2>1. stops' \in 0..MaxStops
    BY <1>8 DEF StopDirclean, Typed
  <2>2. tree' \in Tree /\ built' \in Tree
    BY <1>8 DEF StopDirclean, Typed, Tree
  <2>3. /\ stamps' \subseteq Step /\ newer' \subseteq stamps' \X stamps'
        /\ listed' \in 0..NPatches
    BY <1>8 DEF StopDirclean, Typed
  <2>4. before' \in BOOLEAN /\ list' \in BOOLEAN /\ broken' \in BOOLEAN
    BY <1>8 DEF StopDirclean, Typed
  <2>5. QED
    BY <1>2, <1>8, <2>1, <2>2, <2>3, <2>4 DEF StopDirclean, Typed, installVars
<1>9. CASE Stop
  <2>1. stops' \in 0..MaxStops
    BY <1>9 DEF Stop, Typed
  <2>2. tree' \in Tree
    BY <1>9 DEF Stop, Typed, Tree
  <2>3. QED
    BY <1>2, <1>9, <2>1, <2>2 DEF Stop, Typed, stampVars, fileVars, installVars
<1>10. QED
  BY <1>3, <1>4, <1>5, <1>6, <1>7, <1>8, <1>9
(* So do the recipes.                                                      *)
LEMMA RunTyped ==
  ASSUME Typed, build' = build, NEW s, Run(s)
  PROVE  /\ pc' = "recipe" /\ todo' \in Seq(Step)
         /\ pos' \in 1..(Len(Chain) + 1) /\ last' \in Place /\ asked' \in Version
         /\ stamps' \subseteq Step /\ newer' \subseteq stamps' \X stamps'
BY DEF Run, Typed, stampVars

LEMMA TouchTyped ==
  ASSUME Typed, build' = build, NEW s, Touch(s)
  PROVE  /\ pc' = "walk" /\ todo' \in Seq(Step)
         /\ pos' \in 1..(Len(Chain) + 1) /\ last' \in Place /\ asked' \in Version
         /\ stamps' \subseteq Step /\ newer' \subseteq stamps' \X stamps'
<1>1. pos \in 1..Len(Chain) /\ Chain[pos] = s
  BY DEF Touch, At, Place
<1>2. s \in Step
  BY <1>1 DEF Step, Place
<1>3. stamps' \subseteq Step /\ newer' \subseteq stamps' \X stamps'
  BY <1>2 DEF Touch, Typed
<1>4. pos + 1 \in 1..(Len(Chain) + 1)
  BY <1>1, Bounds
<1>5. QED
  BY <1>3, <1>4 DEF Touch, Typed

LEMMA RecipeTyped ==
  ASSUME Typed, Patching, Recipe, ~Duplicate
  PROVE  Typed'
<1>1. build' = build
  BY NextKeepsBuild DEF Next, Progress
<1> USE SameBuild, Bounds, <1>1
<1>2. CASE BeginDownload \/ FinishDownload \/ FinishConfigure \/ FinishInstalled
  <2>1. UNCHANGED <<patch, userVars, treeVars, fileVars, installVars>>
    BY <1>2 DEF BeginDownload, FinishDownload, FinishConfigure, FinishInstalled
  <2>2. \E s : Run(s) \/ Touch(s)
    BY <1>2 DEF BeginDownload, FinishDownload, FinishConfigure, FinishInstalled
  <2>3. QED
    BY <2>1, <2>2, RunTyped, TouchTyped
       DEF Typed, userVars, treeVars, fileVars, installVars
<1>3. CASE BeginExtract
  <2>1. tree' \in Tree
    BY <1>3 DEF BeginExtract, Typed, Tree
  <2>2. Run("extracted")
    BY <1>3 DEF BeginExtract
  <2>3. QED
    BY <1>3, <2>1, <2>2, RunTyped
       DEF BeginExtract, Typed, fileVars, installVars
<1>4. CASE FinishExtract
  <2>1. Touch("extracted")
    BY <1>4 DEF FinishExtract
  <2>2. QED
    BY <1>4, <2>1, TouchTyped
       DEF FinishExtract, Typed, userVars, fileVars, installVars
<1>5. CASE BeginRsync
  <2>1. tree' \in Tree
    BY <1>5 DEF BeginRsync, Typed, Tree
  <2>2. Run("rsynced")
    BY <1>5 DEF BeginRsync
  <2>3. QED
    BY <1>5, <2>1, <2>2, RunTyped
       DEF BeginRsync, Typed, userVars, fileVars, installVars
<1>6. CASE FinishRsync
  <2>1. 0 \in 0..NPatches
    OBVIOUS
  <2>2. tree' \in Tree
    BY <1>6, <2>1 DEF FinishRsync, Typed, Tree
  <2>3. Touch("rsynced")
    BY <1>6 DEF FinishRsync
  <2>4. QED
    BY <1>6, <2>2, <2>3, TouchTyped
       DEF FinishRsync, Typed, userVars, fileVars, installVars
<1>7. CASE BeginPatch
  <2>1. 1 \in 1..(NPatches + 1)
    OBVIOUS
  <2>2. Run("patched")
    BY <1>7 DEF BeginPatch
  <2>3. QED
    BY <1>7, <2>1, <2>2, RunTyped
       DEF BeginPatch, Typed, userVars, treeVars, fileVars, installVars
<1>8. CASE ListPatch
  <2>1. patch \in 0..NPatches
    BY <1>8 DEF ListPatch, Typed
  <2>2. QED
    BY <1>8, <2>1
       DEF ListPatch, Typed, stampVars, userVars, fileVars, installVars
<1>9. CASE ApplyPatch /\ Patching
  <2>1. patch \in 0..NPatches /\ patch + 1 \in 1..(NPatches + 1)
    <3>1. patch \in 1..(NPatches + 1)
      BY DEF Typed
    <3>2. patch <= NPatches /\ NPatches \in Nat
      BY <1>9 DEF ApplyPatch, Patching
    <3>3. QED
      BY <3>1, <3>2
  <2>2. tree' \in Tree
    BY <1>9, <2>1 DEF ApplyPatch, Typed, Tree
  <2>3. QED
    BY <1>9, <2>1, <2>2
       DEF ApplyPatch, Typed, stampVars, userVars, fileVars, installVars
<1>10. CASE FinishPatch
  <2>1. Touch("patched")
    BY <1>10 DEF FinishPatch
  <2>2. QED
    BY <1>10, <2>1, TouchTyped
       DEF FinishPatch, Typed, userVars, treeVars, fileVars, installVars
<1>11. CASE BeginConfigure
  <2>1. Run("configured")
    BY <1>11 DEF BeginConfigure
  <2>2. QED
    BY <1>11, <2>1, RunTyped
       DEF BeginConfigure, Typed, userVars, treeVars, installVars
<1>12. CASE BeginBuild
  <2>1. built' \in Tree
    BY <1>12 DEF BeginBuild, Typed, Tree
  <2>2. Run("built")
    BY <1>12 DEF BeginBuild
  <2>3. QED
    BY <1>12, <2>1, <2>2, RunTyped
       DEF BeginBuild, Typed, userVars, fileVars, installVars
<1>13. CASE FinishBuild
  <2>1. Touch("built")
    BY <1>13 DEF FinishBuild
  <2>2. QED
    BY <1>13, <2>1, TouchTyped
       DEF FinishBuild, Typed, userVars, fileVars, installVars
<1>14. CASE BeginStaging
  <2>1. staging' \in Tree
    BY <1>14 DEF BeginStaging, Typed, Tree
  <2>2. Run("staging_installed")
    BY <1>14 DEF BeginStaging
  <2>3. QED
    BY <1>14, <2>1, <2>2, RunTyped
       DEF BeginStaging, Typed, userVars, treeVars, fileVars
<1>15. CASE FinishStaging
  <2>1. Touch("staging_installed")
    BY <1>15 DEF FinishStaging
  <2>2. QED
    BY <1>15, <2>1, TouchTyped
       DEF FinishStaging, Typed, userVars, treeVars, fileVars
<1>16. CASE BeginTarget
  <2>1. target' \in Tree
    BY <1>16 DEF BeginTarget, Typed, Tree
  <2>2. Run("target_installed")
    BY <1>16 DEF BeginTarget
  <2>3. QED
    BY <1>16, <2>1, <2>2, RunTyped
       DEF BeginTarget, Typed, userVars, treeVars
<1>17. CASE FinishTarget
  <2>1. Touch("target_installed")
    BY <1>17 DEF FinishTarget
  <2>2. QED
    BY <1>17, <2>1, TouchTyped
       DEF FinishTarget, Typed, userVars, treeVars, fileVars
<1>18. CASE BeginInstalled
  <2>1. Run("installed")
    BY <1>18 DEF BeginInstalled
  <2>2. list' \in BOOLEAN /\ before' \in BOOLEAN
    BY <1>18 DEF BeginInstalled, Typed
  <2>3. QED
    BY <1>18, <2>1, <2>2, RunTyped
       DEF BeginInstalled, Typed, userVars, treeVars, installVars
<1>19. QED
  BY <1>2, <1>3, <1>4, <1>5, <1>6, <1>7, <1>8, <1>9, <1>10, <1>11, <1>12, <1>13,
     <1>14, <1>15, <1>16, <1>17, <1>18 DEF Recipe
(* Every step of the model keeps the types.                                *)
LEMMA NextTyped ==
  ASSUME Typed, Patching, [Next]_vars
  PROVE  Typed'
<1>1. CASE UNCHANGED vars
  BY <1>1, SameBuild
     DEF vars, stampVars, userVars, treeVars, fileVars, installVars, makeVars, Typed
<1>2. CASE Next
  BY <1>2, UserTyped, MakeTyped, RecipeTyped DEF Next, Progress, Recipe
<1>3. QED
  BY <1>1, <1>2

-----------------------------------------------------------------------------
(* Where make is                                                           *)

(* The stamps are left alone, or one is touched, or some are lost; and     *)
(* when some are lost no recipe runs.                                      *)
LEMMA StampSteps ==
  ASSUME [Next]_vars
  PROVE  \/ UNCHANGED stampVars
         \/ \E s : Touch(s)
         \/ Drop /\ pc' \in {"clean", "none"}
<1>1. CASE Remove
  BY <1>1 DEF Remove, Drop
<1>2. CASE RemoveAll \/ StopDirclean
  BY <1>2 DEF RemoveAll, StopDirclean, Drop, End
<1>3. CASE \/ UNCHANGED vars \/ EditSource \/ EditTree \/ Start \/ Dirclean \/ Stop
           \/ Fail \/ Duplicate \/ Removed \/ Done \/ Skip \/ ListPatch \/ ApplyPatch
  BY <1>3
     DEF vars, EditSource, EditTree, Start, Make, MakeClean, Dirclean, Stop, Fail,
         Duplicate, Removed, Done, Skip, ListPatch, ApplyPatch
<1>4. CASE \/ BeginDownload \/ BeginExtract \/ BeginRsync \/ BeginPatch
           \/ BeginConfigure \/ BeginBuild \/ BeginStaging \/ BeginTarget
           \/ BeginInstalled
  BY <1>4
     DEF BeginDownload, BeginExtract, BeginRsync, BeginPatch, BeginConfigure,
         BeginBuild, BeginStaging, BeginTarget, BeginInstalled, Run
<1>5. CASE \/ FinishDownload \/ FinishExtract \/ FinishRsync \/ FinishPatch
           \/ FinishConfigure \/ FinishBuild \/ FinishStaging \/ FinishTarget
           \/ FinishInstalled
  BY <1>5
     DEF FinishDownload, FinishExtract, FinishRsync, FinishPatch, FinishConfigure,
         FinishBuild, FinishStaging, FinishTarget, FinishInstalled
<1>6. QED
  BY <1>1, <1>2, <1>3, <1>4, <1>5 DEF Next, Progress, Recipe

(* make goes from step to step, and stays at a step until it is done.      *)
LEMMA PlaceSteps ==
  ASSUME [Next]_vars, pc' \in {"walk", "recipe", "applying"}
  PROVE  \/ \E s : Touch(s)
         \/ Skip
         \/ /\ pc' = "walk" /\ (pos' = 1 \/ (pc = "clean" /\ pos' = pos))
            /\ UNCHANGED stampVars
         \/ /\ UNCHANGED <<stampVars, pos>> /\ pc = "walk" /\ pc' = "recipe"
            /\ pos <= last /\ Remake(Chain[pos])
         \/ /\ UNCHANGED <<stampVars, pos>>
            /\ pc \in {"recipe", "applying"} /\ pc' \in {"recipe", "applying"}
         \/ UNCHANGED <<stampVars, pos, pc>>
<1>1. CASE \/ Remove \/ RemoveAll \/ StopDirclean \/ Dirclean \/ Stop \/ Fail
           \/ Duplicate \/ Done
  BY <1>1 DEF Remove, RemoveAll, StopDirclean, Dirclean, Stop, Fail, Duplicate,
     Done, End
<1>2. CASE UNCHANGED vars \/ EditSource \/ EditTree
  BY <1>2 DEF vars, EditSource, EditTree, makeVars
<1>3. CASE Start \/ Removed
  BY <1>3 DEF Start, Make, MakeClean, Removed
<1>4. CASE ListPatch \/ ApplyPatch
  BY <1>4 DEF ListPatch, ApplyPatch
<1>5. CASE \/ BeginDownload \/ BeginExtract \/ BeginRsync \/ BeginPatch
           \/ BeginConfigure \/ BeginBuild \/ BeginStaging \/ BeginTarget
           \/ BeginInstalled
  BY <1>5
     DEF BeginDownload, BeginExtract, BeginRsync, BeginPatch, BeginConfigure,
         BeginBuild, BeginStaging, BeginTarget, BeginInstalled, Run, At
<1>6. CASE \/ FinishDownload \/ FinishExtract \/ FinishRsync \/ FinishPatch
           \/ FinishConfigure \/ FinishBuild \/ FinishStaging \/ FinishTarget
           \/ FinishInstalled
  BY <1>6
     DEF FinishDownload, FinishExtract, FinishRsync, FinishPatch, FinishConfigure,
         FinishBuild, FinishStaging, FinishTarget, FinishInstalled
<1>7. QED
  BY <1>1, <1>2, <1>3, <1>4, <1>5, <1>6 DEF Next, Progress, Recipe

LEMMA CleanSteps ==
  ASSUME [Next]_vars, pc' = "clean"
  PROVE  pos' = 1 \/ (pc = "clean" /\ pos' = pos)
<1>1. CASE \/ Removed \/ RemoveAll \/ StopDirclean \/ Dirclean \/ Stop \/ Fail
           \/ Duplicate \/ Done \/ ListPatch \/ ApplyPatch
  BY <1>1 DEF Removed, RemoveAll, StopDirclean, Dirclean, Stop, Fail, Duplicate,
     Done, ListPatch, ApplyPatch, End
<1>2. CASE UNCHANGED vars \/ EditSource \/ EditTree \/ Remove \/ Skip
  BY <1>2 DEF vars, EditSource, EditTree, Remove, Skip, makeVars
<1>3. CASE Start
  BY <1>3 DEF Start, Make, MakeClean
<1>4. CASE \/ BeginDownload \/ BeginExtract \/ BeginRsync \/ BeginPatch
           \/ BeginConfigure \/ BeginBuild \/ BeginStaging \/ BeginTarget
           \/ BeginInstalled
  BY <1>4
     DEF BeginDownload, BeginExtract, BeginRsync, BeginPatch, BeginConfigure,
         BeginBuild, BeginStaging, BeginTarget, BeginInstalled, Run
<1>5. CASE \/ FinishDownload \/ FinishExtract \/ FinishRsync \/ FinishPatch
           \/ FinishConfigure \/ FinishBuild \/ FinishStaging \/ FinishTarget
           \/ FinishInstalled
  BY <1>5
     DEF FinishDownload, FinishExtract, FinishRsync, FinishPatch, FinishConfigure,
         FinishBuild, FinishStaging, FinishTarget, FinishInstalled, Touch
<1>6. QED
  BY <1>1, <1>2, <1>3, <1>4, <1>5 DEF Next, Progress, Recipe

LEMMA NextWalked ==
  ASSUME Where, [Next]_vars
  PROVE  Walked'
<1> USE DEF Where
<1>1. build' = build /\ Typed'
  BY NextKeepsBuild, NextTyped
<1>2. pos \in Nat /\ Len(Chain) \in Nat /\ Place = 1..Len(Chain)
      /\ pos \in 1..(Len(Chain) + 1) /\ last \in Place
  BY Bounds DEF Typed
<1>3. SUFFICES ASSUME pc' \in {"walk", "recipe", "applying"}
               PROVE  Walked'
  <2>1. CASE pc' = "clean"
    BY <2>1, CleanSteps DEF Walked
  <2>2. CASE pc' \notin {"clean", "walk", "recipe", "applying"}
    BY <2>2 DEF Walked
  <2>3. QED
    BY <1>3, <2>1, <2>2
<1> USE SameBuild, <1>1, <1>2
<1>4. ASSUME NEW s, Touch(s)
      PROVE  Walked'
  <2>1. pos \in Place /\ Chain[pos] = s /\ pc = "recipe" /\ pc' = "walk" /\ pos' = pos + 1
    BY <1>4 DEF Touch, At
  <2>2. s \notin Prerequisites(s)
    BY <2>1, NoSelfDependency
  <2>3. /\ Fresh(s)'
        /\ \A d : d # s => (Fresh(d)' <=> Fresh(d) /\ s \notin Prerequisites(d))
    BY <1>4, <2>2, FreshAfterTouch DEF Typed
  <2>4. ASSUME NEW i \in 1..pos
        PROVE  Fresh(Chain[i])'
    <3>1. CASE i = pos
      BY <2>1, <2>3, <3>1
    <3>2. CASE i < pos
      <4>1. i \in Place /\ i \in 1..(pos - 1)
        BY <2>1, <3>2
      <4>2. Chain[i] # s /\ s \notin Prerequisites(Chain[i])
        BY <2>1, <3>2, <4>1, ChainOrder
      <4>3. Fresh(Chain[i])
        BY <2>1, <4>1 DEF Walked
      <4>4. QED
        BY <2>3, <4>2, <4>3
    <3>3. QED
      BY <3>1, <3>2
  <2>5. QED
    BY <2>1, <2>4 DEF Walked
<1>5. CASE Skip
  <2>1. \A d : Fresh(d)' <=> Fresh(d)
    BY <1>5, FreshAfterNothing DEF Skip
  <2>2. pc = "walk" /\ pc' = "walk" /\ pos' = pos + 1 /\ Fresh(Chain[pos])
    BY <1>5 DEF Skip, Fresh
  <2>3. \A i \in 1..pos : Fresh(Chain[i])
    BY <2>2 DEF Walked
  <2>4. QED
    BY <2>1, <2>2, <2>3 DEF Walked
<1>6. CASE /\ pc' = "walk" /\ (pos' = 1 \/ (pc = "clean" /\ pos' = pos))
           /\ UNCHANGED stampVars
  <2>1. pos' = 1
    BY <1>6 DEF Walked
  <2>2. QED
    BY <1>6, <2>1 DEF Walked
<1>7. ASSUME UNCHANGED <<stampVars, pos>>, pc \in {"walk", "recipe", "applying"}
      PROVE  /\ \A i \in 1..(pos' - 1) : Fresh(Chain[i])'
             /\ Remake(Chain[pos]) => Remake(Chain[pos])'
  <2>1. \A d : Fresh(d)' <=> Fresh(d)
    BY <1>7, FreshAfterNothing
  <2>2. QED
    BY <1>7, <2>1 DEF Walked, Fresh
<1>8. CASE /\ UNCHANGED <<stampVars, pos>> /\ pc = "walk" /\ pc' = "recipe"
           /\ pos <= last /\ Remake(Chain[pos])
  BY <1>7, <1>8 DEF Walked
<1>9. CASE \/ /\ UNCHANGED <<stampVars, pos>>
              /\ pc \in {"recipe", "applying"} /\ pc' \in {"recipe", "applying"}
           \/ UNCHANGED <<stampVars, pos, pc>>
  BY <1>3, <1>7, <1>9 DEF Walked
<1>10. QED
  BY <1>3, <1>4, <1>5, <1>6, <1>8, <1>9, PlaceSteps
(* A patch is only applied where make is at the patch step.                *)
LEMMA NextPatching ==
  ASSUME Where, [Next]_vars
  PROVE  Patching'
<1>1. SUFFICES ASSUME pc' = "applying"
               PROVE  Patching'
  BY DEF Patching
<1>2. build' = build /\ Chain' = Chain /\ NPatches' = NPatches /\ Place' = Place
  BY NextKeepsBuild, SameBuild
<1>3. CASE ListPatch
  BY <1>2, <1>3 DEF ListPatch, Patching, At
<1>4. CASE UNCHANGED vars \/ EditSource \/ EditTree
  BY <1>2, <1>4
     DEF vars, EditSource, EditTree, treeVars, makeVars, Where, Patching, At
<1>5. CASE \/ Remove \/ Removed \/ Done \/ Skip \/ RemoveAll \/ StopDirclean
           \/ Dirclean \/ Stop \/ Fail \/ Duplicate \/ Start \/ ApplyPatch
  BY <1>1, <1>5
     DEF Remove, Removed, Done, Skip, RemoveAll, StopDirclean, Dirclean, Stop, Fail,
         Duplicate, Start, Make, MakeClean, ApplyPatch, End
<1>6. CASE \/ BeginDownload \/ BeginExtract \/ BeginRsync \/ BeginPatch
           \/ BeginConfigure \/ BeginBuild \/ BeginStaging \/ BeginTarget
           \/ BeginInstalled
  BY <1>1, <1>6
     DEF BeginDownload, BeginExtract, BeginRsync, BeginPatch, BeginConfigure,
         BeginBuild, BeginStaging, BeginTarget, BeginInstalled, Run
<1>7. CASE \/ FinishDownload \/ FinishExtract \/ FinishRsync \/ FinishPatch
           \/ FinishConfigure \/ FinishBuild \/ FinishStaging \/ FinishTarget
           \/ FinishInstalled
  BY <1>1, <1>7
     DEF FinishDownload, FinishExtract, FinishRsync, FinishPatch, FinishConfigure,
         FinishBuild, FinishStaging, FinishTarget, FinishInstalled, Touch
<1>8. QED
  BY <1>3, <1>4, <1>5, <1>6, <1>7 DEF Next, Progress, Recipe

-----------------------------------------------------------------------------
(* The sources and their dates                                             *)

\* The sources in $(@D) are not changed but for their patches.
SameSources == tree'.v = tree.v /\ tree'.t = tree.t

(* These are the only steps that change sources.                           *)
LEMMA SourceSteps ==
  ASSUME Typed, [Next]_vars
  PROVE  \/ EditSource \/ EditTree \/ FinishExtract \/ FinishRsync \/ RemoveAll
         \/ SameSources /\ UNCHANGED <<src, now>>
<1>1. CASE StopDirclean \/ Stop \/ ApplyPatch \/ BeginExtract \/ BeginRsync
  <2>1. tree \in Tree
    BY DEF Typed
  <2>2. SameSources
    BY <1>1, <2>1
       DEF StopDirclean, Stop, ApplyPatch, BeginExtract, BeginRsync, SameSources, Tree
  <2>3. UNCHANGED <<src, now>>
    BY <1>1
       DEF StopDirclean, Stop, ApplyPatch, BeginExtract, BeginRsync, userVars
  <2>4. QED
    BY <2>2, <2>3
<1>2. ASSUME UNCHANGED <<tree, src, now>>
      PROVE  SameSources /\ UNCHANGED <<src, now>>
  BY <1>2 DEF SameSources, Typed, Tree
<1>3. CASE \/ UNCHANGED vars \/ Start \/ Dirclean \/ Fail \/ Duplicate \/ Remove
           \/ Removed \/ Done \/ Skip \/ ListPatch
  BY <1>2, <1>3
     DEF vars, Start, Make, MakeClean, Dirclean, Fail, Duplicate, Remove, Removed,
         Done, Skip, ListPatch, userVars, treeVars
<1>4. CASE \/ BeginDownload \/ BeginPatch \/ BeginConfigure \/ BeginBuild
           \/ BeginStaging \/ BeginTarget \/ BeginInstalled
  BY <1>2, <1>4
     DEF BeginDownload, BeginPatch, BeginConfigure, BeginBuild, BeginStaging,
         BeginTarget, BeginInstalled, userVars, treeVars
<1>5. CASE \/ FinishDownload \/ FinishPatch \/ FinishConfigure \/ FinishBuild
           \/ FinishStaging \/ FinishTarget \/ FinishInstalled
  BY <1>2, <1>5
     DEF FinishDownload, FinishPatch, FinishConfigure, FinishBuild, FinishStaging,
         FinishTarget, FinishInstalled, userVars, treeVars
<1>6. QED
  BY <1>1, <1>3, <1>4, <1>5 DEF Next, Progress, Recipe

LEMMA NextClock ==
  ASSUME Where, [Next]_vars
  PROVE  Clock'
<1> USE DEF Where
<1>1. /\ now \in Nat /\ now >= 2
      /\ src.v \in Nat /\ src.t \in Nat /\ tree.v \in Nat /\ tree.t \in Nat
  BY Bounds DEF Typed, Tree, Version
<1>2. CASE EditSource
  BY <1>1, <1>2 DEF EditSource, Clock, Dated, treeVars
<1>3. CASE EditTree
  BY <1>1, <1>3 DEF EditTree, Clock, Dated, Typed, Tree
<1>4. CASE FinishExtract
  BY <1>1, <1>4 DEF FinishExtract, Clock, Dated, Pristine, userVars
<1>5. CASE FinishRsync
  BY <1>1, <1>5 DEF FinishRsync, Clock, Dated, userVars, Typed, Tree
<1>6. CASE RemoveAll
  BY <1>1, <1>6 DEF RemoveAll, Clock, Dated, NoTree
<1>7. CASE SameSources /\ UNCHANGED <<src, now>>
  BY <1>7 DEF SameSources, Clock, Dated
<1>8. QED
  BY <1>2, <1>3, <1>4, <1>5, <1>6, <1>7, SourceSteps

LEMMA NextWhere == Where /\ [Next]_vars => Where'
BY NextTyped, NextClock, NextWalked, NextPatching DEF Where

LEMMA InitWhere == Init => Where
<1>1. SUFFICES ASSUME Init
               PROVE  Where
  OBVIOUS
<1>2. build \in Builds
  BY <1>1 DEF Init
<1>3. /\ NPatches \in Nat /\ MaxEdits \in Nat /\ MaxStops \in Nat
      /\ Len(Chain) \in Nat \ {0} /\ Place = 1..Len(Chain)
  BY <1>2, BuildTyped, ChainLength DEF Place
<1>4. 0 \in Version /\ 1 \in Version /\ 2 \in Version
  BY <1>3 DEF Version
<1>5. 0 \in 0..NPatches
  BY <1>3
<1>6. NoTree \in Tree
  BY <1>4, <1>5 DEF NoTree, Tree
<1>7. <<>> \in Seq(Step)
  OBVIOUS
<1>8. Typed
  <2>1. /\ 1 \in 1..(Len(Chain) + 1) /\ 1 \in Place /\ 1 \in 1..(NPatches + 1)
        /\ 2 \in 2..(MaxEdits + 2) /\ 0 \in 0..MaxStops
    BY <1>3
  <2>2. src \in [v : Version, t : Version]
    BY <1>1, <1>4 DEF Init
  <2>3. stamps \subseteq Step /\ newer \subseteq stamps \X stamps
    BY <1>1 DEF Init
  <2>4. QED
    BY <1>1, <1>2, <1>4, <1>5, <1>6, <1>7, <2>1, <2>2, <2>3 DEF Init, Typed
<1>9. Clock /\ Walked /\ Patching
  BY <1>1 DEF Init, Clock, Dated, NoTree, Walked, Patching
<1>10. QED
  BY <1>8, <1>9 DEF Where
-----------------------------------------------------------------------------
(* What the stamps are worth                                               *)

(* What make takes from the stamps after a step it took from them before,  *)
(* unless the step touched that very stamp.                                *)
LEMMA Taken ==
  ASSUME Where, [Next]_vars
  PROVE  /\ Unpacked' => Unpacked \/ Touch("extracted")
         /\ PatchedUp' => PatchedUp \/ Touch("patched")
         /\ Compiled' => Compiled \/ Touch("built")
         /\ InStaging' => InStaging \/ Touch("staging_installed")
         /\ InTarget' => InTarget \/ Touch("target_installed")
         /\ AllInTarget' => AllInTarget \/ Touch("target_installed")
         /\ "built" \in stamps' => "built" \in stamps \/ Touch("built")
         /\ "rsynced" \in stamps' => "rsynced" \in stamps \/ Touch("rsynced")
<1> USE DEF Unpacked, PatchedUp, Compiled, InStaging, InTarget, AllInTarget
<1>1. build' = build /\ Typed
  BY NextKeepsBuild DEF Where
<1>2. CASE UNCHANGED stampVars
  <2>1. \A d : Fresh(d)' <=> Fresh(d)
    BY <1>1, <1>2, FreshAfterNothing
  <2>2. QED
    BY <1>2, <2>1 DEF stampVars
<1>3. ASSUME NEW s, Touch(s)
      PROVE  /\ Unpacked' => Unpacked \/ s = "extracted"
             /\ PatchedUp' => PatchedUp \/ s = "patched"
             /\ Compiled' => Compiled \/ s = "built"
             /\ InStaging' => InStaging \/ s = "staging_installed"
             /\ InTarget' => InTarget \/ s = "target_installed"
             /\ AllInTarget' => AllInTarget \/ s = "target_installed"
             /\ stamps' = stamps \cup {s}
  <2>1. s \notin Prerequisites(s)
    BY <1>3, NoSelfDependency DEF Touch, At
  <2>2. \A d : d # s => (Fresh(d)' <=> Fresh(d) /\ s \notin Prerequisites(d))
    BY <1>1, <1>3, <2>1, FreshAfterTouch DEF Typed
  <2>3. stamps' = stamps \cup {s}
    BY <1>3 DEF Touch
  <2>4. /\ Unpacked' => Unpacked \/ s = "extracted"
        /\ PatchedUp' => PatchedUp \/ s = "patched"
        /\ Compiled' => Compiled \/ s = "built"
        /\ InStaging' => InStaging \/ s = "staging_installed"
    BY <2>2, <2>3, Dependencies
  <2>5. AllInTarget' => AllInTarget \/ s = "target_installed"
    BY <2>2, <2>3, Dependencies
  <2>6. InTarget' => InTarget \/ s = "target_installed"
    <3>1. SUFFICES ASSUME InTarget', s # "target_installed"
                   PROVE  InTarget
      OBVIOUS
    <3>2. newer' = (newer \ {<<p, s>> : p \in stamps})
                     \cup {<<s, d>> : d \in {d \in stamps : s \in Prerequisites(d)}}
      BY <1>3 DEF Touch
    <3>3. "target_installed" \in stamps
      BY <2>3, <3>1
    <3>4. <<"built", "target_installed">> \notin newer
      BY <3>1, <3>2
    <3>5. s # "built"
      BY <3>1, <3>2, <3>3, Dependencies
    <3>6. QED
      BY <2>3, <3>1, <3>3, <3>4, <3>5
  <2>7. QED
    BY <2>3, <2>4, <2>5, <2>6
<1>4. CASE Drop
  <2>1. \A d : Fresh(d)' => /\ d \in stamps
                            /\ \A p \in Prerequisites(d) :
                                 p \in stamps' => <<p, d>> \notin newer
    BY <1>1, <1>4, FreshAfterDrop
  <2>2. stamps' \subseteq stamps /\ newer' = newer \cap (stamps' \X stamps')
    BY <1>4 DEF Drop
  <2>3. Unpacked' => Unpacked
    BY <2>1, <2>2, Dependencies DEF Fresh, Remake
  <2>4. PatchedUp' => PatchedUp
    BY <2>1, <2>2, Dependencies DEF Fresh, Remake
  <2>5. Compiled' => Compiled
    BY <2>1, <2>2, Dependencies DEF Fresh, Remake
  <2>6. InStaging' => InStaging
    BY <2>1, <2>2, Dependencies DEF Fresh, Remake
  <2>7. InTarget' => InTarget
    BY <2>2
  <2>8. AllInTarget' => AllInTarget
    BY <2>1, <2>2, Dependencies DEF Fresh, Remake
  <2>9. QED
    BY <2>2, <2>3, <2>4, <2>5, <2>6, <2>7, <2>8
<1>5. CASE \E s : Touch(s)
  <2>1. PICK s : Touch(s)
    BY <1>5
  <2> HIDE DEF Unpacked, PatchedUp, Compiled, InStaging, InTarget, AllInTarget
  <2>2. QED
    BY <1>3, <2>1
<1>6. QED
  BY <1>2, <1>4, <1>5, StampSteps

(* These are the only steps that change the sources' patches, whether they *)
(* are whole, and the list of patches, or are about the patch step.        *)
LEMMA TreeSteps ==
  ASSUME [Next]_vars
  PROVE  \/ EditTree \/ BeginExtract \/ FinishExtract \/ BeginRsync \/ FinishRsync
         \/ BeginPatch \/ ListPatch \/ ApplyPatch \/ FinishPatch
         \/ RemoveAll \/ StopDirclean \/ Stop \/ UNCHANGED vars
         \/ /\ UNCHANGED <<tree, listed, broken>>
            /\ ~Touch("extracted") /\ ~Touch("patched") /\ ~Touch("rsynced")
            /\ pc' \in {"recipe", "applying"} => ~At("patched")'
<1>1. Chain' = Chain /\ Place' = Place
  BY NextKeepsBuild, SameBuild
<1>2. CASE EditSource \/ Start \/ Dirclean
  BY <1>2 DEF EditSource, Start, Make, MakeClean, Dirclean, treeVars, makeVars, Touch
<1>3. CASE Fail \/ Duplicate \/ Remove \/ Removed \/ Done \/ Skip
  BY <1>3 DEF Fail, Duplicate, Remove, Removed, Done, Skip, treeVars, End, Touch
<1>4. CASE \/ BeginDownload \/ BeginConfigure \/ BeginBuild \/ BeginStaging
           \/ BeginTarget \/ BeginInstalled
  BY <1>1, <1>4
     DEF BeginDownload, BeginConfigure, BeginBuild, BeginStaging, BeginTarget,
         BeginInstalled, treeVars, Run, Touch, At
<1>5. CASE \/ FinishDownload \/ FinishConfigure \/ FinishBuild \/ FinishStaging
           \/ FinishTarget \/ FinishInstalled
  BY <1>5
     DEF FinishDownload, FinishConfigure, FinishBuild, FinishStaging, FinishTarget,
         FinishInstalled, treeVars, Touch, At
<1>6. QED
  BY <1>2, <1>3, <1>4, <1>5 DEF Next, Progress, Recipe

LEMMA NextTreePatched ==
  ASSUME Where, Where', TreePatched, [Next]_vars
  PROVE  TreePatched'
<1>1. /\ Typed /\ Walked /\ Patching /\ Clock
      /\ tree \in Tree /\ patch \in 1..(NPatches + 1) /\ NPatches \in Nat
      /\ listed \in 0..NPatches /\ tree.patches \in 0..NPatches
  BY Bounds DEF Where, Typed, Tree
<1>2. NPatches' = NPatches /\ Chain' = Chain /\ Place' = Place
  BY NextKeepsBuild, SameBuild
<1>3. \A s : Touch(s) => pc = "recipe" /\ pc' = "walk" /\ At(s)
  BY DEF Touch
<1>4. /\ Unpacked' => Unpacked \/ Touch("extracted")
      /\ PatchedUp' => PatchedUp \/ Touch("patched")
  BY Taken
\* As long as make is at the step of a stamp, that stamp is worth nothing.
<1>5. /\ pc \in {"recipe", "applying"} /\ At("extracted") => ~Unpacked
      /\ pc \in {"recipe", "applying"} /\ At("patched") => ~PatchedUp
  BY <1>1 DEF Walked, At, Unpacked, PatchedUp, Fresh
<1>6. CASE /\ UNCHANGED <<tree, listed, broken>>
           /\ ~Touch("extracted") /\ ~Touch("patched")
           /\ pc' \in {"recipe", "applying"} => ~At("patched")'
  BY <1>2, <1>4, <1>6 DEF TreePatched
<1>7. CASE UNCHANGED vars
  BY <1>2, <1>3, <1>4, <1>7
     DEF vars, treeVars, makeVars, TreePatched, At
<1>8. CASE EditTree
  <2>1. /\ tree'.patches = tree.patches /\ tree'.whole = tree.whole
        /\ pc' = "none" /\ UNCHANGED <<listed, broken>>
    BY <1>1, <1>8 DEF EditTree, makeVars, Tree
  <2>2. QED
    BY <1>2, <1>3, <1>4, <2>1 DEF TreePatched
<1>9. CASE BeginExtract
  <2>1. /\ tree'.patches = tree.patches /\ UNCHANGED <<listed, broken, stampVars>>
        /\ pc' = "recipe" /\ pos' = pos /\ At("extracted") /\ Remake("extracted")
    BY <1>1, <1>9 DEF BeginExtract, Run, Tree
  <2>2. ~Unpacked /\ ~At("patched")'
    BY <1>2, <2>1 DEF Unpacked, Fresh, At
  <2>3. QED
    BY <1>2, <1>3, <1>4, <2>1, <2>2 DEF TreePatched
<1>10. CASE FinishExtract
  <2>1. /\ tree' = Pristine /\ pc' = "walk" /\ UNCHANGED <<listed, broken>>
        /\ Touch("extracted") /\ At("extracted")
    BY <1>10 DEF FinishExtract, Touch
  <2>2. ~PatchedUp'
    <3>1. "extracted" \notin Prerequisites("extracted")
      BY Dependencies
    <3>2. Fresh("patched")' =>
            Fresh("patched") /\ "extracted" \notin Prerequisites("patched")
      BY <1>1, <2>1, <3>1, NextKeepsBuild, FreshAfterTouch DEF Typed
    <3>3. QED
      BY <3>2, Dependencies DEF PatchedUp
  <2>3. tree'.whole
    BY <2>1 DEF Pristine
  <2>4. QED
    BY <2>1, <2>2, <2>3 DEF TreePatched
<1>11. CASE BeginRsync \/ FinishRsync
  <2>1. /\ pc' \in {"walk", "recipe"} /\ UNCHANGED <<listed, broken>>
        /\ At("rsynced") /\ pc \in {"walk", "recipe"}
        /\ pc' = "recipe" => pos' = pos
    BY <1>11 DEF BeginRsync, FinishRsync, Run, Touch
  <2>2. Override
    BY <1>1, <2>1, DoneBefore
  <2>3. ~Unpacked' /\ ~PatchedUp'
    <3>1. stamps' \subseteq Step' /\ Step' = Step
      BY NextKeepsBuild, SameBuild DEF Where, Typed
    <3>2. QED
      BY <2>2, <3>1, Steps DEF Unpacked, PatchedUp
  <2>4. pc' = "recipe" => ~At("patched")'
    BY <1>2, <2>1 DEF At
  <2>5. QED
    BY <2>1, <2>3, <2>4 DEF TreePatched
<1>12. CASE BeginPatch
  <2>1. /\ UNCHANGED <<tree, listed, broken, stampVars>>
        /\ pc = "walk" /\ pc' = "recipe" /\ patch' = 1 /\ At("patched")
    BY <1>12 DEF BeginPatch, Run, treeVars
  <2>2. Unpacked
    BY <1>1, <2>1, DoneBefore DEF Unpacked, Fresh, Remake
  <2>3. QED
    BY <1>2, <1>3, <1>4, <2>1, <2>2 DEF TreePatched
<1>13. CASE ListPatch
  <2>1. /\ UNCHANGED <<tree, broken, patch>> /\ listed' = patch /\ patch > listed
        /\ pc = "recipe" /\ pc' = "applying" /\ At("patched")
    BY <1>13 DEF ListPatch
  <2>2. listed' # 0 /\ (patch = 1 => listed = 0)
    BY <1>1, <2>1
  <2>3. QED
    BY <1>2, <1>3, <1>4, <2>1, <2>2 DEF TreePatched
<1>14. CASE ApplyPatch
  <2>1. /\ pc = "applying" /\ pc' = "recipe" /\ UNCHANGED <<listed, broken, pos>>
        /\ tree'.patches = patch /\ tree'.whole = tree.whole /\ patch' = patch + 1
    BY <1>1, <1>14 DEF ApplyPatch, Tree
  <2>2. At("patched")
    BY <1>1, <2>1 DEF Patching
  <2>3. ~PatchedUp' /\ patch' - 1 = patch
    BY <1>1, <1>3, <1>4, <1>5, <2>1, <2>2
  <2>4. broken \/ tree.whole
    BY <2>1, <2>2 DEF TreePatched
  <2>5. QED
    BY <2>1, <2>3, <2>4 DEF TreePatched
<1>15. CASE FinishPatch
  <2>1. /\ UNCHANGED <<tree, listed, broken>> /\ patch > NPatches
        /\ pc = "recipe" /\ pc' = "walk" /\ At("patched")
    BY <1>15 DEF FinishPatch, Touch, treeVars
  <2>2. tree.patches = NPatches
    <3>1. patch = NPatches + 1
      BY <1>1, <2>1
    <3>2. CASE patch = 1
      BY <1>1, <3>1, <3>2
    <3>3. CASE patch # 1
      BY <1>1, <2>1, <3>1, <3>3 DEF TreePatched
    <3>4. QED
      BY <3>2, <3>3
  <2>3. broken \/ tree.whole
    <3>1. patch = 1 => listed = 0
      BY <1>1, <2>1
    <3>2. QED
      BY <2>1, <3>1 DEF TreePatched
  <2>4. QED
    BY <1>2, <2>1, <2>2, <2>3 DEF TreePatched
<1>16. CASE RemoveAll
  <2>1. stamps' = {} /\ pc' = "none"
    BY <1>16 DEF RemoveAll, End
  <2>2. QED
    BY <2>1 DEF TreePatched, Unpacked, PatchedUp
<1>17. CASE StopDirclean
  <2>1. broken' /\ tree'.patches = tree.patches /\ pc = "dirclean" /\ pc' = "none"
    BY <1>1, <1>17 DEF StopDirclean, End, Tree
  <2>2. QED
    BY <1>2, <1>3, <1>4, <2>1 DEF TreePatched
<1>18. CASE Stop
  <2>1. /\ tree'.patches = tree.patches /\ pc' = "none"
        /\ UNCHANGED <<listed, broken>>
        /\ tree'.whole = tree.whole \/ pc = "applying"
    BY <1>1, <1>18 DEF Stop, End, Tree
  <2>2. CASE tree'.whole = tree.whole
    BY <1>2, <1>3, <1>4, <2>1, <2>2 DEF TreePatched
  <2>3. CASE pc = "applying"
    <3>1. At("patched") /\ listed # 0
      BY <1>1, <2>3 DEF Patching
    <3>2. ~PatchedUp'
      BY <1>3, <1>4, <1>5, <2>1, <2>3, <3>1
    <3>3. QED
      BY <2>1, <3>1, <3>2 DEF TreePatched
  <2>4. QED
    BY <2>1, <2>2, <2>3
<1>19. QED
  BY <1>6, <1>7, <1>8, <1>9, <1>10, <1>11, <1>12, <1>13, <1>14, <1>15, <1>16,
     <1>17, <1>18, TreeSteps

(* rsync brings the user's sources into $(@D) whole.                       *)
LEMMA NextTreeSynced ==
  ASSUME Where, Where', TreeSynced, [Next]_vars
  PROVE  TreeSynced'
<1>1. /\ Typed /\ Walked /\ Patching /\ tree \in Tree
  BY DEF Where, Typed
<1>2. "rsynced" \in stamps' => "rsynced" \in stamps \/ Touch("rsynced")
  BY Taken
<1>3. ~Override => "rsynced" \notin stamps'
  <2>1. stamps' \subseteq Step
    BY NextKeepsBuild, SameBuild DEF Where, Typed
  <2>2. QED
    BY <2>1, Steps
<1>4. pc \in {"walk", "recipe", "applying"} /\ ~At("rsynced") => ~Touch("rsynced")
  BY DEF Touch
<1>5. CASE UNCHANGED <<tree, listed, broken>> /\ ~Touch("rsynced")
  BY <1>2, <1>5 DEF TreeSynced
<1>6. CASE EditTree \/ UNCHANGED vars \/ ListPatch
  <2>1. /\ tree'.whole = tree.whole /\ broken' = broken
        /\ pc' # "walk" \/ UNCHANGED vars
    BY <1>1, <1>6 DEF EditTree, ListPatch, vars, treeVars, makeVars, Tree
  <2>2. ~Touch("rsynced")
    BY <2>1 DEF Touch, vars, makeVars
  <2>3. QED
    BY <1>2, <2>1, <2>2 DEF TreeSynced
<1>7. CASE \/ BeginExtract \/ FinishExtract \/ BeginPatch \/ ApplyPatch \/ FinishPatch
  <2>1. /\ pc \in {"walk", "recipe", "applying"}
        /\ At("extracted") \/ At("patched")
    BY <1>1, <1>7
       DEF BeginExtract, FinishExtract, BeginPatch, ApplyPatch, FinishPatch, Run,
           Touch, Patching
  <2>2. ~Override
    BY <1>1, <2>1, DoneBefore
  <2>3. QED
    BY <1>3, <2>2 DEF TreeSynced
<1>8. CASE BeginRsync
  <2>1. pc' = "recipe" /\ "rsynced" \notin stamps /\ stamps' = stamps
    BY <1>8, Dependencies DEF BeginRsync, Run, Remake, stampVars
  <2>2. QED
    BY <2>1 DEF TreeSynced
<1>9. CASE FinishRsync
  <2>1. tree'.whole
    BY <1>1, <1>9 DEF FinishRsync, Tree
  <2>2. QED
    BY <2>1 DEF TreeSynced
<1>10. CASE RemoveAll \/ StopDirclean
  <2>1. stamps' = {} \/ broken'
    BY <1>10 DEF RemoveAll, StopDirclean
  <2>2. QED
    BY <2>1 DEF TreeSynced
<1>11. CASE Stop
  <2>1. /\ stamps' = stamps /\ broken' = broken
        /\ tree'.whole = tree.whole \/ pc = "applying"
    BY <1>1, <1>11 DEF Stop, stampVars, Tree
  <2>2. pc = "applying" => ~Override
    BY <1>1, DoneBefore DEF Patching
  <2>3. QED
    BY <1>3, <2>1, <2>2 DEF TreeSynced
<1>12. QED
  BY <1>5, <1>6, <1>7, <1>8, <1>9, <1>10, <1>11, TreeSteps

(* The compiler sees sources with all patches, and whole ones.             *)
LEMMA SourcesAtBuild ==
  ASSUME Where, TreePatched, TreeSynced
  PROVE  pc = "recipe" /\ At("built") =>
           /\ tree.patches = NPatches
           /\ broken \/ tree.whole
           /\ Override => "rsynced" \in stamps
<1> HAVE pc = "recipe" /\ At("built")
<1>1. /\ Typed /\ Walked /\ tree \in Tree /\ tree.patches \in 0..NPatches
      /\ Override \in BOOLEAN /\ Override => NPatches = 0
  BY BuildTyped DEF Where, Typed, Tree
<1>2. IF Override THEN Fresh("rsynced")
      ELSE Fresh("downloaded") /\ Fresh("extracted") /\ Fresh("patched")
  BY <1>1, DoneBefore
<1>3. CASE Override
  <2>1. "rsynced" \in stamps
    BY <1>2, <1>3 DEF Fresh, Remake
  <2>2. tree.patches = NPatches
    BY <1>1, <1>3
  <2>3. QED
    BY <2>1, <2>2 DEF TreeSynced
<1>4. CASE ~Override
  <2>1. Unpacked /\ PatchedUp
    BY <1>2, <1>4 DEF Unpacked, PatchedUp, Fresh, Remake
  <2>2. QED
    BY <1>4, <2>1 DEF TreePatched
<1>5. QED
  BY <1>1, <1>3, <1>4

(* These are the only steps that change what is compiled and installed.    *)
LEMMA InstallSteps ==
  ASSUME [Next]_vars
  PROVE  \/ BeginBuild \/ FinishBuild \/ BeginStaging \/ FinishStaging
         \/ BeginTarget \/ FinishTarget \/ RemoveAll \/ StopDirclean
         \/ /\ UNCHANGED <<built, staging, target, broken>>
            /\ ~Touch("built") /\ ~Touch("staging_installed")
            /\ ~Touch("target_installed")
<1>1. CASE EditSource \/ EditTree \/ Start \/ Dirclean \/ UNCHANGED vars
  BY <1>1
     DEF EditSource, EditTree, Start, Make, MakeClean, Dirclean, treeVars, makeVars,
         installVars, Touch, vars
<1>2. CASE Fail \/ Duplicate \/ Remove \/ Removed \/ Done \/ Skip \/ Stop
  BY <1>2
     DEF Fail, Duplicate, Remove, Removed, Done, Skip, Stop, treeVars, installVars,
         End, Touch
<1>3. CASE \/ BeginDownload \/ BeginExtract \/ BeginRsync \/ BeginPatch
           \/ BeginConfigure \/ BeginInstalled \/ ListPatch \/ ApplyPatch
  BY <1>3
     DEF BeginDownload, BeginExtract, BeginRsync, BeginPatch, BeginConfigure,
         BeginInstalled, ListPatch, ApplyPatch, treeVars, installVars, Run, Touch
<1>4. CASE \/ FinishDownload \/ FinishExtract \/ FinishRsync \/ FinishPatch
           \/ FinishConfigure \/ FinishInstalled
  BY <1>4
     DEF FinishDownload, FinishExtract, FinishRsync, FinishPatch, FinishConfigure,
         FinishInstalled, treeVars, installVars, Touch, At
<1>5. QED
  BY <1>1, <1>2, <1>3, <1>4 DEF Next, Progress, Recipe

LEMMA NextBuiltRight ==
  ASSUME Where, TreePatched, TreeSynced, BuiltRight, [Next]_vars
  PROVE  BuiltRight'
<1>1. Typed /\ built \in Tree
  BY DEF Where, Typed
<1>2. NPatches' = NPatches
  BY NextKeepsBuild, SameBuild
<1>3. /\ Compiled' => Compiled \/ Touch("built")
      /\ "built" \in stamps' => "built" \in stamps \/ Touch("built")
  BY Taken
<1>4. CASE UNCHANGED <<built, broken>> /\ ~Touch("built")
  BY <1>2, <1>3, <1>4 DEF BuiltRight
<1>5. CASE BeginBuild
  <2>1. /\ built'.patches = built.patches /\ broken' = broken
        /\ UNCHANGED stampVars /\ pc' = "recipe" /\ Remake("built")
    BY <1>1, <1>5 DEF BeginBuild, Run, Tree
  <2>2. ~Compiled'
    BY <1>3, <2>1 DEF Compiled, Fresh, Touch
  <2>3. QED
    BY <1>2, <2>1, <2>2 DEF BuiltRight, stampVars
<1>6. CASE FinishBuild
  <2>1. built' = tree /\ broken' = broken /\ pc = "recipe" /\ At("built")
    BY <1>6 DEF FinishBuild, Touch
  <2>2. tree.patches = NPatches /\ (broken \/ tree.whole)
    BY <2>1, SourcesAtBuild
  <2>3. QED
    BY <1>2, <2>1, <2>2 DEF BuiltRight
<1>7. CASE BeginStaging \/ FinishStaging \/ BeginTarget \/ FinishTarget
  <2>1. UNCHANGED <<built, broken>> /\ ~Touch("built")
    BY <1>7
       DEF BeginStaging, FinishStaging, BeginTarget, FinishTarget, treeVars, Run,
           Touch, At
  <2>2. QED
    BY <1>4, <2>1
<1>8. CASE RemoveAll
  BY <1>8 DEF RemoveAll, BuiltRight, Compiled
<1>9. CASE StopDirclean
  <2>1. broken' /\ built'.patches = built.patches /\ stamps' \subseteq stamps
    BY <1>1, <1>9 DEF StopDirclean, Tree
  <2>2. QED
    BY <1>2, <2>1 DEF BuiltRight
<1>10. QED
  BY <1>4, <1>5, <1>6, <1>7, <1>8, <1>9, InstallSteps

(* What is installed follows what is compiled.                             *)
LEMMA NextInstalledRight ==
  ASSUME Where, BuiltRight, InstalledRight, [Next]_vars
  PROVE  InstalledRight'
<1>1. Typed /\ Walked /\ built \in Tree /\ staging \in Tree /\ target \in Tree
  BY DEF Where, Typed
<1>2. /\ InStaging' => InStaging \/ Touch("staging_installed")
      /\ InTarget' => InTarget \/ Touch("target_installed")
      /\ AllInTarget' => AllInTarget \/ Touch("target_installed")
  BY Taken
<1>3. CASE /\ UNCHANGED <<built, staging, target, broken>>
           /\ ~Touch("staging_installed") /\ ~Touch("target_installed")
  BY <1>2, <1>3 DEF InstalledRight, Same
<1>4. CASE BeginBuild
  <2>1. /\ built'.v = built.v /\ built'.patches = built.patches
        /\ UNCHANGED <<staging, target, broken>> /\ pc' = "recipe"
    BY <1>1, <1>4 DEF BeginBuild, Run, treeVars, installVars, Tree
  <2>2. QED
    BY <1>2, <2>1 DEF InstalledRight, Same, Touch
<1>5. CASE FinishBuild
  <2>1. Touch("built") /\ UNCHANGED <<staging, target, broken>>
    BY <1>5 DEF FinishBuild, installVars
  <2>2. \A d : d # "built" => (Fresh(d)' => "built" \notin Prerequisites(d))
    <3>1. "built" \notin Prerequisites("built")
      BY Dependencies
    <3>2. QED
      BY <1>1, <2>1, <3>1, NextKeepsBuild, FreshAfterTouch DEF Typed
  <2>3. ~InStaging' /\ ~AllInTarget'
    BY <2>2, Dependencies DEF InStaging, AllInTarget
  <2>4. ~InTarget'
    BY <2>1, Dependencies DEF Touch, InTarget
  <2>5. QED
    BY <2>3, <2>4 DEF InstalledRight
<1>6. CASE BeginStaging
  <2>1. /\ UNCHANGED <<built, target, broken, stampVars>> /\ pc' = "recipe"
        /\ staging'.v = staging.v /\ staging'.patches = staging.patches
        /\ Remake("staging_installed")
    BY <1>1, <1>6 DEF BeginStaging, Run, treeVars, Tree
  <2>2. ~InStaging'
    BY <1>2, <2>1 DEF Touch, InStaging, Fresh
  <2>3. QED
    BY <1>2, <2>1, <2>2 DEF InstalledRight, Same, Touch
<1>7. CASE FinishStaging
  <2>1. /\ Touch("staging_installed") /\ UNCHANGED <<built, target, broken>>
        /\ staging' = built /\ pc = "recipe" /\ At("staging_installed")
    BY <1>7 DEF FinishStaging, treeVars, Touch
  <2>2. Compiled
    BY <1>1, <2>1, DoneBefore DEF Compiled, Fresh, Remake
  <2>3. ~Touch("target_installed")
    BY <2>1 DEF At, Touch
  <2>4. QED
    BY <1>2, <2>1, <2>2, <2>3 DEF InstalledRight, BuiltRight, Same
<1>8. CASE BeginTarget
  <2>1. /\ UNCHANGED <<built, staging, broken, stampVars>> /\ pc' = "recipe"
        /\ target'.v = target.v /\ target'.patches = target.patches
        /\ Remake("target_installed")
    BY <1>1, <1>8 DEF BeginTarget, Run, treeVars, Tree
  <2>2. ~AllInTarget'
    BY <1>2, <2>1 DEF Touch, AllInTarget, Fresh
  <2>3. QED
    BY <1>2, <2>1, <2>2 DEF InstalledRight, Same, Touch
<1>9. CASE FinishTarget
  <2>1. /\ Touch("target_installed") /\ UNCHANGED <<built, staging, broken>>
        /\ target' = built /\ pc = "recipe" /\ At("target_installed")
    BY <1>9 DEF FinishTarget, treeVars, Touch
  <2>2. Compiled
    BY <1>1, <2>1, DoneBefore DEF Compiled, Fresh, Remake
  <2>3. ~Touch("staging_installed")
    BY <2>1 DEF At, Touch
  <2>4. QED
    BY <1>2, <2>1, <2>2, <2>3 DEF InstalledRight, BuiltRight, Same
<1>10. CASE RemoveAll
  BY <1>10 DEF RemoveAll, InstalledRight, InStaging, InTarget, AllInTarget
<1>11. CASE StopDirclean
  <2>1. /\ broken' /\ built'.v = built.v /\ built'.patches = built.patches
        /\ UNCHANGED <<staging, target>> /\ pc' = "none"
    BY <1>1, <1>11 DEF StopDirclean, installVars, End, Tree
  <2>2. QED
    BY <1>2, <2>1 DEF InstalledRight, Same, Touch
<1>12. QED
  BY <1>3, <1>4, <1>5, <1>6, <1>7, <1>8, <1>9, <1>10, <1>11, InstallSteps

(* These are the only steps that change sources, what is wanted and how    *)
(* old the compiled sources are.                                           *)
LEMMA WantedSteps ==
  ASSUME Where, [Next]_vars
  PROVE  \/ EditSource \/ EditTree \/ Start \/ Remove \/ Removed
         \/ BeginExtract \/ FinishExtract \/ FinishRsync \/ FinishBuild \/ RemoveAll
         \/ UNCHANGED vars
         \/ /\ UNCHANGED <<src, wanted>> /\ tree'.v = tree.v /\ built'.v = built.v
            /\ pc' # "clean" /\ (pc' = "recipe" => ~At("extracted")')
            /\ ~Touch("built") /\ ~Touch("rsynced")
<1>1. /\ Chain' = Chain /\ Place' = Place
      /\ built \in Tree /\ tree \in Tree /\ Patching
  BY NextKeepsBuild, SameBuild DEF Where, Typed
<1>2. CASE \/ Dirclean \/ StopDirclean \/ Stop \/ Fail \/ Duplicate \/ Done \/ Skip
  BY <1>1, <1>2
     DEF Dirclean, StopDirclean, Stop, Fail, Duplicate, Done, Skip, End, Touch,
         userVars, treeVars, Tree
<1>3. CASE \/ BeginDownload \/ BeginRsync \/ BeginPatch \/ BeginConfigure
           \/ BeginBuild \/ BeginStaging \/ BeginTarget \/ BeginInstalled
  <2>1. /\ UNCHANGED <<src, wanted>> /\ pc' = "recipe"
        /\ tree'.v = tree.v /\ built'.v = built.v
    BY <1>1, <1>3
       DEF BeginDownload, BeginRsync, BeginPatch, BeginConfigure, BeginBuild,
           BeginStaging, BeginTarget, BeginInstalled, Run, userVars, treeVars, Tree
  <2>2. ~At("extracted")'
    BY <1>1, <1>3
       DEF BeginDownload, BeginRsync, BeginPatch, BeginConfigure, BeginBuild,
           BeginStaging, BeginTarget, BeginInstalled, Run, At
  <2>3. QED
    BY <2>1, <2>2 DEF Touch
<1>4. CASE \/ FinishDownload \/ FinishPatch \/ FinishConfigure \/ FinishStaging
           \/ FinishTarget \/ FinishInstalled
  <2>1. /\ UNCHANGED <<src, wanted>> /\ pc' = "walk"
        /\ tree'.v = tree.v /\ built'.v = built.v
    BY <1>4
       DEF FinishDownload, FinishPatch, FinishConfigure, FinishStaging, FinishTarget,
           FinishInstalled, Touch, userVars, treeVars
  <2>2. ~Touch("built") /\ ~Touch("rsynced")
    BY <1>4
       DEF FinishDownload, FinishPatch, FinishConfigure, FinishStaging, FinishTarget,
           FinishInstalled, Touch, At
  <2>3. QED
    BY <2>1, <2>2
<1>5. CASE ListPatch \/ ApplyPatch
  <2>1. /\ UNCHANGED <<src, wanted>> /\ pc' \in {"applying", "recipe"}
        /\ tree'.v = tree.v /\ built'.v = built.v
        /\ At("patched") /\ pos' = pos
    BY <1>1, <1>5 DEF ListPatch, ApplyPatch, userVars, Patching, Tree
  <2>2. ~At("extracted")'
    BY <1>1, <2>1 DEF At
  <2>3. QED
    BY <2>1, <2>2 DEF Touch
<1>6. QED
  BY <1>2, <1>3, <1>4, <1>5 DEF Next, Progress, Recipe

(* What -rebuild was asked for is not lost on the way.                     *)
LEMMA NextWantedComes ==
  ASSUME Where, Where', TreePatched, TreeSynced, WantedComes, [Next]_vars
  PROVE  WantedComes'
<1>1. /\ Typed /\ Walked /\ Clock /\ tree \in Tree
      /\ wanted \in Nat /\ asked \in Nat /\ src.v \in Nat /\ src.t \in Nat
      /\ tree.v \in Nat /\ tree.t \in Nat /\ built.v \in Nat /\ now \in Nat
  <2>1. Typed /\ Walked /\ Clock
    BY DEF Where
  <2>2. Version \subseteq Nat /\ now \in Nat
    BY <2>1, Bounds DEF Typed, Version
  <2>3. tree \in Tree /\ built \in Tree /\ src \in [v : Version, t : Version]
    BY <2>1 DEF Typed
  <2>4. wanted \in Nat /\ asked \in Nat
    BY <2>1, <2>2 DEF Typed
  <2>5. QED
    BY <2>1, <2>2, <2>3, <2>4 DEF Tree
<1>2. Override' = Override /\ Chain' = Chain /\ Place' = Place
  BY NextKeepsBuild, SameBuild
<1>3. /\ "built" \in stamps' => "built" \in stamps \/ Touch("built")
      /\ "rsynced" \in stamps' => "rsynced" \in stamps \/ Touch("rsynced")
  BY Taken
<1>4. CASE EditSource
  <2>1. /\ src'.v = now + 1 /\ UNCHANGED <<wanted, tree, built, stamps, pc>>
        /\ pc = "none"
    BY <1>4 DEF EditSource, treeVars, stampVars, makeVars
  <2>2. src.v <= src'.v
    BY <1>1, <2>1 DEF Clock, Dated
  <2>3. wanted' <= Sources'
    BY <1>1, <1>2, <2>1, <2>2 DEF WantedComes, Sources
  <2>4. QED
    BY <1>2, <2>1, <2>3 DEF WantedComes
<1>5. CASE EditTree
  <2>1. /\ tree'.v = now + 1 /\ UNCHANGED <<wanted, src, built, stamps, pc>>
        /\ pc = "none"
    BY <1>1, <1>5 DEF EditTree, stampVars, makeVars, Tree
  <2>2. tree.v <= tree'.v
    BY <1>1, <2>1 DEF Clock, Dated
  <2>3. wanted' <= Sources'
    BY <1>1, <1>2, <2>1, <2>2 DEF WantedComes, Sources
  <2>4. ~Override \/ "rsynced" \in stamps => wanted' <= tree'.v
    BY <1>1, <2>1, <2>2 DEF WantedComes
  <2>5. QED
    BY <1>2, <2>1, <2>3, <2>4 DEF WantedComes
<1>6. CASE Start
  <2>1. UNCHANGED <<wanted, src, tree, built, stamps>> /\ pc = "none"
    BY <1>6 DEF Start, Make, MakeClean, userVars, treeVars, stampVars
  <2>2. /\ pc' \in {"walk", "clean"}
        /\ pc' = "clean" =>
             \/ todo' = CleanForReinstall /\ asked' = 0
             \/ todo' = CleanForRebuild /\ asked' = Sources
             \/ todo' = CleanForReconfigure /\ asked' = Sources
    BY <1>6 DEF Start, Make, MakeClean
  <2>3. Sources' = Sources /\ Sources \in Nat
    BY <1>1, <1>2, <2>1 DEF Sources
  <2>4. ASSUME pc' = "clean"
        PROVE  /\ asked' <= Sources'
               /\ Override => todo' # <<>> /\ Head(todo') = "rsynced"
               /\ asked' \in {0, wanted'} \/ \E i \in DOMAIN todo' : todo'[i] = "built"
    <3>1. asked' \in {0, Sources}
      BY <2>2, <2>4
    <3>2. asked' <= Sources'
      BY <2>3, <3>1
    <3>3. Override => todo' # <<>> /\ Head(todo') = "rsynced"
      BY <1>1, <2>2, <2>4, WhatIsCleaned
    <3>4. asked' \in {0, wanted'} \/ \E i \in DOMAIN todo' : todo'[i] = "built"
      BY <1>1, <2>2, <2>4, WhatIsCleaned
    <3>5. QED
      BY <3>2, <3>3, <3>4
  <2>5. QED
    BY <1>2, <2>1, <2>2, <2>3, <2>4 DEF WantedComes
<1>7. CASE Remove
  <2>1. /\ pc = "clean" /\ pc' = "clean" /\ todo # <<>> /\ todo' = Tail(todo)
        /\ stamps' = stamps \ {Head(todo)} /\ UNCHANGED <<src, tree, built, asked>>
        /\ wanted' = IF Head(todo) = "built" THEN asked ELSE wanted
    BY <1>7 DEF Remove, treeVars
  <2>2. /\ asked <= Sources /\ wanted <= Sources /\ Sources' = Sources
    BY <1>2, <2>1 DEF WantedComes, Sources
  <2>3. wanted' <= Sources' /\ asked' <= Sources'
    BY <2>1, <2>2
  <2>4. Override => "rsynced" \notin stamps'
    BY <2>1 DEF WantedComes
  <2>5. Override \/ wanted' <= tree'.v
    BY <1>2, <2>3 DEF Sources
  <2>6. "built" \in stamps' => wanted' <= built'.v
    BY <2>1 DEF WantedComes
  <2>7. asked' \in {0, wanted'} \/ \E i \in DOMAIN todo' : todo'[i] = "built"
    <3>1. CASE Head(todo) = "built"
      BY <2>1, <3>1
    <3>2. CASE asked \in {0, wanted} /\ Head(todo) # "built"
      BY <2>1, <3>2
    <3>3. ASSUME NEW i \in DOMAIN todo, todo[i] = "built", Head(todo) # "built"
          PROVE  \E j \in DOMAIN todo' : todo'[j] = "built"
      <4>1. todo \in Seq(Step)
        BY <1>1 DEF Typed
      <4>2. /\ Tail(todo) \in Seq(Step) /\ Len(Tail(todo)) = Len(todo) - 1
            /\ \A j \in 1..Len(Tail(todo)) : Tail(todo)[j] = todo[j + 1]
        BY <2>1, <4>1, HeadTailProperties
      <4>3. Head(todo) = todo[1]
        BY <2>1, <4>1
      <4>4. i \in 2..Len(todo) /\ Len(todo) \in Nat
        BY <3>3, <4>1, <4>3
      <4>5. i - 1 \in 1..Len(Tail(todo)) /\ (i - 1) + 1 = i
        BY <4>2, <4>4
      <4>6. Tail(todo)[i - 1] = "built"
        BY <3>3, <4>2, <4>5
      <4>7. i - 1 \in DOMAIN Tail(todo)
        BY <4>2, <4>5, LenProperties
      <4>8. QED
        BY <2>1, <4>6, <4>7
    <3>4. QED
      BY <2>1, <3>1, <3>2, <3>3 DEF WantedComes
  <2>8. QED
    BY <1>2, <2>1, <2>3, <2>4, <2>5, <2>6, <2>7 DEF WantedComes
<1>8. CASE Removed
  <2>1. /\ pc = "clean" /\ pc' = "walk" /\ todo = <<>>
        /\ UNCHANGED <<src, tree, built, stamps>>
        /\ wanted' = IF asked = 0 THEN wanted ELSE asked
    BY <1>8 DEF Removed, stampVars, treeVars
  <2>2. ~(\E i \in DOMAIN todo : todo[i] = "built")
    BY <2>1
  <2>3. wanted' = wanted /\ Sources' = Sources
    BY <1>2, <2>1, <2>2 DEF WantedComes, Sources
  <2>4. QED
    BY <1>2, <2>1, <2>3 DEF WantedComes
<1>9. CASE BeginExtract
  <2>1. /\ wanted' = 0 /\ pc' = "recipe" /\ UNCHANGED <<src, built>>
        /\ tree'.v = tree.v
    BY <1>1, <1>9 DEF BeginExtract, Run, Tree
  <2>2. wanted' <= Sources' /\ wanted' <= tree'.v /\ wanted' <= built'.v
    BY <1>1, <2>1 DEF Sources
  <2>3. QED
    BY <2>1, <2>2 DEF WantedComes
<1>10. CASE FinishExtract
  <2>1. /\ pc = "recipe" /\ At("extracted") /\ pc' = "walk" /\ tree'.v = 1
        /\ UNCHANGED <<src, built, wanted>>
    BY <1>10 DEF FinishExtract, Touch, userVars, Pristine
  <2>2. wanted' = 0
    BY <2>1 DEF WantedComes
  <2>3. wanted' <= Sources' /\ wanted' <= tree'.v /\ wanted' <= built'.v
    BY <1>1, <2>1, <2>2 DEF Sources
  <2>4. QED
    BY <2>1, <2>3 DEF WantedComes
<1>11. CASE FinishRsync
  <2>1. /\ Touch("rsynced") /\ At("rsynced") /\ pc = "recipe" /\ pc' = "walk"
        /\ UNCHANGED <<src, built, wanted>>
        /\ tree'.v = IF src.t > tree.t THEN src.v ELSE tree.v
    BY <1>1, <1>11 DEF FinishRsync, Touch, userVars, treeVars, Tree
  <2>2. Override
    BY <1>1, <2>1, DoneBefore
  <2>3. wanted <= src.v
    BY <2>2 DEF WantedComes, Sources
  <2>4. src.v <= tree'.v
    BY <1>1, <2>1 DEF Clock, Dated
  <2>5. wanted' <= Sources' /\ wanted' <= tree'.v
    BY <1>1, <1>2, <2>1, <2>2, <2>3, <2>4 DEF Sources
  <2>6. "built" \in stamps' => "built" \in stamps
    BY <2>1 DEF Touch
  <2>7. QED
    BY <2>1, <2>5, <2>6 DEF WantedComes
<1>12. CASE FinishBuild
  <2>1. /\ Touch("built") /\ At("built") /\ pc = "recipe" /\ pc' = "walk"
        /\ UNCHANGED <<src, tree, wanted>> /\ built' = tree
    BY <1>12 DEF FinishBuild, Touch, userVars
  <2>2. wanted <= tree.v
    BY <2>1, SourcesAtBuild DEF WantedComes
  <2>3. wanted' <= Sources'
    BY <1>2, <2>1 DEF WantedComes, Sources
  <2>4. QED
    BY <2>1, <2>2, <2>3 DEF WantedComes
<1>13. CASE RemoveAll
  <2>1. /\ pc' = "none" /\ stamps' = {} /\ tree'.v = 0 /\ src' = src
        /\ wanted' = IF Override THEN wanted ELSE 0
    BY <1>13 DEF RemoveAll, End, NoTree
  <2>2. wanted' <= Sources'
    BY <1>2, <2>1 DEF WantedComes, Sources
  <2>3. Override \/ wanted' <= tree'.v
    BY <2>1
  <2>4. QED
    BY <1>2, <2>1, <2>2, <2>3 DEF WantedComes
<1>14. CASE UNCHANGED vars
  <2>1. UNCHANGED <<wanted, src, tree, built, stamps, pc, pos, asked, todo>>
    BY <1>14 DEF vars, userVars, treeVars, stampVars, makeVars
  <2>2. Sources' = Sources
    BY <1>2, <2>1 DEF Sources
  <2>3. QED
    BY <1>2, <2>1, <2>2 DEF WantedComes, At
<1>15. CASE /\ UNCHANGED <<src, wanted>> /\ tree'.v = tree.v /\ built'.v = built.v
            /\ pc' # "clean" /\ (pc' = "recipe" => ~At("extracted")')
            /\ ~Touch("built") /\ ~Touch("rsynced")
  <2>1. Sources' = Sources
    BY <1>2, <1>15 DEF Sources
  <2>2. QED
    BY <1>2, <1>3, <1>15, <2>1 DEF WantedComes
<1>16. QED
  BY <1>4, <1>5, <1>6, <1>7, <1>8, <1>9, <1>10, <1>11, <1>12, <1>13, <1>14, <1>15,
     WantedSteps

-----------------------------------------------------------------------------
(* The theorems                                                            *)

LEMMA InitIInv == Init => IInv
<1>1. SUFFICES ASSUME Init
               PROVE  Worth
  BY InitWhere DEF IInv
<1>2. /\ stamps = {} /\ pc = "none" /\ wanted = 0 /\ tree.v = 0 /\ src.v = 1
  BY <1>1 DEF Init, NoTree
<1>3. ~Unpacked /\ ~PatchedUp /\ ~Compiled /\ ~InStaging /\ ~InTarget /\ ~AllInTarget
  BY <1>2 DEF Unpacked, PatchedUp, Compiled, InStaging, InTarget, AllInTarget
<1>4. TreePatched /\ TreeSynced /\ BuiltRight /\ InstalledRight
  BY <1>2, <1>3 DEF TreePatched, TreeSynced, BuiltRight, InstalledRight
<1>5. WantedComes
  BY <1>2 DEF WantedComes, Sources
<1>6. QED
  BY <1>4, <1>5 DEF Worth

LEMMA NextIInv == IInv /\ [Next]_vars => IInv'
<1>1. SUFFICES ASSUME IInv, [Next]_vars
               PROVE  IInv'
  OBVIOUS
<1>2. Where /\ TreePatched /\ TreeSynced /\ BuiltRight /\ InstalledRight /\ WantedComes
  BY <1>1 DEF IInv, Worth
<1>3. Where'
  BY <1>1, <1>2, NextWhere
<1>4. TreePatched' /\ TreeSynced'
  BY <1>1, <1>2, <1>3, NextTreePatched, NextTreeSynced
<1>5. BuiltRight' /\ InstalledRight'
  BY <1>1, <1>2, <1>3, NextBuiltRight, NextInstalledRight
<1>6. WantedComes'
  BY <1>1, <1>2, <1>3, NextWantedComes
<1>7. QED
  BY <1>3, <1>4, <1>5, <1>6 DEF IInv, Worth

(* What each stamp is worth, and where make is (pkg-generic.mk), holds     *)
(* whatever the user edits and asks for and wherever make stops.           *)
THEOREM Invariance == Spec => []IInv
<1>1. Spec => Init /\ [][Next]_vars
  BY PTL DEF Spec, Safe
<1>2. QED
  BY <1>1, InitIInv, NextIInv, PTL

(* When make has nothing to do, all stamps of the package are there and    *)
(* none is older than one that it depends on.                              *)
LEMMA NothingToDo ==
  ASSUME Typed, UpToDate
  PROVE  /\ InStaging /\ InTarget /\ AllInTarget /\ "built" \in stamps
         /\ Override \/ (Unpacked /\ PatchedUp)
         /\ Override => "rsynced" \in stamps
<1>1. \A s \in Step : Fresh(s)
  BY DEF UpToDate, Fresh
<1>2. /\ Fresh("built") /\ Fresh("staging_installed") /\ Fresh("target_installed")
      /\ Fresh("configured")
  BY <1>1, Steps
<1>3. /\ Override => Fresh("rsynced")
      /\ Override \/ (Fresh("downloaded") /\ Fresh("extracted") /\ Fresh("patched"))
  BY <1>1, Steps
<1>4. \A s : Fresh(s) => s \in stamps
  BY DEF Fresh, Remake
<1>5. <<"built", "target_installed">> \notin newer
  BY <1>2, Dependencies DEF Fresh, Remake
<1>6. InStaging /\ InTarget /\ AllInTarget
  BY <1>2, <1>4, <1>5 DEF InStaging, InTarget, AllInTarget
<1>7. Override \/ (Unpacked /\ PatchedUp)
  BY <1>3, <1>4 DEF Unpacked, PatchedUp
<1>8. QED
  BY <1>2, <1>3, <1>4, <1>6, <1>7

(* The invariant has the properties that the runs check.                   *)
LEMMA IInvDelivers == IInv => Delivered
<1>1. SUFFICES ASSUME IInv, UpToDate
               PROVE  /\ Same(target, built) /\ Same(staging, built)
                      /\ built.patches = NPatches
                      /\ broken \/ (target.whole /\ staging.whole)
  BY DEF Delivered
<1>2. Typed /\ BuiltRight /\ InstalledRight
  BY <1>1 DEF IInv, Where, Worth
<1>3. InStaging /\ InTarget /\ AllInTarget /\ "built" \in stamps
  BY <1>1, <1>2, NothingToDo
<1>4. QED
  BY <1>2, <1>3 DEF BuiltRight, InstalledRight

LEMMA IInvBuilds == IInv => BuildRight
<1>1. SUFFICES ASSUME IInv
               PROVE  BuildRight
  OBVIOUS
<1>2. /\ Where /\ Typed /\ TreePatched /\ TreeSynced /\ InstalledRight
      /\ WantedComes
  BY <1>1 DEF IInv, Where, Worth
<1>3. TypeOK
  BY <1>2, TypedIsTypeOK
<1>4. BuildsPatched
  BY <1>2, SourcesAtBuild DEF BuildsPatched
<1>5. Rebuilt
  <2>1. SUFFICES ASSUME UpToDate
                 PROVE  target.v >= wanted
    BY DEF Rebuilt
  <2>2. InTarget /\ "built" \in stamps
    BY <1>2, <2>1, NothingToDo
  <2>3. target.v = built.v /\ wanted <= built.v
    BY <1>2, <2>2 DEF InstalledRight, Same, WantedComes
  <2>4. wanted \in Int /\ built.v \in Int
    BY <1>2, Bounds DEF Typed, Tree, Version
  <2>5. QED
    BY <2>3, <2>4
<1>6. QED
  BY <1>3, <1>4, <1>5 DEF BuildRight

(* Type correctness.                                                       *)
THEOREM TypeCorrect == Spec => []TypeOK
<1>1. IInv => TypeOK
  BY TypedIsTypeOK DEF IInv, Where
<1>2. QED
  BY <1>1, Invariance, PTL

(* The compiler never sees sources with a patch missing, half applied or   *)
(* applied twice (apply-patches.sh), and once -rebuild has removed the     *)
(* stamp of the build, make is not up to date before TARGET_DIR holds the  *)
(* sources it was asked for.                                               *)
THEOREM BuildsAreRight == Spec => []BuildRight
BY IInvBuilds, Invariance, PTL

(* Whatever was interrupted, failed, removed or edited before: when make   *)
(* has nothing left to do, STAGING_DIR and TARGET_DIR hold what was last   *)
(* compiled, with all patches, and all of it.                              *)
THEOREM AllIsDelivered == Spec => []Delivered
BY IInvDelivers, Invariance, PTL
=============================================================================
