------------------------------ MODULE PkgSteps ------------------------------
(***************************************************************************)
(* The build of one target package, step by step: the stamp files of       *)
(* package/pkg-generic.mk and the order GNU make gives their recipes,      *)
(* <pkg>-reinstall, -rebuild, -reconfigure and -dirclean, the patch loop   *)
(* of support/scripts/apply-patches.sh, and the lists of installed files.  *)
(*                                                                         *)
(* The package installs to staging and to target.  Its sources come from   *)
(* an archive, or from the user's directory <PKG>_OVERRIDE_SRCDIR.  make   *)
(* runs one recipe at a time (.NOTPARALLEL, Makefile:239-244), may stop    *)
(* anywhere, and is started again by the user; sources are edited while it *)
(* does not run.                                                           *)
(***************************************************************************)
EXTENDS Integers, Sequences, FiniteSets

CONSTANT Builds   \* the packages, and what may happen to them: see Build

(***************************************************************************)
(* A package and the bounds it is checked with.  Of the events, "stop" is  *)
(* that make stops anywhere, "rm" that a dirclean stops half-way.          *)
(***************************************************************************)
Build ==
  [override : BOOLEAN,             \* <PKG>_OVERRIDE_SRCDIR is set
   patches : Nat,                  \* how many patches the package has
   archOK : BOOLEAN,               \* its binaries are for the target
   events : SUBSET {"stop", "rm"}, \* what else may happen
   edits : Nat,                    \* bound on the edits
   stops : Nat]                    \* bound on the stops and failing commands

ASSUME BuildsAssumption ==
  /\ Builds \subseteq Build
  /\ \A b \in Builds : b.override => b.patches = 0

VARIABLES
  build,    \* the package, which does not change
  stamps,   \* the .stamp_<step> files that exist
  newer,    \* the pairs <<p, s>> of them where s depends on p, and is older
  src,      \* SRCDIR: what it holds and its modification time
  tree,     \* the sources in $(@D)
  listed,   \* how many patches .applied_patches_list names
  built,    \* what was compiled in $(@D)
  staging,  \* what was installed to STAGING_DIR
  target,   \* what was installed to TARGET_DIR
  before,   \* .files-list.before exists
  fresh,    \* the package installed to TARGET_DIR since it was made
  list,     \* .files-list.txt names the files of the package
  pc,       \* what make is doing, "none" when it does not run
  todo,     \* the stamps that <pkg>-clean-for-* still has to remove
  pos,      \* the step make considers, an index of Chain
  last,     \* the step it was asked for
  patch,    \* the patch that apply-patches.sh is at
  wanted,   \* the sources that the last -rebuild was asked to build
  asked,    \* the same of the one that is running, 0 if it is none
  broken,   \* a -dirclean was stopped half-way
  now,      \* the time, counted in edits
  stops     \* the stops so far

makeVars == <<pc, todo, pos, last, patch, asked>>
treeVars == <<tree, listed, built, broken>>
fileVars == <<before, fresh, list>>
installVars == <<staging, target>>
userVars == <<build, src, now, wanted, stops>>
stampVars == <<stamps, newer>>
vars == <<stampVars, userVars, treeVars, fileVars, installVars, makeVars>>

Override == build.override
NPatches == build.patches
ArchOK == build.archOK
Events == build.events
MaxEdits == build.edits
MaxStops == build.stops

(***************************************************************************)
(* Sources.  v tells contents apart and grows with every edit; 1 is what   *)
(* the archive and SRCDIR hold at first.  t is the modification time.      *)
(***************************************************************************)
NoTree == [v |-> 0, t |-> 0, patches |-> 0, whole |-> FALSE]
Pristine == [v |-> 1, t |-> 2, patches |-> 0, whole |-> TRUE]
Version == 0..(MaxEdits + 2)
Tree == [v : Version, t : Version, patches : 0..NPatches, whole : BOOLEAN]

(***************************************************************************)
(* The steps, in the order make considers them, and their prerequisites.   *)
(***************************************************************************)
Chain ==
  (IF Override THEN <<"rsynced">> ELSE <<"downloaded", "extracted", "patched">>)
    \o <<"configured", "built", "staging_installed", "target_installed",
         "installed">>
Place == 1..Len(Chain)
Step == {Chain[i] : i \in Place}

Prerequisites(s) ==
  CASE s = "installed" -> {"built", "target_installed", "staging_installed"}
    [] s = "target_installed" -> {"built", "staging_installed"}
    [] s = "staging_installed" -> {"built"}
    [] s = "built" -> {"configured"}
    [] s = "configured" -> IF Override THEN {} ELSE {"patched"}
    [] s = "patched" -> {"extracted"}
    [] s = "extracted" -> {"downloaded"}
    [] OTHER -> {}

\* Mutants: existence alone decides; the dependencies of configure, which are
\* phony and always newer, are no order-only prerequisites.
RemakeMissing(s) == s \notin stamps
RemakePhony(s) == s = "configured" \/ s \notin stamps

\* make runs the recipe of s: its stamp is missing or older than one that it
\* depends on.  The stamps before it in Chain are up to date at that point.
Remake(s) == s \notin stamps \/ \E p \in Prerequisites(s) : <<p, s>> \in newer

\* make has nothing to do for the package.
UpToDate == \A s \in Step : ~Remake(s)

TypeOK ==
  /\ build \in Builds
  /\ stamps \subseteq Step
  /\ newer \subseteq stamps \X stamps
  /\ src \in [v : Version, t : Version]
  /\ {tree, built, staging, target} \subseteq Tree
  /\ listed \in 0..NPatches
  /\ {before, fresh, list, broken} \subseteq BOOLEAN
  /\ pc \in {"none", "clean", "walk", "recipe", "applying", "dirclean"}
  /\ todo \in Seq(Step)
  /\ pos \in 1..(Len(Chain) + 1) /\ last \in Place
  /\ patch \in 1..(NPatches + 1)
  /\ {wanted, asked} \subseteq Version
  /\ now \in 2..(MaxEdits + 2)
  /\ stops \in 0..MaxStops

Init ==
  /\ build \in Builds
  /\ stamps = {} /\ newer = {}
  /\ src = [v |-> 1, t |-> 2]
  /\ tree = NoTree /\ built = NoTree /\ staging = NoTree /\ target = NoTree
  /\ listed = 0
  /\ before = FALSE /\ fresh = FALSE /\ list = FALSE
  /\ pc = "none" /\ todo = <<>> /\ pos = 1 /\ last = 1 /\ patch = 1
  /\ wanted = 0 /\ asked = 0
  /\ broken = FALSE
  /\ now = 2 /\ stops = 0

(***************************************************************************)
(* The user, while make does not run.                                      *)
(***************************************************************************)
EditSource ==
  /\ Override /\ pc = "none" /\ now < MaxEdits + 2
  /\ now' = now + 1
  /\ src' = [v |-> now + 1, t |-> now + 1]
  /\ UNCHANGED <<build, wanted, stops, stampVars, treeVars, fileVars, installVars,
                 makeVars>>

\* "or when you modified a file directly in the build directory".
EditTree ==
  /\ pc = "none" /\ tree.v # 0 /\ now < MaxEdits + 2
  /\ now' = now + 1
  /\ tree' = [tree EXCEPT !.v = now + 1, !.t = now + 1]
  /\ UNCHANGED <<build, src, wanted, stops, stampVars, listed, built, broken, fileVars,
                 installVars, makeVars>>

CleanForReinstall ==
  (IF Override THEN <<"rsynced">> ELSE <<>>)
    \o <<"installed", "staging_installed", "target_installed">>

\* Mutant: -rebuild forgets the stamp of the build.
CleanForRebuildKeeps == CleanForReinstall

CleanForRebuild == CleanForReinstall \o <<"built">>
CleanForReconfigure == CleanForRebuild \o <<"configured">>

\* What the user expects -rebuild and -reconfigure to build.
Sources == IF Override THEN src.v ELSE tree.v

Make(goal) ==
  /\ pc = "none"
  /\ pc' = "walk" /\ pos' = 1 /\ last' = goal
  /\ UNCHANGED <<todo, patch, asked, stampVars, userVars, treeVars, fileVars,
                 installVars>>

MakeClean(removed, sources) ==
  /\ pc = "none"
  /\ pc' = "clean" /\ todo' = removed /\ pos' = 1 /\ last' = Len(Chain)
  /\ asked' = sources
  /\ UNCHANGED <<patch, stampVars, userVars, treeVars, fileVars, installVars>>

Start ==
  \/ \E goal \in Place : Make(goal)
  \/ MakeClean(CleanForReinstall, 0)
  \/ MakeClean(CleanForRebuild, Sources)
  \/ MakeClean(CleanForReconfigure, Sources)

\* The next rm -f of <pkg>-clean-for-*.  From the one that removes the stamp
\* of the build on, the rebuild will happen even if make stops here.
Remove ==
  /\ pc = "clean" /\ todo # <<>>
  /\ todo' = Tail(todo)
  /\ stamps' = stamps \ {Head(todo)}
  /\ newer' = newer \cap (stamps' \X stamps')
  /\ wanted' = IF Head(todo) = "built" THEN asked ELSE wanted
  /\ UNCHANGED <<build, src, now, stops, treeVars, fileVars, installVars, pc, pos,
                 last, patch, asked>>

Removed ==
  /\ pc = "clean" /\ todo = <<>>
  /\ pc' = "walk"
  /\ wanted' = IF asked = 0 THEN wanted ELSE asked
  /\ UNCHANGED <<todo, pos, last, patch, asked, stampVars, build, src, now, stops,
                 treeVars, fileVars, installVars>>

(***************************************************************************)
(* The recipes.  Begin is a recipe up to the point where it may leave      *)
(* something behind, Finish the rest of it and the touch of its stamp.     *)
(***************************************************************************)
At(s) == pos \in Place /\ Chain[pos] = s

\* make ends.
End ==
  pc' = "none" /\ todo' = <<>> /\ pos' = 1 /\ last' = 1 /\ patch' = 1 /\ asked' = 0

\* What was asked for is up to date.
Done ==
  /\ pc = "walk" /\ pos > last
  /\ End
  /\ UNCHANGED <<stampVars, userVars, treeVars, fileVars, installVars>>

Skip ==
  /\ pc = "walk" /\ pos <= last /\ ~Remake(Chain[pos])
  /\ pos' = pos + 1
  /\ UNCHANGED <<pc, todo, last, patch, asked, stampVars, userVars, treeVars,
                 fileVars, installVars>>

Run(s) ==
  /\ pc = "walk" /\ pos <= last /\ At(s) /\ Remake(s)
  /\ pc' = "recipe"
  /\ UNCHANGED <<todo, pos, last, asked, stampVars>>

Touch(s) ==
  /\ pc = "recipe" /\ At(s)
  /\ pc' = "walk" /\ pos' = pos + 1
  /\ stamps' = stamps \cup {s}
  /\ newer' = (newer \ {<<p, s>> : p \in stamps})
                \cup {<<s, d>> : d \in {d \in stamps : s \in Prerequisites(d)}}
  /\ UNCHANGED <<todo, last, asked>>

BeginDownload ==
  /\ Run("downloaded")
  /\ UNCHANGED <<patch, userVars, treeVars, fileVars, installVars>>

FinishDownload ==
  /\ Touch("downloaded")
  /\ UNCHANGED <<patch, userVars, treeVars, fileVars, installVars>>

\* The archive is unpacked over whatever $(@D) holds; edits are lost, and
\* .applied_patches_list is not in the archive.
BeginExtract ==
  /\ Run("extracted")
  /\ tree' = [tree EXCEPT !.whole = FALSE]
  /\ wanted' = 0
  /\ UNCHANGED <<build, patch, src, now, stops, listed, built, broken, fileVars,
                 installVars>>

FinishExtract ==
  /\ Touch("extracted")
  /\ tree' = Pristine
  /\ UNCHANGED <<patch, userVars, listed, built, broken, fileVars, installVars>>

\* rsync -au: a file that is newer in $(@D) stays.
BeginRsync ==
  /\ Run("rsynced")
  /\ tree' = [tree EXCEPT !.whole = @ /\ src.t <= tree.t]
  /\ UNCHANGED <<patch, userVars, listed, built, broken, fileVars, installVars>>

FinishRsync ==
  /\ Touch("rsynced")
  /\ tree' = IF src.t > tree.t
             THEN [v |-> src.v, t |-> src.t, patches |-> 0, whole |-> TRUE]
             ELSE [tree EXCEPT !.whole = TRUE]
  /\ UNCHANGED <<patch, userVars, listed, built, broken, fileVars, installVars>>

BeginPatch ==
  /\ Run("patched")
  /\ patch' = 1
  /\ UNCHANGED <<userVars, treeVars, fileVars, installVars>>

\* apply_patch: the name goes on the list before the patch is applied.
ListPatch ==
  /\ pc = "recipe" /\ At("patched") /\ patch <= NPatches
  /\ patch > listed
  /\ listed' = patch
  /\ pc' = "applying"
  /\ UNCHANGED <<todo, pos, last, patch, asked, stampVars, userVars, tree,
                 built, broken, fileVars, installVars>>

\* A name that is on the list already: apply-patches.sh exits 1.
Duplicate ==
  /\ pc = "recipe" /\ At("patched") /\ patch <= NPatches
  /\ patch <= listed
  /\ End
  /\ UNCHANGED <<stampVars, userVars, treeVars, fileVars, installVars>>

\* The patch applies to the sources it was made for, and to no others.
ApplyPatch ==
  /\ pc = "applying"
  /\ tree.patches = patch - 1
  /\ tree' = [tree EXCEPT !.patches = patch]
  /\ patch' = patch + 1
  /\ pc' = "recipe"
  /\ UNCHANGED <<todo, pos, last, asked, stampVars, userVars, listed, built,
                 broken, fileVars, installVars>>

FinishPatch ==
  /\ patch > NPatches
  /\ Touch("patched")
  /\ UNCHANGED <<patch, userVars, treeVars, fileVars, installVars>>

\* pkg_size_before takes the list of what TARGET_DIR holds.
BeginConfigure ==
  /\ Run("configured")
  /\ before' = TRUE /\ fresh' = FALSE
  /\ UNCHANGED <<patch, userVars, treeVars, list, installVars>>

FinishConfigure ==
  /\ Touch("configured")
  /\ UNCHANGED <<patch, userVars, treeVars, fileVars, installVars>>

BeginBuild ==
  /\ Run("built")
  /\ built' = [built EXCEPT !.whole = FALSE]
  /\ UNCHANGED <<patch, userVars, tree, listed, broken, fileVars, installVars>>

FinishBuild ==
  /\ Touch("built")
  /\ built' = tree
  /\ UNCHANGED <<patch, userVars, tree, listed, broken, fileVars, installVars>>

BeginStaging ==
  /\ Run("staging_installed")
  /\ staging' = [staging EXCEPT !.whole = FALSE]
  /\ UNCHANGED <<patch, userVars, treeVars, fileVars, target>>

FinishStaging ==
  /\ Touch("staging_installed")
  /\ staging' = built
  /\ UNCHANGED <<patch, userVars, treeVars, fileVars, target>>

BeginTarget ==
  /\ Run("target_installed")
  /\ target' = [target EXCEPT !.whole = FALSE]
  /\ fresh' = TRUE
  /\ UNCHANGED <<patch, userVars, treeVars, before, list, staging>>

FinishTarget ==
  /\ Touch("target_installed")
  /\ target' = built
  /\ UNCHANGED <<patch, userVars, treeVars, fileVars, staging>>

\* pkg_size_after: "comm" prints nothing when the list before is missing, and
\* its failure is lost in the pipe.  Both lists are removed.
BeginInstalled ==
  /\ Run("installed")
  /\ list' = (before /\ fresh)
  /\ before' = FALSE
  /\ UNCHANGED <<patch, userVars, treeVars, fresh, installVars>>

\* check_bin_arch looks at the files that the list names.
FinishInstalled ==
  /\ list => ArchOK
  /\ Touch("installed")
  /\ UNCHANGED <<patch, userVars, treeVars, fileVars, installVars>>

(***************************************************************************)
(* <pkg>-dirclean removes $(@D), its entries in any order.                 *)
(***************************************************************************)
Dirclean ==
  /\ pc = "none"
  /\ pc' = "dirclean"
  /\ UNCHANGED <<todo, pos, last, patch, asked, stampVars, userVars, treeVars,
                 fileVars, installVars>>

RemoveAll ==
  /\ pc = "dirclean"
  /\ End
  /\ stamps' = {} /\ newer' = {}
  /\ tree' = NoTree /\ built' = NoTree /\ listed' = 0
  /\ before' = FALSE /\ list' = FALSE
  /\ wanted' = IF Override THEN wanted ELSE 0
  /\ broken' = FALSE
  /\ UNCHANGED <<build, src, now, stops, fresh, installVars>>

\* Interrupted: any of the entries may be left.
StopDirclean ==
  /\ pc = "dirclean" /\ "rm" \in Events /\ stops < MaxStops
  /\ End
  /\ stops' = stops + 1
  /\ stamps' \in SUBSET stamps
  /\ newer' = newer \cap (stamps' \X stamps')
  /\ tree' = [tree EXCEPT !.whole = FALSE]
  /\ built' = [built EXCEPT !.whole = FALSE]
  /\ listed' \in {listed, 0}
  /\ before' \in {before, FALSE} /\ list' \in {list, FALSE}
  /\ broken' = TRUE
  /\ UNCHANGED <<build, src, now, wanted, fresh, installVars>>

(***************************************************************************)
(* make stops: it is interrupted, or a command of a recipe fails.  A patch *)
(* that was being applied may be half applied.                             *)
(***************************************************************************)
Stop ==
  /\ "stop" \in Events /\ pc \notin {"none", "dirclean"} /\ stops < MaxStops
  /\ End
  /\ stops' = stops + 1
  /\ tree' \in IF pc = "applying"
               THEN {tree, [tree EXCEPT !.whole = FALSE]} ELSE {tree}
  /\ UNCHANGED <<stampVars, build, src, now, wanted, listed, built, broken, fileVars,
                 installVars>>

\* A command that has to fail: a patch that does not apply, and binaries for
\* another architecture.
Fail ==
  /\ \/ pc = "applying" /\ tree.patches # patch - 1
     \/ pc = "recipe" /\ At("installed") /\ list /\ ~ArchOK
  /\ End
  /\ UNCHANGED <<stampVars, userVars, treeVars, fileVars, installVars>>

Recipe ==
  \/ BeginDownload \/ FinishDownload \/ BeginExtract \/ FinishExtract
  \/ BeginRsync \/ FinishRsync
  \/ BeginPatch \/ ListPatch \/ Duplicate \/ ApplyPatch \/ FinishPatch
  \/ BeginConfigure \/ FinishConfigure \/ BeginBuild \/ FinishBuild
  \/ BeginStaging \/ FinishStaging \/ BeginTarget \/ FinishTarget
  \/ BeginInstalled \/ FinishInstalled

Progress ==
  Remove \/ Removed \/ Done \/ Skip \/ Recipe \/ Fail \/ RemoveAll

Next ==
  \/ EditSource \/ EditTree
  \/ Start \/ Dirclean \/ Progress \/ StopDirclean \/ Stop

Safe == Init /\ [][Next]_vars

\* make goes on until it ends, and the user runs it again and again.
Spec == Safe /\ WF_vars(Progress) /\ SF_vars(Make(Len(Chain)))

(***************************************************************************)
(* Properties.                                                             *)
(***************************************************************************)
Same(a, b) == a.v = b.v /\ a.patches = b.patches

\* When make has nothing left to do, STAGING_DIR and TARGET_DIR both hold what
\* was last compiled, from sources with every patch applied once, and all of
\* it, whatever was interrupted, failed or was removed before; only a dirclean
\* that was stopped half-way can take sources away unnoticed.
Delivered ==
  pc = "none" /\ UpToDate =>
    /\ Same(target, built) /\ Same(staging, built)
    /\ built.patches = NPatches
    /\ broken \/ (target.whole /\ staging.whole)

\* <pkg>-rebuild re-runs "the compilation commands"
\* (package-make-target.adoc:92): once its stamp of the build is removed, and
\* even if it is interrupted then and a plain make goes on instead, make has
\* something to do until TARGET_DIR holds the sources it was asked for.
Rebuilt == pc = "none" /\ UpToDate => target.v >= wanted

\* The compiler never sees sources with a patch missing, half applied or
\* applied twice: apply-patches.sh fails sooner (here: at each build).
BuildsPatched ==
  pc = "recipe" /\ At("built") /\ ~broken =>
    tree.whole /\ tree.patches = NPatches

\* The patch step can only fail from now on: the list names patches, and the
\* step has to run again.
Jammed ==
  listed # 0 /\ \E s \in {"downloaded", "extracted", "patched"} : Remake(s)

\* Interruptions are no obstacle: when make is run again and again it gets the
\* package installed, or to the one place where it cannot go on, an
\* interrupted patch step.  A package that installs binaries for another
\* architecture fails, as it should.
Recovers == ArchOK => []<>(pc = "none" /\ (UpToDate \/ Jammed))

\* What is compiled is right, and it is compiled again when it was asked for.
BuildRight == TypeOK /\ BuildsPatched /\ Rebuilt
=============================================================================
