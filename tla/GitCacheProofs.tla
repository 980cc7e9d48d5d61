--------------------------- MODULE GitCacheProofs ---------------------------
(***************************************************************************)
(* Proofs about GitCache, for any number of commits and of faults and any  *)
(* kinds of versions: the clone that all runs share never gets into an     *)
(* archive, and a run does not give up for nothing.                        *)
(***************************************************************************)
EXTENDS GitCache, TLAPS

(***************************************************************************)
(* The inductive invariant.  The script's places, from the last backwards, *)
(* say how much of its work is done; each part below is what one step      *)
(* leaves behind for those after it, whatever the clone held before.       *)
(***************************************************************************)
Substed == {"tar"}
Updated == Substed \cup {"subst"}
Cleaned == Updated \cup {"submodules"}
Switched == Cleaned \cup {"clean"}
LookedUp == Switched \cup {"deregister", "checkout", "checkingout"}
Tagged == LookedUp \cup {"special", "revparse"}
Fetched == Tagged \cup {"tags"}

\* A run that has fetched has the commit it wants, and the tag that names it.
FetchedEnough ==
  /\ wanted <= remote
  /\ pc \in Fetched => wanted <= have
  /\ pc \in Tagged /\ kind \in {"annotated", "lightweight"} => wanted <= tag

\* Where HEAD and the branch of the clone can be, and why the branch may not
\* have been made.
BranchKnown ==
  /\ kind \in {"sha1", "annotated"} => branch = 0
  /\ head = "cset" => branch # 0
  /\ pc = "revparse" /\ kind = "branch" /\ branch = 0 => faults > 0

\* A damaged or locked clone, and a second attempt, come from a fault.
FaultsKnown == corrupt \/ locked \/ second => faults > 0

\* What was looked up is still what the clone's refs say.
FoundRight == pc \in LookedUp => found = Resolved /\ found # 0

\* What the working copy holds as the script goes on.
CopyRight ==
  /\ pc \in Switched => copy.commit = CheckedOut /\ ~copy.mixed
  /\ pc \in Cleaned => ~copy.junk
  /\ pc \in Updated => copy.subs
  /\ pc \in Substed => copy.expanded

IInv ==
  /\ TypeOK /\ FailsForAReason
  /\ FetchedEnough /\ BranchKnown /\ FaultsKnown /\ FoundRight /\ CopyRight
-----------------------------------------------------------------------------

(* The invariant holds when nothing has been downloaded.                   *)
LEMMA InitInv == Init => IInv
<1>1. SUFFICES ASSUME Init
               PROVE  IInv
  OBVIOUS
<1>2. NoCopy \in Copy
  BY ConstantsAssumption DEF NoCopy, Copy
<1>3. TypeOK
  <2>1. kind \in Kinds /\ 0 \in 0..MaxCommits /\ 1 \in Commit /\ 0 \in 0..MaxFaults
    BY <1>1, ConstantsAssumption DEF Init, Commit
  <2>2. {copy, archive} \subseteq Copy
    BY <1>1, <1>2 DEF Init
  <2>3. {have, tag, branch, found} \subseteq 0..MaxCommits
    BY <1>1, <2>1 DEF Init
  <2>4. QED
    BY <1>1, <2>1, <2>2, <2>3 DEF Init, TypeOK, Ends
<1>4. QED
  BY <1>1, <1>3
     DEF Init, IInv, FailsForAReason, FetchedEnough, BranchKnown, FaultsKnown,
         FoundRight, CopyRight, Fetched, Tagged, LookedUp, Switched, Cleaned,
         Updated, Substed

(* What the remote, the users and the faults do meanwhile keeps it.        *)
LEMMA OthersInv ==
  ASSUME IInv, Push \/ Start \/ Forget \/ SpecialFails \/ Kill
  PROVE  IInv'
<1> USE ConstantsAssumption DEF IInv, TypeOK, FailsForAReason, FetchedEnough,
       BranchKnown, FaultsKnown, FoundRight, CopyRight, Commit, Copy, NoCopy,
       Places, Ends, Fetched, Tagged, LookedUp, Switched, Cleaned, Updated,
       Substed, Resolved, CheckedOut, cloneVars
<1>1. CASE Push
  BY <1>1 DEF Push
<1>2. CASE Start
  <2>1. NoCopy \in Copy
    BY DEF NoCopy, Copy
  <2>2. wanted' \in Commit /\ wanted' <= remote /\ archive' \in Copy
    BY <1>2, <2>1 DEF Start
  <2>3. pc' \in {"init", "done"}
    BY <1>2 DEF Start
  <2>4. TypeOK'
    <3>1. {copy, archive}' \subseteq Copy
      BY <1>2, <2>2 DEF Start
    <3>2. {have, tag, branch, found}' \subseteq 0..MaxCommits
      BY <1>2 DEF Start
    <3>3. QED
      BY <1>2, <2>2, <2>3, <3>1, <3>2 DEF Start
  <2>5. QED
    BY <1>2, <2>2, <2>3, <2>4 DEF Start
<1>3. CASE Forget
  BY <1>3 DEF Forget
<1>4. CASE SpecialFails
  BY <1>4 DEF SpecialFails
<1>5. CASE Kill
  <2>1. copy' \in Copy
    BY <1>5 DEF Kill
  <2>2. {copy, archive}' \subseteq Copy
    BY <1>5, <2>1 DEF Kill
  <2>3. /\ UNCHANGED <<kind, remote, wanted, have, tag, branch, head, second, found>>
        /\ pc' = "killed" /\ corrupt' \in BOOLEAN /\ locked' \in BOOLEAN
        /\ faults < MaxFaults /\ faults' = faults + 1
    BY <1>5 DEF Kill
  <2>4. TypeOK'
    <3>1. {have, tag, branch, found}' \subseteq 0..MaxCommits
      BY <2>3
    <3>2. QED
      BY <2>2, <2>3, <3>1
  <2>5. QED
    BY <2>3, <2>4
<1>6. QED
  BY <1>1, <1>2, <1>3, <1>4, <1>5

(* Each command of the script keeps it, or does what the next one needs.   *)
LEMMA ProgressInv ==
  ASSUME IInv, Progress, ~Damaged
  PROVE  IInv'
<1> USE ConstantsAssumption DEF IInv, TypeOK, FailsForAReason, FetchedEnough,
       BranchKnown, FaultsKnown, FoundRight, CopyRight, Commit, Copy, NoCopy,
       Places, Ends, Fetched, Tagged, LookedUp, Switched, Cleaned, Updated,
       Substed, Goto, cloneVars
<1>1. CASE GitInit
  BY <1>1 DEF GitInit
<1>2. CASE Fetch
  BY <1>2 DEF Fetch
<1>3. CASE FetchTags
  BY <1>3 DEF FetchTags
<1>4. CASE FetchSpecial
  BY <1>4 DEF FetchSpecial, OnCset, Kind
<1>5. CASE RevParse
  BY <1>5 DEF RevParse, Resolved, Kind
<1>6. CASE Deregister
  BY <1>6 DEF Deregister, Resolved
<1>7. CASE BeginCheckout
  BY <1>7 DEF BeginCheckout, Resolved
<1>8. CASE FinishCheckout
  BY <1>8 DEF FinishCheckout, Resolved, CheckedOut
<1>9. CASE Clean \/ Submodules \/ Subst
  <2>1. copy' \in Copy
    BY <1>9 DEF Clean, Submodules, Subst
  <2>2. CASE Clean
    BY <2>1, <2>2 DEF Clean, Resolved, CheckedOut
  <2>3. CASE Submodules
    BY <2>1, <2>3 DEF Submodules, Resolved, CheckedOut
  <2>4. CASE Subst
    BY <2>1, <2>4 DEF Subst, Resolved, CheckedOut
  <2>5. QED
    BY <1>9, <2>2, <2>3, <2>4
<1>10. CASE Archive
  BY <1>10 DEF Archive
<1>11. QED
  BY <1>1, <1>2, <1>3, <1>4, <1>5, <1>6, <1>7, <1>8, <1>9, <1>10 DEF Progress

(* So does _on_error: a second failure had a cause, and a clone that is    *)
(* removed has nothing to be wrong about.                                  *)
LEMMA OnErrorInv ==
  ASSUME IInv, Damaged \/ CommandFails
  PROVE  IInv'
<1>1. faults' > 0 /\ faults' \in 0..MaxFaults
  BY ConstantsAssumption DEF IInv, TypeOK, FaultsKnown, Damaged, CommandFails
<1>2. UNCHANGED <<kind, remote, wanted, archive>>
  BY DEF Damaged, CommandFails
<1>3. OnError
  BY DEF Damaged, CommandFails
<1> USE ConstantsAssumption, <1>1, <1>2 DEF IInv, TypeOK, FailsForAReason,
       FetchedEnough, BranchKnown, FaultsKnown, FoundRight, CopyRight, Commit,
       Copy, NoCopy, Places, Ends, Fetched, Tagged, LookedUp, Switched, Cleaned,
       Updated, Substed, cloneVars
<1>4. CASE second /\ pc' = "failed" /\ UNCHANGED <<cloneVars, copy, second, found>>
  BY <1>4
<1>5. CASE ~second /\ second' = TRUE /\ pc' = "init" /\ Afresh
  <2>1. NoCopy \in Copy
    BY DEF NoCopy, Copy
  <2>2. {copy, archive}' \subseteq Copy
    BY <1>2, <1>5, <2>1 DEF Afresh
  <2>3. {have, tag, branch, found}' \subseteq 0..MaxCommits
    BY <1>5 DEF Afresh
  <2>4. TypeOK'
    <3>1. second' \in BOOLEAN /\ corrupt' \in BOOLEAN /\ locked' \in BOOLEAN
      BY <1>5 DEF Afresh
    <3>2. QED
      BY <1>5, <2>2, <2>3, <3>1 DEF Afresh
  <2>5. pc' = "init" /\ branch' = 0 /\ head' = "default"
    BY <1>5 DEF Afresh
  <2>6. (FetchedEnough /\ BranchKnown /\ FaultsKnown)'
    BY <1>5, <2>5
  <2>7. (FoundRight /\ CopyRight /\ FailsForAReason)'
    BY <1>5, <2>5
  <2>8. QED
    BY <2>4, <2>6, <2>7
<1>6. QED
  BY <1>3, <1>4, <1>5 DEF OnError

LEMMA StepInv == IInv /\ [Next]_vars => IInv'
<1>1. SUFFICES ASSUME IInv, [Next]_vars
               PROVE  IInv'
  OBVIOUS
<1>2. CASE UNCHANGED vars
  BY <1>1, <1>2
     DEF vars, cloneVars, IInv, TypeOK, FailsForAReason, FetchedEnough,
         BranchKnown, FaultsKnown, FoundRight, CopyRight, Commit, Resolved,
         CheckedOut
<1>3. CASE Next
  BY <1>1, <1>3, OthersInv, ProgressInv, OnErrorInv DEF Next, Progress
<1>4. QED
  BY <1>1, <1>2, <1>3

(* The strengthened invariant holds in every state.                        *)
THEOREM Invariance == Spec => []IInv
<1>1. Safe => []IInv
  BY InitInv, StepInv, PTL DEF Safe
<1>2. QED
  BY <1>1, PTL DEF Spec

(* The script's variables have their types; it only says that the commit   *)
(* does not exist when a command failed or the version is named like git's *)
(* default branch; and it starts afresh only after a failure.              *)
THEOREM InvHolds == Spec => []Inv
<1>1. IInv => Inv
  BY DEF IInv, Inv
<1>2. QED
  BY <1>1, Invariance, PTL

-----------------------------------------------------------------------------

(* Only the last command makes an archive.                                 *)
LEMMA OnlyArchiveMakes ==
  ASSUME [Next]_vars, Made
  PROVE  Archive
<1>1. archive' # archive /\ archive' # NoCopy
  BY DEF Made, NoCopy
<1>2. CASE Start \/ Forget
  BY <1>1, <1>2 DEF Start, Forget
<1>3. CASE \/ Push \/ SpecialFails \/ CommandFails \/ Kill \/ Damaged
           \/ UNCHANGED vars
  BY <1>1, <1>3 DEF Push, SpecialFails, CommandFails, Kill, Damaged, vars
<1>4. CASE Progress /\ ~Damaged /\ ~Archive
  BY <1>1, <1>4
     DEF Progress, GitInit, Fetch, FetchTags, FetchSpecial, RevParse, Deregister,
         BeginCheckout, FinishCheckout, Clean, Submodules, Subst, Goto
<1>5. QED
  BY <1>2, <1>3, <1>4 DEF Next, Progress

(* Then the working copy is all of the commit that was asked for.          *)
LEMMA AtTarWhole ==
  ASSUME IInv, pc = "tar"
  PROVE  /\ copy = Whole(CheckedOut)
         /\ kind # "lightweight" => CheckedOut = found
         /\ kind = "sha1" => found = wanted
         /\ kind = "annotated" => found >= wanted
<1> USE ConstantsAssumption DEF IInv, TypeOK, Places, Ends, Fetched, Tagged,
       LookedUp, Switched, Cleaned, Updated, Substed
<1>1. copy = Whole(CheckedOut)
  BY DEF CopyRight, Copy, Whole
<1>2. found = Resolved /\ found # 0
  BY DEF FoundRight
<1>3. kind # "lightweight" => CheckedOut = found
  BY <1>2 DEF BranchKnown, CheckedOut, Resolved, Kind
<1>4. kind = "sha1" => found = wanted
  BY <1>2 DEF Resolved
<1>5. kind = "annotated" => found >= wanted
  BY <1>2 DEF Resolved, FetchedEnough, Commit
<1>6. QED
  BY <1>1, <1>3, <1>4, <1>5

(* What comes out is one whole commit, and the right one, whatever earlier *)
(* runs, kills and pushes did to the clone and its working copy.           *)
THEOREM ArchivesRight == Spec => ArchiveRight
<1>1. IInv /\ [Next]_vars
        => [Made => /\ archive' = Whole(archive'.commit)
                    /\ kind # "lightweight" => archive'.commit = found]_vars
  BY OnlyArchiveMakes, AtTarWhole DEF Archive, Whole
<1>2. IInv /\ [Next]_vars
        => [Made => /\ kind = "sha1" => archive'.commit = wanted
                    /\ kind = "annotated" => archive'.commit >= wanted]_vars
  BY OnlyArchiveMakes, AtTarWhole DEF Archive, Whole
<1>3. Spec => ArchiveWhole
  BY <1>1, Invariance, PTL DEF ArchiveWhole, Spec, Safe
<1>4. Spec => ArchiveCurrent
  BY <1>2, Invariance, PTL DEF ArchiveCurrent, Spec, Safe
<1>5. QED
  BY <1>3, <1>4 DEF ArchiveRight
=============================================================================
