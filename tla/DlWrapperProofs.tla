-------------------------- MODULE DlWrapperProofs --------------------------
(***************************************************************************)
(* Proofs about DlWrapper and check-hash, for any number of builds, URIs,  *)
(* contents, hash lines and runs, and for whatever may fail.               *)
(***************************************************************************)
EXTENDS DlWrapper, SequenceTheorems, Induction, TLAPS

-----------------------------------------------------------------------------
(* check-hash                                                              *)

(* When check-hash exits with 0 although .hash files name the file, then   *)
(* every line that names it has a known type and the hash of the file: the *)
(* early exits skip no line.                                               *)
THEOREM HashOKMeansAllMatch ==
  ASSUME NEW lines \in Seq(HashLine), NEW noCheck, NEW file,
         CheckHashCode(TRUE, lines, noCheck, file) = HashOK
  PROVE  \A i \in DOMAIN lines : lines[i].known /\ file \in lines[i].match
<1>1. CASE lines = << >>
  BY <1>1
<1>2. CASE lines # << >>
  <2>1. Offending(lines, file) = {}
    <3>1. SUFFICES ASSUME Offending(lines, file) # {}
                   PROVE  FALSE
      OBVIOUS
    <3>2. Offending(lines, file) \in SUBSET Nat
      BY DEF Offending
    <3>3. FirstOffending(lines, file) \in Offending(lines, file)
      BY <3>1, <3>2, LeastNatural DEF FirstOffending
    <3>4. CheckOneHash(lines[FirstOffending(lines, file)], file) # HashOK
      BY <3>3 DEF Offending
    <3>5. QED
      BY <1>2, <3>1, <3>4 DEF CheckHashCode
  <2>2. SUFFICES ASSUME NEW i \in DOMAIN lines
                 PROVE  lines[i].known /\ file \in lines[i].match
    OBVIOUS
  <2>3. CheckOneHash(lines[i], file) = HashOK
    BY <2>1 DEF Offending
  <2>4. lines[i] \in HashLine
    BY ElementOfSeq
  <2>5. QED
    BY <2>3, <2>4 DEF HashLine, CheckOneHash, HashOK, HashWrong, HashUnknown
<1>3. QED
  BY <1>1, <1>2

-----------------------------------------------------------------------------
(* Type correctness                                                        *)

(* Moving to a place, and leaving dl-wrapper, keep the types.              *)
LEMMA GotoType ==
  ASSUME TypeOK, NEW p \in Proc, NEW place \in Place, Goto(p, place)
  PROVE  pc' \in [Proc -> Place]
BY DEF TypeOK, Goto

LEMMA ExitType ==
  ASSUME TypeOK, NEW p \in Proc, NEW place \in Place,
         NEW removed, Exit(p, place, removed)
  PROVE  /\ pc' \in [Proc -> Place]
         /\ lock' \in Proc \cup {NoProc}
         /\ litter' \subseteq {"tmpd", "tmp_output"}
         /\ tmpd' \in [Proc -> BOOLEAN]
         /\ tmpf' \in [Proc -> File]
         /\ tmpOutput' \in [Proc -> File]
<1>1. pc' \in [Proc -> Place]
  BY GotoType DEF Exit
<1>2. litter' \subseteq {"tmpd", "tmp_output"}
  BY DEF TypeOK, Exit, Unlock
<1>3. /\ tmpd' \in [Proc -> BOOLEAN]
      /\ tmpf' \in [Proc -> File]
      /\ tmpOutput' \in [Proc -> File]
  BY DEF TypeOK, Exit, File
<1>4. QED
  BY <1>1, <1>2, <1>3 DEF TypeOK, Exit, Unlock

(* What leaving dl-wrapper does, but for the litter it leaves.             *)
LEMMA ExitEffect ==
  ASSUME TypeOK, NEW p \in Proc, NEW place, NEW removed, Exit(p, place, removed)
  PROVE  /\ pc' = [pc EXCEPT ![p] = place]
         /\ lock' = IF lock = p THEN NoProc ELSE lock
         /\ tmpd' = [tmpd EXCEPT ![p] = FALSE]
         /\ tmpf' = [tmpf EXCEPT ![p] = NoFile]
         /\ tmpOutput' = [tmpOutput EXCEPT ![p] = NoFile]
BY DEF Exit, Goto, Unlock

(* Giving up a URI keeps the types.                                        *)
LEMMA NextOneType ==
  ASSUME TypeOK, NEW p \in Proc, NextOne(p)
  PROVE  /\ pc' \in [Proc -> Place]
         /\ tmpd' \in [Proc -> BOOLEAN]
         /\ tmpf' \in [Proc -> File]
<1>1. pc' \in [Proc -> Place]
  BY GotoType DEF NextOne, Place, Locked
<1>2. QED
  BY <1>1 DEF TypeOK, NextOne, File

(* Every variable stays in its type, whatever step is taken.               *)
LEMMA TypeStep ==
  ASSUME TypeOK, [Next]_vars
  PROVE  TypeOK'
<1> USE ConstantsAssumption
<1>0. /\ {"flock", "extract", "legacy", "link", "copying",
           "check", "remove", "nexturi", "backend", "post",
           "verify", "mktemp", "cat", "mv", "failed", "downloaded", "built",
           "killed"} \subseteq Place
      /\ Content \cup {NoFile, Partial} = File
  BY DEF Place, Stopped, Locked, File
<1>1. ASSUME UNCHANGED vars
      PROVE  TypeOK'
  BY <1>1 DEF TypeOK, vars
<1>2. ASSUME NEW p \in Proc, Start(p)
      PROVE  TypeOK'
  <2>1. pc' \in [Proc -> Place]
    BY <1>0, <1>2, GotoType DEF Start
  <2>2. runs' \in [Proc -> 0 .. MaxRuns]
    BY <1>2 DEF TypeOK, Start
  <2>3. stamped' \in [Proc -> BOOLEAN]
    BY <1>2 DEF TypeOK, Start
  <2>4. QED
    BY <1>2, <2>1, <2>2, <2>3 DEF TypeOK, Start
<1>3. ASSUME NEW p \in Proc, Flock(p)
      PROVE  TypeOK'
  BY <1>3 DEF TypeOK, Flock, Goto, Place, Stopped, Locked
<1>4. ASSUME NEW p \in Proc, Legacy(p)
      PROVE  TypeOK'
  BY <1>0, <1>4, GotoType DEF TypeOK, Legacy
<1>5. ASSUME NEW p \in Proc, LegacyLink(p)
      PROVE  TypeOK'
  BY <1>0, <1>5, GotoType DEF TypeOK, LegacyLink
<1>6. ASSUME NEW p \in Proc, LegacyCopy(p)
      PROVE  TypeOK'
  BY <1>0, <1>6, GotoType DEF TypeOK, LegacyCopy
<1>7. ASSUME NEW p \in Proc, CheckExisting(p)
      PROVE  TypeOK'
  <2>1. ASSUME NEW place \in {"downloaded", "failed"}, Exit(p, place, {})
        PROVE  TypeOK'
    BY <1>0, <1>7, <2>1, ExitType DEF TypeOK, CheckExisting
  <2>2. ASSUME NEW place \in {"nexturi", "remove"}, Goto(p, place),
               UNCHANGED <<lock, litter, tmpd, tmpf, tmpOutput>>
        PROVE  TypeOK'
    BY <1>0, <1>7, <2>2, GotoType DEF TypeOK, CheckExisting
  <2>3. QED
    BY <1>7, <2>1, <2>2 DEF CheckExisting
<1>8. ASSUME NEW p \in Proc, Remove(p)
      PROVE  TypeOK'
  BY <1>0, <1>8, GotoType DEF TypeOK, Remove
<1>9. ASSUME NEW p \in Proc, NextUri(p)
      PROVE  TypeOK'
  <2>1. uri' \in [Proc -> 0 .. NUris]
    <3>1. uri[p] < NUris => uri[p] + 1 \in 0 .. NUris
      BY DEF TypeOK
    <3>2. \/ uri' = uri
          \/ uri[p] < NUris /\ uri' = [uri EXCEPT ![p] = uri[p] + 1]
      BY <1>9 DEF NextUri, UriLeft
    <3>3. QED
      BY <3>1, <3>2 DEF TypeOK
  <2>2. ASSUME NEW removed, Exit(p, "failed", removed)
        PROVE  TypeOK'
    <3>1. /\ pc' \in [Proc -> Place]
          /\ lock' \in Proc \cup {NoProc}
          /\ litter' \subseteq {"tmpd", "tmp_output"}
          /\ tmpd' \in [Proc -> BOOLEAN]
          /\ tmpf' \in [Proc -> File]
          /\ tmpOutput' \in [Proc -> File]
      BY <1>0, <2>2, ExitType
    <3>2. UNCHANGED <<output, legacy, rc, extracted, stamped, runs>>
      BY <1>9 DEF NextUri
    <3>3. QED
      BY <2>1, <3>1, <3>2 DEF TypeOK
  <2>3. CASE /\ Goto(p, "backend")
             /\ tmpd' = [tmpd EXCEPT ![p] = TRUE]
             /\ UNCHANGED <<lock, tmpf, tmpOutput, litter>>
    <3>1. pc' \in [Proc -> Place]
      BY <1>0, <2>3, GotoType
    <3>2. QED
      BY <1>9, <2>1, <2>3, <3>1 DEF TypeOK, NextUri
  <2>4. QED
    BY <1>9, <2>2, <2>3 DEF NextUri
<1>10. ASSUME NEW p \in Proc, Backend(p)
      PROVE  TypeOK'
  <2>1. pc' \in [Proc -> Place]
    BY <1>0, <1>10, GotoType, NextOneType DEF Backend
  <2>2. /\ tmpf' \in [Proc -> File]
        /\ tmpd' \in [Proc -> BOOLEAN]
    <3>1. CASE NextOne(p)
      BY <3>1, NextOneType
    <3>2. CASE \E c \in Content : tmpf' = [tmpf EXCEPT ![p] = c] /\ UNCHANGED tmpd
      BY <1>0, <3>2 DEF TypeOK
    <3>3. QED
      BY <1>10, <3>1, <3>2 DEF Backend
  <2>3. QED
    BY <1>10, <2>1, <2>2 DEF TypeOK, Backend
<1>11. ASSUME NEW p \in Proc, PostProcessing(p)
      PROVE  TypeOK'
  <2>1. pc' \in [Proc -> Place]
    BY <1>0, <1>11, GotoType, NextOneType DEF PostProcessing
  <2>2. /\ tmpf' \in [Proc -> File]
        /\ tmpd' \in [Proc -> BOOLEAN]
    <3>1. CASE NextOne(p)
      BY <3>1, NextOneType
    <3>2. CASE \E c \in Content : tmpf' = [tmpf EXCEPT ![p] = c] /\ UNCHANGED tmpd
      BY <1>0, <3>2 DEF TypeOK
    <3>3. QED
      BY <1>11, <3>1, <3>2 DEF PostProcessing
  <2>3. QED
    BY <1>11, <2>1, <2>2 DEF TypeOK, PostProcessing
<1>12. ASSUME NEW p \in Proc, Verify(p)
       PROVE  TypeOK'
  <2>1. pc' \in [Proc -> Place]
    BY <1>0, <1>12, GotoType, NextOneType DEF Verify
  <2>2. /\ tmpf' \in [Proc -> File]
        /\ tmpd' \in [Proc -> BOOLEAN]
    BY <1>12, NextOneType DEF TypeOK, Verify
  <2>3. rc' \in [Proc -> {0, 1}]
    BY <1>12 DEF TypeOK, Verify
  <2>4. QED
    BY <1>12, <2>1, <2>2, <2>3 DEF TypeOK, Verify
<1>13. ASSUME NEW p \in Proc, MakeTemp(p)
       PROVE  TypeOK'
  <2>1. CASE Exit(p, "failed", {})
    BY <1>0, <1>13, <2>1, ExitType DEF TypeOK, MakeTemp
  <2>2. CASE Goto(p, "cat") /\ tmpOutput' = [tmpOutput EXCEPT ![p] = Partial]
             /\ UNCHANGED <<lock, tmpd, tmpf, litter>>
    BY <1>0, <1>13, <2>2, GotoType DEF TypeOK, MakeTemp
  <2>3. QED
    BY <1>13, <2>1, <2>2 DEF MakeTemp
<1>14. ASSUME NEW p \in Proc, CopyOut(p)
       PROVE  TypeOK'
  <2>1. ASSUME NEW removed, Exit(p, "failed", removed)
        PROVE  TypeOK'
    BY <1>0, <1>14, <2>1, ExitType DEF TypeOK, CopyOut
  <2>2. CASE /\ tmpOutput' = [tmpOutput EXCEPT ![p] = tmpf[p]]
             /\ tmpd' = [tmpd EXCEPT ![p] = FALSE]
             /\ tmpf' = [tmpf EXCEPT ![p] = NoFile]
             /\ Goto(p, "mv")
             /\ UNCHANGED <<lock, litter>>
    BY <1>0, <1>14, <2>2, GotoType DEF TypeOK, CopyOut
  <2>3. QED
    BY <1>14, <2>1, <2>2 DEF CopyOut, CopyFailed
<1>15. ASSUME NEW p \in Proc, Rename(p)
       PROVE  TypeOK'
  <2>1. PICK place \in {"downloaded", "failed"} : Exit(p, place, {"tmp_output"})
    BY <1>15 DEF Rename
  <2>2. output' \in File
    BY <1>15 DEF TypeOK, Rename
  <2>3. UNCHANGED <<legacy, uri, rc, extracted, stamped, runs>>
    BY <1>15 DEF Rename
  <2>4. QED
    BY <1>0, <2>1, <2>2, <2>3, ExitType DEF TypeOK
<1>16. ASSUME NEW p \in Proc, Touch(p)
       PROVE  TypeOK'
  BY <1>16 DEF TypeOK, Touch, Goto, Place, Stopped, Locked
<1>17. ASSUME NEW p \in Proc, Extract(p)
       PROVE  TypeOK'
  <2>1. pc' \in [Proc -> Place]
    BY <1>0, <1>17, GotoType DEF Extract
  <2>2. extracted' \in [Proc -> File]
    BY <1>17 DEF TypeOK, Extract
  <2>3. QED
    BY <1>17, <2>1, <2>2 DEF TypeOK, Extract
<1>18. ASSUME NEW p \in Proc, Kill(p)
       PROVE  TypeOK'
  BY <1>0, <1>18, ExitType DEF TypeOK, Kill
<1>19. QED
  BY <1>1, <1>2, <1>3, <1>4, <1>5, <1>6, <1>7, <1>8, <1>9, <1>10, <1>11, <1>12, <1>13,
     <1>14, <1>15, <1>16, <1>17, <1>18 DEF Next, Step

LEMMA TypeInit == Init => TypeOK
BY ConstantsAssumption
   DEF Init, TypeOK, Place, Stopped, Locked, File

(* The variables of DlWrapper always have their types.                     *)
THEOREM TypeCorrect == Spec => []TypeOK
<1>1. Safe => []TypeOK
  BY TypeInit, TypeStep, PTL DEF Safe
<1>2. QED
  BY <1>1, PTL DEF Spec
-----------------------------------------------------------------------------
(* The inductive invariant                                                 *)

LEMMA IInvInit == Init => IInv
<1>1. HAVE Init
<1>2. TypeOK
  BY <1>1, TypeInit
<1>3. LockHeld /\ NothingToReplace
  BY <1>1, ConstantsAssumption
     DEF Init, LockHeld, NothingToReplace, Locked, Creating
<1>4. HalfCopied /\ WrongFile /\ ToPublish
  BY <1>1, ConstantsAssumption DEF Init, HalfCopied, WrongFile, ToPublish, At
<1>5. Temporaries /\ NoLitter
  BY <1>1 DEF Init, Temporaries, NoLitter
<1>6. SureAndBuilt
  BY <1>1 DEF Init, SureAndBuilt, Sure, At
<1>7. QED
  BY <1>2, <1>3, <1>4, <1>5, <1>6 DEF IInv

(* A build that leaves dl-wrapper without touching the output keeps the    *)
(* invariant, if it is right when it reports success.                      *)
LEMMA ExitKeeps ==
  ASSUME IInv, TypeOK', NoLitter',
         NEW p \in Proc, NEW removed,
         NEW place \in {"downloaded", "failed", "killed"},
         Exit(p, place, removed),
         UNCHANGED <<output, legacy, rc, extracted, stamped>>,
         place = "downloaded" /\ Agree /\ Protected =>
           output \in Content /\ Check(p, output) = HashOK
  PROVE  IInv'
<1> USE ConstantsAssumption
<1>1. TypeOK
  BY DEF IInv
<1>2. /\ pc' = [pc EXCEPT ![p] = place]
      /\ lock' = IF lock = p THEN NoProc ELSE lock
      /\ tmpd' = [tmpd EXCEPT ![p] = FALSE]
      /\ tmpf' = [tmpf EXCEPT ![p] = NoFile]
      /\ tmpOutput' = [tmpOutput EXCEPT ![p] = NoFile]
  BY <1>1, ExitEffect
<1>3. LockHeld'
  BY <1>1, <1>2 DEF IInv, TypeOK, LockHeld, Locked
<1>4. NothingToReplace'
  BY <1>1, <1>2 DEF IInv, TypeOK, NothingToReplace, Creating
<1>5. HalfCopied' /\ WrongFile'
  BY <1>1, <1>2 DEF IInv, TypeOK, HalfCopied, WrongFile, At, Check
<1>6. ToPublish'
  BY <1>1, <1>2 DEF IInv, TypeOK, ToPublish, At, Check
<1>7. Temporaries'
  BY <1>1, <1>2 DEF IInv, TypeOK, Temporaries
<1>8. ASSUME Agree, Protected
      PROVE  SureAndBuilt'
  BY <1>1, <1>2, <1>8 DEF IInv, TypeOK, SureAndBuilt, Sure, At, Check
<1>9. QED
  BY <1>3, <1>4, <1>5, <1>6, <1>7, <1>8 DEF IInv, Agree, Protected, Check

(* A step of the lock's holder that stays in dl-wrapper keeps the          *)
(* invariant, if it knows what the place it goes to requires, and, when it *)
(* changes the output, nobody relies on that.                              *)
LEMMA HolderKeeps ==
  ASSUME IInv, TypeOK', NEW p \in Proc, pc[p] \in Locked,
         NEW place \in Locked, Goto(p, place),
         UNCHANGED <<lock, legacy, extracted, stamped, litter>>,
         \A q \in Proc \ {p} : /\ tmpd'[q] = tmpd[q]
                               /\ tmpf'[q] = tmpf[q]
                               /\ tmpOutput'[q] = tmpOutput[q]
                               /\ rc'[q] = rc[q],
         output' = output \/ (Agree /\ Protected => Sure = {}),
         output' = Partial => ~CanLink,
         place \in Creating => output' = NoFile,
         place = "copying" => output' = Partial,
         place \in {"link", "copying"} => legacy \in Content,
         place = "remove" => Check(p, output') = HashWrong /\ output' # NoFile,
         ToPublish!(p)', Temporaries!(p)'
  PROVE  IInv'
<1> USE ConstantsAssumption
<1>1. TypeOK
  BY DEF IInv
<1>2. pc' = [pc EXCEPT ![p] = place]
  BY DEF Goto
<1>3. lock = p /\ \A q \in Proc \ {p} : pc[q] \notin Locked
  BY DEF IInv, LockHeld
<1>4. LockHeld'
  BY <1>1, <1>2, <1>3 DEF IInv, TypeOK, LockHeld
<1>5. NothingToReplace'
  BY <1>1, <1>2, <1>3 DEF TypeOK, NothingToReplace, Creating, Locked
<1>6. HalfCopied' /\ WrongFile'
  BY <1>1, <1>2, <1>3 DEF TypeOK, HalfCopied, WrongFile, At, Check, Locked
<1>7. ToPublish'
  BY <1>1, <1>2, <1>3 DEF TypeOK, ToPublish, At, Check, Locked
<1>8. Temporaries' /\ NoLitter'
  <2>1. Temporaries'
    BY <1>1, <1>2 DEF IInv, TypeOK, Temporaries
  <2>2. QED
    BY <2>1 DEF IInv, NoLitter
<1>9. ASSUME Agree, Protected
      PROVE  SureAndBuilt'
  <2>1. Sure' = Sure
    BY <1>1, <1>2 DEF TypeOK, Sure, At, Locked
  <2>2. QED
    BY <1>1, <1>2, <1>9, <2>1
       DEF IInv, TypeOK, SureAndBuilt, At, Check, Locked
<1>10. QED
  BY <1>4, <1>5, <1>6, <1>7, <1>8, <1>9 DEF IInv, Agree, Protected, Check

(* Every step keeps every part of the invariant.                           *)
LEMMA IInvStep ==
  ASSUME IInv, [Next]_vars
  PROVE  IInv'
<1> USE ConstantsAssumption
<1>0. TypeOK /\ TypeOK'
  BY TypeStep DEF IInv
<1>1. ASSUME UNCHANGED vars
      PROVE  IInv'
  BY <1>0, <1>1 DEF IInv, vars, LockHeld, NothingToReplace, HalfCopied,
     WrongFile, ToPublish, Temporaries, NoLitter, SureAndBuilt, Sure, At,
     Agree, Protected, Check
<1>2. ASSUME NEW p \in Proc, Start(p)
      PROVE  IInv'
  <2>1. LockHeld'
    BY <1>0, <1>2 DEF IInv, TypeOK, LockHeld, Start, Goto, At, Locked, Stopped
  <2>2. NothingToReplace'
    BY <1>0, <1>2, <2>1 DEF IInv, TypeOK, LockHeld, NothingToReplace, Start,
       Goto, At, Locked, Creating, Stopped
  <2>3. HalfCopied' /\ WrongFile'
    BY <1>0, <1>2 DEF IInv, TypeOK, HalfCopied, WrongFile, Start, Goto, At,
       Check, Stopped
  <2>4. ToPublish'
    BY <1>0, <1>2 DEF IInv, TypeOK, ToPublish, Start, Goto, At, Check, Stopped
  <2>5. Temporaries' /\ NoLitter'
    <3>1. Temporaries'
      BY <1>0, <1>2 DEF IInv, TypeOK, Temporaries, Start, Goto, At, Stopped
    <3>2. NoLitter'
      BY <1>2 DEF IInv, NoLitter, Start
    <3>3. QED
      BY <3>1, <3>2
  <2>6. ASSUME Agree, Protected
        PROVE  SureAndBuilt'
    <3>1. SureAndBuilt
      BY <2>6 DEF IInv
    <3>2. Sure' \subseteq Sure /\ UNCHANGED <<output, extracted>>
      BY <1>0, <1>2 DEF TypeOK, Sure, Start, Goto, At, Stopped
    <3>3. \A q \in Proc : /\ At(q, "extract")' => stamped'[q]
                          /\ At(q, "built")' => At(q, "built")
      BY <1>0, <1>2, <3>1 DEF TypeOK, SureAndBuilt, Start, Goto, At
    <3>4. QED
      BY <3>1, <3>2, <3>3 DEF SureAndBuilt, Check
  <2>7. QED
    BY <1>0, <2>1, <2>2, <2>3, <2>4, <2>5, <2>6
       DEF IInv, Agree, Protected, Check
<1>3. ASSUME NEW p \in Proc, Flock(p)
      PROVE  IInv'
  <2>1. LockHeld'
    BY <1>0, <1>3 DEF IInv, TypeOK, LockHeld, Flock, Goto, At, Locked, Stopped, LockFree
  <2>2. NothingToReplace'
    BY <1>0, <1>3, <2>1 DEF IInv, TypeOK, LockHeld, NothingToReplace, Flock,
       Goto, At, Locked, Creating, Stopped, LockFree
  <2>3. HalfCopied' /\ WrongFile'
    BY <1>0, <1>3 DEF IInv, TypeOK, HalfCopied, WrongFile, Flock, Goto, At,
       Check, Stopped
  <2>4. ToPublish'
    BY <1>0, <1>3 DEF IInv, TypeOK, ToPublish, Flock, Goto, At, Check, Stopped
  <2>5. Temporaries' /\ NoLitter'
    <3>1. Temporaries'
      BY <1>0, <1>3 DEF IInv, TypeOK, Temporaries, Flock, Goto, At, Stopped
    <3>2. NoLitter'
      BY <1>3 DEF IInv, NoLitter, Flock
    <3>3. QED
      BY <3>1, <3>2
  <2>6. ASSUME Agree, Protected
        PROVE  SureAndBuilt'
    BY <1>0, <1>3, <2>6 DEF IInv, TypeOK, SureAndBuilt, Sure, Flock, Goto, At, Check
  <2>7. QED
    BY <1>0, <2>1, <2>2, <2>3, <2>4, <2>5, <2>6
       DEF IInv, Agree, Protected, Check
<1>4. ASSUME NEW p \in Proc, Legacy(p)
      PROVE  IInv'
  <2>1. UNCHANGED <<tmpd, tmpf, tmpOutput, rc>> /\ pc[p] = "legacy" /\ pc[p] \in Locked
    BY <1>4 DEF Legacy, At, Locked
  <2>2. ToPublish!(p)' /\ Temporaries!(p)'
    <3>1. pc'[p] \in {"link", "copying", "check", "nexturi"}
      BY <1>0, <1>4 DEF TypeOK, Legacy, Goto
    <3>2. ~tmpd[p] /\ tmpOutput[p] = NoFile
      BY <2>1 DEF IInv, Temporaries
    <3>3. QED
      BY <2>1, <3>1, <3>2 DEF At
  <2>3. PICK place \in {"link", "check"} :
           /\ Goto(p, place)
           /\ place = "link" => output = NoFile /\ legacy # NoFile
    BY <1>4 DEF Legacy
  <2>4. legacy # NoFile => legacy \in Content
    BY <1>0 DEF TypeOK
  <2>5. place \in Locked
    BY DEF Locked
  <2>6. QED
    BY <1>0, <1>4, <2>1, <2>2, <2>3, <2>4, <2>5, HolderKeeps
       DEF Legacy, Creating, IInv, HalfCopied
<1>5. ASSUME NEW p \in Proc, LegacyLink(p)
      PROVE  IInv'
  <2>1. UNCHANGED <<tmpd, tmpf, tmpOutput, rc>> /\ pc[p] = "link" /\ pc[p] \in Locked
    BY <1>5 DEF LegacyLink, At, Locked
  <2>2. ToPublish!(p)' /\ Temporaries!(p)'
    <3>1. pc'[p] \in {"link", "copying", "check", "nexturi"}
      BY <1>0, <1>5 DEF TypeOK, LegacyLink, Goto
    <3>2. ~tmpd[p] /\ tmpOutput[p] = NoFile
      BY <2>1 DEF IInv, Temporaries
    <3>3. QED
      BY <2>1, <3>1, <3>2 DEF At
  <2>3. output = NoFile /\ legacy \in Content
    BY <1>5 DEF IInv, NothingToReplace, HalfCopied, LegacyLink, At, Creating
  <2>4. Agree /\ Protected => Sure = {}
    BY <2>3 DEF IInv, SureAndBuilt
  <2>5. PICK place \in {"check", "copying"} :
           /\ Goto(p, place)
           /\ output' = Partial => ~CanLink
           /\ place = "copying" => output' = Partial
    BY <1>5, <2>3 DEF LegacyLink
  <2>6. place \in Locked /\ place \notin Creating
    BY DEF Locked, Creating
  <2>7. QED
    BY <1>0, <1>5, <2>1, <2>2, <2>3, <2>4, <2>5, <2>6, HolderKeeps
       DEF LegacyLink
<1>6. ASSUME NEW p \in Proc, LegacyCopy(p)
      PROVE  IInv'
  <2>1. UNCHANGED <<tmpd, tmpf, tmpOutput, rc>> /\ pc[p] = "copying" /\ pc[p] \in Locked
    BY <1>6 DEF LegacyCopy, At, Locked
  <2>2. ToPublish!(p)' /\ Temporaries!(p)'
    <3>1. pc'[p] \in {"link", "copying", "check", "nexturi"}
      BY <1>0, <1>6 DEF TypeOK, LegacyCopy, Goto
    <3>2. ~tmpd[p] /\ tmpOutput[p] = NoFile
      BY <2>1 DEF IInv, Temporaries
    <3>3. QED
      BY <2>1, <3>1, <3>2 DEF At
  <2>3. output = Partial /\ legacy \in Content /\ ~CanLink
    BY <1>6 DEF IInv, HalfCopied, LegacyCopy, At
  <2>4. Agree /\ Protected => Sure = {}
    BY <2>3 DEF IInv, SureAndBuilt
  <2>5. "check" \in Locked /\ "check" \notin Creating
    BY DEF Locked, Creating
  <2>6. QED
    BY <1>0, <1>6, <2>1, <2>2, <2>3, <2>4, <2>5, HolderKeeps DEF LegacyCopy
<1>7. ASSUME NEW p \in Proc, CheckExisting(p)
      PROVE  IInv'
  <2>1. /\ UNCHANGED <<output, legacy, rc, extracted, stamped>>
        /\ pc[p] = "check" /\ pc[p] \in Locked
    BY <1>7 DEF CheckExisting, At, Locked
  <2>2. ASSUME NEW place \in {"downloaded", "failed"}, Exit(p, place, {}),
               place = "downloaded" => output # NoFile /\ Check(p, output) = HashOK
        PROVE  IInv'
    <3>1. NoLitter'
      BY <1>0, <2>1, <2>2 DEF IInv, NoLitter, Temporaries, Exit, TypeOK
    <3>2. place = "downloaded" /\ Agree /\ Protected =>
            output \in Content /\ Check(p, output) = HashOK
      BY <1>0, <2>2 DEF IInv, HalfCopied, Protected, TypeOK, File
    <3>3. QED
      BY <1>0, <2>1, <2>2, <3>1, <3>2, ExitKeeps
  <2>3. ASSUME NEW place \in {"nexturi", "remove"}, Goto(p, place),
               place = "nexturi" => output = NoFile,
               place = "remove" => output # NoFile /\ Check(p, output) = HashWrong,
               UNCHANGED <<lock, litter, tmpd, tmpf, tmpOutput>>
        PROVE  IInv'
    <3>1. ToPublish!(p)' /\ Temporaries!(p)'
      BY <1>0, <2>1, <2>3 DEF IInv, TypeOK, Temporaries, Goto, At
    <3>2. place \in Locked /\ place \notin {"link", "copying"}
      BY DEF Locked
    <3>3. output = Partial => ~CanLink
      BY DEF IInv, HalfCopied
    <3>4. QED
      BY <1>0, <2>1, <2>3, <3>1, <3>2, <3>3, HolderKeeps DEF Creating
  <2>4. QED
    BY <1>7, <2>2, <2>3 DEF CheckExisting, ForcesDownload
<1>8. ASSUME NEW p \in Proc, Remove(p)
      PROVE  IInv'
  <2>1. UNCHANGED <<tmpd, tmpf, tmpOutput, rc>> /\ pc[p] = "remove" /\ pc[p] \in Locked
    BY <1>8 DEF Remove, At, Locked
  <2>2. ToPublish!(p)' /\ Temporaries!(p)'
    <3>1. pc'[p] \in {"link", "copying", "check", "nexturi"}
      BY <1>0, <1>8 DEF TypeOK, Remove, Goto
    <3>2. ~tmpd[p] /\ tmpOutput[p] = NoFile
      BY <2>1 DEF IInv, Temporaries
    <3>3. QED
      BY <2>1, <3>1, <3>2 DEF At
  <2>3. Agree /\ Protected => Sure = {}
    <3>1. Check(p, output) = HashWrong /\ output # NoFile
      BY <1>8 DEF IInv, WrongFile, Remove, At
    <3>2. ASSUME Agree, Protected, NEW q \in Sure
          PROVE  FALSE
      <4>1. Check(q, output) = HashOK /\ q \in Proc /\ output \in File
        BY <1>0, <3>2 DEF IInv, SureAndBuilt, Sure, TypeOK
      <4>2. Check(p, output) = Check(q, output)
        BY <3>2, <4>1 DEF Agree
      <4>3. QED
        BY <3>1, <4>1, <4>2 DEF HashOK, HashWrong
    <3>3. QED
      BY <3>2
  <2>4. "nexturi" \in Locked
    BY DEF Locked
  <2>5. QED
    BY <1>0, <1>8, <2>1, <2>2, <2>3, <2>4, HolderKeeps DEF Remove
<1>9. ASSUME NEW p \in Proc, NextUri(p)
      PROVE  IInv'
  <2>1. ASSUME NEW removed, Exit(p, "failed", removed)
        PROVE  IInv'
    <3>1. NoLitter'
      BY <1>0, <1>9, <2>1 DEF IInv, NoLitter, Temporaries, NextUri, Exit, At, TypeOK
    <3>2. QED
      BY <1>0, <1>9, <2>1, <3>1, ExitKeeps DEF NextUri
  <2>2. CASE /\ Goto(p, "backend")
             /\ tmpd' = [tmpd EXCEPT ![p] = TRUE]
             /\ UNCHANGED <<lock, tmpf, tmpOutput, litter>>
    <3>1. ToPublish!(p)' /\ Temporaries!(p)'
      BY <1>0, <1>9, <2>2 DEF IInv, TypeOK, Temporaries, Goto, NextUri, At
    <3>2. output = NoFile /\ {pc[p], "backend"} \subseteq Locked
      BY <1>9 DEF IInv, NothingToReplace, NextUri, At, Creating, Locked
    <3>3. QED
      BY <1>0, <1>9, <2>2, <3>1, <3>2, HolderKeeps DEF NextUri, TypeOK
  <2>3. QED
    BY <1>9, <2>1, <2>2 DEF NextUri
<1>10. ASSUME NEW p \in Proc, Backend(p)
      PROVE  IInv'
  <2>1. output = NoFile /\ {pc[p], "nexturi", "post", "verify"} \subseteq Locked
    BY <1>10 DEF IInv, NothingToReplace, Backend, At, Creating, Locked
  <2>2. CASE NextOne(p)
    <3>1. ToPublish!(p)' /\ Temporaries!(p)'
      BY <1>0, <1>10, <2>2 DEF IInv, TypeOK, Temporaries, NextOne, Goto, Backend, At
    <3>2. QED
      BY <1>0, <1>10, <2>1, <2>2, <3>1, HolderKeeps DEF Backend, NextOne, TypeOK
  <2>3. ASSUME NEW c \in Content, NEW place \in {"post", "verify"},
               tmpf' = [tmpf EXCEPT ![p] = c], Goto(p, place), UNCHANGED tmpd
        PROVE  IInv'
    <3>1. ToPublish!(p)' /\ Temporaries!(p)'
      BY <1>0, <1>10, <2>3 DEF IInv, TypeOK, Temporaries, Goto, Backend, At
    <3>2. place \in Locked /\ place \notin {"link", "copying", "remove"}
      BY <2>1
    <3>3. /\ UNCHANGED <<lock, output, legacy, extracted, stamped, litter>>
          /\ \A q \in Proc \ {p} : /\ tmpd'[q] = tmpd[q]
                                  /\ tmpf'[q] = tmpf[q]
                                  /\ tmpOutput'[q] = tmpOutput[q]
                                  /\ rc'[q] = rc[q]
      BY <1>0, <1>10, <2>3 DEF Backend, TypeOK
    <3>4. output' = NoFile /\ output' # Partial
      BY <2>1, <3>3
    <3>5. QED
      BY <1>0, <2>1, <2>3, <3>1, <3>2, <3>3, <3>4, HolderKeeps
  <2>4. QED
    BY <1>10, <2>2, <2>3 DEF Backend
<1>11. ASSUME NEW p \in Proc, PostProcessing(p)
      PROVE  IInv'
  <2>1. output = NoFile /\ {pc[p], "nexturi", "post", "verify"} \subseteq Locked
    BY <1>11 DEF IInv, NothingToReplace, PostProcessing, At, Creating, Locked
  <2>2. CASE NextOne(p)
    <3>1. ToPublish!(p)' /\ Temporaries!(p)'
      BY <1>0, <1>11, <2>2 DEF IInv, TypeOK, Temporaries, NextOne, Goto, PostProcessing, At
    <3>2. QED
      BY <1>0, <1>11, <2>1, <2>2, <3>1, HolderKeeps DEF PostProcessing, NextOne, TypeOK
  <2>3. ASSUME NEW c \in Content, NEW place \in {"post", "verify"},
               tmpf' = [tmpf EXCEPT ![p] = c], Goto(p, place), UNCHANGED tmpd
        PROVE  IInv'
    <3>1. ToPublish!(p)' /\ Temporaries!(p)'
      BY <1>0, <1>11, <2>3 DEF IInv, TypeOK, Temporaries, Goto, PostProcessing, At
    <3>2. place \in Locked /\ place \notin {"link", "copying", "remove"}
      BY <2>1
    <3>3. /\ UNCHANGED <<lock, output, legacy, extracted, stamped, litter>>
          /\ \A q \in Proc \ {p} : /\ tmpd'[q] = tmpd[q]
                                  /\ tmpf'[q] = tmpf[q]
                                  /\ tmpOutput'[q] = tmpOutput[q]
                                  /\ rc'[q] = rc[q]
      BY <1>0, <1>11, <2>3 DEF PostProcessing, TypeOK
    <3>4. output' = NoFile /\ output' # Partial
      BY <2>1, <3>3
    <3>5. QED
      BY <1>0, <2>1, <2>3, <3>1, <3>2, <3>3, <3>4, HolderKeeps
  <2>4. QED
    BY <1>11, <2>2, <2>3 DEF PostProcessing
<1>12. ASSUME NEW p \in Proc, Verify(p)
      PROVE  IInv'
  <2>1. output = NoFile /\ {pc[p], "nexturi", "mktemp"} \subseteq Locked
    BY <1>12 DEF IInv, NothingToReplace, Verify, At, Creating, Locked
  <2>2. CASE NextOne(p) /\ rc' = [rc EXCEPT ![p] = 1]
    <3>1. ToPublish!(p)' /\ Temporaries!(p)'
      BY <1>0, <1>12, <2>2 DEF IInv, TypeOK, Temporaries, NextOne, Goto, Verify, At
    <3>2. QED
      BY <1>0, <1>12, <2>1, <2>2, <3>1, HolderKeeps DEF Verify, NextOne, TypeOK
  <2>3. CASE /\ rc' = [rc EXCEPT ![p] = IF Check(p, tmpf[p]) = HashOK THEN 0 ELSE 1]
             /\ Goto(p, "mktemp") /\ UNCHANGED <<tmpd, tmpf>>
    <3>1. Temporaries!(p)'
      BY <1>0, <1>12, <2>3 DEF IInv, TypeOK, Temporaries, Goto, Verify, At
    <3>2. tmpf[p] \in Content
      BY <1>12 DEF IInv, ToPublish, Verify, At
    <3>3. rc'[p] = 0 => Check(p, tmpf[p]) = HashOK
      BY <1>0, <2>3 DEF TypeOK
    <3>4. ToPublish!(p)'
      BY <1>0, <2>3, <3>2, <3>3 DEF TypeOK, Goto, At, Check
    <3>5. QED
      BY <1>0, <1>12, <2>1, <2>3, <3>1, <3>4, HolderKeeps DEF Verify, TypeOK
  <2>4. QED
    BY <1>12, <2>2, <2>3 DEF Verify
<1>13. ASSUME NEW p \in Proc, MakeTemp(p)
      PROVE  IInv'
  <2>1. CASE Exit(p, "failed", {}) /\ "mktemp" \in Faults
    <3>1. NoLitter'
      BY <2>1 DEF NoLitter
    <3>2. QED
      BY <1>0, <1>13, <2>1, <3>1, ExitKeeps DEF MakeTemp
  <2>2. CASE /\ tmpOutput' = [tmpOutput EXCEPT ![p] = Partial]
             /\ Goto(p, "cat") /\ UNCHANGED <<lock, tmpd, tmpf, litter>>
    <3>1. ToPublish!(p)' /\ Temporaries!(p)'
      BY <1>0, <1>13, <2>2
         DEF IInv, ToPublish, TypeOK, Temporaries, Goto, MakeTemp, At, Check
    <3>2. output = NoFile /\ {pc[p], "cat"} \subseteq Locked
      BY <1>13 DEF IInv, NothingToReplace, MakeTemp, At, Creating, Locked
    <3>3. QED
      BY <1>0, <1>13, <2>2, <3>1, <3>2, HolderKeeps DEF MakeTemp, TypeOK
  <2>3. QED
    BY <1>13, <2>1, <2>2 DEF MakeTemp
<1>14. ASSUME NEW p \in Proc, CopyOut(p)
      PROVE  IInv'
  <2>1. ASSUME NEW removed, Exit(p, "failed", removed), NoLitter'
        PROVE  IInv'
    BY <1>0, <1>14, <2>1, ExitKeeps DEF CopyOut
  <2>2. CASE CopyFailed(p)
    <3>1. NoLitter'
      BY <2>2 DEF IInv, NoLitter, CopyFailed, Exit
    <3>2. QED
      BY <2>1, <2>2, <3>1 DEF CopyFailed
  <2>3. CASE "mktemp" \in Faults /\ Exit(p, "failed", {})
    BY <2>1, <2>3 DEF NoLitter
  <2>4. CASE /\ tmpOutput' = [tmpOutput EXCEPT ![p] = tmpf[p]]
             /\ tmpd' = [tmpd EXCEPT ![p] = FALSE]
             /\ tmpf' = [tmpf EXCEPT ![p] = NoFile]
             /\ Goto(p, "mv") /\ UNCHANGED <<lock, litter>>
    <3>1. ToPublish!(p)' /\ Temporaries!(p)'
      BY <1>0, <1>14, <2>4
         DEF IInv, ToPublish, TypeOK, Temporaries, Goto, CopyOut, At, Check
    <3>2. output = NoFile /\ {pc[p], "mv"} \subseteq Locked
      BY <1>14 DEF IInv, NothingToReplace, CopyOut, At, Creating, Locked
    <3>3. QED
      BY <1>0, <1>14, <2>4, <3>1, <3>2, HolderKeeps DEF CopyOut, TypeOK
  <2>5. QED
    BY <1>14, <2>2, <2>3, <2>4 DEF CopyOut
<1>15. ASSUME NEW p \in Proc, Rename(p)
      PROVE  IInv'
  <2>1. PICK place \in {"downloaded", "failed"} :
           /\ Exit(p, place, {"tmp_output"})
           /\ \/ output' = tmpOutput[p] /\ (place = "downloaded" => rc[p] = 0)
              \/ output' = output /\ place = "failed"
    BY <1>15 DEF Rename
  <2>2. NoLitter'
    BY <1>0, <1>15, <2>1 DEF IInv, NoLitter, Temporaries, Rename, Exit, At, TypeOK
  <2>3. CASE output' = output /\ place = "failed"
    BY <1>0, <1>15, <2>1, <2>2, <2>3, ExitKeeps DEF Rename
  <2>4. CASE output' = tmpOutput[p] /\ (place = "downloaded" => rc[p] = 0)
    <3>1. /\ pc' = [pc EXCEPT ![p] = place]
          /\ lock' = IF lock = p THEN NoProc ELSE lock
          /\ tmpd' = [tmpd EXCEPT ![p] = FALSE]
          /\ tmpf' = [tmpf EXCEPT ![p] = NoFile]
          /\ tmpOutput' = [tmpOutput EXCEPT ![p] = NoFile]
      BY <1>0, <2>1, ExitEffect
    <3>2. lock = p /\ output = NoFile /\ pc[p] = "mv"
      BY <1>15 DEF IInv, NothingToReplace, Creating, Rename, At
    <3>3. \A q \in Proc : q # p => pc[q] \notin Locked
      BY <3>2 DEF IInv, LockHeld
    <3>4. LockHeld'
      BY <1>0, <3>1, <3>2, <3>3 DEF TypeOK, LockHeld, Locked
    <3>5. NothingToReplace'
      BY <1>0, <3>1, <3>3 DEF TypeOK, NothingToReplace, Creating, Locked
    <3>6. output' \in Content /\ (rc[p] = 0 => Check(p, output') = HashOK)
      BY <2>4, <3>2 DEF IInv, ToPublish, At
    <3>7. HalfCopied' /\ WrongFile'
      BY <1>0, <3>1, <3>3, <3>6 DEF TypeOK, HalfCopied, WrongFile, At, Locked
    <3>8. ToPublish'
      BY <1>0, <1>15, <3>1 DEF IInv, TypeOK, ToPublish, Rename, At, Check
    <3>9. Temporaries'
      BY <1>0, <3>1 DEF IInv, TypeOK, Temporaries
    <3>10. ASSUME Agree, Protected
           PROVE  SureAndBuilt'
      <4>1. Sure = {}
        BY <3>2, <3>10 DEF IInv, SureAndBuilt
      <4>2. QED
        BY <1>0, <1>15, <2>4, <3>1, <3>6, <3>10, <4>1
           DEF IInv, TypeOK, SureAndBuilt, Sure, Rename, At, Check
    <3>11. QED
      BY <1>0, <2>2, <3>4, <3>5, <3>7, <3>8, <3>9, <3>10
         DEF IInv, Agree, Protected, Check
  <2>5. QED
    BY <2>1, <2>3, <2>4
<1>16. ASSUME NEW p \in Proc, Touch(p)
      PROVE  IInv'
  <2>1. LockHeld'
    BY <1>0, <1>16 DEF IInv, TypeOK, LockHeld, Touch, Goto, At, Locked, Stopped
  <2>2. NothingToReplace'
    BY <1>0, <1>16, <2>1 DEF IInv, TypeOK, LockHeld, NothingToReplace, Touch,
       Goto, At, Locked, Creating, Stopped
  <2>3. HalfCopied' /\ WrongFile'
    BY <1>0, <1>16 DEF IInv, TypeOK, HalfCopied, WrongFile, Touch, Goto, At,
       Check, Stopped
  <2>4. ToPublish'
    BY <1>0, <1>16 DEF IInv, TypeOK, ToPublish, Touch, Goto, At, Check, Stopped
  <2>5. Temporaries' /\ NoLitter'
    <3>1. Temporaries'
      BY <1>0, <1>16 DEF IInv, TypeOK, Temporaries, Touch, Goto, At, Stopped
    <3>2. NoLitter'
      BY <1>16 DEF IInv, NoLitter, Touch
    <3>3. QED
      BY <3>1, <3>2
  <2>6. ASSUME Agree, Protected
        PROVE  SureAndBuilt'
    BY <1>0, <1>16, <2>6 DEF IInv, TypeOK, SureAndBuilt, Sure, Touch, Goto, At, Check
  <2>7. QED
    BY <1>0, <2>1, <2>2, <2>3, <2>4, <2>5, <2>6
       DEF IInv, Agree, Protected, Check
<1>17. ASSUME NEW p \in Proc, Extract(p)
      PROVE  IInv'
  <2>1. LockHeld'
    BY <1>0, <1>17 DEF IInv, TypeOK, LockHeld, Extract, Goto, At, Locked, Stopped
  <2>2. NothingToReplace'
    BY <1>0, <1>17, <2>1 DEF IInv, TypeOK, LockHeld, NothingToReplace, Extract,
       Goto, At, Locked, Creating, Stopped
  <2>3. HalfCopied' /\ WrongFile'
    BY <1>0, <1>17 DEF IInv, TypeOK, HalfCopied, WrongFile, Extract, Goto, At,
       Check, Stopped
  <2>4. ToPublish'
    BY <1>0, <1>17 DEF IInv, TypeOK, ToPublish, Extract, Goto, At, Check, Stopped
  <2>5. Temporaries' /\ NoLitter'
    <3>1. Temporaries'
      BY <1>0, <1>17 DEF IInv, TypeOK, Temporaries, Extract, Goto, At, Stopped
    <3>2. NoLitter'
      BY <1>17 DEF IInv, NoLitter, Extract
    <3>3. QED
      BY <3>1, <3>2
  <2>6. ASSUME Agree, Protected
        PROVE  SureAndBuilt'
    <3>1. SureAndBuilt
      BY <2>6 DEF IInv
    <3>2. output \in Content /\ Check(p, output) = HashOK /\ output # NoFile
      BY <1>17, <3>1 DEF SureAndBuilt, Sure, Extract, At
    <3>3. Sure' = Sure /\ UNCHANGED <<output, stamped>>
      BY <1>0, <1>17 DEF TypeOK, Sure, Extract, Goto, At
    <3>4. \A q \in Proc : At(q, "extract")' => stamped'[q]
      BY <1>0, <1>17, <3>1 DEF TypeOK, SureAndBuilt, Extract, Goto, At
    <3>5. \A q \in Proc : At(q, "built")' =>
            \/ q = p /\ extracted'[q] = output
            \/ At(q, "built") /\ extracted'[q] = extracted[q]
      BY <1>0, <1>17, <3>2 DEF TypeOK, Extract, Goto, At
    <3>6. QED
      BY <3>1, <3>2, <3>3, <3>4, <3>5 DEF SureAndBuilt, Check
  <2>7. QED
    BY <1>0, <2>1, <2>2, <2>3, <2>4, <2>5, <2>6
       DEF IInv, Agree, Protected, Check
<1>18. ASSUME NEW p \in Proc, Kill(p)
      PROVE  IInv'
  <2>1. NoLitter'
    BY <1>18 DEF NoLitter, Kill
  <2>2. QED
    BY <1>0, <1>18, <2>1, ExitKeeps DEF Kill
<1>19. QED
  BY <1>1, <1>2, <1>3, <1>4, <1>5, <1>6, <1>7, <1>8, <1>9, <1>10, <1>11, <1>12,
     <1>13, <1>14, <1>15, <1>16, <1>17, <1>18 DEF Next, Step

(* The inductive invariant holds in every reachable state.                 *)
THEOREM Invariance == Spec => []IInv
<1>1. Safe => []IInv
  BY IInvInit, IInvStep, PTL DEF Safe
<1>2. QED
  BY <1>1, PTL DEF Spec

-----------------------------------------------------------------------------
(* The safety properties                                                   *)

(* A build whose download step succeeded has a whole file that its hashes  *)
(* accept, until it downloads again.                                       *)
THEOREM DownloadStaysGood == Spec => []VerifiedDone
<1>1. IInv => VerifiedDone
  BY DEF IInv, VerifiedDone, SureAndBuilt
<1>2. QED
  BY <1>1, Invariance, PTL

(* Every build unpacks a whole file that has all its listed hashes.        *)
THEOREM BuiltHasAllHashes == Spec => []BuiltFromGood
<1>1. ASSUME IInv
      PROVE  BuiltFromGood
  <2>1. SUFFICES ASSUME Agree, Protected, NEW p \in Proc, At(p, "built")
                 PROVE  /\ extracted[p] \in Content
                        /\ p \in HasHash =>
                             \A i \in DOMAIN HashLines[p] :
                               extracted[p] \in HashLines[p][i].match
    BY DEF BuiltFromGood
  <2>2. extracted[p] \in Content /\ Check(p, extracted[p]) = HashOK
    BY <1>1, <2>1 DEF IInv, SureAndBuilt
  <2>3. HashLines[p] \in Seq(HashLine)
    BY ConstantsAssumption
  <2>4. ASSUME p \in HasHash
        PROVE  \A i \in DOMAIN HashLines[p] :
                 extracted[p] \in HashLines[p][i].match
    <3>1. CheckHashCode(TRUE, HashLines[p], p \in NoCheck, extracted[p]) = HashOK
      BY <2>2, <2>4 DEF Check, CheckHashCode
    <3>2. QED
      BY <2>3, <3>1, HashOKMeansAllMatch
  <2>5. QED
    BY <2>2, <2>4
<1>2. QED
  BY <1>1, Invariance, PTL

(* A rename never replaces another build's download.                       *)
THEOREM RenameReplacesNothing == Spec => []NothingToReplace
<1>1. IInv => NothingToReplace
  BY DEF IInv
<1>2. QED
  BY <1>1, Invariance, PTL

(* Without faults no temporary is left behind.                             *)
THEOREM NothingLeftBehind == Spec => []NoLitter
<1>1. IInv => NoLitter
  BY DEF IInv
<1>2. QED
  BY <1>1, Invariance, PTL

(* A download is removed only by a build for which a hash is wrong.        *)
LEMMA OnlyWrongStep ==
  ASSUME IInv, [Next]_vars, output \in Content, output' # output
  PROVE  /\ output' = NoFile
         /\ \E p \in Proc : lock = p /\ Check(p, output) = HashWrong
<1> USE ConstantsAssumption
<1>1. PICK p \in Proc : Start(p) \/ Step(p) \/ Kill(p)
  BY DEF Next, vars
<1>2. Remove(p)
  <2>1. output # NoFile /\ output # Partial
    OBVIOUS
  <2>2. ~LegacyLink(p)
    BY <2>1 DEF LegacyLink, IInv, NothingToReplace, At, Creating
  <2>3. ~LegacyCopy(p)
    BY <2>1 DEF LegacyCopy, IInv, HalfCopied
  <2>4. ~Rename(p)
    BY <2>1 DEF Rename, IInv, NothingToReplace, At, Creating
  <2>5. QED
    BY <1>1, <2>2, <2>3, <2>4
       DEF Step, Start, Kill, Flock, Legacy, CheckExisting, NextUri, Backend, PostProcessing, Verify,
           MakeTemp, CopyOut, Touch, Extract
<1>3. lock = p
  BY <1>2 DEF Remove, IInv, LockHeld, Locked, At
<1>4. QED
  BY <1>2, <1>3 DEF Remove, IInv, WrongFile, At

THEOREM OnlyWrongGoes == Spec => OnlyWrongRemoved
<1>1. IInv /\ [Next]_vars =>
        [(output' # output /\ output \in Content) =>
           /\ output' = NoFile
           /\ \E p \in Proc : lock = p /\ Check(p, output) = HashWrong]_vars
  BY OnlyWrongStep
<1>2. Spec => [][Next]_vars
  BY PTL DEF Spec, Safe
<1>3. QED
  BY <1>1, <1>2, Invariance, PTL DEF OnlyWrongRemoved

-----------------------------------------------------------------------------
(* The refinement                                                          *)

\* The abstract store's variables, as DlWrapper shows them.
StoreNow == IF output = Partial THEN NoFile ELSE output

(* A step that keeps the output and makes nobody sure is a stutter, or a   *)
(* build that forgets the promise.                                         *)
LEMMA KeepIsStore ==
  ASSUME NEW p \in Proc, UNCHANGED output,
         Sure' = Sure \/ (p \in Sure /\ Sure' = Sure \ {p})
  PROVE  [Store!Next]_<<StoreNow, Sure>>
BY DEF Store!Next, Store!Release, StoreNow

(* Nothing but the success of a download, and forgetting it, changes Sure. *)
LEMMA SureChange ==
  ASSUME IInv, NEW p \in Proc, Start(p) \/ Step(p) \/ Kill(p),
         ~CheckExisting(p), ~Rename(p)
  PROVE  Sure' = Sure \/ (p \in Sure /\ Sure' = Sure \ {p})
<1>1. TypeOK
  BY DEF IInv
<1>2. \A q \in Proc \ {p} : pc'[q] = pc[q] /\ stamped'[q] = stamped[q]
  <2>1. \E place : Goto(p, place)
    BY DEF Start, Step, Kill, Flock, Legacy, LegacyLink, LegacyCopy, Remove,
       NextUri, Backend, PostProcessing, Verify, MakeTemp, CopyOut, CopyFailed,
       Touch, Extract, NextOne, Exit
  <2>2. stamped' = stamped \/ \E s : stamped' = [stamped EXCEPT ![p] = s]
    BY DEF Start, Step, Kill, Flock, Legacy, LegacyLink, LegacyCopy, Remove,
       NextUri, Backend, PostProcessing, Verify, MakeTemp, CopyOut, Touch, Extract
  <2>3. QED
    BY <1>1, <2>1, <2>2 DEF Goto, TypeOK
<1>3. At(p, "downloaded")' \/ stamped'[p] => At(p, "downloaded") \/ stamped[p]
  <2>1. CASE Start(p) \/ Touch(p) \/ Extract(p) \/ Flock(p) \/ Legacy(p)
             \/ LegacyLink(p) \/ LegacyCopy(p) \/ Remove(p)
    BY <1>1, <2>1 DEF TypeOK, Start, Touch, Extract, Flock, Legacy, LegacyLink,
       LegacyCopy, Remove, Goto, At
  <2>2. CASE Backend(p) \/ PostProcessing(p) \/ Verify(p)
    BY <1>1, <2>2 DEF TypeOK, Backend, PostProcessing, Verify, NextOne, Goto, At
  <2>3. CASE NextUri(p) \/ MakeTemp(p) \/ CopyOut(p) \/ Kill(p)
    <3>1. stamped' = stamped
      BY <2>3 DEF NextUri, MakeTemp, CopyOut, Kill
    <3>2. \E place \in {"backend", "cat", "mv", "failed", "killed"} : Goto(p, place)
      BY <2>3 DEF NextUri, MakeTemp, CopyOut, CopyFailed, Kill, Exit
    <3>3. QED
      BY <1>1, <3>1, <3>2 DEF TypeOK, Goto, At
  <2>4. QED
    BY <2>1, <2>2, <2>3 DEF Step
<1>4. QED
  BY <1>2, <1>3 DEF Sure, At

(* Each step of DlWrapper is a step of the store, or none.                 *)
LEMMA StoreStep ==
  ASSUME Agree, Protected, IInv, IInv', [Next]_vars
  PROVE  [Store!Next]_<<StoreNow, Sure>>
<1> USE ConstantsAssumption
<1>1. TypeOK /\ SureAndBuilt /\ SureAndBuilt'
  BY DEF IInv, Agree, Protected, Check
<1>2. CASE UNCHANGED vars
  BY <1>2 DEF vars, StoreNow, Sure, At
<1>3. ASSUME NEW p \in Proc, Start(p) \/ Step(p) \/ Kill(p),
             ~CheckExisting(p), ~Rename(p), ~LegacyLink(p), ~LegacyCopy(p),
             ~Remove(p)
      PROVE  [Store!Next]_<<StoreNow, Sure>>
  <2>1. UNCHANGED output
    BY <1>3 DEF Step, Start, Kill, Flock, Legacy, NextUri, Backend,
       PostProcessing, Verify, MakeTemp, CopyOut, Touch, Extract
  <2>2. QED
    BY <1>3, <2>1, SureChange, KeepIsStore
<1>4. ASSUME NEW p \in Proc, LegacyLink(p) \/ LegacyCopy(p)
      PROVE  [Store!Next]_<<StoreNow, Sure>>
  <2>1. Sure' = Sure
    BY <1>1, <1>4 DEF TypeOK, LegacyLink, LegacyCopy, Sure, Goto, At
  <2>2. output \in {NoFile, Partial}
    BY <1>4 DEF IInv, HalfCopied, NothingToReplace, LegacyLink, LegacyCopy, At,
       Creating
  <2>3. output' \in {output, Partial} \cup Content
    BY <1>4 DEF IInv, HalfCopied, LegacyLink, LegacyCopy, At
  <2>4. QED
    BY <2>1, <2>2, <2>3 DEF Store!Next, Store!Publish, StoreNow
<1>5. ASSUME NEW p \in Proc, CheckExisting(p)
      PROVE  [Store!Next]_<<StoreNow, Sure>>
  <2>1. output' = output
    BY <1>5 DEF CheckExisting
  <2>2. CASE Sure' = Sure
    BY <2>1, <2>2 DEF StoreNow
  <2>3. CASE Sure' # Sure
    <3>1. Sure' = Sure \cup {p} /\ p \in Sure'
      BY <1>1, <1>5, <2>3
         DEF TypeOK, CheckExisting, Exit, Goto, Sure, At
    <3>2. output \in Content /\ Check(p, output) = HashOK
      BY <1>1, <2>1, <3>1 DEF SureAndBuilt, Check
    <3>3. Store!Promise(p)
      BY <2>1, <3>1, <3>2 DEF Store!Promise, StoreNow
    <3>4. QED
      BY <3>3 DEF Store!Next
  <2>4. QED
    BY <2>2, <2>3
<1>6. ASSUME NEW p \in Proc, Remove(p)
      PROVE  [Store!Next]_<<StoreNow, Sure>>
  <2>1. output' = NoFile /\ Check(p, output) = HashWrong /\ output # NoFile
    BY <1>6 DEF Remove, IInv, WrongFile, At
  <2>2. Sure = {}
    BY <1>1, <2>1 DEF SureAndBuilt, Agree, Sure, HashOK, HashWrong, TypeOK
  <2>3. Sure' = {}
    BY <1>1, <2>1 DEF SureAndBuilt
  <2>4. CASE output = Partial
    BY <2>1, <2>2, <2>3, <2>4 DEF StoreNow
  <2>5. CASE output # Partial
    <3>1. output \in Content
      BY <1>1, <2>1, <2>5 DEF TypeOK, File
    <3>2. Store!Reject(p)
      BY <2>1, <2>2, <2>3, <2>5, <3>1 DEF Store!Reject
    <3>3. QED
      BY <3>2 DEF Store!Next
  <2>6. QED
    BY <2>4, <2>5
<1>7. ASSUME NEW p \in Proc, Rename(p)
      PROVE  [Store!Next]_<<StoreNow, Sure>>
  <2>1. output = NoFile /\ Sure = {}
    BY <1>1, <1>7 DEF IInv, NothingToReplace, Rename, At, Creating, SureAndBuilt
  <2>2. Sure' \subseteq {p}
    BY <1>1, <1>7, <2>1 DEF TypeOK, Rename, Exit, Goto, Sure, At
  <2>3. CASE output' = output
    BY <1>1, <2>1, <2>3 DEF SureAndBuilt, StoreNow
  <2>4. CASE output' # output
    <3>1. output' \in Content
      BY <1>7, <2>4 DEF IInv, ToPublish, Rename, At
    <3>2. p \in Sure' => Check(p, output') = HashOK
      BY <1>1 DEF SureAndBuilt, Check
    <3>3. Store!Publish
      <4>1. CASE Sure' = {}
        BY <2>1, <3>1, <4>1 DEF Store!Publish
      <4>2. CASE Sure' = {p}
        <5>1. Sure' = Sure \cup {p}
          BY <2>1, <4>2
        <5>2. p \in {v \in Proc : output' \in
                       [q \in Proc |-> {c \in Content : Check(q, c) = HashOK}][v]}
          BY <3>1, <3>2, <4>2
        <5>3. QED
          BY <2>1, <3>1, <5>1, <5>2 DEF Store!Publish
      <4>3. QED
        BY <2>2, <4>1, <4>2
    <3>4. QED
      BY <3>3 DEF Store!Next
  <2>5. QED
    BY <2>3, <2>4
<1>8. QED
  BY <1>2, <1>3, <1>4, <1>5, <1>6, <1>7 DEF Next, Step

(* dl-wrapper implements the atomic store, when the builds agree on the    *)
(* hashes and a half-copied legacy file cannot pass.                       *)
THEOREM ImplementsStore ==
  ASSUME Agree, Protected
  PROVE  Spec => StoreSpec
<1>1. Init => Store!Init
  BY ConstantsAssumption DEF Init, Store!Init, Sure, At
<1>2. IInv /\ IInv' /\ [Next]_vars => [Store!Next]_<<StoreNow, Sure>>
  BY StoreStep
<1>3. QED
  BY <1>1, <1>2, Invariance, PTL DEF Spec, Safe, StoreSpec, Store!Spec, StoreNow
=============================================================================
