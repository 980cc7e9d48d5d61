------------------------------ MODULE DlWrapper ------------------------------
(***************************************************************************)
(* The download of one file of one package into the shared download        *)
(* directory: package/pkg-download.mk (DOWNLOAD), the .stamp_downloaded    *)
(* and .stamp_extracted recipes of package/pkg-generic.mk, and             *)
(* support/download/dl-wrapper.                                            *)
(*                                                                         *)
(* A process is one build that needs the file.  Several builds run at once *)
(* (parallel make runs the target and the host variant of a package, and   *)
(* several Buildroot trees may share BR2_DL_DIR), each with its own        *)
(* BUILD_DIR.  Each runs dl-wrapper under flock on the lock file of the    *)
(* package's download directory, may be killed at any point, and is        *)
(* started again by the user.                                              *)
(***************************************************************************)
EXTENDS CheckHash

CONSTANTS
  Proc,        \* the builds
  NUris,       \* how many URIs DOWNLOAD_URIS lists for the file
  HasHash,     \* the builds whose package has at least one .hash file
  HashLines,   \* HashLines[p]: the lines of those files that name the file
  NoCheck,     \* the builds that list the file in BR_NO_CHECK_HASH_FOR
  CanLink,     \* "ln" from the legacy location never fails
  PostProcess, \* the package has a download post-process step (cargo, go)
  Faults,      \* what may go wrong besides a download: see Fault
  NoFile,      \* the path does not exist
  Partial,     \* a file whose writer stopped before the end
  NoProc,      \* nobody holds the lock
  MaxRuns      \* bound on how often each build is started

File == Content \cup {NoFile, Partial}

(***************************************************************************)
(* "kill": the user interrupts a build, or the machine goes down (the      *)
(* script sets no trap).  "mktemp": a temporary cannot be made or its mode *)
(* cannot be set, and "set -e" ends the script there.                      *)
(***************************************************************************)
Fault == {"kill", "mktemp"}

ASSUME ConstantsAssumption ==
  /\ NUris \in Nat /\ MaxRuns \in Nat
  /\ HasHash \subseteq Proc /\ NoCheck \subseteq Proc
  /\ HashLines \in [Proc -> Seq(HashLine)]
  /\ CanLink \in BOOLEAN /\ PostProcess \in BOOLEAN
  /\ Faults \subseteq Fault
  /\ NoFile \notin Content /\ Partial \notin Content /\ NoFile # Partial
  /\ NoProc \notin Proc

VARIABLES
  lock,        \* who holds the flock on $(PKG)_DL_DIR/.lock
  output,      \* $(PKG)_DL_DIR/<file>, the published download
  legacy,      \* DL_DIR/<file>, where older versions put downloads
  pc,          \* where each build is
  uri,         \* how many URIs the running dl-wrapper has tried
  tmpd,        \* a temporary directory of the running dl-wrapper exists
  tmpf,        \* the file in it
  tmpOutput,   \* the temporary file next to output, NoFile if none
  rc,          \* dl-wrapper's rc: the result of the last hash check
  extracted,   \* what the build unpacked
  stamped,     \* the build has its .stamp_downloaded
  litter,      \* temporaries that nothing will remove any more
  runs         \* how often each build was started

vars == <<lock, output, legacy, pc, uri, tmpd, tmpf, tmpOutput, rc,
          extracted, stamped, litter, runs>>

\* The places at which dl-wrapper runs, and holds the lock.
Locked == {"legacy", "link", "copying", "check", "remove", "nexturi",
           "backend", "post", "verify", "mktemp", "cat", "mv"}
\* The places at which dl-wrapper has found output missing, and creates it.
Creating == {"link", "nexturi", "backend", "post", "verify", "mktemp", "cat",
             "mv"}
\* The places at which the build is stopped.
Stopped == {"idle", "failed", "killed", "built"}
Place == Locked \cup Stopped \cup {"flock", "downloaded", "extract"}

Check(p, file) ==
  CheckHashCode(p \in HasHash, HashLines[p], p \in NoCheck, file)

TypeOK ==
  /\ lock \in Proc \cup {NoProc}
  /\ output \in File
  /\ legacy \in Content \cup {NoFile}
  /\ pc \in [Proc -> Place]
  /\ uri \in [Proc -> 0 .. NUris]
  /\ tmpd \in [Proc -> BOOLEAN]
  /\ tmpf \in [Proc -> File]
  /\ tmpOutput \in [Proc -> File]
  /\ rc \in [Proc -> {0, 1}]
  /\ extracted \in [Proc -> File]
  /\ stamped \in [Proc -> BOOLEAN]
  /\ litter \subseteq {"tmpd", "tmp_output"}
  /\ runs \in [Proc -> 0 .. MaxRuns]

-----------------------------------------------------------------------------
(* The download directory starts without the file; a file of the same name *)
(* may be left in the legacy location, whatever it contains.               *)
Init ==
  /\ lock = NoProc
  /\ output = NoFile
  /\ legacy \in Content \cup {NoFile}
  /\ pc = [p \in Proc |-> "idle"]
  /\ uri = [p \in Proc |-> 0]
  /\ tmpd = [p \in Proc |-> FALSE]
  /\ tmpf = [p \in Proc |-> NoFile]
  /\ tmpOutput = [p \in Proc |-> NoFile]
  /\ rc = [p \in Proc |-> 1]
  /\ extracted = [p \in Proc |-> NoFile]
  /\ stamped = [p \in Proc |-> FALSE]
  /\ litter = {}
  /\ runs = [p \in Proc |-> 0]

At(p, place) == pc[p] = place
Goto(p, place) == pc' = [pc EXCEPT ![p] = place]

\* Mutant of Unlock: a stale lock.
UnlockNever(p) == lock

(* The kernel drops the flock of a process that ends.                      *)
Unlock(p) == IF lock = p THEN NoProc ELSE lock

(* The end of the wrapper's process: of the temporaries it has, those it   *)
(* did not remove stay behind.                                             *)
Exit(p, place, removed) ==
  /\ Goto(p, place)
  /\ lock' = Unlock(p)
  /\ litter' = litter \cup ((  (IF tmpd[p] THEN {"tmpd"} ELSE {})
                        \cup (IF tmpOutput[p] # NoFile THEN {"tmp_output"} ELSE {}))
                       \ removed)
  /\ tmpd' = [tmpd EXCEPT ![p] = FALSE]
  /\ tmpf' = [tmpf EXCEPT ![p] = NoFile]
  /\ tmpOutput' = [tmpOutput EXCEPT ![p] = NoFile]

(* make is started.  It runs the download recipe when the build has no     *)
(* .stamp_downloaded, as after a dirclean; else it goes on with the        *)
(* extract recipe, unless that is done.                                    *)
Start(p) ==
  /\ pc[p] \in Stopped
  /\ runs[p] < MaxRuns
  /\ runs' = [runs EXCEPT ![p] = @ + 1]
  /\ \/ Goto(p, "flock") /\ stamped' = [stamped EXCEPT ![p] = FALSE]
     \/ /\ stamped[p] /\ ~At(p, "built")
        /\ Goto(p, "extract")
        /\ UNCHANGED stamped
  /\ UNCHANGED <<lock, output, legacy, uri, tmpd, tmpf, tmpOutput, rc,
                 extracted, litter>>

\* Mutant of LockFree: no lock.
LockFreeAlways(p) == TRUE

(* flock(1) waits until nobody has the lock.                               *)
LockFree(p) == lock = NoProc

(* It gets the lock and runs dl-wrapper.                                   *)
Flock(p) ==
  /\ At(p, "flock")
  /\ LockFree(p)
  /\ lock' = p
  /\ Goto(p, "legacy")
  /\ uri' = [uri EXCEPT ![p] = 0]
  /\ rc' = [rc EXCEPT ![p] = 1]
  /\ UNCHANGED <<output, legacy, tmpd, tmpf, tmpOutput, extracted, stamped,
                 litter, runs>>

(* Legacy handling: is there something to take over?                       *)
Legacy(p) ==
  /\ At(p, "legacy")
  /\ Goto(p, IF output = NoFile /\ legacy # NoFile THEN "link" ELSE "check")
  /\ UNCHANGED <<lock, output, legacy, uri, tmpd, tmpf, tmpOutput, rc,
                 extracted, stamped, litter, runs>>

(* ln, which does not replace a file, works; or else cp starts to write,   *)
(* into what is there; or "|| true" goes on when not even that is possible. *)
LegacyLink(p) ==
  /\ At(p, "link")
  /\ \/ output = NoFile /\ output' = legacy /\ Goto(p, "check")
     \/ ~CanLink /\ output' = Partial /\ Goto(p, "copying")
     \/ ~CanLink /\ output' = output /\ Goto(p, "check")
  /\ UNCHANGED <<lock, legacy, uri, tmpd, tmpf, tmpOutput, rc, extracted,
                 stamped, litter, runs>>

(* The cp ends.  When it fails, "|| true" goes on with what it wrote.      *)
LegacyCopy(p) ==
  /\ At(p, "copying")
  /\ output' \in {legacy, Partial}
  /\ Goto(p, "check")
  /\ UNCHANGED <<lock, legacy, uri, tmpd, tmpf, tmpOutput, rc, extracted,
                 stamped, litter, runs>>

\* Mutant of ForcesDownload: the test of exit code 2 dropped.
ForcesOnAny(code) == code # HashOK

(* Of the exit codes of check-hash, the one that says "force a re-download". *)
ForcesDownload(code) == code = HashWrong

(* The file is there already: exit if it is good, and exit, leaving it, if *)
(* check-hash could not tell.                                              *)
CheckExisting(p) ==
  /\ At(p, "check")
  /\ \/ /\ output = NoFile
        /\ Goto(p, "nexturi")
        /\ UNCHANGED <<lock, litter, tmpd, tmpf, tmpOutput>>
     \/ /\ output # NoFile /\ Check(p, output) = HashOK
        /\ Exit(p, "downloaded", {})
     \/ /\ output # NoFile /\ ForcesDownload(Check(p, output))
        /\ Goto(p, "remove")
        /\ UNCHANGED <<lock, litter, tmpd, tmpf, tmpOutput>>
     \/ /\ output # NoFile
        /\ Check(p, output) # HashOK /\ ~ForcesDownload(Check(p, output))
        /\ Exit(p, "failed", {})
  /\ UNCHANGED <<output, legacy, uri, rc, extracted, stamped, runs>>

(* rm -f of the wrong file.                                                *)
Remove(p) ==
  /\ At(p, "remove")
  /\ output' = NoFile
  /\ Goto(p, "nexturi")
  /\ UNCHANGED <<lock, legacy, uri, tmpd, tmpf, tmpOutput, rc, extracted,
                 stamped, litter, runs>>

-----------------------------------------------------------------------------
(* The rest of dl-wrapper: it found no output, and creates it.             *)

(* The temporary directory is gone, the loop goes on with the next URI.    *)
NextOne(p) ==
  /\ Goto(p, "nexturi")
  /\ tmpd' = [tmpd EXCEPT ![p] = FALSE]
  /\ tmpf' = [tmpf EXCEPT ![p] = NoFile]

(* Is there a URI the loop has not tried?                                  *)
UriLeft(p) == uri[p] < NUris

(* The head of the loop, and what follows it when no URI is left.          *)
NextUri(p) ==
  /\ At(p, "nexturi")
  /\ \/ /\ UriLeft(p)
        /\ uri' = [uri EXCEPT ![p] = @ + 1]
        /\ \/ /\ Goto(p, "backend")
              /\ tmpd' = [tmpd EXCEPT ![p] = TRUE]
              /\ UNCHANGED <<lock, tmpf, tmpOutput, litter>>
           \/ "mktemp" \in Faults /\ Exit(p, "failed", {})
     \/ /\ ~UriLeft(p)
        /\ Exit(p, "failed", {"tmpd"})
        /\ UNCHANGED uri
  /\ UNCHANGED <<output, legacy, rc, extracted, stamped, runs>>

(* The backend downloads something complete, right or wrong, or it fails.  *)
Backend(p) ==
  /\ At(p, "backend")
  /\ \/ /\ \E c \in Content : tmpf' = [tmpf EXCEPT ![p] = c]
        /\ Goto(p, IF PostProcess THEN "post" ELSE "verify")
        /\ UNCHANGED tmpd
     \/ NextOne(p)
  /\ UNCHANGED <<lock, output, legacy, uri, tmpOutput, rc, extracted,
                 stamped, litter, runs>>

(* The post-process step repacks tmpf, or it fails.                        *)
PostProcessing(p) ==
  /\ At(p, "post")
  /\ \/ /\ \E c \in Content : tmpf' = [tmpf EXCEPT ![p] = c]
        /\ Goto(p, "verify")
        /\ UNCHANGED tmpd
     \/ NextOne(p)
  /\ UNCHANGED <<lock, output, legacy, uri, tmpOutput, rc, extracted,
                 stamped, litter, runs>>

(* A file that no line of the .hash files names is kept, but the wrapper   *)
(* will report failure.                                                    *)
Verify(p) ==
  /\ At(p, "verify")
  /\ IF Check(p, tmpf[p]) \in {HashOK, HashMissing}
     THEN /\ rc' = [rc EXCEPT ![p] = IF Check(p, tmpf[p]) = HashOK
                                    THEN 0 ELSE 1]
          /\ Goto(p, "mktemp")
          /\ UNCHANGED <<tmpd, tmpf>>
     ELSE NextOne(p) /\ rc' = [rc EXCEPT ![p] = 1]
  /\ UNCHANGED <<lock, output, legacy, uri, tmpOutput, extracted, stamped,
                 litter, runs>>

(* mktemp next to the output.                                              *)
MakeTemp(p) ==
  /\ At(p, "mktemp")
  /\ \/ /\ tmpOutput' = [tmpOutput EXCEPT ![p] = Partial]
        /\ Goto(p, "cat")
        /\ UNCHANGED <<lock, tmpd, tmpf, litter>>
     \/ "mktemp" \in Faults /\ Exit(p, "failed", {})
  /\ UNCHANGED <<output, legacy, uri, rc, extracted, stamped, runs>>

\* Mutant of CopyFailed: the temporary directory forgotten.
CopyFailedKeepsDir(p) == Exit(p, "failed", {"tmp_output"})

(* cat failed: remove both temporaries.                                    *)
CopyFailed(p) == Exit(p, "failed", {"tmpd", "tmp_output"})

(* chmod of the temporary, and cat into it; once cat ran, the temporary    *)
(* directory goes in any case.                                             *)
CopyOut(p) ==
  /\ At(p, "cat")
  /\ \/ /\ tmpOutput' = [tmpOutput EXCEPT ![p] = tmpf[p]]
        /\ tmpd' = [tmpd EXCEPT ![p] = FALSE]
        /\ tmpf' = [tmpf EXCEPT ![p] = NoFile]
        /\ Goto(p, "mv")
        /\ UNCHANGED <<lock, litter>>
     \/ CopyFailed(p)
     \/ "mktemp" \in Faults /\ Exit(p, "failed", {})
  /\ UNCHANGED <<output, legacy, uri, rc, extracted, stamped, runs>>

(* The atomic rename, after which the wrapper returns rc.                  *)
Rename(p) ==
  /\ At(p, "mv")
  /\ \/ /\ output' = tmpOutput[p]
        /\ Exit(p, IF rc[p] = 0 THEN "downloaded" ELSE "failed", {"tmp_output"})
     \/ output' = output /\ Exit(p, "failed", {"tmp_output"})
  /\ UNCHANGED <<legacy, uri, rc, extracted, stamped, runs>>

-----------------------------------------------------------------------------
(* The end of the download recipe.                                         *)
Touch(p) ==
  /\ At(p, "downloaded")
  /\ stamped' = [stamped EXCEPT ![p] = TRUE]
  /\ Goto(p, "extract")
  /\ UNCHANGED <<lock, output, legacy, uri, tmpd, tmpf, tmpOutput, rc,
                 extracted, litter, runs>>

(* .stamp_extracted: the build unpacks the published file, without any     *)
(* lock, some time after its download step succeeded, maybe in a later run *)
(* of make.                                                                *)
Extract(p) ==
  /\ At(p, "extract")
  /\ IF output = NoFile
     THEN Goto(p, "failed") /\ UNCHANGED extracted
     ELSE Goto(p, "built") /\ extracted' = [extracted EXCEPT ![p] = output]
  /\ UNCHANGED <<lock, output, legacy, uri, tmpd, tmpf, tmpOutput, rc,
                 stamped, litter, runs>>

(* The build is killed where it stands: nothing is cleaned up.             *)
Kill(p) ==
  /\ "kill" \in Faults
  /\ pc[p] \notin Stopped
  /\ Exit(p, "killed", {})
  /\ UNCHANGED <<output, legacy, uri, rc, extracted, stamped, runs>>

Step(p) ==
  \/ Flock(p) \/ Legacy(p) \/ LegacyLink(p) \/ LegacyCopy(p)
  \/ CheckExisting(p) \/ Remove(p)
  \/ NextUri(p) \/ Backend(p) \/ PostProcessing(p) \/ Verify(p)
  \/ MakeTemp(p) \/ CopyOut(p) \/ Rename(p) \/ Touch(p)
  \/ Extract(p)

Next == \E p \in Proc : Start(p) \/ Step(p) \/ Kill(p)

Safe == Init /\ [][Next]_vars

(* A process that can run does; nobody has to start a build, or kill one.  *)
Spec == Safe /\ \A p \in Proc : WF_vars(Step(p))

-----------------------------------------------------------------------------
(* The two conditions the promises rest on.                                *)

\* The builds agree on which downloads are good: the same .hash files.
Agree == \A p, q \in Proc, file \in File : Check(p, file) = Check(q, file)

\* A half-copied legacy file cannot pass: link works, or hashes tell.
Protected == CanLink \/ \A p \in Proc : Check(p, Partial) # HashOK

\* The builds whose download recipe counts the file as downloaded.
Sure == {p \in Proc : At(p, "downloaded") \/ stamped[p]}

(* A download step that succeeded relied on a whole file that its hashes   *)
(* accept, and that file is still there, the same, for as long as the      *)
(* build does not download again: although unpacking takes no lock, may    *)
(* come in a later run of make, and other builds remove a file they find   *)
(* wrong.                                                                  *)
VerifiedDone ==
  Agree /\ Protected =>
    \A p \in Sure : output \in Content /\ Check(p, output) = HashOK

(* What a build unpacked last was whole and had every hash its .hash files *)
(* list for it, at whatever time other builds replaced the published file. *)
BuiltFromGood ==
  Agree /\ Protected =>
    \A p \in Proc : At(p, "built") =>
      /\ extracted[p] \in Content
      /\ p \in HasHash =>
           \A i \in DOMAIN HashLines[p] : extracted[p] \in HashLines[p][i].match

(* dl-wrapper creates exclusively: whoever is past the test of the       *)
(* existing file can rely on there being none until its own rename, so a   *)
(* rename never replaces another build's download.                         *)
NothingToReplace ==
  \A p \in Proc : pc[p] \in Creating => lock = p /\ output = NoFile

(* With no kill and no failing mktemp or chmod every way out of dl-wrapper *)
(* removes the temporaries it has, so no run leaves one behind.            *)
NoLitter == Faults = {} => litter = {}

\* What the invariants above need to be inductive.
LockHeld == \A p \in Proc : pc[p] \in Locked <=> lock = p

HalfCopied ==
  /\ output = Partial => ~CanLink
  /\ \A p \in Proc : At(p, "copying") => output = Partial
  /\ \A p \in Proc : pc[p] \in {"link", "copying"} => legacy \in Content

WrongFile ==
  \A p \in Proc : At(p, "remove") => Check(p, output) = HashWrong /\ output # NoFile

ToPublish ==
  \A p \in Proc :
    /\ pc[p] \in {"verify", "mktemp", "cat"} => tmpf[p] \in Content
    /\ At(p, "mv") => tmpOutput[p] \in Content
    /\ pc[p] \in {"mktemp", "cat"} /\ rc[p] = 0 => Check(p, tmpf[p]) = HashOK
    /\ At(p, "mv") /\ rc[p] = 0 => Check(p, tmpOutput[p]) = HashOK

\* Where dl-wrapper has temporaries.
Temporaries ==
  \A p \in Proc :
    /\ tmpd[p] => pc[p] \in {"backend", "post", "verify", "mktemp", "cat"}
    /\ tmpOutput[p] # NoFile => pc[p] \in {"cat", "mv"}

\* VerifiedDone and BuiltFromGood, in terms of the check's exit code.
SureAndBuilt ==
  /\ \A p \in Sure : output \in Content /\ Check(p, output) = HashOK
  /\ \A p \in Proc : At(p, "extract") => stamped[p]
  /\ \A p \in Proc : At(p, "built") =>
       extracted[p] \in Content /\ Check(p, extracted[p]) = HashOK

(* The inductive invariant: who holds the lock, which file is whole, and   *)
(* what each place of dl-wrapper knows of the file it is about to publish. *)
IInv ==
  /\ TypeOK /\ LockHeld /\ NothingToReplace /\ HalfCopied /\ WrongFile
  /\ ToPublish /\ Temporaries /\ NoLitter
  /\ Agree /\ Protected => SureAndBuilt

(* A published download is never replaced in place, and it is removed only *)
(* by a build for which one of its hashes is wrong: not because no hash    *)
(* was found or a hash type is unknown (dl-wrapper: "do not remove the     *)
(* file, otherwise it might get re-downloaded from a later location").     *)
OnlyWrongRemoved ==
  [][(output' # output /\ output \in Content) =>
       /\ output' = NoFile
       /\ \E p \in Proc : lock = p /\ Check(p, output) = HashWrong]_vars

(* Every started build comes to an end, whatever fails, and with the other *)
(* builds contending for the lock, each started finitely often.            *)
Termination == \A p \in Proc : At(p, "flock") ~> pc[p] \in Stopped

(* The download directory as the abstract store: a half-copied legacy file *)
(* does not count as a file.                                               *)
Store == INSTANCE AtomicStore WITH
  User  <- Proc,
  Item  <- Content,
  Empty <- NoFile,
  Good  <- [p \in Proc |-> {c \in Content : Check(p, c) = HashOK}],
  Bad   <- [p \in Proc |-> {c \in Content : Check(p, c) = HashWrong}],
  store <- IF output = Partial THEN NoFile ELSE output,
  sure  <- Sure

(* dl-wrapper, run by any number of builds, implements the atomic store    *)
(* where Agree and Protected hold.                                         *)
StoreSpec == Store!Spec
=============================================================================
