------------------------------ MODULE GitCache ------------------------------
(***************************************************************************)
(* support/download/git: the archive of one changeset of a package that is *)
(* kept in git, made from the clone $(PKG)_DL_DIR/git that all downloads   *)
(* of the package share.  dl-wrapper starts it under its lock, so one runs *)
(* at a time; it may be killed at any point, which may leave the clone     *)
(* corrupted, and the remote repository changes while it runs.             *)
(*                                                                         *)
(* git itself is external: of its commands the module has what they do to  *)
(* the refs, to HEAD and to the working copy.  Commits are numbered in the *)
(* order in which the remote gets them.                                    *)
(***************************************************************************)
EXTENDS Integers

CONSTANTS
  Kinds,         \* what the packages have for $(PKG)_VERSION: see Kind
  MaxCommits,    \* bound on the commits of the remote
  MaxFaults      \* bound on the kills and failing commands

(***************************************************************************)
(* "default" is a branch of the name that git gives the first branch of a  *)
(* new clone.                                                              *)
(***************************************************************************)
Kind == {"sha1", "annotated", "lightweight", "branch", "default"}

ASSUME ConstantsAssumption ==
  /\ Kinds \subseteq Kind
  /\ MaxCommits \in Nat \ {0} /\ MaxFaults \in Nat

VARIABLES
  kind,      \* what the version of the package is; it does not change
  remote,    \* the last commit of the remote; the tag or branch names it
  wanted,    \* what the version named in the remote when the script started
  have,      \* the clone: the last commit that it has, 0 if it has none
  tag,       \* what refs/tags/$(PKG)_VERSION names, 0 if nothing
  branch,    \* what refs/heads/$(PKG)_VERSION names, 0 if nothing
  head,      \* HEAD: "default", "cset" (on that branch), "detached"
  corrupt,   \* it is damaged, so that a command fails
  locked,    \* refs/heads/$(PKG)_VERSION.lock was left in it
  copy,      \* the working copy
  pc,        \* where the script is
  second,    \* BR_GIT_BACKEND_FIRST_FAULT: it started afresh already
  found,     \* the commit that rev-parse gave
  archive,   \* the archive in DL_DIR, its commit 0 if there is none
  faults     \* how many faults there were

cloneVars == <<have, tag, branch, head, corrupt, locked>>
vars == <<kind, remote, wanted, cloneVars, copy, pc, second, found, archive, faults>>

Commit == 1..MaxCommits

(***************************************************************************)
(* A working copy: the commit it is at; whether its tracked files are not  *)
(* all of that commit; whether the $Format:...$ hints in them are          *)
(* expanded; whether it has the submodules of that commit; whether other   *)
(* files lie in it, submodules of another commit for instance.             *)
(***************************************************************************)
Copy == [commit : 0..MaxCommits, mixed : BOOLEAN, expanded : BOOLEAN,
         subs : BOOLEAN, junk : BOOLEAN]
NoCopy == [commit |-> 0, mixed |-> FALSE, expanded |-> FALSE, subs |-> FALSE,
           junk |-> FALSE]
Whole(c) == [commit |-> c, mixed |-> FALSE, expanded |-> TRUE, subs |-> TRUE,
             junk |-> FALSE]

Places == {"init", "fetch", "tags", "special", "revparse", "deregister",
           "checkout", "checkingout", "clean", "submodules", "subst", "tar"}
Ends == {"idle", "done", "failed", "killed"}

TypeOK ==
  /\ kind \in Kinds
  /\ remote \in Commit /\ wanted \in Commit
  /\ {have, tag, branch, found} \subseteq 0..MaxCommits
  /\ head \in {"default", "cset", "detached"}
  /\ corrupt \in BOOLEAN /\ locked \in BOOLEAN /\ second \in BOOLEAN
  /\ {copy, archive} \subseteq Copy
  /\ pc \in Places \cup Ends
  /\ faults \in 0..MaxFaults

Init ==
  /\ kind \in Kinds
  /\ remote = 1 /\ wanted = 1
  /\ have = 0 /\ tag = 0 /\ branch = 0 /\ head = "default"
  /\ corrupt = FALSE /\ locked = FALSE
  /\ copy = NoCopy /\ archive = NoCopy
  /\ pc = "idle" /\ second = FALSE /\ found = 0 /\ faults = 0

\* A commit is pushed: to the branch, or the tag is moved to it.
Push ==
  /\ remote < MaxCommits /\ remote' = remote + 1
  /\ UNCHANGED <<kind, wanted, cloneVars, copy, pc, second, found, archive,
                 faults>>

\* A build needs the archive.  The sha1 that a package is at may be any commit,
\* the same in DL_DIR or another than last time; each has its own archive, of
\* which the module keeps the last.
Start ==
  /\ pc \in Ends
  /\ wanted' \in IF kind = "sha1" THEN 1..remote ELSE {remote}
  /\ archive' = IF kind = "sha1" /\ wanted' # wanted THEN NoCopy ELSE archive
  /\ pc' = IF archive'.commit = 0 THEN "init" ELSE "done"
  /\ second' = FALSE /\ found' = 0
  /\ UNCHANGED <<kind, remote, cloneVars, copy, faults>>

\* The archive is removed from DL_DIR, and the clone is not.
Forget ==
  /\ pc \in Ends /\ archive.commit # 0
  /\ archive' = NoCopy /\ pc' = "idle"
  /\ UNCHANGED <<kind, remote, wanted, cloneVars, copy, second, found, faults>>

Goto(from, to) ==
  /\ pc = from /\ pc' = to
  /\ UNCHANGED <<kind, remote, wanted, second, archive, faults>>

\* git init: nothing happens to a clone that exists.
GitInit ==
  /\ Goto("init", "fetch")
  /\ UNCHANGED <<cloneVars, copy, found>>

\* Mutant: a clone that has commits is not brought up to date.
FetchOnce ==
  /\ Goto("fetch", "tags")
  /\ have' = IF have = 0 THEN remote ELSE have
  /\ UNCHANGED <<tag, branch, head, corrupt, locked, copy, found>>

\* git fetch origin: all branches, as remotes/origin/*, and their commits.
Fetch ==
  /\ Goto("fetch", "tags")
  /\ have' = remote
  /\ UNCHANGED <<tag, branch, head, corrupt, locked, copy, found>>

\* git fetch origin -t -f: all tags, moved ones too.
FetchTags ==
  /\ Goto("tags", "special")
  /\ tag' = IF kind \in {"annotated", "lightweight"} THEN remote ELSE tag
  /\ UNCHANGED <<have, branch, head, corrupt, locked, copy, found>>

\* git fetch origin cset:cset makes or advances refs/heads/cset, whatever cset
\* is in the remote.  git refuses to do so for the branch that HEAD is on, even
\* if it does not exist yet, and for what is not a commit; and if the lock file
\* of that branch is there, always.  The script ignores that it fails.  The
\* branch that it makes for a sha1 names that sha1, and is left out.
OnCset == head = "cset" \/ (head = "default" /\ kind = "default")

FetchSpecial ==
  /\ Goto("special", "revparse")
  /\ branch' = IF kind \in {"branch", "default", "lightweight"} /\ ~OnCset /\ ~locked
               THEN remote ELSE branch
  /\ UNCHANGED <<have, tag, head, corrupt, locked, copy, found>>

\* Any other failure of that command is ignored as well.
SpecialFails ==
  /\ pc = "special" /\ pc' = "revparse"
  /\ faults < MaxFaults /\ faults' = faults + 1
  /\ UNCHANGED <<kind, remote, wanted, cloneVars, copy, second, found, archive>>

\* What cset^{commit} resolves to: tags go first, remotes/origin/cset is not
\* looked at.
Resolved ==
  CASE kind = "sha1" -> IF wanted <= have THEN wanted ELSE 0
    [] kind \in {"branch", "default"} -> branch
    [] OTHER -> tag

\* The only error that does not go through _on_error.
RevParse ==
  /\ Goto("revparse", IF Resolved = 0 THEN "failed" ELSE "deregister")
  /\ found' = Resolved
  /\ UNCHANGED <<cloneVars, copy>>

\* The directories of the submodules that the working copy knows are removed;
\* those it does not know stay.
Deregister ==
  /\ Goto("deregister", "checkout")
  /\ copy' = [copy EXCEPT !.subs = FALSE, !.junk = @ \/ copy.mixed]
  /\ UNCHANGED <<cloneVars, found>>

\* git checkout replaces one file after the other.
BeginCheckout ==
  /\ Goto("checkout", "checkingout")
  /\ copy' = [copy EXCEPT !.mixed = TRUE]
  /\ UNCHANGED <<cloneVars, found>>

\* Given a name, checkout takes the branch before the tag.
CheckedOut == IF branch # 0 THEN branch ELSE found

\* With -f also those that were changed.
FinishCheckout ==
  /\ ~corrupt
  /\ Goto("checkingout", "clean")
  /\ copy' = [copy EXCEPT !.commit = CheckedOut, !.mixed = FALSE,
                          !.expanded = FALSE]
  /\ head' = IF branch # 0 THEN "cset" ELSE "detached"
  /\ UNCHANGED <<have, tag, branch, corrupt, locked, found>>

\* Mutant: git clean without the second -f keeps directories with a .git.
CleanOnce ==
  /\ Goto("clean", "submodules")
  /\ UNCHANGED <<cloneVars, copy, found>>

\* git clean -ffdx
Clean ==
  /\ Goto("clean", "submodules")
  /\ copy' = [copy EXCEPT !.junk = FALSE]
  /\ UNCHANGED <<cloneVars, found>>

\* git submodule update --init --recursive, and git lfs.
Submodules ==
  /\ Goto("submodules", "subst")
  /\ copy' = [copy EXCEPT !.subs = TRUE]
  /\ UNCHANGED <<cloneVars, found>>

\* The $Format:...$ hints are expanded in the working copy itself.
Subst ==
  /\ Goto("subst", "tar")
  /\ copy' = [copy EXCEPT !.expanded = TRUE]
  /\ UNCHANGED <<cloneVars, found>>

\* mk_tar_gz, and dl-wrapper puts the archive in DL_DIR.
Archive ==
  /\ pc = "tar" /\ pc' = "done"
  /\ archive' = copy
  /\ UNCHANGED <<kind, remote, wanted, cloneVars, copy, second, found, faults>>

(***************************************************************************)
(* Failing commands.  _on_error removes the clone and starts again, once.  *)
(***************************************************************************)
Afresh ==
  /\ have' = 0 /\ tag' = 0 /\ branch' = 0 /\ head' = "default"
  /\ corrupt' = FALSE /\ locked' = FALSE
  /\ copy' = NoCopy /\ found' = 0

OnErrorKeeps ==
  /\ pc' = IF second THEN "failed" ELSE "init"
  /\ second' = TRUE
  /\ UNCHANGED <<cloneVars, copy, found>>

OnError ==
  \/ /\ second /\ pc' = "failed"
     /\ UNCHANGED <<cloneVars, copy, second, found>>
  \/ /\ ~second /\ second' = TRUE /\ pc' = "init"
     /\ Afresh

\* A damaged clone: a missing object, or the lock file of anything but the branch
\* cset, makes a command fail that goes through _on_error, at the latest the
\* checkout, and makes it fail every time.
Damaged ==
  /\ pc \in {"init", "fetch", "tags", "checkout", "checkingout", "clean",
             "submodules"}
  /\ corrupt
  /\ OnError
  /\ UNCHANGED <<kind, remote, wanted, archive, faults>>

\* No network, no space, a server that does not answer.
CommandFails ==
  /\ pc \in Places \ {"special", "revparse"}
  /\ faults < MaxFaults /\ faults' = faults + 1
  /\ OnError
  /\ UNCHANGED <<kind, remote, wanted, archive>>

\* A kill may leave lock files or half-written objects in the clone, that of the
\* branch cset if it was being made; and other files and half-expanded ones in
\* the working copy.
Kill ==
  /\ pc \in Places
  /\ faults < MaxFaults /\ faults' = faults + 1
  /\ pc' = "killed"
  /\ corrupt' \in BOOLEAN /\ (corrupt => corrupt')
  /\ locked' \in IF pc = "special" THEN {locked, TRUE} ELSE {locked}
  /\ \E left \in BOOLEAN :
       copy' = [copy EXCEPT !.junk = @ \/ left,
                            !.mixed = @ \/ (left /\ pc = "subst")]
  /\ UNCHANGED <<kind, remote, wanted, have, tag, branch, head, second, found,
                 archive>>

Progress ==
  \/ GitInit \/ Fetch \/ FetchTags \/ FetchSpecial \/ RevParse \/ Deregister
  \/ BeginCheckout \/ FinishCheckout \/ Clean \/ Submodules \/ Subst \/ Archive
  \/ Damaged

Next == Push \/ Start \/ Forget \/ Progress \/ CommandFails \/ SpecialFails \/ Kill

Safe == Init /\ [][Next]_vars

\* The script goes on, and a build that did not get its archive is run again.
Spec == Safe /\ WF_vars(Progress) /\ WF_vars(Start)

(***************************************************************************)
(* Properties.                                                             *)
(***************************************************************************)
Made == archive.commit = 0 /\ archive'.commit # 0

\* What is archived is the whole of one commit: all its files with their hints
\* expanded and its submodules, and nothing else, whatever a run for another
\* commit, or one that was killed, left in the clone.  It is the commit that
\* was looked up, except where a lightweight tag was moved (git:146).
ArchiveWhole ==
  [][Made => /\ archive' = Whole(archive'.commit)
             /\ kind # "lightweight" => archive'.commit = found]_vars

\* A sha1 is archived as itself, and what an annotated tag names is not older
\* than what it named when the script started.  The clone may keep the old
\* commit of other names, which it makes branches of (git:146).
ArchiveCurrent ==
  [][Made => /\ kind = "sha1" => archive'.commit = wanted
             /\ kind = "annotated" => archive'.commit >= wanted]_vars

\* The branch cset was never made, and its lock file is there: the script says
\* each time that the commit does not exist, and leaves the clone alone, as
\* re-cloning "won't help" (git:150-152).  Here it would.
Stuck == kind = "branch" /\ locked /\ branch = 0

\* Once commands stop failing, the archive is made, again and again if it is
\* removed: a damaged clone does not stay so, but for a lock file of the branch
\* cset.
Heals == kind # "default" => []<>(pc = "done" \/ Stuck)

\* The script only says that a commit does not exist if it does not, or if the
\* remote could not be read (git:150-156).  Here the version always exists, and
\* only one that is named like git's default branch is not found.  And
\* it throws the clone away and starts afresh only after a fault.
FailsForAReason ==
  /\ pc = "failed" => faults > 0 \/ kind = "default"
  /\ second => faults > 0

\* In every state the script's variables have their types, and a run that has
\* failed, or has started afresh, had a reason to.
Inv == TypeOK /\ FailsForAReason

\* An archive is one whole commit, and the right one.
ArchiveRight == ArchiveWhole /\ ArchiveCurrent
=============================================================================
