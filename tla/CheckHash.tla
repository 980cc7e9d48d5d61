------------------------------ MODULE CheckHash ------------------------------
(***************************************************************************)
(* support/download/check-hash, the helper that decides whether a          *)
(* downloaded file is the file the .hash files of a package describe.      *)
(*                                                                         *)
(* A line of a .hash file that names the file being checked is a record    *)
(*   [known |-> its hash type is one check-hash implements,                *)
(*    match |-> the set of file contents that have this hash].             *)
(* Lines that are comments, that are empty, or that name another file, are *)
(* skipped by the code and do not appear.  "lines" is the sequence of such *)
(* lines over all the .hash files that exist, in the order they are read.  *)
(***************************************************************************)
EXTENDS Integers, Sequences, FiniteSets

CONSTANT Content      \* what a complete archive may contain

HashLine == [known : BOOLEAN, match : SUBSET Content]

(***************************************************************************)
(* The exit codes of check-hash a download can meet (1, an unknown option, *)
(* cannot happen: dl-wrapper only passes -q).                              *)
(***************************************************************************)
HashOK      == 0   \* all hashes match, or there is nothing to check against
HashWrong   == 2   \* a hash does not match
HashMissing == 3   \* there are .hash files, and none has a line for the file
HashUnknown == 4   \* a line has a hash type the helper does not know

(***************************************************************************)
(* check_one_hash: the type is looked at before the hash, and the first    *)
(* line that does not pass ends the script.                                *)
(***************************************************************************)
CheckOneHash(line, file) ==
  CASE ~line.known              -> HashUnknown
    [] file \in line.match /\ line.known -> HashOK
    [] OTHER                    -> HashWrong

Offending(lines, file) ==
  {i \in DOMAIN lines : CheckOneHash(lines[i], file) # HashOK}

FirstOffending(lines, file) ==
  CHOOSE i \in Offending(lines, file) :
    \A j \in Offending(lines, file) : i <= j

\* Mutant of CheckHashCode: only the first line is checked.
CheckHashCodeFirst(hasFile, lines, noCheck, file) ==
  IF ~hasFile THEN HashOK
  ELSE IF lines = << >> THEN IF noCheck THEN HashOK ELSE HashMissing
  ELSE CheckOneHash(lines[1], file)

(***************************************************************************)
(* The whole script.  "hasFile" is nb_h_files # 0, "noCheck" that the file *)
(* is listed in BR_NO_CHECK_HASH_FOR.                                      *)
(***************************************************************************)
CheckHashCode(hasFile, lines, noCheck, file) ==
  IF ~hasFile THEN HashOK
  ELSE IF lines = << >> THEN IF noCheck THEN HashOK ELSE HashMissing
  ELSE IF Offending(lines, file) = {} THEN HashOK
  ELSE CheckOneHash(lines[FirstOffending(lines, file)], file)
=============================================================================
