---------------------------- MODULE MCDlWrapper ----------------------------
(***************************************************************************)
(* Instances of DlWrapper for TLC: two or three builds, two archives,      *)
(* "good" being the one most .hash files describe and "evil" another.      *)
(***************************************************************************)
EXTENDS DlWrapper, TLC

CONSTANTS p1, p2, p3, good, evil

Two == {p1, p2}
Three == {p1, p2, p3}
MCContent == {good, evil}

\* Two lines, the hashes of the good archive; the first is weak, and another
\* archive has it too.
GoodLine == <<[known |-> TRUE, match |-> {good, evil}],
              [known |-> TRUE, match |-> {good}]>>
\* Two lines, the hash of the other archive and one of an unknown type.
UnknownLine == <<[known |-> TRUE, match |-> {evil}],
                 [known |-> FALSE, match |-> {}]>>

\* Both builds have the same hashes.
SameLines == [p \in Two |-> GoodLine]
\* The hashes of two releases of the package, the archive having changed in
\* between, and a third build whose .hash file does not name it.
OtherLines == (p1 :> GoodLine) @@ (p2 :> UnknownLine) @@ (p3 :> << >>)
=============================================================================
