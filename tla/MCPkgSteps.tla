----------------------------- MODULE MCPkgSteps -----------------------------
(* Two packages for PkgSteps: one from an archive with patches, and one    *)
(* from the user's directory whose binaries fail check-bin-arch.           *)
EXTENDS PkgSteps

FromArchive ==
  [override |-> FALSE, patches |-> 2, archOK |-> TRUE,
   events |-> {"stop", "rm"}, edits |-> 1, stops |-> 1]
Overridden ==
  [override |-> TRUE, patches |-> 0, archOK |-> FALSE, events |-> {"stop"},
   edits |-> 2, stops |-> 1]

Two == {FromArchive, Overridden}
=============================================================================
