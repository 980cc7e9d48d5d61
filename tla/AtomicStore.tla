---------------------------- MODULE AtomicStore ----------------------------
(***************************************************************************)
(* What a shared download directory promises for one file (the head        *)
(* comment of support/download/dl-wrapper): the file appears whole, at     *)
(* once; it goes away only when somebody finds it wrong; and it stays for  *)
(* as long as somebody who was told that it is good has yet to use it.     *)
(***************************************************************************)
CONSTANTS
  User,      \* who uses the store
  Item,      \* the complete files
  Empty,     \* the store has no file
  Good,      \* Good[u]: the files u takes
  Bad        \* Bad[u]: the files u throws away

VARIABLES
  store,     \* the file, or Empty
  sure       \* the users who were told that the file is good

Init == store = Empty /\ sure = {}

(* A whole file appears, and the user who put it there may rely on it.     *)
Publish ==
  /\ store = Empty
  /\ store' \in Item
  /\ sure' \in {sure} \cup {sure \cup {u} : u \in {v \in User : store' \in Good[v]}}

Promise(u) ==
  /\ store \in Good[u]
  /\ sure' = sure \cup {u}
  /\ store' = store

(* Nobody loses what he was promised.                                      *)
Reject(u) ==
  /\ sure = {}
  /\ store \in Bad[u]
  /\ store' = Empty
  /\ sure' = sure

Release(u) ==
  /\ u \in sure
  /\ sure' = sure \ {u}
  /\ store' = store

Next == Publish \/ \E u \in User : Promise(u) \/ Reject(u) \/ Release(u)

Spec == Init /\ [][Next]_<<store, sure>>
=============================================================================
