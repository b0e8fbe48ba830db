---------------------------- MODULE DocumentShelf ----------------------------
(***************************************************************************)
(* What a project's documents are to its users: a number of documents of   *)
(* each type, never above the type's limit, added and removed one at a     *)
(* time, all gone when the company is deleted.                             *)
(***************************************************************************)
EXTENDS StatusRules

VARIABLE shelf

Init == shelf = [t \in DocType |-> 0]

Add(t) ==
  /\ shelf[t] < DocLimit(t)
  /\ shelf' = [shelf EXCEPT ![t] = @ + 1]

Remove(t) ==
  /\ shelf[t] > 0
  /\ shelf' = [shelf EXCEPT ![t] = @ - 1]

RemoveAll == shelf' = [t \in DocType |-> 0]

Next == RemoveAll \/ \E t \in DocType : Add(t) \/ Remove(t)

Spec == Init /\ [][Next]_shelf
=============================================================================
