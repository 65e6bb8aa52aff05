------------------------------ MODULE Semaphore ------------------------------
(***************************************************************************)
(* What the local-model limiter promises: a counting semaphore.  At most   *)
(* MaxParallel requests are inside at a time; anyone may leave, or be cut  *)
(* off, at any moment.  LocalModelLimiter implements it with lock files.   *)
(***************************************************************************)
EXTENDS Naturals, FiniteSets

CONSTANTS Requests, MaxParallel

VARIABLE inside   \* the requests the local server is working on

Init == inside = {}

Enter(r) ==
  /\ r \notin inside
  /\ Cardinality(inside) < MaxParallel
  /\ inside' = inside \cup {r}

Leave(r) ==
  /\ r \in inside
  /\ inside' = inside \ {r}

Next == \E r \in Requests : Enter(r) \/ Leave(r)

Spec == Init /\ [][Next]_inside
=============================================================================
