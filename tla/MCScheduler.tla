---------------------------- MODULE MCScheduler ----------------------------
(* Small instances of Scheduler for TLC. *)
EXTENDS Scheduler

CONSTANTS a, b, c

\* The kinds of two jobs, or of three.
Pair == (a :> "at") @@ (b :> "every")
OneShots == (a :> "at") @@ (b :> "at") @@ (c :> "at")
=============================================================================
