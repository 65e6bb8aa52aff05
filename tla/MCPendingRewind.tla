---------------------------- MODULE MCPendingRewind ----------------------------
(* Small instance of PendingRewind for TLC. *)
EXTENDS PendingRewind

CONSTANTS h, r1, r2, p, q

OneTurn == <<h>>
RewindSymmetry == Permutations(Rewinds)
=============================================================================
