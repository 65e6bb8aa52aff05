---------------------------- MODULE MCLiveWriter ----------------------------
(* Small instances of LiveWriter for TLC. *)
EXTENDS LiveWriter, TLC

\* Calls of Flush are interchangeable.
FlushSymmetry == Permutations(Flushes)
=============================================================================
