--------------------------- MODULE MCSessionTurns ---------------------------
(* Small instances of SessionTurns for TLC. *)
EXTENDS SessionTurns

\* Posted messages are interchangeable, and so are queued ones.
MessageSymmetry == Permutations(Sends) \cup Permutations(Queued)

\* The merge's loop consumes greedily: it finds the longest run of rows that are
\* stored already, over all transcripts of up to three rows of two kinds.
ASSUME LoopFindsStoredRows ==
  \A stored, ours \in BoundedSeq({1, 2}, 3) :
    \A base \in 0 .. Min({Len(stored), Len(ours)}) :
      Consumed(stored, ours, base) = AlreadyStored(stored, ours, base)
=============================================================================
