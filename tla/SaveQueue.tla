----------------------------- MODULE SaveQueue -----------------------------
(***************************************************************************)
(* What the live writer promises its callers, without workers, slots,      *)
(* sequence numbers, registries or retirement: snapshots of a session are  *)
(* numbered, the newest that needs no write any more and the newest that   *)
(* failed only grow, and a caller that asks is told the truth about the    *)
(* snapshot that was newest when it asked.  LiveWriter implements this     *)
(* specification (LiveWriter!Queue).                                       *)
(***************************************************************************)
EXTENDS Naturals

CONSTANTS Sessions, Calls

VARIABLES
  enqueued,   \* the newest snapshot of each session
  settled,    \* the newest that is stored, superseded or covered
  failed,     \* the newest whose write failed
  writing,    \* the snapshot that is being written, 0 when there is none
  target,     \* the session a call last asked about
  want,       \* the snapshot that was the newest then
  answer,     \* what it was told: empty, ok or fail
  result      \* what the call returned

vars == <<enqueued, settled, failed, writing, target, want, answer, result>>

Init ==
  /\ enqueued = [s \in Sessions |-> 0]
  /\ settled = [s \in Sessions |-> 0]
  /\ failed = [s \in Sessions |-> 0]
  /\ writing = [s \in Sessions |-> 0]
  /\ target = [c \in Calls |-> "none"]
  /\ want = [c \in Calls |-> 0]
  /\ answer = [c \in Calls |-> "empty"]
  /\ result = [c \in Calls |-> "none"]

Ended(s, n) == n <= settled[s] \/ n <= failed[s]

Enqueue(s) ==
  /\ enqueued' = [enqueued EXCEPT ![s] = @ + 1]
  /\ UNCHANGED <<settled, failed, writing, target, want, answer, result>>

\* A write starts, ends, or is done by somebody else; calls that wait on the
\* session may be answered by what is true after the step.  A write that is
\* no longer under way has come to an end.
Advance(s) ==
  /\ \E n \in settled[s] .. enqueued[s] : settled' = [settled EXCEPT ![s] = n]
  /\ \E n \in failed[s] .. enqueued[s] : failed' = [failed EXCEPT ![s] = n]
  /\ \E n \in 0 .. enqueued[s] : writing' = [writing EXCEPT ![s] = n]
  /\ writing'[s] = writing[s] \/ writing[s] <= settled'[s] \/ writing[s] <= failed'[s]
  /\ \A c \in Calls :
       \/ answer'[c] = answer[c]
       \/ /\ answer[c] = "empty" /\ target[c] = s
          /\ \/ answer'[c] = "ok" /\ want[c] <= settled'[s]
             \/ answer'[c] = "fail" /\ want[c] <= failed'[s]
  /\ UNCHANGED <<enqueued, target, want, result>>

Ask(c, s) ==
  /\ result[c] = "none"
  /\ target' = [target EXCEPT ![c] = s]
  /\ want' = [want EXCEPT ![c] = enqueued[s]]
  /\ answer' = [answer EXCEPT ![c] = "empty"]
  /\ UNCHANGED <<enqueued, settled, failed, writing, result>>

\* Nothing is queued: every snapshot of the session came to an end.
FindNothing(c, s) ==
  /\ result[c] = "none"
  /\ Ended(s, enqueued[s])
  /\ target' = [target EXCEPT ![c] = s]
  /\ want' = [want EXCEPT ![c] = enqueued[s]]
  /\ result' = [result EXCEPT ![c] = "idle"]
  /\ UNCHANGED <<enqueued, settled, failed, writing, answer>>

\* A call returns its answer, or gives up waiting, or has found every session
\* done but for writes under way.
Return(c) ==
  /\ result[c] = "none"
  /\ \/ answer[c] # "empty" /\ result' = [result EXCEPT ![c] = answer[c]]
     \/ result' = [result EXCEPT ![c] = "timeout"]
     \/ /\ \A s \in Sessions : Ended(s, enqueued[s]) \/ writing[s] = enqueued[s]
        /\ result' = [result EXCEPT ![c] = "nil"]
  /\ UNCHANGED <<enqueued, settled, failed, writing, target, want, answer>>

Next ==
  \/ \E s \in Sessions : Enqueue(s) \/ Advance(s)
  \/ \E c \in Calls : Return(c) \/ \E s \in Sessions : Ask(c, s) \/ FindNothing(c, s)

Spec == Init /\ [][Next]_vars
=============================================================================
