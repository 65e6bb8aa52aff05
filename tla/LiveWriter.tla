----------------------------- MODULE LiveWriter -----------------------------
(***************************************************************************)
(* Live asynchronous session persistence (internal/session/live.go).       *)
(*                                                                         *)
(* While a turn runs, every completed message enqueues a snapshot of the   *)
(* transcript with SaveAsync; one worker goroutine per session writes the  *)
(* newest snapshot to the session's SQLite file.  Flush and FlushAll wait  *)
(* for what is queued through sequence barriers; synchronous saves mark    *)
(* queued work as covered; idle workers retire and are re-created.         *)
(*                                                                         *)
(* Locks.  Every action below is one critical section of the code: either  *)
(* liveRegistryMu followed by the worker's mu, or mu alone, or one SQLite  *)
(* write transaction (itself under the session's stripe mutex).            *)
(*                                                                         *)
(* Data.  A transcript is a sequence of rows.  A row is what somebody      *)
(* wrote: the turn's n-th message, the n-th row of another writer, the     *)
(* n-th compaction summary.  The n-th enqueued snapshot is n.              *)
(***************************************************************************)
EXTENDS Naturals, Sequences

CONSTANTS
  Sessions,      \* storage dir + canonical session id
  Flushes,       \* the calls of Flush / FlushForDir, one element per call
  FlushAlls,     \* the calls of FlushAll, one element per call
  MaxSnap,       \* bound: messages of the running turn, one snapshot each
  Others,        \* what else writes the file: sync, replace, truncate, foreign
  MaxOther       \* bound: what they begin, per session

ASSUME BoundsAssumption == MaxSnap \in Nat /\ MaxOther \in Nat
ASSUME CallsAssumption == Flushes \cap FlushAlls = {}

Calls == Flushes \cup FlushAlls

VARIABLES
  \* --- the worker of each session (liveWriter), reset when it is re-created
  registered,    \* is the session's worker in liveRegistry?
  incarnation,   \* how many workers the session has had: the pointer's identity
  wpc,           \* where the worker goroutine is: none, select, take, write, record
  pending,       \* the coalescing slot: a snapshot or NoReq
  notify,        \* is a token in the one-slot notify channel?
  barriers,      \* flush barriers waiting on the worker
  seq,           \* numbers every enqueue on this worker
  writtenSeq,    \* the latest executed write
  coveredOKSeq,  \* the latest seq reported durable
  lastFailErr,   \* is a live write's failure remembered?
  req,           \* the snapshot the drain loop took from pending
  werr,          \* did the write of req fail?
  \* --- the session's SQLite file
  disk,          \* the stored rows
  gen,           \* history_gen
  \* --- the running turn, which calls SaveAsync once per message
  saver,         \* where the call is, and what it captured
  messages,      \* the resident transcript
  spoken,        \* messages of the turn so far
  enqueued,      \* snapshots enqueued so far, over all workers of the session
  \* --- the other writers
  replacing,     \* has the owner cut its messages, and is it in Replace?
  truncating,    \* HandleTruncateSession, with the transcript it keeps
  sync,          \* the caller of Save / SaveForDir
  others,        \* how often one of them began
  \* --- the callers of Flush and FlushAll
  cpc, target, holds, done, active, result,
  \* --- history variables: what the snapshots of a session came to
  want,          \* the snapshot a call's barrier stands for
  asked,         \* what was enqueued when a FlushAll began
  landed,        \* the newest one stored by a live write, or replaced by a
                 \* later transcript of its turn that was stored
  dropped,       \* the newest snapshot the store dropped as stale or foreign
  over,          \* the newest snapshot a sync save's mark covered unwritten
  failed,        \* the newest snapshot whose write failed
  erased         \* rows a replacement took off the disk since a snapshot was
                 \* taken that is in a SaveAsync call, in the slot or in a write

reg    == <<registered, incarnation>>
marks  == <<writtenSeq, coveredOKSeq, lastFailErr>>
drain  == <<req, werr>>
worker == <<reg, wpc, pending, notify, barriers, seq, marks, drain>>
store  == <<disk, gen>>
turn   == <<saver, messages, spoken, enqueued>>
rest   == <<replacing, truncating, sync, others>>
asking == <<target, holds>>
calls  == <<cpc, asking, done, active, result>>
ended  == <<landed, dropped, over, failed>>
ghosts == <<want, asked, ended, erased>>
vars   == <<worker, store, turn, rest, calls, ghosts>>

Row        == {"message", "foreign", "summary"} \X Nat
Transcript == Seq(Row)

NoReq == [seq |-> 0, snap |-> 0, gen |-> 0, rows |-> <<>>]
Req   == [seq : Nat \ {0}, snap : Nat, gen : Nat, rows : Transcript]

NoSnapshot == [pc |-> "idle", gen |-> 0, inc |-> 0]  \* no SaveAsync call runs
NoSave == [pc |-> "idle", upto |-> 0, rows |-> <<>>] \* no synchronous save runs
NoCut  == [pc |-> "idle", rows |-> <<>>]             \* no truncation runs
NoRows == [call |-> {}, slot |-> {}, write |-> {}]

Larger(a, b) == IF a >= b THEN a ELSE b

\* samePrefix over all of stored, the test of every write but a replacement.
SamePrefix(stored, rows) ==
  /\ Len(stored) <= Len(rows)
  /\ \A i \in 1 .. Len(stored) : stored[i] = rows[i]

RowsOf(rows) == {rows[i] : i \in 1 .. Len(rows)}

Init ==
  /\ registered = [s \in Sessions |-> FALSE]
  /\ incarnation = [s \in Sessions |-> 0]
  /\ wpc = [s \in Sessions |-> "none"]
  /\ pending = [s \in Sessions |-> NoReq]
  /\ notify = [s \in Sessions |-> FALSE]
  /\ barriers = [s \in Sessions |-> {}]
  /\ seq = [s \in Sessions |-> 0]
  /\ writtenSeq = [s \in Sessions |-> 0]
  /\ coveredOKSeq = [s \in Sessions |-> 0]
  /\ lastFailErr = [s \in Sessions |-> FALSE]
  /\ req = [s \in Sessions |-> NoReq]
  /\ werr = [s \in Sessions |-> FALSE]
  /\ disk = [s \in Sessions |-> <<>>]
  /\ gen = [s \in Sessions |-> 0]
  /\ saver = [s \in Sessions |-> NoSnapshot]
  /\ messages = [s \in Sessions |-> <<>>]
  /\ spoken = [s \in Sessions |-> 0]
  /\ enqueued = [s \in Sessions |-> 0]
  /\ replacing = [s \in Sessions |-> FALSE]
  /\ truncating = [s \in Sessions |-> NoCut]
  /\ sync = [s \in Sessions |-> NoSave]
  /\ others = [s \in Sessions |-> 0]
  /\ cpc = [c \in Calls |-> "idle"]
  /\ target = [c \in Calls |-> "none"]
  /\ holds = [c \in Calls |-> 0]
  /\ done = [c \in Calls |-> "empty"]
  /\ active = [c \in Calls |-> {}]
  /\ result = [c \in Calls |-> "none"]
  /\ want = [c \in Calls |-> 0]
  /\ asked = [c \in Calls |-> [s \in Sessions |-> 0]]
  /\ landed = [s \in Sessions |-> 0]
  /\ dropped = [s \in Sessions |-> 0]
  /\ over = [s \in Sessions |-> 0]
  /\ failed = [s \in Sessions |-> 0]
  /\ erased = [s \in Sessions |-> NoRows]

-----------------------------------------------------------------------------
(* The worker's side of a barrier. *)

\* Mutant: the remembered failure is looked at before the covering success.
OutcomeFailFirst(b, covered, err) == IF err THEN "fail" ELSE "ok"

\* collectFiredLocked: a queued barrier is due when a successful write (or a
\* sync save) covers its seq, or when every write up to its seq was executed;
\* in the second case it reports the remembered failure.
Due(b, covered, written) == b.seq <= covered \/ b.seq <= written
Outcome(b, covered, err) == IF b.seq <= covered \/ ~err THEN "ok" ELSE "fail"

\* collectFiredLocked and the sends that follow it: due barriers leave the
\* list and their outcome goes into the call's one-slot done channel.
Deliver(s, covered, written, err) ==
  LET fire == {b \in barriers[s] : Due(b, covered, written)}
  IN  /\ barriers' = [barriers EXCEPT ![s] = @ \ fire]
      /\ done' = [c \in Calls |->
                    IF \E b \in fire : b.call = c
                    THEN Outcome(CHOOSE b \in fire : b.call = c, covered, err)
                    ELSE done[c]]

-----------------------------------------------------------------------------
(* The running turn: SaveAsync after every message, in order. *)

\* saveAsyncToDir up to the registry lock, after the turn's next message: clone
\* the messages, read the stored history generation.
SnapshotTaken(s) ==
  /\ saver[s].pc = "idle" /\ ~replacing[s]
  /\ spoken[s] < MaxSnap
  /\ spoken' = [spoken EXCEPT ![s] = @ + 1]
  /\ messages' = [messages EXCEPT ![s] = Append(@, <<"message", spoken[s] + 1>>)]
  /\ saver' = [saver EXCEPT ![s] = [pc |-> "enqueue", gen |-> gen[s], inc |-> 0]]
  /\ erased' = [erased EXCEPT ![s].call = {}]
  /\ UNCHANGED <<worker, store, enqueued, rest, calls, want, asked, ended>>

\* The generation (or the metadata) cannot be read: SaveAsync returns the error.
SnapshotRefused(s) ==
  /\ saver[s].pc = "enqueue"
  /\ saver' = [saver EXCEPT ![s] = NoSnapshot]
  /\ UNCHANGED <<worker, store, messages, spoken, enqueued, rest, calls,
                 ghosts>>

\* saveAsyncToDir's critical section: find or start the worker, number the
\* snapshot, overwrite the coalescing slot.  (Retire left the fields of the next
\* worker at their zero values.)
SnapshotEnqueued(s) ==
  LET inc == IF registered[s] THEN incarnation[s] ELSE incarnation[s] + 1
  IN  /\ saver[s].pc = "enqueue"
      /\ enqueued' = [enqueued EXCEPT ![s] = @ + 1]
      /\ seq' = [seq EXCEPT ![s] = @ + 1]
      /\ pending' = [pending EXCEPT ![s] =
                       [seq |-> seq[s] + 1, snap |-> enqueued[s] + 1,
                        gen |-> saver[s].gen, rows |-> messages[s]]]
      /\ registered' = [registered EXCEPT ![s] = TRUE]
      /\ incarnation' = [incarnation EXCEPT ![s] = inc]
      /\ wpc' = [wpc EXCEPT ![s] = IF registered[s] THEN @ ELSE "select"]
      /\ saver' = [saver EXCEPT ![s] = [pc |-> "notify", gen |-> 0, inc |-> inc]]
      /\ erased' = [erased EXCEPT ![s].slot = erased[s].call]
      /\ UNCHANGED <<notify, barriers, marks, drain, store, messages, spoken, rest,
                     calls, want, asked, ended>>

\* Mutant: the wake-up is lost.
NotifyLost(s, inc) == notify' = notify

\* The non-blocking send that wakes the worker the snapshot was put on.
\* A worker that has retired since no longer reads its channel.
Notify(s, inc) ==
  notify' = [notify EXCEPT ![s] = @ \/ (registered[s] /\ incarnation[s] = inc)]

SnapshotNotified(s) ==
  /\ saver[s].pc = "notify"
  /\ Notify(s, saver[s].inc)
  /\ saver' = [saver EXCEPT ![s] = NoSnapshot]
  /\ UNCHANGED <<reg, wpc, pending, barriers, seq, marks, drain, store, messages,
                 spoken, enqueued, rest, calls, ghosts>>

-----------------------------------------------------------------------------
(* The worker goroutine: run and drain. *)

\* run: a token wakes the worker, which enters drain.
Wake(s) ==
  /\ wpc[s] = "select"
  /\ notify[s]
  /\ notify' = [notify EXCEPT ![s] = FALSE]
  /\ wpc' = [wpc EXCEPT ![s] = "take"]
  /\ UNCHANGED <<reg, pending, barriers, seq, marks, drain, store, turn, rest, calls, ghosts>>

\* drain, first critical section: take the slot and deliver what is covered,
\* in one step; leave drain when the slot was empty.
Take(s) ==
  /\ wpc[s] = "take"
  /\ req' = [req EXCEPT ![s] = pending[s]]
  /\ pending' = [pending EXCEPT ![s] = NoReq]
  /\ Deliver(s, coveredOKSeq[s], writtenSeq[s], lastFailErr[s])
  /\ wpc' = [wpc EXCEPT ![s] = IF pending[s] = NoReq THEN "select" ELSE "write"]
  /\ erased' = [erased EXCEPT ![s].write = erased[s].slot, ![s].slot = {}]
  /\ UNCHANGED <<reg, notify, seq, marks, werr, store, turn, rest, cpc,
                 asking, active, result, want, asked, ended>>

\* Mutant of Current: the generation is not compared.
CurrentAlways(s) == TRUE

\* The history is the one the snapshot was taken against.
Current(s) == req[s].gen = gen[s]

\* saveToDirLive: the stored rows are a prefix of a current snapshot; the rest
\* of it is appended.
WriteLands(s) ==
  /\ wpc[s] = "write"
  /\ Current(s)
  /\ SamePrefix(disk[s], req[s].rows)
  /\ disk' = [disk EXCEPT ![s] = req[s].rows]
  /\ landed' = [landed EXCEPT ![s] = Larger(@, req[s].snap)]
  /\ werr' = [werr EXCEPT ![s] = FALSE]
  /\ wpc' = [wpc EXCEPT ![s] = "record"]
  /\ UNCHANGED <<reg, pending, notify, barriers, seq, marks, req, gen, turn, rest,
                 calls, want, asked, dropped, over, failed, erased>>

\* saveToDirLive: a superseded generation, or rows the snapshot does not know:
\* the write is dropped, without an error.
WriteDropped(s) ==
  /\ wpc[s] = "write"
  /\ ~Current(s) \/ ~SamePrefix(disk[s], req[s].rows)
  /\ dropped' = [dropped EXCEPT ![s] = Larger(@, req[s].snap)]
  /\ werr' = [werr EXCEPT ![s] = FALSE]
  /\ wpc' = [wpc EXCEPT ![s] = "record"]
  /\ UNCHANGED <<reg, pending, notify, barriers, seq, marks, req, store, turn,
                 rest, calls, want, asked, landed, over, failed, erased>>

\* saveToDirLive fails (disk full, the file still locked after the retries).
WriteFails(s) ==
  /\ wpc[s] = "write"
  /\ failed' = [failed EXCEPT ![s] = Larger(@, req[s].snap)]
  /\ werr' = [werr EXCEPT ![s] = TRUE]
  /\ wpc' = [wpc EXCEPT ![s] = "record"]
  /\ UNCHANGED <<reg, pending, notify, barriers, seq, marks, req, store, turn,
                 rest, calls, want, asked, landed, dropped, over, erased>>

\* drain, second critical section: record the outcome, deliver, loop.
Record(s) ==
  /\ wpc[s] = "record"
  /\ writtenSeq' = [writtenSeq EXCEPT ![s] = Larger(@, req[s].seq)]
  /\ coveredOKSeq' = [coveredOKSeq EXCEPT ![s] =
                        IF werr[s] THEN @ ELSE Larger(@, req[s].seq)]
  /\ lastFailErr' = [lastFailErr EXCEPT ![s] = @ \/ werr[s]]
  /\ Deliver(s, coveredOKSeq'[s], writtenSeq'[s], lastFailErr'[s])
  /\ req' = [req EXCEPT ![s] = NoReq]
  /\ werr' = [werr EXCEPT ![s] = FALSE]
  /\ wpc' = [wpc EXCEPT ![s] = "take"]
  /\ UNCHANGED <<reg, pending, notify, seq, store, turn, rest, cpc, asking,
                 active, result, ghosts>>

\* tryRetire's check.  Mutants: it looks at the slot only, or not at the slot.
RetirableWithBarriers(s) == pending[s] = NoReq
RetirableWithSnapshot(s) == barriers[s] = {}
Retirable(s) == pending[s] = NoReq /\ barriers[s] = {}

\* tryRetire, on the idle timer: only a worker with an empty slot and no
\* barriers leaves the registry.  Otherwise the timer is reset: no change.
\* The worker's fields are garbage from here on, and become the zero values
\* the session's next worker starts from.
Retire(s) ==
  /\ wpc[s] = "select"
  /\ Retirable(s)
  /\ registered' = [registered EXCEPT ![s] = FALSE]
  /\ wpc' = [wpc EXCEPT ![s] = "none"]
  /\ pending' = [pending EXCEPT ![s] = NoReq]
  /\ notify' = [notify EXCEPT ![s] = FALSE]
  /\ seq' = [seq EXCEPT ![s] = 0]
  /\ writtenSeq' = [writtenSeq EXCEPT ![s] = 0]
  /\ coveredOKSeq' = [coveredOKSeq EXCEPT ![s] = 0]
  /\ lastFailErr' = [lastFailErr EXCEPT ![s] = FALSE]
  /\ UNCHANGED <<incarnation, barriers, drain, store, turn, rest, calls,
                 ghosts>>

-----------------------------------------------------------------------------
(* Other writers of the same session file. *)

\* appendSqliteSessionOnce with replace: the stored rows become the caller's
\* transcript, as it captured it.  Only when that takes rows off (it is shorter,
\* or differs where the two overlap) does history_gen move on; the snapshots on
\* their way to the disk must not bring these rows back.
Rewrite(s, rows) ==
  LET taken == RowsOf(disk[s]) \ RowsOf(rows)
  IN  /\ disk' = [disk EXCEPT ![s] = rows]
      /\ gen' = [gen EXCEPT ![s] = IF SamePrefix(disk[s], rows) THEN @ ELSE @ + 1]
      /\ erased' = [erased EXCEPT
                      ![s].call  = IF saver[s].pc = "enqueue" THEN @ \cup taken ELSE {},
                      ![s].slot  = IF pending[s] # NoReq THEN @ \cup taken ELSE {},
                      ![s].write = IF wpc[s] = "write" THEN @ \cup taken ELSE {}]

\* One more of the writers this instance has.
Begins(s, kind) ==
  /\ kind \in Others
  /\ others[s] < MaxOther
  /\ others' = [others EXCEPT ![s] = @ + 1]

\* What the owner of the resident transcript makes of it before Replace: a
\* rewind keeps a prefix, a compaction puts a summary in the place of some rows.
Rewound(rows) == {SubSeq(rows, 1, n) : n \in (0 .. Len(rows)) \ {Len(rows)}}
Compacted(rows, summary) ==
  {SubSeq(rows, 1, p[1]) \o <<summary>> \o SubSeq(rows, p[2] + 1, Len(rows)) :
     p \in {q \in (0 .. Len(rows)) \X (0 .. Len(rows)) : q[1] < q[2]}}

\* The picker's rewind, or a compaction: the resident transcript is cut first.
ReplaceBegins(s) ==
  /\ saver[s].pc = "idle" /\ ~replacing[s]
  /\ Begins(s, "replace")
  /\ \E rows \in Rewound(messages[s])
                  \cup Compacted(messages[s], <<"summary", others[s] + 1>>) :
       messages' = [messages EXCEPT ![s] = rows]
  /\ replacing' = [replacing EXCEPT ![s] = TRUE]
  /\ UNCHANGED <<worker, store, saver, spoken, enqueued, truncating, sync, calls,
                 ghosts>>

\* Replace / ReplaceForDir commit.  They do not call markLiveCovered.
ReplaceCommits(s) ==
  /\ replacing[s]
  /\ Rewrite(s, messages[s])
  /\ replacing' = [replacing EXCEPT ![s] = FALSE]
  /\ UNCHANGED <<worker, turn, truncating, sync, others, calls, want, asked, ended>>

\* They fail: logged, and the resident transcript stays cut.
ReplaceFails(s) ==
  /\ replacing[s]
  /\ replacing' = [replacing EXCEPT ![s] = FALSE]
  /\ UNCHANGED <<worker, store, turn, truncating, sync, others, calls, ghosts>>

\* HandleTruncateSession, between two turns: it loads the stored rows and keeps
\* a prefix of them, leaving the resident transcript alone.
TruncateLoads(s) ==
  /\ truncating[s] = NoCut
  /\ saver[s].pc = "idle"
  /\ Begins(s, "truncate")
  /\ \E n \in 0 .. Len(disk[s]) :
       truncating' = [truncating EXCEPT ![s] = [pc |-> "commit",
                                               rows |-> SubSeq(disk[s], 1, n)]]
  /\ UNCHANGED <<worker, store, turn, replacing, sync, calls, ghosts>>

\* ... and replaces what is stored by then; a turn may have begun meanwhile.
TruncateCommits(s) ==
  /\ truncating[s].pc = "commit"
  /\ Rewrite(s, truncating[s].rows)
  /\ truncating' = [truncating EXCEPT ![s] = NoCut]
  /\ UNCHANGED <<worker, turn, replacing, sync, others, calls, want, asked, ended>>

TruncateFails(s) ==
  /\ truncating[s].pc = "commit"
  /\ truncating' = [truncating EXCEPT ![s] = NoCut]
  /\ UNCHANGED <<worker, store, turn, replacing, sync, others, calls, ghosts>>

\* AppendUserMessageForDir, or a turn of another process: a row the running
\* turn's transcript does not have.
ForeignAppend(s) ==
  /\ Begins(s, "foreign")
  /\ disk' = [disk EXCEPT ![s] = Append(@, <<"foreign", others[s] + 1>>)]
  /\ UNCHANGED <<worker, gen, turn, replacing, truncating, sync, calls, ghosts>>

\* mergeAppend: the first n rows of ours are stored, in their order.
FirstStored(stored, ours, n) ==
  \E at \in [1 .. n -> 1 .. Len(stored)] :
    \A i, k \in 1 .. n : stored[at[i]] = ours[i] /\ (i < k => at[i] < at[k])

\* ReconcileAppend at the end of a turn: stored rows stay, what the turn has
\* beyond them lands after them, and the turn goes on with the merged
\* transcript.  It does not call markLiveCovered.
Reconcile(s) ==
  /\ saver[s].pc = "idle" /\ ~replacing[s]
  /\ \E n \in 0 .. Len(messages[s]) :
       /\ FirstStored(disk[s], messages[s], n)
       /\ n < Len(messages[s]) => ~FirstStored(disk[s], messages[s], n + 1)
       /\ messages' = [messages EXCEPT ![s] =
                         disk[s] \o SubSeq(@, n + 1, Len(messages[s]))]
  /\ disk' = [disk EXCEPT ![s] = messages'[s]]
  /\ landed' = [landed EXCEPT ![s] = enqueued[s]]
  /\ UNCHANGED <<worker, gen, saver, spoken, enqueued, rest, calls, want, asked,
                 dropped, over, failed, erased>>

\* The two differ within the rows the turn began with: no merge is safe, and
\* the turn goes on with what is stored.
ReconcileDiverged(s) ==
  /\ saver[s].pc = "idle" /\ ~replacing[s]
  /\ ~SamePrefix(disk[s], messages[s]) /\ ~SamePrefix(messages[s], disk[s])
  /\ messages' = [messages EXCEPT ![s] = disk[s]]
  /\ UNCHANGED <<worker, store, saver, spoken, enqueued, rest, calls, ghosts>>

\* Save / SaveForDir with the transcript as it is at the call.
SyncBegin(s) ==
  /\ sync[s].pc = "idle"
  /\ Begins(s, "sync")
  /\ sync' = [sync EXCEPT ![s] = [pc |-> "commit", upto |-> enqueued[s],
                                  rows |-> messages[s]]]
  /\ UNCHANGED <<worker, store, turn, replacing, truncating, calls, ghosts>>

\* persistToDir commits: the stored rows are a prefix of the transcript.
SyncCommit(s) ==
  /\ sync[s].pc = "commit"
  /\ SamePrefix(disk[s], sync[s].rows)
  /\ disk' = [disk EXCEPT ![s] = sync[s].rows]
  /\ landed' = [landed EXCEPT ![s] = Larger(@, sync[s].upto)]
  /\ sync' = [sync EXCEPT ![s].pc = "mark"]
  /\ UNCHANGED <<worker, gen, turn, replacing, truncating, others, calls, want, asked,
                 dropped, over, failed, erased>>

\* persistToDir fails (ErrTranscriptConflict, or I/O): Save returns the error.
SyncRefused(s) ==
  /\ sync[s].pc = "commit"
  /\ sync' = [sync EXCEPT ![s] = NoSave]
  /\ UNCHANGED <<worker, store, turn, replacing, truncating, others, calls, ghosts>>

\* markLiveCovered: everything numbered so far counts as durable.
SyncMark(s) ==
  /\ sync[s].pc = "mark"
  /\ sync' = [sync EXCEPT ![s] = NoSave]
  /\ IF registered[s]
     THEN /\ coveredOKSeq' = [coveredOKSeq EXCEPT ![s] = Larger(@, seq[s])]
          /\ Deliver(s, coveredOKSeq'[s], writtenSeq[s], lastFailErr[s])
          /\ over' = [over EXCEPT ![s] = IF enqueued[s] > sync[s].upto
                                         THEN Larger(@, enqueued[s]) ELSE @]
     ELSE UNCHANGED <<coveredOKSeq, barriers, done, over>>
  /\ UNCHANGED <<reg, wpc, pending, notify, seq, writtenSeq, lastFailErr, drain,
                 store, turn, replacing, truncating, others, cpc, asking, active, result,
                 want, asked, landed, dropped, failed, erased>>

-----------------------------------------------------------------------------
(* Flush and FlushAll. *)

\* The enqueues a new barrier waits for.  Mutant: all but the newest.
BarrierSeqBehind(s) == seq[s] - 1
BarrierSeq(s) == seq[s]

\* Append a barrier at the current seq, under both locks.
Register(c, s) ==
  /\ barriers' = [barriers EXCEPT ![s] = @ \cup {[call |-> c, seq |-> BarrierSeq(s)]}]
  /\ target' = [target EXCEPT ![c] = s]
  /\ holds' = [holds EXCEPT ![c] = incarnation[s]]
  /\ done' = [done EXCEPT ![c] = "empty"]
  /\ want' = [want EXCEPT ![c] = enqueued[s]]
  /\ cpc' = [cpc EXCEPT ![c] = "notify"]

\* flushDir: a session without a worker has nothing queued, the call returns.
Flush(c, s) ==
  /\ c \in Flushes
  /\ cpc[c] = "idle"
  /\ IF registered[s]
     THEN /\ Register(c, s)
          /\ UNCHANGED result
     ELSE /\ target' = [target EXCEPT ![c] = s]
          /\ want' = [want EXCEPT ![c] = enqueued[s]]
          /\ cpc' = [cpc EXCEPT ![c] = "returned"]
          /\ result' = [result EXCEPT ![c] = "idle"]
          /\ UNCHANGED <<barriers, holds, done>>
  /\ UNCHANGED <<reg, wpc, pending, notify, seq, marks, drain, store, turn, rest,
                 active, asked, ended, erased>>

CallNotify(c) ==
  /\ cpc[c] = "notify"
  /\ Notify(target[c], holds[c])
  /\ cpc' = [cpc EXCEPT ![c] = "wait"]
  /\ UNCHANGED <<reg, wpc, pending, barriers, seq, marks, drain, store, turn, rest,
                 asking, done, active, result, ghosts>>

\* The barrier's outcome arrives.  Flush returns it; FlushAll goes on to the
\* next worker of its list, or returns the first error.
Answered(c) ==
  /\ cpc[c] = "wait"
  /\ done[c] # "empty"
  /\ IF c \in FlushAlls /\ done[c] = "ok"
     THEN /\ cpc' = [cpc EXCEPT ![c] = "next"]
          /\ UNCHANGED result
     ELSE /\ cpc' = [cpc EXCEPT ![c] = "returned"]
          /\ result' = [result EXCEPT ![c] = done[c]]
  /\ UNCHANGED <<worker, store, turn, rest, asking, done, active, ghosts>>

\* Mutant: a worker that is awake is trusted to finish on its own.
HoldingAsleep == {s \in Sessions : registered[s] /\ pending[s] # NoReq /\ wpc[s] = "select"}

\* The registered workers with a snapshot in their slot, under the registry lock.
Holding == {s \in Sessions : registered[s] /\ pending[s] # NoReq}

\* The caller's timeout, seen while it waits or after a pass that found work:
\* its barrier stays queued, its channel is abandoned.
TimesOut(c) ==
  /\ cpc[c] = "wait" \/ (cpc[c] = "scan" /\ Holding # {})
  /\ cpc' = [cpc EXCEPT ![c] = "returned"]
  /\ result' = [result EXCEPT ![c] = "timeout"]
  /\ UNCHANGED <<worker, store, turn, rest, asking, done, active, ghosts>>

FlushAllBegins(c) ==
  /\ c \in FlushAlls
  /\ cpc[c] = "idle"
  /\ asked' = [asked EXCEPT ![c] = enqueued]
  /\ cpc' = [cpc EXCEPT ![c] = "scan"]
  /\ UNCHANGED <<worker, store, turn, rest, asking, done, active, result, want,
                 ended, erased>>

\* The pass remembers worker pointers.
Pass == {<<s, incarnation[s]>> : s \in Holding}

\* FlushAll's pass: nothing held, and the call returns nil.
FlushAllScans(c) ==
  /\ cpc[c] = "scan"
  /\ active' = [active EXCEPT ![c] = Pass]
  /\ IF Holding = {}
     THEN /\ cpc' = [cpc EXCEPT ![c] = "returned"]
          /\ result' = [result EXCEPT ![c] = "nil"]
     ELSE /\ cpc' = [cpc EXCEPT ![c] = "next"]
          /\ UNCHANGED result
  /\ UNCHANGED <<worker, store, turn, rest, asking, done, ghosts>>

\* The next worker of the pass is looked up again: a retired one is skipped.
FlushAllRegisters(c, s) ==
  /\ cpc[c] = "next"
  /\ \E a \in active[c] :
       /\ a[1] = s
       /\ active' = [active EXCEPT ![c] = @ \ {a}]
       /\ IF registered[s] /\ incarnation[s] = a[2]
          THEN Register(c, s)
          ELSE UNCHANGED <<barriers, target, holds, done, want, cpc>>
  /\ UNCHANGED <<reg, wpc, pending, notify, seq, marks, drain, store, turn, rest,
                 result, asked, ended, erased>>

\* The pass is over; another one looks for what was enqueued meanwhile.
FlushAllRescans(c) ==
  /\ cpc[c] = "next"
  /\ active[c] = {}
  /\ cpc' = [cpc EXCEPT ![c] = "scan"]
  /\ UNCHANGED <<worker, store, turn, rest, asking, done, active, result, ghosts>>

-----------------------------------------------------------------------------
WorkerStep(s) ==
  \/ Wake(s) \/ Take(s) \/ WriteLands(s) \/ WriteDropped(s) \/ WriteFails(s)
  \/ Record(s) \/ Retire(s)

TurnStep(s) ==
  \/ SnapshotTaken(s) \/ SnapshotRefused(s) \/ SnapshotEnqueued(s) \/ SnapshotNotified(s)

\* Replacements of the stored history, by the owner of the transcript or not.
ReplaceStep(s) ==
  \/ ReplaceBegins(s) \/ ReplaceCommits(s) \/ ReplaceFails(s)
  \/ TruncateLoads(s) \/ TruncateCommits(s) \/ TruncateFails(s)

OtherWriterStep(s) ==
  \/ ReplaceStep(s) \/ ForeignAppend(s) \/ Reconcile(s) \/ ReconcileDiverged(s)
  \/ SyncBegin(s) \/ SyncCommit(s) \/ SyncRefused(s) \/ SyncMark(s)

CallStep(c) ==
  \/ \E s \in Sessions : Flush(c, s) \/ FlushAllRegisters(c, s)
  \/ CallNotify(c) \/ Answered(c) \/ TimesOut(c)
  \/ FlushAllBegins(c) \/ FlushAllScans(c) \/ FlushAllRescans(c)

Next ==
  \/ \E s \in Sessions : WorkerStep(s) \/ TurnStep(s) \/ OtherWriterStep(s)
  \/ \E c \in Calls : CallStep(c)

Spec == Init /\ [][Next]_vars

\* The worker goroutine and every caller keep running; nothing forces a turn
\* to speak, another writer to write, a timeout to expire or a worker to retire.
Fairness ==
  /\ \A s \in Sessions :
       WF_vars(Wake(s) \/ Take(s) \/ WriteLands(s) \/ WriteDropped(s) \/ Record(s))
  /\ \A s \in Sessions : WF_vars(SnapshotEnqueued(s) \/ SnapshotNotified(s))
  /\ \A c \in Calls :
       WF_vars(CallNotify(c) \/ Answered(c) \/ FlushAllScans(c) \/ FlushAllRescans(c)
               \/ \E s \in Sessions : FlushAllRegisters(c, s))

FairSpec == Spec /\ Fairness

-----------------------------------------------------------------------------
(* Properties. *)

Calling == {"idle", "notify", "wait", "scan", "next", "returned"}

\* Every variable of live.go holds a value of its Go type's meaning.
TypeOK ==
  /\ registered \in [Sessions -> BOOLEAN]
  /\ incarnation \in [Sessions -> Nat]
  /\ wpc \in [Sessions -> {"none", "select", "take", "write", "record"}]
  /\ pending \in [Sessions -> Req \cup {NoReq}]
  /\ notify \in [Sessions -> BOOLEAN]
  /\ barriers \in [Sessions -> SUBSET [call : Calls, seq : Nat]]
  /\ seq \in [Sessions -> Nat]
  /\ writtenSeq \in [Sessions -> Nat]
  /\ coveredOKSeq \in [Sessions -> Nat]
  /\ lastFailErr \in [Sessions -> BOOLEAN]
  /\ req \in [Sessions -> Req \cup {NoReq}]
  /\ werr \in [Sessions -> BOOLEAN]
  /\ disk \in [Sessions -> Transcript]
  /\ gen \in [Sessions -> Nat]
  /\ saver \in [Sessions -> [pc : {"idle", "enqueue", "notify"}, gen : Nat, inc : Nat]]
  /\ messages \in [Sessions -> Transcript]
  /\ spoken \in [Sessions -> Nat]
  /\ enqueued \in [Sessions -> Nat]
  /\ replacing \in [Sessions -> BOOLEAN]
  /\ truncating \in [Sessions -> [pc : {"idle", "commit"}, rows : Transcript]]
  /\ sync \in [Sessions -> [pc : {"idle", "commit", "mark"}, upto : Nat, rows : Transcript]]
  /\ others \in [Sessions -> Nat]
  /\ cpc \in [Calls -> Calling]
  /\ target \in [Calls -> Sessions \cup {"none"}]
  /\ holds \in [Calls -> Nat]
  /\ done \in [Calls -> {"empty", "ok", "fail"}]
  /\ active \in [Calls -> SUBSET (Sessions \X Nat)]
  /\ result \in [Calls -> {"none", "ok", "fail", "timeout", "idle", "nil"}]
  /\ want \in [Calls -> Nat]
  /\ asked \in [Calls -> [Sessions -> Nat]]
  /\ landed \in [Sessions -> Nat]
  /\ dropped \in [Sessions -> Nat]
  /\ over \in [Sessions -> Nat]
  /\ failed \in [Sessions -> Nat]
  /\ erased \in [Sessions -> [call : SUBSET Row, slot : SUBSET Row, write : SUBSET Row]]

\* The newest snapshot that needs no live write any more: it, or a later one,
\* was stored or was dropped by the store as stale.
Settled(s) == Larger(landed[s], dropped[s])

\* "Never a false success" (Flush, FlushForDir, FlushAll): a barrier answered
\* with success stands for a snapshot that was stored or was dropped as stale,
\* unless a sync save's mark covered it while it was enqueued behind that save.
SuccessIsBacked ==
  \A c \in Calls : done[c] = "ok" =>
    want[c] <= Larger(Settled(target[c]), over[target[c]])

\* A barrier is answered with a failure only when a write that carried its
\* snapshot, or a later one, failed: collectFiredLocked never blames a barrier
\* on a failure that a later write made good or that happened before it.
FailureIsReal ==
  \A c \in Calls : done[c] = "fail" => want[c] <= failed[target[c]]

\* What a Flush is told is true either way (collectFiredLocked).
AnswersAreTrue == SuccessIsBacked /\ FailureIsReal

\* No snapshot vanishes: the newest enqueued snapshot of a session waits in the
\* slot, is being written, or its write came to an end -- through coalescing,
\* retirement of the worker and its re-creation.
Accounted(s) ==
  \/ pending[s].snap = enqueued[s]
  \/ req[s].snap = enqueued[s]
  \/ enqueued[s] <= Larger(Settled(s), failed[s])
NothingVanishes == \A s \in Sessions : Accounted(s)

\* Someone is still going to wake the worker of s.
WakeComing(s) ==
  \/ notify[s]
  \/ wpc[s] \in {"take", "write", "record"}
  \/ saver[s].pc = "notify" /\ saver[s].inc = incarnation[s]
  \/ \E c \in Calls : cpc[c] = "notify" /\ target[c] = s /\ holds[c] = incarnation[s]

\* No snapshot and no barrier is stranded: what waits, waits on a registered
\* worker that is awake or about to be woken, and every waiting barrier is
\* covered by a write that was executed, runs or is queued.
Reachable(s) == Larger(Larger(pending[s].seq, req[s].seq),
                       Larger(writtenSeq[s], coveredOKSeq[s]))
Served(s) ==
  pending[s] # NoReq \/ barriers[s] # {} =>
    /\ registered[s]
    /\ WakeComing(s)
    /\ \A b \in barriers[s] : b.seq <= Reachable(s)
NothingStranded == \A s \in Sessions : Served(s)

\* FlushAll returning nil means that everything enqueued before the call was
\* written, dropped or reported as failed, except what a worker had already
\* taken out of its slot and is still writing.
FlushAllLeavesOnlyInFlight ==
  \A c \in FlushAlls : result[c] = "nil" =>
    \A s \in Sessions :
      \/ asked[c][s] <= Larger(Settled(s), failed[s])
      \/ asked[c][s] <= req[s].snap

\* "Queued pre-replacement live snapshots drop instead of resurrecting replaced
\* history" (Replace): a live write never brings back a row that a rewind, a
\* compaction or a truncation took off the disk after its snapshot was taken --
\* whether the snapshot was then in a SaveAsync call that had read history_gen,
\* in the coalescing slot, or with the worker.  (A replacement that only
\* appends leaves history_gen alone, and takes nothing off the disk.)
NothingResurrected ==
  [][\A s \in Sessions :
       wpc[s] = "write" /\ wpc'[s] = "record" =>
         (RowsOf(disk'[s]) \ RowsOf(disk[s])) \cap erased[s].write = {}]_vars

\* Every call of Flush and FlushAll comes back without its timeout's help.  (A
\* call is made once: one that never came back would be under way for ever.)
CallsReturn == []<>(\A c \in Calls : cpc[c] \in {"idle", "returned"})

\* Every enqueued snapshot is eventually written, dropped or fails.  (They are
\* finitely many: one that never ended would be open for ever.)
SnapshotsSettle ==
  []<>(\A s \in Sessions : enqueued[s] <= Larger(Settled(s), failed[s]))

\* A Flush that finds no worker and returns nil hides no snapshot but one
\* whose write failed before the worker retired (flushDir, tryRetire).
IdleHidesOnlyFailures ==
  \A c \in Flushes :
    result[c] = "idle" => want[c] <= Larger(Settled(target[c]), failed[target[c]])

\* The live writer keeps the promise of SaveQueue: its workers, slots, seqs,
\* retirements and passes are invisible to the callers of SaveAsync and Flush.
SettledOrCovered == [s \in Sessions |-> Larger(Settled(s), over[s])]
Writing == [s \in Sessions |-> req[s].snap]
Queue == INSTANCE SaveQueue
           WITH settled <- SettledOrCovered, writing <- Writing, answer <- done
QueueSpec == Queue!Spec
=============================================================================
