-------------------------- MODULE LiveWriterProofs --------------------------
(***************************************************************************)
(* Safety of the live writer for every set of sessions and calls and every *)
(* bound: TypeCorrect, then the inductive invariant IInv and what follows  *)
(* from it.  IInv relates the two numberings of an enqueue (the worker's   *)
(* seq and the snapshot number), the two watermarks, and the barriers.     *)
(***************************************************************************)
EXTENDS LiveWriter, TLAPS


\* Snapshots and seqs are two numberings of the same enqueues, shifted by what
\* earlier workers of the session numbered: n carries snapshot m when ...
SameEnqueue(s, n, m) == m + seq[s] = enqueued[s] + n

\* A worker that left the registry owns nothing.
RetiredIsEmpty(s) ==
  IF registered[s]
  THEN wpc[s] # "none" /\ seq[s] > 0
  ELSE /\ wpc[s] = "none" /\ pending[s] = NoReq /\ req[s] = NoReq /\ barriers[s] = {}
       /\ seq[s] = 0 /\ writtenSeq[s] = 0 /\ coveredOKSeq[s] = 0

\* The slot holds the newest snapshot; the drain loop holds an enqueued one
\* while it writes, and knows how the write ended when it records it.
SlotAndWrite(s) ==
  /\ pending[s] # NoReq => pending[s].seq = seq[s] /\ pending[s].snap = enqueued[s]
  /\ IF wpc[s] \in {"write", "record"}
     THEN req[s] # NoReq /\ req[s].seq <= seq[s] /\ SameEnqueue(s, req[s].seq, req[s].snap)
     ELSE req[s] = NoReq
  /\ wpc[s] = "record" =>
       IF werr[s] THEN req[s].snap <= failed[s] ELSE req[s].snap <= Settled(s)
  /\ seq[s] <= Reachable(s)

\* What the two watermarks claim: everything up to coveredOKSeq is safe, and
\* what was executed beyond it failed, with the failure remembered.
Watermarks(s) ==
  /\ writtenSeq[s] <= seq[s] /\ coveredOKSeq[s] <= seq[s]
  /\ coveredOKSeq[s] > 0 =>
       enqueued[s] + coveredOKSeq[s] <= seq[s] + Larger(Settled(s), over[s])
  /\ writtenSeq[s] > coveredOKSeq[s] =>
       lastFailErr[s] /\ enqueued[s] + writtenSeq[s] <= seq[s] + failed[s]

\* The file never runs ahead of what was enqueued, and a committed sync save
\* is on disk when it marks.
FileAndSync(s) ==
  /\ landed[s] <= enqueued[s]
  /\ sync[s].upto <= enqueued[s]
  /\ sync[s].pc = "mark" => sync[s].upto <= landed[s]

\* Each queued barrier belongs to one unanswered call on this session.
BarriersAreCalls(s) ==
  \A b \in barriers[s] :
    /\ b.seq \in 1 .. seq[s]
    /\ target[b.call] = s
    /\ done[b.call] = "empty"
    /\ cpc[b.call] \in {"notify", "wait", "returned"}
    /\ SameEnqueue(s, b.seq, want[b.call])
    /\ \A b2 \in barriers[s] : b2.call = b.call => b2 = b

\* A call that was answered had asked a session's worker, and had begun.
AnswersHaveTargets ==
  \A c \in Calls :
    /\ done[c] # "empty" \/ cpc[c] = "wait" \/ cpc[c] = "notify" => target[c] \in Sessions
    /\ cpc[c] = "idle" => done[c] = "empty"

\* Type-correct states with all of the above, and the safety properties.
WorkerInv(s) == RetiredIsEmpty(s) /\ SlotAndWrite(s) /\ Watermarks(s) /\ FileAndSync(s)
IInv ==
  /\ TypeOK
  /\ \A s \in Sessions : WorkerInv(s)
  /\ \A s \in Sessions : BarriersAreCalls(s)
  /\ AnswersHaveTargets /\ SuccessIsBacked /\ FailureIsReal
  /\ NothingVanishes /\ NothingStranded

-----------------------------------------------------------------------------
(* Type correctness. *)

\* Delivering leaves the barrier list and the answers well-typed.
LEMMA DeliverType ==
  ASSUME TypeOK, NEW s \in Sessions, NEW cov, NEW wr, NEW err, Deliver(s, cov, wr, err)
  PROVE  /\ barriers' \in [Sessions -> SUBSET [call : Calls, seq : Nat]]
         /\ done' \in [Calls -> {"empty", "ok", "fail"}]
BY DEF TypeOK, Deliver, Outcome

\* Registering a barrier leaves what it changes well-typed.
LEMMA RegisterType ==
  ASSUME TypeOK, NEW c \in Calls, NEW s \in Sessions, seq[s] \in Nat, Register(c, s)
  PROVE  /\ barriers' \in [Sessions -> SUBSET [call : Calls, seq : Nat]]
         /\ target' \in [Calls -> Sessions \cup {"none"}]
         /\ holds' \in [Calls -> Nat]
         /\ done' \in [Calls -> {"empty", "ok", "fail"}]
         /\ want' \in [Calls -> Nat]
         /\ cpc' \in [Calls -> Calling]
BY DEF TypeOK, Register, BarrierSeq, Calling

\* The ghost of the rows that were taken off.
Erased == [call : SUBSET Row, slot : SUBSET Row, write : SUBSET Row]

\* What the operations on transcripts return.
LEMMA Transcripts ==
  /\ <<>> \in Transcript
  /\ \A rows \in Transcript, row \in Row : Append(rows, row) \in Transcript
  /\ \A rows, more \in Transcript : rows \o more \in Transcript
  /\ \A rows \in Transcript : Len(rows) \in Nat
  /\ \A rows \in Transcript : \A i \in Nat \ {0} : \A j \in 0 .. Len(rows) :
       SubSeq(rows, i, j) \in Transcript
  /\ \A rows \in Transcript : RowsOf(rows) \subseteq Row
<1> HIDE DEF Row
<1>1. <<>> \in Transcript /\ \A rows \in Transcript : Len(rows) \in Nat
  BY DEF Transcript
<1>2. \A rows \in Transcript, row \in Row : Append(rows, row) \in Transcript
  BY DEF Transcript
<1>3. \A rows, more \in Transcript : rows \o more \in Transcript
  BY DEF Transcript
<1>4. ASSUME NEW rows \in Transcript, NEW i \in Nat \ {0}, NEW j \in 0 .. Len(rows)
      PROVE  SubSeq(rows, i, j) \in Transcript
  BY DEF Transcript
<1>5. \A rows \in Transcript : RowsOf(rows) \subseteq Row
  BY DEF Transcript, RowsOf
<1> QED  BY <1>1, <1>2, <1>3, <1>4, <1>5

\* A rewound or a compacted transcript is one.
LEMMA CutTypes ==
  ASSUME NEW rows \in Transcript, NEW summary \in Row,
         NEW cut \in Rewound(rows) \cup Compacted(rows, summary)
  PROVE  cut \in Transcript
<1>1. Len(rows) \in Nat
  BY Transcripts
<1>2. CASE cut \in Rewound(rows)
  <2>1. PICK n \in 0 .. Len(rows) : cut = SubSeq(rows, 1, n)
    BY <1>2 DEF Rewound
  <2> QED  BY <1>1, <2>1, Transcripts
<1>3. CASE cut \in Compacted(rows, summary)
  <2>1. PICK p \in (0 .. Len(rows)) \X (0 .. Len(rows)) :
          cut = SubSeq(rows, 1, p[1]) \o <<summary>> \o SubSeq(rows, p[2] + 1, Len(rows))
    BY <1>3 DEF Compacted
  <2>2. p[1] \in 0 .. Len(rows) /\ p[2] + 1 \in Nat \ {0}
    BY <1>1, <2>1
  <2>3. SubSeq(rows, 1, p[1]) \in Transcript /\ SubSeq(rows, p[2] + 1, Len(rows)) \in Transcript
    BY <1>1, <2>2, Transcripts
  <2>4. <<summary>> \in Transcript
    BY DEF Transcript
  <2> QED  BY <2>1, <2>3, <2>4, Transcripts
<1> QED  BY <1>2, <1>3

\* A rewrite of the stored rows leaves what it changes well-typed.
LEMMA RewriteType ==
  ASSUME TypeOK, NEW s \in Sessions, NEW rows \in Transcript, Rewrite(s, rows)
  PROVE  /\ disk' \in [Sessions -> Transcript] /\ gen' \in [Sessions -> Nat]
         /\ erased' \in [Sessions -> Erased]
<1>1. disk' \in [Sessions -> Transcript] /\ gen' \in [Sessions -> Nat]
  BY DEF TypeOK, Rewrite
<1> DEFINE taken == RowsOf(disk[s]) \ RowsOf(rows)
           call  == IF saver[s].pc = "enqueue" THEN erased[s].call \cup taken ELSE {}
           slot  == IF pending[s] # NoReq THEN erased[s].slot \cup taken ELSE {}
           write == IF wpc[s] = "write" THEN erased[s].write \cup taken ELSE {}
<1>3. erased' = [erased EXCEPT ![s].call = call, ![s].slot = slot, ![s].write = write]
  BY DEF Rewrite
<1>4. erased \in [Sessions -> Erased] /\ disk[s] \in Transcript
  BY DEF TypeOK, Erased
<1>5. taken \subseteq Row
  BY <1>4, Transcripts
<1>6. /\ call \in SUBSET Row /\ slot \in SUBSET Row /\ write \in SUBSET Row
  BY <1>4, <1>5 DEF Erased
<1> HIDE DEF call, slot, write
<1>7. erased' \in [Sessions -> Erased]
  BY <1>3, <1>4, <1>6 DEF Erased
<1> QED  BY <1>1, <1>7

\* So does every step of a replacement.
LEMMA ReplaceType ==
  ASSUME TypeOK, NEW s \in Sessions, ReplaceStep(s)
  PROVE  TypeOK'
<1> USE DEF worker, reg, marks, drain, store, turn, rest, calls, asking, ended, ghosts
<1>1. CASE ReplaceBegins(s)
  <2>1. PICK rows \in Rewound(messages[s])
                      \cup Compacted(messages[s], <<"summary", others[s] + 1>>) :
          messages' = [messages EXCEPT ![s] = rows]
    BY <1>1 DEF ReplaceBegins
  <2>2. messages[s] \in Transcript /\ <<"summary", others[s] + 1>> \in Row
    BY DEF TypeOK, Row
  <2>3. rows \in Transcript
    BY <2>1, <2>2, CutTypes
  <2>4. messages' \in [Sessions -> Transcript]
    BY <2>1, <2>3 DEF TypeOK
  <2> QED  BY <1>1, <2>4 DEF TypeOK, ReplaceBegins, Begins
<1>2. CASE ReplaceCommits(s)
  <2>1. Rewrite(s, messages[s]) /\ messages[s] \in Transcript
    BY <1>2 DEF ReplaceCommits, TypeOK
  <2> QED  BY <1>2, <2>1, RewriteType DEF TypeOK, ReplaceCommits, Erased
<1>3. CASE ReplaceFails(s)  BY <1>3 DEF TypeOK, ReplaceFails
<1>4. CASE TruncateLoads(s)
  <2>1. PICK n \in 0 .. Len(disk[s]) :
          truncating' = [truncating EXCEPT ![s] = [pc |-> "commit", rows |-> SubSeq(disk[s], 1, n)]]
    BY <1>4 DEF TruncateLoads
  <2>2. SubSeq(disk[s], 1, n) \in Transcript
    BY Transcripts DEF TypeOK
  <2>3. truncating' \in [Sessions -> [pc : {"idle", "commit"}, rows : Transcript]]
    BY <2>1, <2>2 DEF TypeOK
  <2>4. /\ others' = [others EXCEPT ![s] = @ + 1]
        /\ UNCHANGED <<worker, store, turn, replacing, sync, calls, ended, ghosts>>
    BY <1>4 DEF TruncateLoads, Begins
  <2>5. others' \in [Sessions -> Nat]
    <3>1. others \in [Sessions -> Nat]
      BY DEF TypeOK
    <3> QED  BY <2>4, <3>1
  <2> QED  BY <2>3, <2>4, <2>5 DEF TypeOK
<1>5. CASE TruncateCommits(s)
  <2>1. Rewrite(s, truncating[s].rows) /\ truncating[s].rows \in Transcript
    BY <1>5 DEF TruncateCommits, TypeOK
  <2>2. truncating' \in [Sessions -> [pc : {"idle", "commit"}, rows : Transcript]]
    BY <1>5, Transcripts DEF TypeOK, TruncateCommits, NoCut
  <2> QED  BY <1>5, <2>1, <2>2, RewriteType DEF TypeOK, TruncateCommits, Erased
<1>6. CASE TruncateFails(s)
  <2>1. truncating' \in [Sessions -> [pc : {"idle", "commit"}, rows : Transcript]]
    BY <1>6, Transcripts DEF TypeOK, TruncateFails, NoCut
  <2> QED  BY <1>6, <2>1 DEF TypeOK, TruncateFails
<1> QED  BY <1>1, <1>2, <1>3, <1>4, <1>5, <1>6 DEF ReplaceStep

\* The values of what does not run, and a queued snapshot's fields.
LEMMA NothingTypes ==
  /\ NoSnapshot \in [pc : {"idle", "enqueue", "notify"}, gen : Nat, inc : Nat]
  /\ NoSave \in [pc : {"idle", "commit", "mark"}, upto : Nat, rows : Transcript]
  /\ NoCut \in [pc : {"idle", "commit"}, rows : Transcript]
  /\ NoRows \in [call : SUBSET Row, slot : SUBSET Row, write : SUBSET Row]
  /\ \A r \in Req \cup {NoReq} : r.seq \in Nat /\ r.snap \in Nat /\ r.gen \in Nat /\ r.rows \in Transcript
<1>1. <<>> \in Transcript
  BY Transcripts
<1> HIDE DEF Transcript, Row
<1>2. \A r \in Req \cup {NoReq} : r.seq \in Nat /\ r.snap \in Nat /\ r.gen \in Nat /\ r.rows \in Transcript
  BY <1>1 DEF Req, NoReq
<1> QED  BY <1>1, <1>2 DEF NoSnapshot, NoSave, NoCut, NoRows

\* Every step keeps every variable in its type.
LEMMA TypeStep == TypeOK /\ [Next]_vars => TypeOK'
<1> SUFFICES ASSUME TypeOK, [Next]_vars PROVE TypeOK'
  OBVIOUS
<1> USE DEF worker, reg, marks, drain, store, turn, rest, calls, asking, ended, ghosts, Larger, Calling
<1>1. CASE UNCHANGED vars
  BY <1>1 DEF TypeOK, vars
<1>2. ASSUME NEW s \in Sessions, WorkerStep(s) PROVE TypeOK'
  <2>1. CASE Wake(s)  BY <2>1 DEF TypeOK, Wake
  <2>2. CASE Take(s)
    <3>1. erased' \in [Sessions -> Erased]
      <4>1. erased' = [erased EXCEPT ![s].write = erased[s].slot, ![s].slot = {}]
        BY <2>2 DEF Take
      <4>2. erased \in [Sessions -> Erased]
        BY DEF TypeOK, Erased
      <4> QED  BY <4>1, <4>2 DEF Erased
    <3>2. req' \in [Sessions -> Req \cup {NoReq}] /\ pending' \in [Sessions -> Req \cup {NoReq}]
      BY <2>2 DEF TypeOK, Take
    <3>3. /\ barriers' \in [Sessions -> SUBSET [call : Calls, seq : Nat]]
          /\ done' \in [Calls -> {"empty", "ok", "fail"}]
      BY <2>2, DeliverType DEF Take
    <3>4. wpc' \in [Sessions -> {"none", "select", "take", "write", "record"}]
      BY <2>2 DEF TypeOK, Take
    <3>5. UNCHANGED <<reg, notify, seq, marks, werr, store, turn, rest, cpc, asking, active, result,
                      want, asked, ended>>
      BY <2>2 DEF Take
    <3> QED  BY <3>1, <3>2, <3>3, <3>4, <3>5 DEF TypeOK, Erased
  <2>a. req[s] \in Req \cup {NoReq} /\ req[s].seq \in Nat /\ req[s].snap \in Nat /\ req[s].rows \in Transcript
    BY NothingTypes DEF TypeOK
  <2>3. CASE WriteLands(s)  BY <2>3, <2>a DEF TypeOK, WriteLands
  <2>4. CASE WriteDropped(s)  BY <2>4, <2>a DEF TypeOK, WriteDropped
  <2>5. CASE WriteFails(s)  BY <2>5, <2>a DEF TypeOK, WriteFails
  <2>6. CASE Record(s)  BY <2>6, <2>a, DeliverType DEF TypeOK, Record
  <2>7. CASE Retire(s)  BY <2>7 DEF TypeOK, Retire
  <2> QED  BY <1>2, <2>1, <2>2, <2>3, <2>4, <2>5, <2>6, <2>7 DEF WorkerStep
<1>3. ASSUME NEW s \in Sessions, TurnStep(s) PROVE TypeOK'
  <2>1. CASE SnapshotTaken(s)
    <3>1. <<"message", spoken[s] + 1>> \in Row
      BY DEF TypeOK, Row
    <3>2. messages' \in [Sessions -> Transcript]
      BY <2>1, <3>1, Transcripts DEF TypeOK, SnapshotTaken
    <3>3. erased' \in [Sessions -> Erased]
      <4>1. erased' = [erased EXCEPT ![s].call = {}]
        BY <2>1 DEF SnapshotTaken
      <4>2. erased \in [Sessions -> Erased]
        BY DEF TypeOK, Erased
      <4> QED  BY <4>1, <4>2 DEF Erased
    <3>4. /\ saver' \in [Sessions -> [pc : {"idle", "enqueue", "notify"}, gen : Nat, inc : Nat]]
          /\ spoken' \in [Sessions -> Nat]
      <4>1. /\ saver' = [saver EXCEPT ![s] = [pc |-> "enqueue", gen |-> gen[s], inc |-> 0]]
            /\ spoken' = [spoken EXCEPT ![s] = @ + 1]
        BY <2>1 DEF SnapshotTaken
      <4>2. /\ saver \in [Sessions -> [pc : {"idle", "enqueue", "notify"}, gen : Nat, inc : Nat]]
            /\ spoken \in [Sessions -> Nat] /\ gen \in [Sessions -> Nat]
        BY DEF TypeOK
      <4> QED  BY <4>1, <4>2
    <3>5. UNCHANGED <<worker, store, enqueued, rest, calls, want, asked, ended>>
      BY <2>1 DEF SnapshotTaken
    <3> QED  BY <3>2, <3>3, <3>4, <3>5 DEF TypeOK, Erased
  <2>2. CASE SnapshotRefused(s)  BY <2>2, NothingTypes DEF TypeOK, SnapshotRefused
  <2>3. CASE SnapshotEnqueued(s)
    <3> DEFINE inc == IF registered[s] THEN incarnation[s] ELSE incarnation[s] + 1
               entry == [seq |-> seq[s] + 1, snap |-> enqueued[s] + 1, gen |-> saver[s].gen,
                         rows |-> messages[s]]
               call == [pc |-> "notify", gen |-> 0, inc |-> inc]
    <3>1. entry \in Req
      BY DEF TypeOK, Req
    <3>2. inc \in Nat /\ call \in [pc : {"idle", "enqueue", "notify"}, gen : Nat, inc : Nat]
      BY DEF TypeOK
    <3>3. /\ pending' = [pending EXCEPT ![s] = entry] /\ incarnation' = [incarnation EXCEPT ![s] = inc]
          /\ saver' = [saver EXCEPT ![s] = call] /\ enqueued' = [enqueued EXCEPT ![s] = @ + 1]
          /\ seq' = [seq EXCEPT ![s] = @ + 1] /\ registered' = [registered EXCEPT ![s] = TRUE]
          /\ wpc' = [wpc EXCEPT ![s] = IF registered[s] THEN @ ELSE "select"]
          /\ erased' = [erased EXCEPT ![s].slot = erased[s].call]
          /\ UNCHANGED <<notify, barriers, marks, drain, store, messages, spoken, rest, calls,
                         want, asked, ended>>
      BY <2>3 DEF SnapshotEnqueued
    <3> HIDE DEF inc, entry, call
    <3>4. erased' \in [Sessions -> Erased]
      <4>1. erased \in [Sessions -> Erased]
        BY DEF TypeOK, Erased
      <4> QED  BY <3>3, <4>1 DEF Erased
    <3>5. /\ pending' \in [Sessions -> Req \cup {NoReq}] /\ incarnation' \in [Sessions -> Nat]
          /\ saver' \in [Sessions -> [pc : {"idle", "enqueue", "notify"}, gen : Nat, inc : Nat]]
      BY <3>1, <3>2, <3>3 DEF TypeOK
    <3>6. /\ enqueued' \in [Sessions -> Nat] /\ seq' \in [Sessions -> Nat]
          /\ registered' \in [Sessions -> BOOLEAN]
          /\ wpc' \in [Sessions -> {"none", "select", "take", "write", "record"}]
      BY <3>3 DEF TypeOK
    <3> QED  BY <3>3, <3>4, <3>5, <3>6 DEF TypeOK, Erased
  <2>4. CASE SnapshotNotified(s)  BY <2>4, NothingTypes DEF TypeOK, SnapshotNotified, Notify
  <2> QED  BY <1>3, <2>1, <2>2, <2>3, <2>4 DEF TurnStep
<1>4. ASSUME NEW s \in Sessions, OtherWriterStep(s) PROVE TypeOK'
  <2>1. CASE ReplaceStep(s)  BY <2>1, ReplaceType
  <2>2. CASE ForeignAppend(s)
    <3>1. <<"foreign", others[s] + 1>> \in Row /\ others[s] + 1 \in Nat
      BY DEF TypeOK, Row
    <3>2. disk' \in [Sessions -> Transcript]
      BY <2>2, <3>1, Transcripts DEF TypeOK, ForeignAppend
    <3> QED  BY <2>2, <3>1, <3>2 DEF TypeOK, ForeignAppend, Begins
  <2>3. CASE Reconcile(s)
    <3>1. PICK n \in 0 .. Len(messages[s]) :
            messages' = [messages EXCEPT ![s] = disk[s] \o SubSeq(@, n + 1, Len(messages[s]))]
      BY <2>3 DEF Reconcile
    <3>2. disk[s] \in Transcript /\ messages[s] \in Transcript
      BY DEF TypeOK
    <3>3. disk[s] \o SubSeq(messages[s], n + 1, Len(messages[s])) \in Transcript
      <4>1. n + 1 \in Nat \ {0} /\ Len(messages[s]) \in 0 .. Len(messages[s])
        BY <3>2, Transcripts
      <4>2. SubSeq(messages[s], n + 1, Len(messages[s])) \in Transcript
        BY <3>2, <4>1, Transcripts
      <4> QED  BY <3>2, <4>2, Transcripts
    <3>4. messages' \in [Sessions -> Transcript]
      BY <3>1, <3>3 DEF TypeOK
    <3>5. disk' \in [Sessions -> Transcript] /\ landed' \in [Sessions -> Nat]
      BY <2>3, <3>4 DEF TypeOK, Reconcile
    <3> QED  BY <2>3, <3>4, <3>5 DEF TypeOK, Reconcile
  <2>8. CASE ReconcileDiverged(s)  BY <2>8 DEF TypeOK, ReconcileDiverged
  <2>4. CASE SyncBegin(s)  BY <2>4 DEF TypeOK, SyncBegin, Begins
  <2>5. CASE SyncCommit(s)
    <3>1. sync' \in [Sessions -> [pc : {"idle", "commit", "mark"}, upto : Nat, rows : Transcript]]
      <4>1. sync' = [sync EXCEPT ![s].pc = "mark"]
        BY <2>5 DEF SyncCommit
      <4>2. sync \in [Sessions -> [pc : {"idle", "commit", "mark"}, upto : Nat, rows : Transcript]]
        BY DEF TypeOK
      <4> QED  BY <4>1, <4>2
    <3>2. landed' \in [Sessions -> Nat] /\ disk' \in [Sessions -> Transcript]
      BY <2>5 DEF TypeOK, SyncCommit
    <3> QED  BY <2>5, <3>1, <3>2 DEF TypeOK, SyncCommit
  <2>6. CASE SyncRefused(s)  BY <2>6, NothingTypes DEF TypeOK, SyncRefused
  <2>7. CASE SyncMark(s)
    <3>1. /\ barriers' \in [Sessions -> SUBSET [call : Calls, seq : Nat]]
          /\ done' \in [Calls -> {"empty", "ok", "fail"}]
      <4>1. CASE registered[s]  BY <2>7, <4>1, DeliverType DEF SyncMark
      <4>2. CASE ~registered[s]  BY <2>7, <4>2 DEF TypeOK, SyncMark
      <4> QED  BY <4>1, <4>2
    <3>2. coveredOKSeq' \in [Sessions -> Nat] /\ over' \in [Sessions -> Nat]
      <4>1. CASE registered[s]
        <5>1. /\ coveredOKSeq' = [coveredOKSeq EXCEPT ![s] = Larger(@, seq[s])]
              /\ over' = [over EXCEPT ![s] = IF enqueued[s] > sync[s].upto
                                             THEN Larger(@, enqueued[s]) ELSE @]
          BY <2>7, <4>1 DEF SyncMark
        <5>2. /\ coveredOKSeq \in [Sessions -> Nat] /\ over \in [Sessions -> Nat]
              /\ seq[s] \in Nat /\ enqueued[s] \in Nat
          BY DEF TypeOK
        <5> QED  BY <5>1, <5>2
      <4>2. CASE ~registered[s]  BY <2>7, <4>2 DEF TypeOK, SyncMark
      <4> QED  BY <4>1, <4>2
    <3>3. sync' \in [Sessions -> [pc : {"idle", "commit", "mark"}, upto : Nat, rows : Transcript]]
      BY <2>7, NothingTypes DEF TypeOK, SyncMark
    <3> QED  BY <2>7, <3>1, <3>2, <3>3 DEF TypeOK, SyncMark
  <2> QED  BY <1>4, <2>1, <2>2, <2>3, <2>4, <2>5, <2>6, <2>7, <2>8 DEF OtherWriterStep
<1>5. ASSUME NEW c \in Calls, CallStep(c) PROVE TypeOK'
  <2>1. ASSUME NEW s \in Sessions, Flush(c, s) PROVE TypeOK'
    <3>1. CASE registered[s]
      BY <2>1, <3>1, RegisterType DEF TypeOK, Flush
    <3>2. CASE ~registered[s]
      <4>1. /\ target' \in [Calls -> Sessions \cup {"none"}]
            /\ want' \in [Calls -> Nat]
        <5>1. /\ target' = [target EXCEPT ![c] = s]
              /\ want' = [want EXCEPT ![c] = enqueued[s]]
          BY <2>1, <3>2 DEF Flush
        <5>2. /\ target \in [Calls -> Sessions \cup {"none"}]
              /\ want \in [Calls -> Nat] /\ enqueued[s] \in Nat
          BY DEF TypeOK
        <5> QED  BY <5>1, <5>2
      <4>2. /\ cpc' \in [Calls -> Calling]
            /\ result' \in [Calls -> {"none", "ok", "fail", "timeout", "idle", "nil"}]
        BY <2>1, <3>2 DEF TypeOK, Flush
      <4> QED  BY <2>1, <3>2, <4>1, <4>2 DEF TypeOK, Flush
    <3> QED  BY <3>1, <3>2
  <2>2. ASSUME NEW s \in Sessions, FlushAllRegisters(c, s) PROVE TypeOK'
    <3>1. PICK a \in active[c] : FlushAllRegisters(c, s)!2!(a)
      BY <2>2 DEF FlushAllRegisters
    <3>2. active' \in [Calls -> SUBSET (Sessions \X Nat)]
      BY <3>1 DEF TypeOK
    <3>3. CASE registered[s] /\ incarnation[s] = a[2]
      BY <2>2, <3>1, <3>2, <3>3, RegisterType DEF TypeOK, FlushAllRegisters
    <3>4. CASE ~(registered[s] /\ incarnation[s] = a[2])
      BY <2>2, <3>1, <3>2, <3>4 DEF TypeOK, FlushAllRegisters
    <3> QED  BY <3>3, <3>4
  <2>3. CASE CallNotify(c)  BY <2>3 DEF TypeOK, CallNotify, Notify
  <2>4. CASE Answered(c)
    <3>1. cpc' \in [Calls -> Calling] /\ result' \in
            [Calls -> {"none", "ok", "fail", "timeout", "idle", "nil"}]
      <4>1. done[c] \in {"empty", "ok", "fail"}
        BY DEF TypeOK
      <4>2. CASE c \in FlushAlls /\ done[c] = "ok"
        BY <2>4, <4>2 DEF TypeOK, Answered
      <4>3. CASE ~(c \in FlushAlls /\ done[c] = "ok")
        <5>1. /\ cpc' = [cpc EXCEPT ![c] = "returned"]
              /\ result' = [result EXCEPT ![c] = done[c]]
              /\ done[c] \in {"ok", "fail"}
          BY <2>4, <4>1, <4>3 DEF Answered
        <5>2. /\ cpc \in [Calls -> Calling]
              /\ result \in [Calls -> {"none", "ok", "fail", "timeout", "idle", "nil"}]
          BY DEF TypeOK
        <5> QED  BY <5>1, <5>2
      <4> QED  BY <4>2, <4>3
    <3> QED  BY <2>4, <3>1 DEF TypeOK, Answered
  <2>5. CASE TimesOut(c)  BY <2>5 DEF TypeOK, TimesOut
  <2>6. CASE FlushAllBegins(c)  BY <2>6 DEF TypeOK, FlushAllBegins
  <2>7. CASE FlushAllScans(c)
    <3>1. Pass \in SUBSET (Sessions \X Nat)
      BY DEF TypeOK, Pass, Holding
    <3>2. active' \in [Calls -> SUBSET (Sessions \X Nat)]
      BY <2>7, <3>1 DEF TypeOK, FlushAllScans
    <3>3. cpc' \in [Calls -> Calling] /\ result' \in
            [Calls -> {"none", "ok", "fail", "timeout", "idle", "nil"}]
      <4>1. CASE Holding = {}   BY <2>7, <4>1 DEF TypeOK, FlushAllScans
      <4>2. CASE Holding # {}   BY <2>7, <4>2 DEF TypeOK, FlushAllScans
      <4> QED  BY <4>1, <4>2
    <3> QED  BY <2>7, <3>2, <3>3 DEF TypeOK, FlushAllScans
  <2>8. CASE FlushAllRescans(c)  BY <2>8 DEF TypeOK, FlushAllRescans
  <2> QED
    BY <1>5, <2>1, <2>2, <2>3, <2>4, <2>5, <2>6, <2>7, <2>8 DEF CallStep
<1> QED
  BY <1>1, <1>2, <1>3, <1>4, <1>5 DEF Next

\* The state of the live writer always has the types its Go declarations give it.
THEOREM TypeCorrect == Spec => []TypeOK
<1>1. Init => TypeOK
  BY NothingTypes, Transcripts DEF Init, TypeOK, Calling
<1> QED
  BY <1>1, TypeStep, PTL DEF Spec

-----------------------------------------------------------------------------
(* Facts about a barrier's two ends. *)

\* What a session's fields are, for the arithmetic below.
LEMMA SessionTypes ==
  ASSUME TypeOK, NEW s \in Sessions
  PROVE  /\ seq[s] \in Nat /\ writtenSeq[s] \in Nat /\ coveredOKSeq[s] \in Nat
         /\ enqueued[s] \in Nat /\ landed[s] \in Nat /\ dropped[s] \in Nat
         /\ over[s] \in Nat /\ failed[s] \in Nat /\ incarnation[s] \in Nat
         /\ registered[s] \in BOOLEAN /\ notify[s] \in BOOLEAN
         /\ lastFailErr[s] \in BOOLEAN /\ werr[s] \in BOOLEAN
         /\ pending[s] \in Req \cup {NoReq} /\ req[s] \in Req \cup {NoReq}
         /\ pending[s].seq \in Nat /\ pending[s].snap \in Nat
         /\ req[s].seq \in Nat /\ req[s].snap \in Nat
         /\ sync[s].upto \in Nat
         /\ \A b \in barriers[s] : b.call \in Calls /\ b.seq \in Nat /\ want[b.call] \in Nat
BY NothingTypes DEF TypeOK

\* Delivering against watermarks that tell the truth: a call is answered only
\* through its own barrier on s, and the answer is backed by cov or by a failure.
LEMMA DeliverAnswers ==
  ASSUME IInv, NEW s \in Sessions, NEW cov \in Nat, NEW wr \in Nat, NEW err \in BOOLEAN,
         NEW safe \in Nat,
         cov > 0 => enqueued[s] + cov <= seq[s] + safe,
         wr > cov => err /\ enqueued[s] + wr <= seq[s] + failed[s],
         Deliver(s, cov, wr, err)
  PROVE  /\ \A c \in Calls :
              \/ done'[c] = done[c]
              \/ target[c] = s /\ cpc[c] # "idle" /\ done'[c] = "ok" /\ want[c] <= safe
              \/ target[c] = s /\ cpc[c] # "idle" /\ done'[c] = "fail" /\ want[c] <= failed[s]
         /\ \A b \in barriers'[s] : b \in barriers[s] /\ b.seq > cov /\ b.seq > wr
                                    /\ done'[b.call] = done[b.call]
         /\ \A t \in Sessions : t # s =>
              barriers'[t] = barriers[t] /\ \A b \in barriers[t] : done'[b.call] = done[b.call]
<1> DEFINE fire == {b \in barriers[s] : Due(b, cov, wr)}
<1>1. /\ barriers' = [barriers EXCEPT ![s] = @ \ fire]
      /\ done' = [c \in Calls |->
                    IF \E b \in fire : b.call = c
                    THEN Outcome(CHOOSE b \in fire : b.call = c, cov, err)
                    ELSE done[c]]
  BY DEF Deliver
<1>2. TypeOK /\ BarriersAreCalls(s) /\ \A t \in Sessions : BarriersAreCalls(t)
  BY DEF IInv
<1>3. ASSUME NEW c \in Calls, \E b \in fire : b.call = c
      PROVE  /\ target[c] = s /\ cpc[c] # "idle"
             /\ \/ done'[c] = "ok" /\ want[c] <= safe
                \/ done'[c] = "fail" /\ want[c] <= failed[s]
  <2>1. PICK b \in fire : b = (CHOOSE b2 \in fire : b2.call = c) /\ b.call = c
    BY <1>3
  <2>2. done'[c] = Outcome(b, cov, err)
    BY <1>1, <1>3, <2>1
  <2>3. /\ b \in barriers[s] /\ (b.seq <= cov \/ b.seq <= wr)
        /\ b.seq \in 1 .. seq[s] /\ target[c] = s /\ cpc[c] # "idle" /\ want[c] + seq[s] = enqueued[s] + b.seq
    BY <1>2, <2>1 DEF BarriersAreCalls, SameEnqueue, Due
  <2>4. /\ seq[s] \in Nat /\ enqueued[s] \in Nat /\ want[c] \in Nat /\ failed[s] \in Nat
    BY <1>2 DEF TypeOK
  <2>5. CASE b.seq <= cov
    BY <2>2, <2>3, <2>4, <2>5 DEF Outcome
  <2>6. CASE ~(b.seq <= cov)
    <3>1. wr > cov /\ b.seq <= wr
      BY <2>3, <2>4, <2>6
    <3> QED  BY <2>2, <2>3, <2>4, <2>6, <3>1 DEF Outcome
  <2> QED  BY <2>3, <2>5, <2>6
<1>4. ASSUME NEW c \in Calls PROVE
              \/ done'[c] = done[c]
              \/ target[c] = s /\ cpc[c] # "idle" /\ done'[c] = "ok" /\ want[c] <= safe
              \/ target[c] = s /\ cpc[c] # "idle" /\ done'[c] = "fail" /\ want[c] <= failed[s]
  <2>1. CASE \E b \in fire : b.call = c  BY <1>3, <2>1
  <2>2. CASE ~\E b \in fire : b.call = c  BY <1>1, <2>2
  <2> QED  BY <2>1, <2>2
<1>5. ASSUME NEW b \in barriers'[s]
      PROVE  b \in barriers[s] /\ b.seq > cov /\ b.seq > wr /\ done'[b.call] = done[b.call]
  <2>1. b \in barriers[s] /\ b \notin fire
    BY <1>1, <1>2 DEF TypeOK
  <2>2. b.call \in Calls /\ b.seq \in Nat
    BY <1>2, <2>1 DEF TypeOK
  <2>3. ~\E b2 \in fire : b2.call = b.call
    BY <1>2, <2>1 DEF BarriersAreCalls
  <2> QED  BY <1>1, <2>1, <2>2, <2>3 DEF Due
<1>6. ASSUME NEW t \in Sessions, t # s
      PROVE  barriers'[t] = barriers[t] /\ \A b \in barriers[t] : done'[b.call] = done[b.call]
  <2>1. barriers'[t] = barriers[t]
    BY <1>1, <1>2, <1>6 DEF TypeOK
  <2>2. ASSUME NEW b \in barriers[t] PROVE done'[b.call] = done[b.call]
    <3>1. b.call \in Calls /\ target[b.call] = t
      BY <1>2 DEF TypeOK, BarriersAreCalls
    <3>2. ~\E b2 \in fire : b2.call = b.call
      BY <1>2, <1>6, <3>1 DEF BarriersAreCalls
    <3> QED  BY <1>1, <3>1, <3>2
  <2> QED  BY <2>1, <2>2
<1> QED  BY <1>4, <1>5, <1>6

\* The empty slot carries seq 0 and snapshot 0; a queued snapshot has a seq.
LEMMA SlotFields ==
  /\ NoReq.seq = 0 /\ NoReq.snap = 0
  /\ \A r \in Req : r # NoReq /\ r.seq \in Nat \ {0} /\ r.snap \in Nat
BY DEF NoReq, Req

\* The conjuncts of IInv, per session.
LEMMA Unpacked ==
  ASSUME IInv
  PROVE  /\ TypeOK
         /\ \A t \in Sessions : /\ RetiredIsEmpty(t) /\ SlotAndWrite(t) /\ Watermarks(t)
                                /\ FileAndSync(t) /\ BarriersAreCalls(t)
                                /\ Accounted(t) /\ Served(t)
BY DEF IInv, WorkerInv, NothingVanishes, NothingStranded

\* A step that touches no call and no barrier, and takes nothing back from what
\* is on disk, dropped, covered or failed, keeps every answer justified.
LEMMA CallsUntouched ==
  ASSUME IInv, TypeOK', UNCHANGED <<barriers, done, cpc, target, want>>,
         \A t \in Sessions : /\ landed'[t] >= landed[t] /\ dropped'[t] >= dropped[t]
                             /\ over'[t] >= over[t] /\ failed'[t] >= failed[t],
         \A t \in Sessions : \/ barriers[t] = {}
                             \/ /\ seq'[t] >= seq[t]
                                /\ enqueued'[t] + seq[t] = enqueued[t] + seq'[t]
  PROVE  /\ \A t \in Sessions : BarriersAreCalls(t)'
         /\ AnswersHaveTargets' /\ SuccessIsBacked' /\ FailureIsReal'
<1>1. ASSUME NEW t \in Sessions PROVE BarriersAreCalls(t)'
  <2>1. CASE barriers[t] = {}
    BY <2>1 DEF BarriersAreCalls
  <2>2. ASSUME barriers[t] # {}, NEW b \in barriers[t]
        PROVE  b.seq \in 1 .. seq'[t] /\ want[b.call] + seq'[t] = enqueued'[t] + b.seq
    <3>1. /\ seq'[t] >= seq[t] /\ enqueued'[t] + seq[t] = enqueued[t] + seq'[t]
          /\ seq[t] \in Nat /\ enqueued[t] \in Nat /\ want[b.call] \in Nat
      BY <2>2, Unpacked, SessionTypes
    <3>2. seq'[t] \in Nat /\ enqueued'[t] \in Nat
      BY DEF TypeOK
    <3>3. b.seq \in 1 .. seq[t] /\ want[b.call] + seq[t] = enqueued[t] + b.seq
      BY Unpacked DEF BarriersAreCalls, SameEnqueue
    <3> QED  BY <3>1, <3>2, <3>3
  <2>3. BarriersAreCalls(t)
    BY Unpacked
  <2> QED  BY <2>1, <2>2, <2>3 DEF BarriersAreCalls, SameEnqueue
<1>2. AnswersHaveTargets'
  BY DEF IInv, AnswersHaveTargets
<1>3. SuccessIsBacked' /\ FailureIsReal'
  <2> SUFFICES ASSUME NEW c \in Calls
      PROVE  /\ done[c] = "ok" => want[c] <= Larger(Settled(target[c]), over[target[c]])'
             /\ done[c] = "fail" => want[c] <= failed'[target[c]]
    BY DEF SuccessIsBacked, FailureIsReal
  <2>1. CASE done[c] = "empty"
    BY <2>1
  <2>2. CASE done[c] # "empty"
    <3>1. target[c] \in Sessions /\ want[c] \in Nat
      BY <2>2, Unpacked DEF IInv, AnswersHaveTargets, TypeOK
    <3>2. /\ landed[target[c]] \in Nat /\ dropped[target[c]] \in Nat
          /\ over[target[c]] \in Nat /\ failed[target[c]] \in Nat
      BY <3>1, Unpacked, SessionTypes
    <3>3. /\ landed'[target[c]] \in Nat /\ dropped'[target[c]] \in Nat
          /\ over'[target[c]] \in Nat /\ failed'[target[c]] \in Nat
      BY <3>1 DEF TypeOK
    <3>4. /\ done[c] = "ok" => want[c] <= Larger(Settled(target[c]), over[target[c]])
          /\ done[c] = "fail" => want[c] <= failed[target[c]]
      BY DEF IInv, SuccessIsBacked, FailureIsReal
    <3> QED  BY <3>1, <3>2, <3>3, <3>4 DEF Settled, Larger
  <2> QED  BY <2>1, <2>2
<1> QED  BY <1>1, <1>2, <1>3

-----------------------------------------------------------------------------
(* Steps of a session's worker, turn and other writers that leave the calls alone. *)

\* The other writers' steps that settle no snapshot,
Aside(s) == ReplaceStep(s) \/ ForeignAppend(s) \/ ReconcileDiverged(s)

\* and what they leave alone.
AsideKeeps == UNCHANGED <<worker, saver, enqueued, sync, calls, want, asked, ended>>

\* No cut of the history, however it ends, touches a worker, a call or the turn's
\* SaveAsync; nor does a foreign row, or a transcript taken over from the disk.
LEMMA AsideFrame ==
  ASSUME NEW s \in Sessions, Aside(s)
  PROVE  AsideKeeps
<1> USE DEF AsideKeeps, turn, ghosts, store, rest
<1>1. CASE ReplaceBegins(s) \/ ReplaceFails(s) \/ TruncateLoads(s) \/ TruncateFails(s)
  BY <1>1 DEF ReplaceBegins, ReplaceFails, TruncateLoads, TruncateFails
<1>2. CASE ReplaceCommits(s)  BY <1>2 DEF ReplaceCommits
<1>3. CASE TruncateCommits(s)  BY <1>3 DEF TruncateCommits
<1>4. CASE ForeignAppend(s)  BY <1>4 DEF ForeignAppend
<1>5. CASE ReconcileDiverged(s)  BY <1>5 DEF ReconcileDiverged
<1> QED  BY <1>1, <1>2, <1>3, <1>4, <1>5 DEF Aside, ReplaceStep

\* What a reconciliation, a synchronous save's commit and the first part of a
\* SaveAsync do to the history of the snapshots and to the calls.
ReconcileKeeps(s) ==
  /\ landed' = [landed EXCEPT ![s] = enqueued[s]]
  /\ UNCHANGED <<worker, saver, enqueued, sync, calls, want, asked, dropped, over, failed>>
SyncCommitKeeps(s) ==
  /\ landed' = [landed EXCEPT ![s] = Larger(@, sync[s].upto)]
  /\ sync' = [sync EXCEPT ![s].pc = "mark"]
  /\ UNCHANGED <<worker, saver, enqueued, calls, want, asked, dropped, over, failed>>
SnapshotTakenKeeps(s) ==
  /\ saver[s].pc = "idle"
  /\ saver' = [saver EXCEPT ![s] = [pc |-> "enqueue", gen |-> gen[s], inc |-> 0]]
  /\ UNCHANGED <<worker, enqueued, sync, calls, want, asked, ended>>

\* A change at s, and at s alone.
LEMMA LandedAt ==
  ASSUME TypeOK, NEW s \in Sessions, NEW n, landed' = [landed EXCEPT ![s] = n]
  PROVE  landed'[s] = n /\ \A t \in Sessions : t # s => landed'[t] = landed[t]
BY DEF TypeOK

LEMMA ReconcileFrame ==
  ASSUME NEW s \in Sessions, Reconcile(s)
  PROVE  ReconcileKeeps(s)
BY DEF Reconcile, ReconcileKeeps, rest

LEMMA SyncCommitFrame ==
  ASSUME NEW s \in Sessions, SyncCommit(s)
  PROVE  SyncCommitKeeps(s)
BY DEF SyncCommit, SyncCommitKeeps, turn

LEMMA SnapshotTakenFrame ==
  ASSUME NEW s \in Sessions, SnapshotTaken(s)
  PROVE  SnapshotTakenKeeps(s)
BY DEF SnapshotTaken, SnapshotTakenKeeps, rest

Quiet(s) ==
  \/ Wake(s)
  \/ WriteLands(s)
  \/ WriteDropped(s)
  \/ WriteFails(s)
  \/ Retire(s)
  \/ SnapshotTaken(s)
  \/ SnapshotRefused(s)
  \/ SnapshotEnqueued(s)
  \/ SnapshotNotified(s)
  \/ Aside(s)
  \/ Reconcile(s)
  \/ SyncBegin(s)
  \/ SyncCommit(s)
  \/ SyncRefused(s)

\* Such a step changes only the fields of its own session.
LEMMA Elsewhere ==
  ASSUME TypeOK, NEW s \in Sessions, NEW t \in Sessions, t # s, Quiet(s)
  PROVE  /\ registered'[t] = registered[t] /\ incarnation'[t] = incarnation[t]
         /\ wpc'[t] = wpc[t] /\ pending'[t] = pending[t] /\ notify'[t] = notify[t]
         /\ seq'[t] = seq[t] /\ writtenSeq'[t] = writtenSeq[t]
         /\ coveredOKSeq'[t] = coveredOKSeq[t] /\ lastFailErr'[t] = lastFailErr[t]
         /\ req'[t] = req[t] /\ werr'[t] = werr[t] /\ landed'[t] = landed[t]
         /\ saver'[t] = saver[t] /\ enqueued'[t] = enqueued[t] /\ sync'[t] = sync[t]
         /\ dropped'[t] = dropped[t] /\ over'[t] = over[t] /\ failed'[t] = failed[t]
<1> USE DEF worker, reg, marks, drain, store, turn, rest, calls, asking, ended, ghosts
<1>1. CASE Wake(s)  BY <1>1 DEF Wake, TypeOK
<1>2. CASE WriteLands(s)  BY <1>2 DEF WriteLands, TypeOK
<1>3. CASE WriteDropped(s)  BY <1>3 DEF WriteDropped, TypeOK
<1>4. CASE WriteFails(s)  BY <1>4 DEF WriteFails, TypeOK
<1>5. CASE Retire(s)  BY <1>5 DEF Retire, TypeOK
<1>6. CASE SnapshotTaken(s)  BY <1>6, SnapshotTakenFrame DEF SnapshotTakenKeeps, TypeOK
<1>7. CASE SnapshotRefused(s)  BY <1>7 DEF SnapshotRefused, TypeOK
<1>8. CASE SnapshotEnqueued(s)  BY <1>8 DEF SnapshotEnqueued, TypeOK
<1>9. CASE SnapshotNotified(s)  BY <1>9 DEF SnapshotNotified, TypeOK, Notify
<1>10. CASE Aside(s)  BY <1>10, AsideFrame DEF AsideKeeps, TypeOK
<1>12. CASE Reconcile(s)  BY <1>12, ReconcileFrame DEF ReconcileKeeps, TypeOK
<1>13. CASE SyncBegin(s)  BY <1>13 DEF SyncBegin, TypeOK
<1>14. CASE SyncCommit(s)  BY <1>14, SyncCommitFrame DEF SyncCommitKeeps, TypeOK, Larger
<1>15. CASE SyncRefused(s)  BY <1>15 DEF SyncRefused, TypeOK
<1> QED  BY <1>1, <1>2, <1>3, <1>4, <1>5, <1>6, <1>7, <1>8, <1>9, <1>10, <1>12, <1>13, <1>14, <1>15 DEF Quiet

\* A retired worker owned nothing.
LEMMA RetireWorker ==
  ASSUME IInv, TypeOK', NEW s \in Sessions, Retire(s)
  PROVE  WorkerInv(s)' /\ Accounted(s)'
<1>1. /\ registered'[s] = FALSE /\ wpc'[s] = "none" /\ pending'[s] = NoReq /\ seq'[s] = 0
      /\ writtenSeq'[s] = 0 /\ coveredOKSeq'[s] = 0 /\ barriers'[s] = {}
      /\ req'[s] = req[s] /\ pending[s] = NoReq /\ wpc[s] = "select"
      /\ landed'[s] = landed[s] /\ sync'[s] = sync[s] /\ enqueued'[s] = enqueued[s]
      /\ dropped'[s] = dropped[s] /\ failed'[s] = failed[s]
  BY Unpacked DEF Retire, Retirable, TypeOK, drain, store, turn, rest, ended, ghosts
<1>2. req[s] = NoReq
  BY <1>1, Unpacked DEF SlotAndWrite
<1>3. RetiredIsEmpty(s)' /\ Watermarks(s)'
  BY <1>1, <1>2 DEF RetiredIsEmpty, Watermarks
<1>4. Reachable(s)' = 0
  BY <1>1, <1>2, SlotFields DEF Reachable, Larger
<1>5. SlotAndWrite(s)'
  BY <1>1, <1>2, <1>4 DEF SlotAndWrite
<1>6. FileAndSync(s)' /\ Accounted(s)'
  BY <1>1, <1>2, Unpacked DEF FileAndSync, Accounted, Settled
<1> QED  BY <1>3, <1>5, <1>6 DEF WorkerInv

\* An enqueue on a new or a registered worker fills the slot with the newest snapshot.
LEMMA SnapshotEnqueuedWorker ==
  ASSUME IInv, TypeOK', NEW s \in Sessions, SnapshotEnqueued(s)
  PROVE  WorkerInv(s)' /\ Accounted(s)'
<1>1. /\ registered'[s] = TRUE /\ wpc'[s] = (IF registered[s] THEN wpc[s] ELSE "select")
      /\ pending'[s].seq = seq[s] + 1 /\ pending'[s].snap = enqueued[s] + 1
      /\ seq'[s] = seq[s] + 1 /\ enqueued'[s] = enqueued[s] + 1
  BY Unpacked DEF SnapshotEnqueued, TypeOK
<1>2. /\ writtenSeq'[s] = writtenSeq[s] /\ coveredOKSeq'[s] = coveredOKSeq[s]
      /\ lastFailErr'[s] = lastFailErr[s] /\ req'[s] = req[s] /\ werr'[s] = werr[s]
      /\ landed'[s] = landed[s] /\ sync'[s] = sync[s] /\ over'[s] = over[s]
      /\ dropped'[s] = dropped[s] /\ failed'[s] = failed[s]
  BY DEF SnapshotEnqueued, marks, drain, store, rest, ended, ghosts
<1>3. /\ seq[s] \in Nat /\ enqueued[s] \in Nat /\ writtenSeq[s] \in Nat /\ coveredOKSeq[s] \in Nat
      /\ landed[s] \in Nat /\ dropped[s] \in Nat /\ failed[s] \in Nat /\ over[s] \in Nat
      /\ req[s].seq \in Nat /\ req[s].snap \in Nat /\ sync[s].upto \in Nat
  BY Unpacked, SessionTypes
<1>4. RetiredIsEmpty(s)'
  BY <1>1, <1>3, Unpacked DEF RetiredIsEmpty
<1>5. pending'[s].seq <= Reachable(s)'
  BY <1>1, <1>2, <1>3 DEF Reachable, Larger
<1>6. IF wpc'[s] \in {"write", "record"}
      THEN req[s] # NoReq /\ req[s].seq <= seq[s] /\ SameEnqueue(s, req[s].seq, req[s].snap)
      ELSE req[s] = NoReq
  BY <1>1, Unpacked DEF SlotAndWrite, RetiredIsEmpty
<1>7. wpc'[s] = "record" =>
        IF werr[s] THEN req[s].snap <= failed[s] ELSE req[s].snap <= Settled(s)
  BY <1>1, Unpacked DEF SlotAndWrite
<1>8. SlotAndWrite(s)'
  BY <1>1, <1>2, <1>3, <1>5, <1>6, <1>7 DEF SlotAndWrite, SameEnqueue, Settled
<1>9. Watermarks(s)' /\ FileAndSync(s)' /\ Accounted(s)'
  BY <1>1, <1>2, <1>3, Unpacked DEF Watermarks, FileAndSync, Accounted, Settled, Larger
<1> QED  BY <1>4, <1>8, <1>9 DEF WorkerInv

\* Such a step keeps the worker's own invariants and loses no snapshot.
LEMMA QuietWorker ==
  ASSUME IInv, TypeOK', NEW s \in Sessions, NEW t \in Sessions, Quiet(s)
  PROVE  WorkerInv(t)' /\ Accounted(t)'
<1>1. CASE t # s
  <2>1. barriers' = barriers
    BY AsideFrame DEF Quiet, worker, calls, Wake, WriteLands, WriteDropped, WriteFails, Retire, SnapshotTaken, SnapshotRefused, SnapshotEnqueued, SnapshotNotified, AsideKeeps, Reconcile, SyncBegin, SyncCommit, SyncRefused, Retirable
  <2> HIDE DEF Quiet
  <2>2. RetiredIsEmpty(t)' /\ SlotAndWrite(t)'
    BY <1>1, <2>1, Unpacked, Elsewhere DEF RetiredIsEmpty, SlotAndWrite, Settled, Reachable, SameEnqueue
  <2>3. Watermarks(t)' /\ FileAndSync(t)' /\ Accounted(t)'
    <3>1. Watermarks(t) /\ FileAndSync(t) /\ Accounted(t) /\ TypeOK
      BY Unpacked
    <3>2. Watermarks(t)'
      BY <1>1, <3>1, Elsewhere DEF Watermarks, Settled
    <3>3. FileAndSync(t)'
      BY <1>1, <3>1, Elsewhere DEF FileAndSync
    <3>4. Accounted(t)'
      <4>1. /\ pending'[t] = pending[t] /\ req'[t] = req[t] /\ enqueued'[t] = enqueued[t]
            /\ landed'[t] = landed[t] /\ dropped'[t] = dropped[t] /\ failed'[t] = failed[t]
        BY <1>1, <3>1, Elsewhere
      <4> QED  BY <3>1, <4>1 DEF Accounted, Settled
    <3> QED  BY <3>2, <3>3, <3>4
  <2> QED  BY <2>2, <2>3 DEF WorkerInv
<1>2. ASSUME t = s PROVE WorkerInv(s)' /\ Accounted(s)'
  <2>a. /\ TypeOK /\ RetiredIsEmpty(s) /\ SlotAndWrite(s) /\ Watermarks(s) /\ FileAndSync(s)
        /\ Accounted(s)
    BY Unpacked
  <2>b. /\ seq[s] \in Nat /\ writtenSeq[s] \in Nat /\ coveredOKSeq[s] \in Nat
        /\ enqueued[s] \in Nat /\ landed[s] \in Nat /\ dropped[s] \in Nat
        /\ over[s] \in Nat /\ failed[s] \in Nat /\ sync[s].upto \in Nat
        /\ pending[s].seq \in Nat /\ pending[s].snap \in Nat
        /\ req[s].seq \in Nat /\ req[s].snap \in Nat
    BY <2>a, SessionTypes
  <2> USE <1>2, <2>a, <2>b, SlotFields DEF WorkerInv, RetiredIsEmpty, SlotAndWrite,
       Watermarks, FileAndSync, Accounted, Settled, Larger, Reachable, SameEnqueue,
       worker, reg, marks, drain, store, turn, rest, calls, asking, ended, ghosts
  <2>1. CASE Wake(s)  BY <2>1 DEF Wake, TypeOK
  <2>2. CASE WriteLands(s)  BY <2>2 DEF WriteLands, TypeOK
  <2>3. CASE WriteDropped(s)  BY <2>3 DEF WriteDropped, TypeOK
  <2>4. CASE WriteFails(s)  BY <2>4 DEF WriteFails, TypeOK
  <2>5. CASE Retire(s)  BY <2>5, RetireWorker
  <2>6. CASE SnapshotTaken(s)  BY <2>6, SnapshotTakenFrame DEF SnapshotTakenKeeps, TypeOK
  <2>7. CASE SnapshotRefused(s)  BY <2>7 DEF SnapshotRefused, TypeOK
  <2>8. CASE SnapshotEnqueued(s)  BY <2>8, SnapshotEnqueuedWorker
  <2>9. CASE SnapshotNotified(s)  BY <2>9 DEF SnapshotNotified, TypeOK, Notify
  <2>10. CASE Aside(s)  BY <2>10, AsideFrame DEF AsideKeeps, TypeOK
  <2>12. CASE Reconcile(s)  BY <2>12, ReconcileFrame DEF ReconcileKeeps, TypeOK
  <2>13. CASE SyncBegin(s)  BY <2>13 DEF SyncBegin, TypeOK
  <2>14. CASE SyncCommit(s)
    <3>1. SyncCommitKeeps(s)
      BY <2>14, SyncCommitFrame
    <3>2. landed'[s] = Larger(landed[s], sync[s].upto)
      BY <3>1, LandedAt DEF SyncCommitKeeps
    <3>3. sync'[s].upto = sync[s].upto
      BY <3>1 DEF SyncCommitKeeps, TypeOK
    <3>4. UNCHANGED <<registered, incarnation, wpc, pending, notify, barriers, seq, writtenSeq,
                      coveredOKSeq, lastFailErr, req, werr, saver, enqueued, dropped, over, failed>>
      BY <3>1 DEF SyncCommitKeeps
    <3> HIDE DEF TypeOK
    <3> QED  BY <3>2, <3>3, <3>4
  <2>15. CASE SyncRefused(s)
    <3>1. sync'[s].upto = 0 /\ sync'[s].pc = "idle"
      BY <2>15 DEF SyncRefused, TypeOK, NoSave
    <3>2. UNCHANGED <<registered, incarnation, wpc, pending, notify, barriers, seq, writtenSeq,
                      coveredOKSeq, lastFailErr, req, werr, saver, enqueued, ended>>
      BY <2>15 DEF SyncRefused
    <3> HIDE DEF TypeOK
    <3> QED  BY <3>1, <3>2
  <2> QED  BY <2>1, <2>2, <2>3, <2>4, <2>5, <2>6, <2>7, <2>8, <2>9, <2>10, <2>12, <2>13, <2>14, <2>15 DEF Quiet
<1> QED  BY <1>1, <1>2

\* Such a step takes nothing back that an answer relies on.
LEMMA QuietCalls ==
  ASSUME IInv, TypeOK', NEW s \in Sessions, Quiet(s)
  PROVE  /\ \A t \in Sessions : BarriersAreCalls(t)'
         /\ AnswersHaveTargets' /\ SuccessIsBacked' /\ FailureIsReal'
<1> USE DEF worker, reg, marks, drain, store, turn, rest, calls, asking, ended, ghosts
<1>1. UNCHANGED <<barriers, done, cpc, target, want>>
  BY AsideFrame DEF Quiet, Wake, WriteLands, WriteDropped, WriteFails, Retire, SnapshotTaken, SnapshotRefused, SnapshotEnqueued, SnapshotNotified, AsideKeeps, Reconcile, SyncBegin, SyncCommit, SyncRefused
<1>2. ASSUME NEW t \in Sessions
      PROVE  /\ landed'[t] >= landed[t] /\ dropped'[t] >= dropped[t]
             /\ over'[t] >= over[t] /\ failed'[t] >= failed[t]
             /\ \/ barriers[t] = {}
                \/ /\ seq'[t] >= seq[t]
                   /\ enqueued'[t] + seq[t] = enqueued[t] + seq'[t]
  <2>a. TypeOK /\ FileAndSync(s) /\ FileAndSync(t) /\ RetiredIsEmpty(s)
    BY Unpacked
  <2>b. /\ landed[s] \in Nat /\ landed[t] \in Nat /\ dropped[s] \in Nat /\ dropped[t] \in Nat
        /\ over[s] \in Nat /\ over[t] \in Nat /\ failed[s] \in Nat /\ failed[t] \in Nat
        /\ seq[s] \in Nat /\ seq[t] \in Nat /\ enqueued[s] \in Nat /\ enqueued[t] \in Nat
        /\ req[s].snap \in Nat /\ sync[s].upto \in Nat
    BY <2>a, SessionTypes
  <2> USE <2>a, <2>b DEF FileAndSync
  <2>1. CASE Wake(s)  BY <2>1 DEF Wake, TypeOK
  <2>2. CASE WriteLands(s)  BY <2>2 DEF WriteLands, TypeOK, Larger
  <2>3. CASE WriteDropped(s)  BY <2>3 DEF WriteDropped, TypeOK, Larger
  <2>4. CASE WriteFails(s)  BY <2>4 DEF WriteFails, TypeOK, Larger
  <2>5. CASE Retire(s)  BY <2>5 DEF Retire, TypeOK, Retirable
  <2>6. CASE SnapshotTaken(s)  BY <2>6, SnapshotTakenFrame DEF SnapshotTakenKeeps, TypeOK
  <2>7. CASE SnapshotRefused(s)  BY <2>7 DEF SnapshotRefused, TypeOK
  <2>8. CASE SnapshotEnqueued(s)
    <3>1. /\ landed' = landed /\ dropped' = dropped /\ over' = over /\ failed' = failed
          /\ seq' = [seq EXCEPT ![s] = @ + 1] /\ enqueued' = [enqueued EXCEPT ![s] = @ + 1]
      BY <2>8 DEF SnapshotEnqueued
    <3>2. seq \in [Sessions -> Nat] /\ enqueued \in [Sessions -> Nat]
      BY DEF TypeOK
    <3>3. CASE t = s
      <4>1. seq'[t] = seq[t] + 1 /\ enqueued'[t] = enqueued[t] + 1
        BY <3>1, <3>2, <3>3
      <4>2. seq[t] \in Nat /\ enqueued[t] \in Nat
        BY <3>2
      <4>3. enqueued'[t] + seq[t] = enqueued[t] + seq'[t] /\ seq'[t] >= seq[t]
        BY <4>1, <4>2
      <4> QED  BY <3>1, <4>3
    <3>4. CASE t # s
      <4>1. seq'[t] = seq[t] /\ enqueued'[t] = enqueued[t]
        BY <3>1, <3>2, <3>4
      <4> QED  BY <3>1, <3>2, <4>1
    <3> QED  BY <3>3, <3>4
  <2>9. CASE SnapshotNotified(s)  BY <2>9 DEF SnapshotNotified, TypeOK, Notify
  <2>10. CASE Aside(s)  BY <2>10, AsideFrame DEF AsideKeeps, TypeOK
  <2>12. CASE Reconcile(s)
    <3>1. ReconcileKeeps(s)
      BY <2>12, ReconcileFrame
    <3>2. landed'[s] = enqueued[s] /\ (t # s => landed'[t] = landed[t])
      BY <3>1, LandedAt DEF ReconcileKeeps
    <3>3. UNCHANGED <<seq, enqueued, dropped, over, failed>>
      BY <3>1 DEF ReconcileKeeps
    <3> QED  BY <3>2, <3>3
  <2>13. CASE SyncBegin(s)  BY <2>13 DEF SyncBegin, TypeOK
  <2>14. CASE SyncCommit(s)
    <3>1. SyncCommitKeeps(s)
      BY <2>14, SyncCommitFrame
    <3>2. landed'[s] = Larger(landed[s], sync[s].upto) /\ (t # s => landed'[t] = landed[t])
      BY <3>1, LandedAt DEF SyncCommitKeeps
    <3>3. UNCHANGED <<seq, enqueued, dropped, over, failed>>
      BY <3>1 DEF SyncCommitKeeps
    <3> QED  BY <3>2, <3>3 DEF Larger
  <2>15. CASE SyncRefused(s)  BY <2>15 DEF SyncRefused, TypeOK
  <2> QED  BY <2>1, <2>2, <2>3, <2>4, <2>5, <2>6, <2>7, <2>8, <2>9, <2>10, <2>12, <2>13, <2>14, <2>15 DEF Quiet
<1> QED  BY <1>1, <1>2, CallsUntouched

\* What SaveAsync leaves of its worker when it has put its snapshot on it.
LEMMA EnqueueFields ==
  ASSUME TypeOK, NEW s \in Sessions, SnapshotEnqueued(s)
  PROVE  /\ registered'[s] = TRUE
         /\ saver'[s].pc = "notify" /\ saver'[s].inc = incarnation'[s]
         /\ pending'[s].seq = seq[s] + 1
<1> DEFINE inc == IF registered[s] THEN incarnation[s] ELSE incarnation[s] + 1
           entry == [seq |-> seq[s] + 1, snap |-> enqueued[s] + 1, gen |-> saver[s].gen, rows |-> messages[s]]
           call == [pc |-> "notify", gen |-> 0, inc |-> inc]
<1>1. /\ s \in DOMAIN registered /\ s \in DOMAIN saver
      /\ s \in DOMAIN incarnation /\ s \in DOMAIN pending
  BY DEF TypeOK
<1>2. /\ registered' = [registered EXCEPT ![s] = TRUE] /\ saver' = [saver EXCEPT ![s] = call]
      /\ incarnation' = [incarnation EXCEPT ![s] = inc] /\ pending' = [pending EXCEPT ![s] = entry]
  BY DEF SnapshotEnqueued
<1>3. call.pc = "notify" /\ call.inc = inc /\ entry.seq = seq[s] + 1
  OBVIOUS
<1> HIDE DEF inc, entry, call
<1>4. registered'[s] = TRUE /\ saver'[s] = call /\ incarnation'[s] = inc /\ pending'[s] = entry
  BY <1>1, <1>2
<1> QED  BY <1>3, <1>4

\* Such a step strands nobody: it wakes, or leaves the wake-up coming.
LEMMA QuietServed ==
  ASSUME IInv, TypeOK', NEW s \in Sessions, NEW t \in Sessions, Quiet(s)
  PROVE  Served(t)'
<1> USE DEF worker, reg, marks, drain, store, turn, rest, calls, asking, ended, ghosts
<1>1. UNCHANGED <<barriers, cpc, target, holds>>
  BY AsideFrame DEF Quiet, Wake, WriteLands, WriteDropped, WriteFails, Retire, SnapshotTaken, SnapshotRefused, SnapshotEnqueued, SnapshotNotified, AsideKeeps, Reconcile, SyncBegin, SyncCommit, SyncRefused
<1>2. CASE t # s
  BY <1>1, <1>2, Unpacked, Elsewhere DEF Served, WakeComing, Reachable
<1>3. CASE t = s
  <2>a. TypeOK /\ Served(s) /\ RetiredIsEmpty(s) /\ BarriersAreCalls(s)
    BY Unpacked
  <2>b. /\ seq[s] \in Nat /\ writtenSeq[s] \in Nat /\ coveredOKSeq[s] \in Nat
        /\ pending[s].seq \in Nat /\ req[s].seq \in Nat
        /\ \A b \in barriers[s] : b.seq \in Nat
    BY <2>a, SessionTypes
  <2> USE <1>1, <1>3, <2>a, <2>b, SlotFields
          DEF Served, WakeComing, Reachable, Larger, RetiredIsEmpty, BarriersAreCalls
  <2>1. CASE Wake(s)  BY <2>1 DEF Wake, TypeOK
  <2>2. CASE WriteLands(s)  BY <2>2 DEF WriteLands, TypeOK
  <2>3. CASE WriteDropped(s)  BY <2>3 DEF WriteDropped, TypeOK
  <2>4. CASE WriteFails(s)  BY <2>4 DEF WriteFails, TypeOK
  <2>5. CASE Retire(s)  BY <2>5 DEF Retire, TypeOK, Retirable
  <2>6. CASE SnapshotTaken(s)
    <3>1. saver[s].pc # "notify" /\ UNCHANGED <<pending, req, wpc, notify>>
          /\ UNCHANGED <<registered, incarnation, writtenSeq, coveredOKSeq>>
      BY <2>6 DEF SnapshotTaken
    <3>2. WakeComing(s) => WakeComing(s)'
      BY <3>1
    <3> HIDE DEF WakeComing
    <3> QED  BY <3>1, <3>2
  <2>7. CASE SnapshotRefused(s)  BY <2>7 DEF SnapshotRefused, TypeOK
  <2>8. CASE SnapshotEnqueued(s)
    <3>1. /\ registered'[s] = TRUE /\ saver'[s].pc = "notify" /\ saver'[s].inc = incarnation'[s]
          /\ barriers'[s] = barriers[s] /\ writtenSeq'[s] = writtenSeq[s]
          /\ coveredOKSeq'[s] = coveredOKSeq[s] /\ req'[s] = req[s]
          /\ pending'[s].seq = seq[s] + 1
      <4>1. UNCHANGED <<barriers, writtenSeq, coveredOKSeq, req>>
        BY <2>8 DEF SnapshotEnqueued
      <4> QED  BY <2>8, <4>1, <2>a, EnqueueFields
    <3>2. \A b \in barriers[s] : b.seq <= pending'[s].seq
      BY <3>1
    <3>3. \A b \in barriers[s] : b.seq <= Reachable(s)'
      BY <3>1, <3>2
    <3>4. WakeComing(s)'
      BY <3>1
    <3> HIDE DEF WakeComing, Reachable
    <3> QED  BY <3>1, <3>3, <3>4
  <2>9. CASE SnapshotNotified(s)  BY <2>9 DEF SnapshotNotified, TypeOK, Notify
  <2>10. CASE Aside(s)  BY <2>10, AsideFrame DEF AsideKeeps, TypeOK
  <2>12. CASE Reconcile(s)  BY <2>12, ReconcileFrame DEF ReconcileKeeps, TypeOK
  <2>13. CASE SyncBegin(s)  BY <2>13 DEF SyncBegin, TypeOK
  <2>14. CASE SyncCommit(s)  BY <2>14, SyncCommitFrame DEF SyncCommitKeeps, TypeOK, Larger
  <2>15. CASE SyncRefused(s)  BY <2>15 DEF SyncRefused, TypeOK
  <2> QED  BY <2>1, <2>2, <2>3, <2>4, <2>5, <2>6, <2>7, <2>8, <2>9, <2>10, <2>12, <2>13, <2>14, <2>15 DEF Quiet
<1> QED  BY <1>2, <1>3

-----------------------------------------------------------------------------
(* Steps that deliver to barriers: Take, Record, SyncMark. *)

\* Delivering against truthful watermarks keeps every answer justified.
LEMMA DeliverCalls ==
  ASSUME IInv, TypeOK', NEW s \in Sessions, NEW cov \in Nat, NEW wr \in Nat, NEW err \in BOOLEAN,
         cov > 0 => enqueued[s] + cov <= seq[s] + Larger(Settled(s), over'[s]),
         wr > cov => err /\ enqueued[s] + wr <= seq[s] + failed[s],
         Deliver(s, cov, wr, err),
         UNCHANGED <<cpc, target, want, seq, enqueued, landed, dropped, failed>>,
         \A t \in Sessions : over'[t] >= over[t]
  PROVE  /\ \A t \in Sessions : BarriersAreCalls(t)'
         /\ AnswersHaveTargets' /\ SuccessIsBacked' /\ FailureIsReal'
<1> DEFINE safe == Larger(Settled(s), over'[s])
<1>1. safe \in Nat
  BY Unpacked DEF TypeOK, Larger, Settled
<1>2. /\ \A c \in Calls :
           \/ done'[c] = done[c]
           \/ target[c] = s /\ cpc[c] # "idle" /\ done'[c] = "ok" /\ want[c] <= safe
           \/ target[c] = s /\ cpc[c] # "idle" /\ done'[c] = "fail" /\ want[c] <= failed[s]
      /\ \A b \in barriers'[s] : b \in barriers[s] /\ done'[b.call] = done[b.call]
      /\ \A t \in Sessions : t # s =>
           barriers'[t] = barriers[t] /\ \A b \in barriers[t] : done'[b.call] = done[b.call]
  BY <1>1, DeliverAnswers
<1>3. ASSUME NEW t \in Sessions PROVE BarriersAreCalls(t)'
  <2>1. BarriersAreCalls(t)
    BY Unpacked
  <2>2. \A b \in barriers'[t] : b \in barriers[t] /\ done'[b.call] = done[b.call]
    BY <1>2
  <2> QED  BY <2>1, <2>2 DEF BarriersAreCalls, SameEnqueue
<1>4. AnswersHaveTargets'
  BY <1>2 DEF IInv, AnswersHaveTargets
<1>5. ASSUME NEW c \in Calls
      PROVE  /\ done'[c] = "ok" => want[c] <= Larger(Settled(target[c]), over[target[c]])'
             /\ done'[c] = "fail" => want[c] <= failed[target[c]]
  <2>1. CASE done'[c] = done[c] /\ done[c] # "empty"
    <3>1. target[c] \in Sessions /\ want[c] \in Nat
      BY <2>1, Unpacked DEF IInv, AnswersHaveTargets, TypeOK
    <3>2. /\ done[c] = "ok" => want[c] <= Larger(Settled(target[c]), over[target[c]])
          /\ done[c] = "fail" => want[c] <= failed[target[c]]
      BY DEF IInv, SuccessIsBacked, FailureIsReal
    <3>3. /\ landed[target[c]] \in Nat /\ dropped[target[c]] \in Nat
          /\ over[target[c]] \in Nat /\ over'[target[c]] \in Nat
          /\ over'[target[c]] >= over[target[c]]
      BY <3>1, Unpacked DEF TypeOK
    <3> QED  BY <2>1, <3>1, <3>2, <3>3 DEF Settled, Larger
  <2>2. CASE done'[c] = "empty"
    BY <2>2
  <2>3. CASE target[c] = s /\ done'[c] = "ok" /\ want[c] <= safe
    BY <2>3 DEF Settled
  <2>4. CASE target[c] = s /\ done'[c] = "fail" /\ want[c] <= failed[s]
    BY <2>4
  <2> QED  BY <1>2, <2>1, <2>2, <2>3, <2>4
<1>6. SuccessIsBacked' /\ FailureIsReal'
  BY <1>5 DEF SuccessIsBacked, FailureIsReal
<1> QED  BY <1>3, <1>4, <1>6

\* Delivering leaves only barriers that neither watermark covers, and touches
\* no other session's list.
LEMMA DeliverRest ==
  ASSUME TypeOK, NEW s \in Sessions, NEW cov \in Nat, NEW wr \in Nat, NEW err, Deliver(s, cov, wr, err)
  PROVE  /\ \A b \in barriers'[s] : b \in barriers[s] /\ b.seq > cov /\ b.seq > wr
         /\ \A t \in Sessions : t # s => barriers'[t] = barriers[t]
BY DEF Deliver, TypeOK, Due

\* Nothing of session t changes.
SameSession(t) ==
  /\ registered'[t] = registered[t] /\ incarnation'[t] = incarnation[t]
  /\ wpc'[t] = wpc[t] /\ pending'[t] = pending[t] /\ notify'[t] = notify[t]
  /\ seq'[t] = seq[t] /\ writtenSeq'[t] = writtenSeq[t]
  /\ coveredOKSeq'[t] = coveredOKSeq[t] /\ lastFailErr'[t] = lastFailErr[t]
  /\ req'[t] = req[t] /\ werr'[t] = werr[t] /\ landed'[t] = landed[t]
  /\ saver'[t] = saver[t] /\ enqueued'[t] = enqueued[t] /\ sync'[t] = sync[t]
  /\ dropped'[t] = dropped[t] /\ over'[t] = over[t] /\ failed'[t] = failed[t]
  /\ barriers'[t] = barriers[t]

\* Then its invariants stay, unless a caller moves.
LEMMA OtherSession ==
  ASSUME IInv, NEW t \in Sessions, SameSession(t), UNCHANGED <<cpc, target, holds>>
  PROVE  WorkerInv(t)' /\ Accounted(t)' /\ Served(t)'
<1>1. RetiredIsEmpty(t)' /\ SlotAndWrite(t)'
  BY Unpacked DEF SameSession, RetiredIsEmpty, SlotAndWrite, Settled, Reachable, SameEnqueue
<1>2. Watermarks(t)' /\ FileAndSync(t)' /\ Accounted(t)'
  BY Unpacked DEF SameSession, Watermarks, FileAndSync, Accounted, Settled
<1>3. Served(t)'
  BY Unpacked DEF SameSession, Served, WakeComing, Reachable
<1> QED  BY <1>1, <1>2, <1>3 DEF WorkerInv

\* Taking the slot keeps the inductive invariant.
LEMMA TakeStep ==
  ASSUME IInv, TypeOK', NEW s \in Sessions, Take(s)
  PROVE  IInv'
<1> USE DEF worker, reg, marks, drain, store, turn, rest, calls, asking, ended, ghosts
<1>1. /\ wpc[s] = "take" /\ registered[s] /\ req[s] = NoReq
  BY Unpacked DEF Take, RetiredIsEmpty, SlotAndWrite
<1>2. /\ coveredOKSeq[s] \in Nat /\ writtenSeq[s] \in Nat /\ lastFailErr[s] \in BOOLEAN
      /\ Deliver(s, coveredOKSeq[s], writtenSeq[s], lastFailErr[s])
  BY Unpacked, SessionTypes DEF Take
<1>3. /\ \A t \in Sessions : BarriersAreCalls(t)'
      /\ AnswersHaveTargets' /\ SuccessIsBacked' /\ FailureIsReal'
  <2>1. /\ UNCHANGED <<cpc, target, want, seq, enqueued, landed, dropped, failed, over>>
        /\ \A t \in Sessions : over'[t] >= over[t]
    BY Unpacked, SessionTypes DEF Take
  <2>2. Watermarks(s)
    BY Unpacked
  <2> QED  BY <1>2, <2>1, <2>2, DeliverCalls DEF Watermarks
<1>4. ASSUME NEW t \in Sessions, t # s PROVE WorkerInv(t)' /\ Accounted(t)' /\ Served(t)'
  <2>1. barriers'[t] = barriers[t]
    BY <1>2, <1>4, Unpacked, DeliverRest
  <2>2. SameSession(t)
    BY <1>4, <2>1, Unpacked DEF Take, TypeOK, SameSession
  <2> QED  BY <2>2, OtherSession DEF Take
<1>5. /\ req'[s] = pending[s] /\ pending'[s] = NoReq
      /\ wpc'[s] = (IF pending[s] = NoReq THEN "select" ELSE "write")
      /\ UNCHANGED <<registered, seq, writtenSeq, coveredOKSeq, lastFailErr, enqueued>>
      /\ UNCHANGED <<landed, dropped, over, failed, sync>>
  BY Unpacked DEF Take, TypeOK
<1>6. WorkerInv(s)' /\ Accounted(s)'
  BY <1>1, <1>5, Unpacked, SessionTypes, SlotFields DEF WorkerInv, RetiredIsEmpty, SlotAndWrite,
     Watermarks, FileAndSync, Accounted, Reachable, SameEnqueue, Settled, Larger
<1>7. Served(s)'
  <2>1. CASE pending[s] = NoReq
    <3>1. ASSUME NEW b \in barriers'[s] PROVE FALSE
      <4>1. b \in barriers[s] /\ b.seq > coveredOKSeq[s] /\ b.seq > writtenSeq[s]
        BY <1>2, Unpacked, DeliverRest
      <4>2. b.seq <= Reachable(s) /\ b.seq \in Nat
        BY <4>1, Unpacked, SessionTypes DEF Served
      <4>3. pending[s].seq = 0 /\ req[s].seq = 0
        BY <1>1, <2>1, SlotFields
      <4> QED  BY <1>2, <4>1, <4>2, <4>3 DEF Reachable, Larger
    <3>2. barriers'[s] = {}
      BY <3>1
    <3> QED  BY <1>5, <3>2 DEF Served
  <2>2. CASE pending[s] # NoReq
    <3>1. \A b \in barriers'[s] : b.seq <= Reachable(s)'
      BY <1>1, <1>2, <1>5, Unpacked, SessionTypes, SlotFields, DeliverRest
         DEF Served, Reachable, Larger
    <3> QED  BY <1>1, <1>5, <2>2, <3>1 DEF Served, WakeComing
  <2> QED  BY <2>1, <2>2
<1> QED  BY <1>3, <1>4, <1>6, <1>7 DEF IInv, NothingVanishes, NothingStranded

\* Recording a write's outcome keeps the inductive invariant.
LEMMA RecordStep ==
  ASSUME IInv, TypeOK', NEW s \in Sessions, Record(s)
  PROVE  IInv'
<1> USE DEF worker, reg, marks, drain, store, turn, rest, calls, asking, ended, ghosts
<1>1. /\ wpc[s] = "record" /\ registered[s] /\ req[s] # NoReq
      /\ req[s].seq <= seq[s] /\ SameEnqueue(s, req[s].seq, req[s].snap)
      /\ IF werr[s] THEN req[s].snap <= failed[s] ELSE req[s].snap <= Settled(s)
  BY Unpacked DEF Record, RetiredIsEmpty, SlotAndWrite
<1>2. /\ writtenSeq'[s] = Larger(writtenSeq[s], req[s].seq)
      /\ coveredOKSeq'[s] = (IF werr[s] THEN coveredOKSeq[s] ELSE Larger(coveredOKSeq[s], req[s].seq))
      /\ lastFailErr'[s] = (lastFailErr[s] \/ werr[s])
      /\ req'[s] = NoReq /\ wpc'[s] = "take" /\ werr'[s] = FALSE
      /\ UNCHANGED <<registered, incarnation, pending, notify, seq, enqueued, sync>>
      /\ UNCHANGED <<landed, dropped, over, failed>>
  BY Unpacked DEF Record, TypeOK
<1>3. /\ writtenSeq'[s] \in Nat /\ coveredOKSeq'[s] \in Nat /\ lastFailErr'[s] \in BOOLEAN
      /\ Deliver(s, coveredOKSeq'[s], writtenSeq'[s], lastFailErr'[s])
  BY DEF Record, TypeOK
<1>4. Watermarks(s)'
  <2>1. /\ seq[s] \in Nat /\ enqueued[s] \in Nat /\ writtenSeq[s] \in Nat /\ coveredOKSeq[s] \in Nat
        /\ req[s].seq \in Nat /\ req[s].snap \in Nat /\ failed[s] \in Nat /\ over[s] \in Nat
        /\ landed[s] \in Nat /\ dropped[s] \in Nat /\ werr[s] \in BOOLEAN
    BY Unpacked, SessionTypes
  <2>2. Watermarks(s)
    BY Unpacked
  <2>3. /\ req[s].seq <= seq[s] /\ req[s].snap + seq[s] = enqueued[s] + req[s].seq
        /\ writtenSeq[s] <= seq[s] /\ coveredOKSeq[s] <= seq[s]
    BY <1>1, <2>2 DEF SameEnqueue, Watermarks
  <2>4. writtenSeq'[s] <= seq[s] /\ coveredOKSeq'[s] <= seq[s]
    BY <1>2, <2>1, <2>3 DEF Larger
  <2>5. ASSUME coveredOKSeq'[s] > 0
        PROVE  enqueued[s] + coveredOKSeq'[s] <= seq[s] + Larger(Settled(s), over[s])
    <3>1. CASE coveredOKSeq'[s] = coveredOKSeq[s]
      BY <2>2, <2>5, <3>1 DEF Watermarks
    <3>2. CASE ~werr[s] /\ coveredOKSeq'[s] = req[s].seq
      BY <1>1, <2>1, <2>3, <3>2 DEF Settled, Larger
    <3> QED  BY <1>2, <2>1, <3>1, <3>2 DEF Larger
  <2>6. ASSUME writtenSeq'[s] > coveredOKSeq'[s]
        PROVE  lastFailErr'[s] /\ enqueued[s] + writtenSeq'[s] <= seq[s] + failed[s]
    <3>1. CASE werr[s] /\ writtenSeq'[s] = req[s].seq
      <4>1. lastFailErr'[s]
        BY <1>2, <3>1
      <4>2. req[s].snap <= failed[s]
        BY <1>1, <3>1
      <4> QED  BY <2>1, <2>3, <3>1, <4>1, <4>2
    <3>2. CASE writtenSeq'[s] = writtenSeq[s] /\ writtenSeq[s] > coveredOKSeq[s]
      BY <1>2, <2>2, <3>2 DEF Watermarks
    <3>3. coveredOKSeq'[s] >= coveredOKSeq[s]
      BY <1>2, <2>1 DEF Larger
    <3> QED  BY <1>2, <2>1, <2>6, <3>1, <3>2, <3>3 DEF Larger
  <2> QED  BY <1>2, <2>4, <2>5, <2>6 DEF Watermarks, Settled
<1>5. /\ \A t \in Sessions : BarriersAreCalls(t)'
      /\ AnswersHaveTargets' /\ SuccessIsBacked' /\ FailureIsReal'
  <2>1. /\ UNCHANGED <<cpc, target, want, seq, enqueued, landed, dropped, failed, over>>
        /\ \A t \in Sessions : over'[t] >= over[t]
    BY Unpacked, SessionTypes DEF Record
  <2>2. /\ coveredOKSeq'[s] > 0 =>
             enqueued[s] + coveredOKSeq'[s] <= seq[s] + Larger(Settled(s), over'[s])
        /\ writtenSeq'[s] > coveredOKSeq'[s] =>
             lastFailErr'[s] /\ enqueued[s] + writtenSeq'[s] <= seq[s] + failed[s]
    BY <1>2, <1>4 DEF Watermarks, Settled
  <2> QED  BY <1>3, <2>1, <2>2, DeliverCalls
<1>6. ASSUME NEW t \in Sessions, t # s PROVE WorkerInv(t)' /\ Accounted(t)' /\ Served(t)'
  <2>1. barriers'[t] = barriers[t]
    BY <1>3, <1>6, Unpacked, DeliverRest
  <2>2. SameSession(t)
    BY <1>6, <2>1, Unpacked DEF Record, TypeOK, SameSession
  <2> QED  BY <2>2, OtherSession DEF Record
<1>7. WorkerInv(s)' /\ Accounted(s)'
  <2>1. RetiredIsEmpty(s)' /\ FileAndSync(s)'
    BY <1>1, <1>2, Unpacked DEF RetiredIsEmpty, FileAndSync
  <2>2. Reachable(s)' >= Reachable(s) /\ Reachable(s) \in Nat /\ Reachable(s)' \in Nat
    BY <1>2, Unpacked, SessionTypes, SlotFields DEF Reachable, Larger
  <2>3. SlotAndWrite(s)'
    BY <1>1, <1>2, <2>2, Unpacked, SessionTypes DEF SlotAndWrite
  <2>4. Accounted(s)'
    BY <1>1, <1>2, Unpacked, SessionTypes DEF Accounted, Settled, Larger
  <2> QED  BY <1>4, <2>1, <2>3, <2>4 DEF WorkerInv
<1>8. Served(s)'
  <2>1. Reachable(s)' >= Reachable(s) /\ Reachable(s) \in Nat /\ Reachable(s)' \in Nat
    BY <1>2, Unpacked, SessionTypes, SlotFields DEF Reachable, Larger
  <2>2. \A b \in barriers'[s] : b \in barriers[s] /\ b.seq \in Nat
    BY <1>3, Unpacked, SessionTypes, DeliverRest
  <2>3. \A b \in barriers'[s] : b.seq <= Reachable(s)'
    BY <2>1, <2>2, Unpacked DEF Served
  <2> QED  BY <1>1, <1>2, <2>3 DEF Served, WakeComing
<1> QED  BY <1>5, <1>6, <1>7, <1>8 DEF IInv, NothingVanishes, NothingStranded

\* markLiveCovered keeps the inductive invariant: what it covers is on disk
\* through the committed save, or counted in over.
LEMMA SyncMarkStep ==
  ASSUME IInv, TypeOK', NEW s \in Sessions, SyncMark(s)
  PROVE  IInv'
<1> USE DEF worker, reg, marks, drain, store, turn, rest, calls, asking, ended, ghosts
<1>1. /\ UNCHANGED <<registered, incarnation, wpc, pending, notify, seq, writtenSeq, lastFailErr>>
      /\ UNCHANGED <<req, werr, landed, saver, enqueued, dropped, failed, cpc, target, holds, want>>
      /\ sync' = [sync EXCEPT ![s] = NoSave]
      /\ sync[s].upto <= landed[s]
  BY Unpacked DEF SyncMark, FileAndSync
<1>2. sync'[s] = NoSave /\ NoSave.upto = 0 /\ NoSave.pc = "idle"
  BY <1>1, Unpacked DEF TypeOK, NoSave
<1>3. CASE ~registered[s]
  <2>1. UNCHANGED <<coveredOKSeq, barriers, done, over>>
    BY <1>3 DEF SyncMark
  <2>2. ASSUME NEW t \in Sessions PROVE WorkerInv(t)' /\ Accounted(t)' /\ Served(t)'
    <3>1. FileAndSync(t)'
      BY <1>1, <1>2, Unpacked, SessionTypes DEF FileAndSync, TypeOK
    <3> QED  BY <1>1, <2>1, <3>1, Unpacked DEF WorkerInv, RetiredIsEmpty, SlotAndWrite,
               Watermarks, Accounted, Served, WakeComing, Reachable, SameEnqueue, Settled
  <2>3. /\ \A t \in Sessions : BarriersAreCalls(t)'
        /\ AnswersHaveTargets' /\ SuccessIsBacked' /\ FailureIsReal'
    BY <1>1, <2>1, Unpacked, SessionTypes, CallsUntouched
  <2> QED  BY <2>2, <2>3 DEF IInv, NothingVanishes, NothingStranded
<1>4. CASE registered[s]
  <2>1. /\ coveredOKSeq' = [coveredOKSeq EXCEPT ![s] = Larger(@, seq[s])]
        /\ Deliver(s, coveredOKSeq'[s], writtenSeq[s], lastFailErr[s])
        /\ over' = [over EXCEPT ![s] = IF enqueued[s] > sync[s].upto
                                       THEN Larger(@, enqueued[s]) ELSE @]
    BY <1>4 DEF SyncMark
  <2>2. /\ coveredOKSeq'[s] = seq[s] /\ coveredOKSeq'[s] >= coveredOKSeq[s]
        /\ over'[s] = IF enqueued[s] > sync[s].upto THEN Larger(over[s], enqueued[s]) ELSE over[s]
    <3>1. coveredOKSeq[s] <= seq[s] /\ coveredOKSeq[s] \in Nat /\ seq[s] \in Nat
      BY Unpacked, SessionTypes DEF Watermarks
    <3>2. coveredOKSeq'[s] = Larger(coveredOKSeq[s], seq[s])
      BY <2>1, Unpacked DEF TypeOK
    <3>3. over'[s] = IF enqueued[s] > sync[s].upto THEN Larger(over[s], enqueued[s]) ELSE over[s]
      BY <2>1, Unpacked DEF TypeOK
    <3> QED  BY <3>1, <3>2, <3>3 DEF Larger
  <2>3. /\ seq[s] \in Nat /\ enqueued[s] \in Nat /\ writtenSeq[s] \in Nat /\ coveredOKSeq[s] \in Nat
        /\ lastFailErr[s] \in BOOLEAN /\ sync[s].upto \in Nat /\ over[s] \in Nat
        /\ landed[s] \in Nat /\ dropped[s] \in Nat /\ failed[s] \in Nat
    BY Unpacked, SessionTypes
  <2>4. enqueued[s] <= Larger(Settled(s), over'[s])
    BY <1>1, <2>2, <2>3 DEF Settled, Larger
  <2>5. \A t \in Sessions : t # s => coveredOKSeq'[t] = coveredOKSeq[t] /\ over'[t] = over[t]
                                     /\ sync'[t] = sync[t]
    BY <1>1, <2>1, Unpacked DEF TypeOK
  <2>6. \A t \in Sessions : over'[t] >= over[t]
    BY <2>2, <2>3, <2>5, Unpacked, SessionTypes DEF Larger
  <2>7. writtenSeq[s] <= seq[s]
    BY Unpacked DEF Watermarks
  <2>8. /\ \A t \in Sessions : BarriersAreCalls(t)'
        /\ AnswersHaveTargets' /\ SuccessIsBacked' /\ FailureIsReal'
    <3>1. coveredOKSeq'[s] > 0 =>
            enqueued[s] + coveredOKSeq'[s] <= seq[s] + Larger(Settled(s), over'[s])
      BY <2>2, <2>3, <2>4 DEF Settled, Larger
    <3>2. ~(writtenSeq[s] > coveredOKSeq'[s])
      BY <2>2, <2>3, <2>7
    <3> QED  BY <1>1, <2>1, <2>2, <2>3, <2>6, <3>1, <3>2, DeliverCalls
  <2>9. ASSUME NEW t \in Sessions, t # s PROVE WorkerInv(t)' /\ Accounted(t)' /\ Served(t)'
    <3>1. barriers'[t] = barriers[t]
      BY <2>1, <2>2, <2>3, <2>9, Unpacked, DeliverRest
    <3> QED  BY <1>1, <2>5, <2>9, <3>1, Unpacked DEF WorkerInv, RetiredIsEmpty, SlotAndWrite,
               Watermarks, FileAndSync, Accounted, Served, WakeComing, Reachable, SameEnqueue, Settled
  <2>10. WorkerInv(s)' /\ Accounted(s)'
    <3>1. RetiredIsEmpty(s)' /\ FileAndSync(s)' /\ Accounted(s)'
      BY <1>1, <1>2, <1>4, <2>3, Unpacked DEF RetiredIsEmpty, FileAndSync, Accounted, Settled
    <3>2. SlotAndWrite(s)'
      BY <1>1, <2>2, <2>3, Unpacked, SessionTypes DEF SlotAndWrite, SameEnqueue, Settled, Reachable, Larger
    <3>3. Watermarks(s)'
      BY <1>1, <2>2, <2>3, <2>4, <2>7 DEF Watermarks, Settled, Larger
    <3> QED  BY <3>1, <3>2, <3>3 DEF WorkerInv
  <2>11. Served(s)'
    <3>1. Reachable(s)' >= Reachable(s) /\ Reachable(s) \in Nat /\ Reachable(s)' \in Nat
      BY <1>1, <2>2, <2>3, Unpacked, SessionTypes DEF Reachable, Larger
    <3>2. \A b \in barriers'[s] : b \in barriers[s] /\ b.seq \in Nat
      BY <2>1, <2>2, <2>3, Unpacked, SessionTypes, DeliverRest
    <3>3. \A b \in barriers'[s] : b.seq <= Reachable(s)'
      BY <3>1, <3>2, Unpacked DEF Served
    <3> QED  BY <1>1, <1>4, <3>2, <3>3, Unpacked DEF Served, WakeComing
  <2> QED  BY <2>8, <2>9, <2>10, <2>11 DEF IInv, NothingVanishes, NothingStranded
<1> QED  BY <1>3, <1>4

-----------------------------------------------------------------------------
(* Steps of the callers. *)

\* What the session's own invariants speak of, besides the barriers.
SessionFields == <<registered, incarnation, wpc, pending, seq, writtenSeq, coveredOKSeq,
                   lastFailErr, req, werr, landed, saver, enqueued, sync, dropped, over, failed>>

\* A caller's step leaves the workers' invariants alone.
LEMMA WorkersUntouched ==
  ASSUME IInv, UNCHANGED SessionFields, NEW t \in Sessions,
         barriers'[t] = barriers[t] \/ registered[t]
  PROVE  WorkerInv(t)' /\ Accounted(t)'
BY Unpacked DEF SessionFields, WorkerInv, RetiredIsEmpty, SlotAndWrite, Watermarks, FileAndSync,
   Accounted, Settled, Reachable, SameEnqueue

\* Registering a barrier at the current seq keeps the inductive invariant: the
\* call held no other barrier, and will wake the worker.
LEMMA RegisterStep ==
  ASSUME IInv, TypeOK', NEW c \in Calls, NEW s \in Sessions, registered[s],
         cpc[c] \in {"idle", "next"}, Register(c, s), UNCHANGED SessionFields, notify' = notify
  PROVE  IInv'
<1>1. /\ barriers' = [barriers EXCEPT ![s] = @ \cup {[call |-> c, seq |-> seq[s]]}]
      /\ target' = [target EXCEPT ![c] = s] /\ holds' = [holds EXCEPT ![c] = incarnation[s]]
      /\ done' = [done EXCEPT ![c] = "empty"] /\ want' = [want EXCEPT ![c] = enqueued[s]]
      /\ cpc' = [cpc EXCEPT ![c] = "notify"]
  BY DEF Register, BarrierSeq
<1>2. \A t \in Sessions : \A b \in barriers[t] : b.call # c /\ b.call \in Calls
  <2> SUFFICES ASSUME NEW t \in Sessions, NEW b \in barriers[t]
               PROVE  b.call # c /\ b.call \in Calls
    OBVIOUS
  <2>1. cpc[b.call] \in {"notify", "wait", "returned"}
    BY Unpacked DEF BarriersAreCalls
  <2>2. b.call \in Calls
    BY Unpacked, SessionTypes
  <2> QED  BY <2>1, <2>2
<1>3. \A d \in Calls : d # c => /\ target'[d] = target[d] /\ holds'[d] = holds[d]
                                /\ done'[d] = done[d] /\ want'[d] = want[d] /\ cpc'[d] = cpc[d]
  BY <1>1, Unpacked DEF TypeOK
<1>4. /\ target'[c] = s /\ holds'[c] = incarnation[s] /\ done'[c] = "empty"
      /\ want'[c] = enqueued[s] /\ cpc'[c] = "notify"
  BY <1>1, Unpacked DEF TypeOK
<1>5. seq[s] \in Nat /\ seq[s] > 0 /\ enqueued[s] \in Nat /\ seq' = seq /\ enqueued' = enqueued
  BY Unpacked, SessionTypes DEF RetiredIsEmpty, SessionFields
<1>6. ASSUME NEW t \in Sessions, t # s PROVE barriers'[t] = barriers[t]
  BY <1>1, <1>6, Unpacked DEF TypeOK
<1>7. barriers'[s] = barriers[s] \cup {[call |-> c, seq |-> seq[s]]}
  BY <1>1, Unpacked DEF TypeOK
<1>8. ASSUME NEW t \in Sessions PROVE BarriersAreCalls(t)'
  <2>1. ASSUME NEW b \in barriers[t]
        PROVE  /\ b.seq \in 1 .. seq'[t] /\ target'[b.call] = t /\ done'[b.call] = "empty"
               /\ cpc'[b.call] \in {"notify", "wait", "returned"} /\ SameEnqueue(t, b.seq, want[b.call])'
               /\ \A b2 \in barriers[t] : b2.call = b.call => b2 = b
    BY <1>2, <1>3, <1>5, Unpacked DEF BarriersAreCalls, SameEnqueue
  <2>2. CASE t # s
    BY <1>6, <2>1, <2>2 DEF BarriersAreCalls
  <2>3. CASE t = s
    <3> DEFINE new == [call |-> c, seq |-> seq[s]]
    <3>1. /\ new.call = c /\ new.seq = seq[s]
          /\ \A b2 \in barriers[s] : b2.call # new.call
      BY <1>2
    <3>2. /\ new.seq \in 1 .. seq'[s] /\ target'[new.call] = s /\ done'[new.call] = "empty"
          /\ cpc'[new.call] \in {"notify", "wait", "returned"}
          /\ want'[new.call] + seq'[s] = enqueued'[s] + new.seq
      BY <1>4, <1>5, <3>1
    <3> HIDE DEF new
    <3>3. barriers'[s] = barriers[s] \cup {new}
      BY <1>7 DEF new
    <3> QED  BY <2>1, <2>3, <3>1, <3>2, <3>3 DEF BarriersAreCalls, SameEnqueue
  <2> QED  BY <2>2, <2>3
<1>9. AnswersHaveTargets' /\ SuccessIsBacked' /\ FailureIsReal'
  BY <1>3, <1>4 DEF IInv, AnswersHaveTargets, SuccessIsBacked, FailureIsReal, SessionFields, Settled
<1>10. ASSUME NEW t \in Sessions PROVE Served(t)'
  <2>1. Reachable(t)' = Reachable(t) /\ UNCHANGED <<registered, pending, wpc, saver, incarnation>>
    BY DEF SessionFields, Reachable
  <2>2. WakeComing(t) => WakeComing(t)'
    BY <1>3, <2>1, Unpacked DEF WakeComing, IInv
  <2>3. CASE t # s
    BY <1>6, <2>1, <2>2, <2>3, Unpacked DEF Served
  <2>4. CASE t = s
    <3>1. WakeComing(s)'
      BY <1>4, <2>1 DEF WakeComing
    <3>2. seq[s] <= Reachable(s)
      BY Unpacked DEF SlotAndWrite
    <3>3. \A b \in barriers[s] : b.seq <= Reachable(s)
      BY Unpacked DEF Served
    <3>4. \A b \in barriers'[s] : b.seq <= Reachable(s)
      BY <1>7, <3>2, <3>3
    <3> QED  BY <2>1, <2>4, <3>1, <3>4 DEF Served
  <2> QED  BY <2>3, <2>4
<1> QED  BY <1>6, <1>8, <1>9, <1>10, WorkersUntouched DEF IInv, NothingVanishes, NothingStranded

\* A caller's step that registers nothing: barriers, answers and what they
\* stand for stay, and a wake-up that was coming is still coming.
LEMMA CallMoves ==
  ASSUME IInv, TypeOK', UNCHANGED SessionFields, UNCHANGED <<barriers, done>>,
         NEW c \in Calls, cpc' = [cpc EXCEPT ![c] = cpc'[c]],
         \A d \in Calls : d # c => target'[d] = target[d] /\ want'[d] = want[d] /\ holds'[d] = holds[d],
         \/ target'[c] = target[c] /\ want'[c] = want[c] /\ holds'[c] = holds[c]
         \/ cpc[c] = "idle" /\ cpc'[c] = "returned",
         cpc[c] # "returned",
         cpc[c] \in {"notify", "wait"} /\ done[c] = "empty" => cpc'[c] \in {"wait", "returned"},
         cpc'[c] \notin {"idle", "notify"} /\ (cpc'[c] = "wait" => cpc[c] = "notify"),
         \A t \in Sessions : WakeComing(t) => WakeComing(t)' \/ ~registered[t]
  PROVE  IInv'
<1>1. \A d \in Calls : d # c => cpc'[d] = cpc[d]
  BY Unpacked DEF TypeOK
<1>2. ASSUME NEW t \in Sessions PROVE BarriersAreCalls(t)'
  <2>1. \A b \in barriers[t] : /\ b.call \in Calls /\ done[b.call] = "empty"
                               /\ cpc[b.call] \in {"notify", "wait", "returned"}
    BY Unpacked DEF BarriersAreCalls, TypeOK
  <2>2. \A b \in barriers[t] : cpc'[b.call] \in {"notify", "wait", "returned"}
    BY <1>1, <2>1
  <2>3. \A b \in barriers[t] : target'[b.call] = target[b.call] /\ want'[b.call] = want[b.call]
    BY <2>1
  <2> QED  BY <2>2, <2>3, Unpacked DEF BarriersAreCalls, SameEnqueue, SessionFields
<1>3. AnswersHaveTargets'
  BY <1>1 DEF IInv, AnswersHaveTargets
<1>4. SuccessIsBacked' /\ FailureIsReal'
  <2>1. \A d \in Calls : done[d] = "empty" \/ (target'[d] = target[d] /\ want'[d] = want[d])
    BY DEF IInv, AnswersHaveTargets
  <2> QED  BY <2>1 DEF IInv, SuccessIsBacked, FailureIsReal, Settled, SessionFields
<1>5. \A t \in Sessions : Served(t)'
  BY Unpacked DEF Served, Reachable, SessionFields
<1>6. \A t \in Sessions : WorkerInv(t)' /\ Accounted(t)'
  BY WorkersUntouched
<1> QED  BY <1>2, <1>3, <1>4, <1>5, <1>6 DEF IInv, NothingVanishes, NothingStranded

\* Every step of a caller keeps the inductive invariant.
LEMMA CallerStep ==
  ASSUME IInv, TypeOK', NEW c \in Calls, CallStep(c)
  PROVE  IInv'
<1> USE DEF worker, reg, marks, drain, store, turn, rest, calls, asking, ended, ghosts, SessionFields
<1>1. ASSUME NEW s \in Sessions, Flush(c, s) PROVE IInv'
  <2>1. CASE registered[s]
    BY <1>1, <2>1, RegisterStep DEF Flush
  <2>2. CASE ~registered[s]
    <3>1. /\ cpc[c] = "idle" /\ cpc' = [cpc EXCEPT ![c] = "returned"]
          /\ target' = [target EXCEPT ![c] = s] /\ want' = [want EXCEPT ![c] = enqueued[s]]
          /\ UNCHANGED <<barriers, done, holds, notify, SessionFields>>
      BY <1>1, <2>2 DEF Flush
    <3>2. /\ cpc'[c] = "returned" /\ \A d \in Calls : d # c =>
               target'[d] = target[d] /\ want'[d] = want[d] /\ cpc'[d] = cpc[d]
      BY <3>1, Unpacked DEF TypeOK
    <3>3. \A t \in Sessions : WakeComing(t) => WakeComing(t)'
      BY <3>1, <3>2 DEF WakeComing
    <3> QED  BY <3>1, <3>2, <3>3, CallMoves
  <2> QED  BY <2>1, <2>2
<1>2. ASSUME NEW s \in Sessions, FlushAllRegisters(c, s) PROVE IInv'
  <2>1. PICK a \in active[c] : FlushAllRegisters(c, s)!2!(a)
    BY <1>2 DEF FlushAllRegisters
  <2>2. CASE registered[s] /\ incarnation[s] = a[2]
    BY <1>2, <2>1, <2>2, RegisterStep DEF FlushAllRegisters
  <2>3. CASE ~(registered[s] /\ incarnation[s] = a[2])
    <3>1. /\ UNCHANGED <<barriers, target, holds, done, want, cpc, notify, SessionFields>>
          /\ cpc[c] = "next"
      BY <1>2, <2>1, <2>3 DEF FlushAllRegisters
    <3>2. cpc' = [cpc EXCEPT ![c] = cpc'[c]]
      BY <3>1, Unpacked DEF TypeOK
    <3>3. \A t \in Sessions : WakeComing(t) => WakeComing(t)'
      BY <3>1 DEF WakeComing
    <3> QED  BY <3>1, <3>2, <3>3, CallMoves
  <2> QED  BY <2>2, <2>3
<1>3. CASE CallNotify(c)
  <2>1. /\ cpc[c] = "notify" /\ cpc' = [cpc EXCEPT ![c] = "wait"]
        /\ UNCHANGED <<barriers, target, holds, done, want, SessionFields>>
        /\ notify' = [notify EXCEPT ![target[c]] =
                         @ \/ (registered[target[c]] /\ incarnation[target[c]] = holds[c])]
    BY <1>3 DEF CallNotify, Notify
  <2>2. target[c] \in Sessions
    BY <2>1 DEF IInv, AnswersHaveTargets
  <2>3. cpc'[c] = "wait" /\ \A d \in Calls : d # c => cpc'[d] = cpc[d]
    BY <2>1, Unpacked DEF TypeOK
  <2>4. ASSUME NEW t \in Sessions, WakeComing(t) PROVE WakeComing(t)' \/ ~registered[t]
    <3>1. notify'[t] = (notify[t] \/ (t = target[c] /\ registered[t] /\ incarnation[t] = holds[c]))
      BY <2>1, <2>2, Unpacked DEF TypeOK
    <3> QED  BY <2>1, <2>3, <2>4, <3>1 DEF WakeComing
  <2>5. cpc' = [cpc EXCEPT ![c] = cpc'[c]]
    BY <2>1, <2>3
  <2> QED  BY <2>1, <2>3, <2>4, <2>5, CallMoves
<1>4. CASE Answered(c)
  <2>1. /\ cpc[c] = "wait" /\ done[c] # "empty"
        /\ UNCHANGED <<barriers, target, holds, done, want, notify, SessionFields>>
        /\ cpc'[c] \in {"next", "returned"} /\ cpc' = [cpc EXCEPT ![c] = cpc'[c]]
    BY <1>4, Unpacked DEF Answered, TypeOK
  <2>2. \A d \in Calls : d # c => cpc'[d] = cpc[d]
    BY <2>1, Unpacked DEF TypeOK
  <2>3. \A t \in Sessions : WakeComing(t) => WakeComing(t)'
    BY <2>1, <2>2 DEF WakeComing
  <2> QED  BY <2>1, <2>3, CallMoves
<1>5. CASE TimesOut(c) \/ FlushAllBegins(c) \/ FlushAllScans(c) \/ FlushAllRescans(c)
  <2>1. /\ cpc[c] \in {"wait", "scan", "idle", "next"}
        /\ UNCHANGED <<barriers, target, holds, done, want, notify, SessionFields>>
        /\ cpc[c] = "wait" => cpc'[c] = "returned"
        /\ cpc'[c] \in {"scan", "next", "returned"} /\ cpc' = [cpc EXCEPT ![c] = cpc'[c]]
    <3>1. CASE TimesOut(c)  BY <3>1, Unpacked DEF TimesOut, TypeOK
    <3>2. CASE FlushAllBegins(c)  BY <3>2, Unpacked DEF FlushAllBegins, TypeOK
    <3>3. CASE FlushAllScans(c)  BY <3>3, Unpacked DEF FlushAllScans, TypeOK
    <3>4. CASE FlushAllRescans(c)  BY <3>4, Unpacked DEF FlushAllRescans, TypeOK
    <3> QED  BY <1>5, <3>1, <3>2, <3>3, <3>4
  <2>2. \A d \in Calls : d # c => cpc'[d] = cpc[d]
    BY <2>1, Unpacked DEF TypeOK
  <2>3. \A t \in Sessions : WakeComing(t) => WakeComing(t)'
    BY <2>1, <2>2 DEF WakeComing
  <2> QED  BY <2>1, <2>3, CallMoves
<1> QED  BY <1>1, <1>2, <1>3, <1>4, <1>5 DEF CallStep

-----------------------------------------------------------------------------
(* The inductive invariant and the safety properties. *)

\* Nothing is registered, queued or asked at first.
LEMMA IInvInit == Init => IInv
<1> SUFFICES ASSUME Init PROVE IInv
  OBVIOUS
<1>1. TypeOK
  BY NothingTypes, Transcripts DEF Init, TypeOK, Calling
<1>2. ASSUME NEW s \in Sessions
      PROVE  WorkerInv(s) /\ BarriersAreCalls(s) /\ Accounted(s) /\ Served(s)
  BY SlotFields DEF Init, WorkerInv, RetiredIsEmpty, SlotAndWrite, Watermarks, FileAndSync,
     BarriersAreCalls, Accounted, Served, Reachable, Settled, Larger, NoSave
<1>3. AnswersHaveTargets /\ SuccessIsBacked /\ FailureIsReal
  BY DEF Init, AnswersHaveTargets, SuccessIsBacked, FailureIsReal
<1> QED  BY <1>1, <1>2, <1>3 DEF IInv, NothingVanishes, NothingStranded

\* Every step keeps the inductive invariant.
LEMMA IInvStep == IInv /\ [Next]_vars => IInv'
<1> SUFFICES ASSUME IInv, [Next]_vars PROVE IInv'
  OBVIOUS
<1>1. TypeOK'
  <2>1. TypeOK
    BY Unpacked
  <2> QED  BY <2>1, TypeStep
<1>2. CASE UNCHANGED vars
  <2> USE <1>2 DEF vars, worker, reg, marks, drain, store, turn, rest, calls, asking, ended, ghosts
  <2>1. (\A s \in Sessions : WorkerInv(s)) => (\A s \in Sessions : WorkerInv(s)')
    BY DEF WorkerInv, RetiredIsEmpty, SlotAndWrite, Watermarks, FileAndSync, Reachable, SameEnqueue, Settled
  <2>a. UNCHANGED <<barriers, seq, target, done, cpc, enqueued, want>>
    OBVIOUS
  <2>2. (\A s \in Sessions : BarriersAreCalls(s)) => (\A s \in Sessions : BarriersAreCalls(s)')
    <3>1. ASSUME NEW s \in Sessions, BarriersAreCalls(s)
          PROVE  BarriersAreCalls(s)'
      BY <2>a, <3>1 DEF BarriersAreCalls, SameEnqueue
    <3> QED  BY <3>1
  <2>3. /\ AnswersHaveTargets => AnswersHaveTargets'
        /\ SuccessIsBacked => SuccessIsBacked'
        /\ FailureIsReal => FailureIsReal'
    BY DEF AnswersHaveTargets, SuccessIsBacked, FailureIsReal, Settled
  <2>4. NothingVanishes => NothingVanishes'
    BY DEF NothingVanishes, Accounted, Settled
  <2>5. NothingStranded => NothingStranded'
    BY DEF NothingStranded, Served, WakeComing, Reachable
  <2> QED  BY <1>1, <2>1, <2>2, <2>3, <2>4, <2>5 DEF IInv
<1>3. ASSUME NEW s \in Sessions, Quiet(s) PROVE IInv'
  BY <1>1, <1>3, QuietWorker, QuietCalls, QuietServed DEF IInv, NothingVanishes, NothingStranded
<1>4. ASSUME NEW s \in Sessions, Take(s) \/ Record(s) \/ SyncMark(s) PROVE IInv'
  BY <1>1, <1>4, TakeStep, RecordStep, SyncMarkStep
<1>5. ASSUME NEW c \in Calls, CallStep(c) PROVE IInv'
  BY <1>1, <1>5, CallerStep
<1>6. ASSUME NEW s \in Sessions, WorkerStep(s) \/ TurnStep(s) \/ OtherWriterStep(s)
      PROVE  Quiet(s) \/ Take(s) \/ Record(s) \/ SyncMark(s)
  BY <1>6 DEF WorkerStep, TurnStep, OtherWriterStep, Quiet, Aside
<1> QED  BY <1>2, <1>3, <1>4, <1>5, <1>6 DEF Next

\* The invariant behind everything below: it holds in every reachable state.
THEOREM Inductive == Spec => []IInv
BY IInvInit, IInvStep, PTL DEF Spec

\* A flush barrier answered with success stands for a snapshot that is on disk,
\* superseded, or covered by a sync save's mark, and it is answered with an
\* error only after a write that carried its snapshot, or a later one, failed:
\* collectFiredLocked never answers for a write that ended otherwise.
THEOREM BarriersTellTheTruth == Spec => []AnswersAreTrue
<1>1. IInv => AnswersAreTrue
  BY DEF IInv, AnswersAreTrue
<1> QED  BY <1>1, Inductive, PTL

\* Coalescing, retirement and re-creation of workers lose no snapshot.
THEOREM NoSnapshotVanishes == Spec => []NothingVanishes
<1>1. IInv => NothingVanishes
  BY DEF IInv
<1> QED  BY <1>1, Inductive, PTL

\* No queued snapshot or flush barrier is left with a worker nobody will wake.
THEOREM NobodyIsStranded == Spec => []NothingStranded
<1>1. IInv => NothingStranded
  BY DEF IInv
<1> QED  BY <1>1, Inductive, PTL

-----------------------------------------------------------------------------
(* The live writer implements SaveQueue, and what follows from the same    *)
(* strengthened invariant RInv: an idle answer hides only failures, a nil  *)
(* from FlushAll leaves only writes in flight.                             *)

\* Nothing came to an end that was not enqueued.
Bounded(s) ==
  /\ landed[s] <= enqueued[s] /\ dropped[s] <= enqueued[s]
  /\ over[s] <= enqueued[s] /\ failed[s] <= enqueued[s]
  /\ req[s].snap <= enqueued[s]

\* A call that has a result has returned; one that found nothing had looked at
\* a session; what a FlushAll saw enqueued was enqueued.
ReturnsOnce ==
  \A c \in Calls :
    /\ result[c] # "none" => cpc[c] = "returned"
    /\ result[c] = "idle" => target[c] \in Sessions
    /\ \A s \in Sessions : asked[c][s] <= enqueued[s]

\* Invariants of the workers, and what the callers of Flush and FlushAll see.
RInv ==
  /\ IInv
  /\ \A s \in Sessions : Bounded(s)
  /\ ReturnsOnce /\ IdleHidesOnlyFailures /\ FlushAllLeavesOnlyInFlight

\* How a step of session s moves what SaveQueue sees of it: nothing that came
\* to an end is taken back, and a write leaves the drain loop when it ended.
Grows(s) ==
  /\ enqueued[s] <= enqueued'[s]
  /\ landed[s] <= landed'[s] /\ dropped[s] <= dropped'[s]
  /\ over[s] <= over'[s] /\ failed[s] <= failed'[s]
  /\ Bounded(s)'
  /\ \/ req'[s].snap = req[s].snap
     \/ req[s].snap <= Settled(s)' \/ req[s].snap <= failed'[s]

\* ... and that it moves nothing of session t.
Stays(t) ==
  /\ enqueued'[t] = enqueued[t] /\ landed'[t] = landed[t] /\ dropped'[t] = dropped[t]
  /\ over'[t] = over[t] /\ failed'[t] = failed[t] /\ req'[t] = req[t]

\* The steps of a session's worker, turn and other writers.
SessionStep(s) == Quiet(s) \/ Take(s) \/ Record(s) \/ SyncMark(s)

\* A session's step leaves the calls alone but for the answers it delivers.
CallsWait == UNCHANGED <<cpc, target, want, result, asked>>
AnswersComeFrom(s) ==
  \A c \in Calls :
    done'[c] # done[c] =>
      /\ done[c] = "empty" /\ done'[c] \in {"ok", "fail"}
      /\ target[c] = s

-----------------------------------------------------------------------------
(* What one step of a session does. *)

\* A snapshot in the drain loop was enqueued.
LEMMA WriteIsBounded ==
  ASSUME IInv, NEW s \in Sessions
  PROVE  /\ req[s].snap \in Nat /\ req[s].snap <= enqueued[s]
         /\ pending[s].snap \in Nat /\ pending[s].snap <= enqueued[s]
         /\ landed[s] <= enqueued[s]
<1>1. /\ req[s].snap \in Nat /\ pending[s].snap \in Nat /\ enqueued[s] \in Nat
      /\ seq[s] \in Nat /\ req[s].seq \in Nat
  BY Unpacked, SessionTypes
<1>2. CASE wpc[s] \in {"write", "record"}
  BY <1>1, <1>2, Unpacked, SlotFields DEF SlotAndWrite, SameEnqueue, FileAndSync
<1>3. CASE wpc[s] \notin {"write", "record"}
  BY <1>1, <1>3, Unpacked, SlotFields DEF SlotAndWrite, FileAndSync
<1> QED  BY <1>2, <1>3

\* Quiet steps end what they end and take nothing back.
LEMMA QuietGrows ==
  ASSUME IInv, IInv', NEW s \in Sessions, Bounded(s), Quiet(s)
  PROVE  Grows(s)
<1> USE DEF worker, reg, marks, drain, store, turn, rest, calls, asking, ended, ghosts, Grows, Bounded
<1>0. /\ TypeOK /\ req[s].snap \in Nat /\ req[s].snap <= enqueued[s] /\ enqueued[s] \in Nat
      /\ landed[s] \in Nat /\ dropped[s] \in Nat /\ over[s] \in Nat /\ failed[s] \in Nat
      /\ sync[s].upto \in Nat /\ sync[s].upto <= enqueued[s]
  BY WriteIsBounded, Unpacked, SessionTypes DEF FileAndSync
<1>1. CASE Wake(s)  BY <1>0, <1>1 DEF Wake
<1>2. CASE WriteLands(s)  BY <1>0, <1>2 DEF WriteLands, TypeOK, Larger
<1>3. CASE WriteDropped(s)  BY <1>0, <1>3 DEF WriteDropped, TypeOK, Larger
<1>4. CASE WriteFails(s)  BY <1>0, <1>4 DEF WriteFails, TypeOK, Larger
<1>5. CASE Retire(s)  BY <1>0, <1>5 DEF Retire
<1>6. CASE SnapshotTaken(s)  BY <1>0, <1>6 DEF SnapshotTaken
<1>7. CASE SnapshotRefused(s)  BY <1>0, <1>7 DEF SnapshotRefused
<1>8. CASE SnapshotEnqueued(s)  BY <1>0, <1>8 DEF SnapshotEnqueued, TypeOK
<1>9. CASE SnapshotNotified(s)  BY <1>0, <1>9 DEF SnapshotNotified
<1>10. CASE Aside(s)  BY <1>0, <1>10, AsideFrame DEF AsideKeeps, TypeOK
<1>12. CASE Reconcile(s)  BY <1>0, <1>12, ReconcileFrame DEF ReconcileKeeps, TypeOK
<1>13. CASE SyncBegin(s)  BY <1>0, <1>13 DEF SyncBegin
<1>14. CASE SyncCommit(s)  BY <1>0, <1>14, SyncCommitFrame DEF SyncCommitKeeps, TypeOK, Larger
<1>15. CASE SyncRefused(s)  BY <1>0, <1>15 DEF SyncRefused
<1> QED  BY <1>1, <1>2, <1>3, <1>4, <1>5, <1>6, <1>7, <1>8, <1>9, <1>10, <1>12, <1>13, <1>14, <1>15 DEF Quiet

\* So do the three steps that deliver answers.
LEMMA DeliveringGrows ==
  ASSUME IInv, IInv', NEW s \in Sessions, Bounded(s), Take(s) \/ Record(s) \/ SyncMark(s)
  PROVE  Grows(s)
<1> USE DEF worker, reg, marks, drain, store, turn, rest, calls, asking, ended, ghosts, Grows, Bounded
<1>0. /\ TypeOK /\ req[s].snap \in Nat /\ req[s].snap <= enqueued[s] /\ enqueued[s] \in Nat
      /\ pending[s].snap \in Nat /\ pending[s].snap <= enqueued[s]
      /\ landed[s] \in Nat /\ dropped[s] \in Nat /\ over[s] \in Nat /\ failed[s] \in Nat
  BY WriteIsBounded, Unpacked, SessionTypes
<1>1. CASE Take(s)
  <2>1. req[s] = NoReq
    BY <1>1, Unpacked DEF SlotAndWrite, Take
  <2>2. req'[s] = pending[s] /\ UNCHANGED <<enqueued, landed, dropped, over, failed>>
    BY <1>0, <1>1 DEF Take, TypeOK
  <2> QED  BY <1>0, <2>1, <2>2, SlotFields DEF Settled, Larger
<1>2. CASE Record(s)
  <2>1. req[s].snap <= Settled(s) \/ req[s].snap <= failed[s]
    BY <1>2, Unpacked DEF SlotAndWrite, Record
  <2>2. req'[s] = NoReq /\ UNCHANGED <<enqueued, landed, dropped, over, failed>>
    BY <1>0, <1>2 DEF Record, TypeOK
  <2> QED  BY <1>0, <2>1, <2>2, SlotFields DEF Settled, Larger
<1>3. CASE SyncMark(s)
  <2>1. UNCHANGED <<enqueued, landed, dropped, failed, req>>
    BY <1>3 DEF SyncMark
  <2>2. over[s] <= over'[s] /\ over'[s] <= enqueued[s]
    BY <1>0, <1>3 DEF SyncMark, TypeOK, Larger
  <2> QED  BY <1>0, <2>1, <2>2
<1> QED  BY <1>1, <1>2, <1>3

\* A session's step moves that session only, and no call but by an answer.
LEMMA SessionStepFrame ==
  ASSUME IInv, NEW s \in Sessions, SessionStep(s)
  PROVE  /\ \A t \in Sessions : t # s => Stays(t)
         /\ CallsWait
<1> USE DEF worker, reg, marks, drain, store, turn, rest, calls, asking, ended, ghosts
<1>0. TypeOK
  BY Unpacked
<1>1. CASE Quiet(s)
  <2>1. \A t \in Sessions : t # s => Stays(t)
    BY <1>0, <1>1, Elsewhere DEF Stays
  <2>2. CallsWait
    BY <1>1, AsideFrame DEF Quiet, CallsWait, Wake, WriteLands, WriteDropped, WriteFails, Retire,
       SnapshotTaken, SnapshotRefused, SnapshotEnqueued, SnapshotNotified, AsideKeeps, Reconcile, SyncBegin, SyncCommit, SyncRefused
  <2> QED  BY <2>1, <2>2
<1>2. CASE Take(s)  BY <1>0, <1>2 DEF Take, TypeOK, Stays, CallsWait
<1>3. CASE Record(s)  BY <1>0, <1>3 DEF Record, TypeOK, Stays, CallsWait
<1>4. CASE SyncMark(s)  BY <1>0, <1>4 DEF SyncMark, TypeOK, Stays, CallsWait
<1> QED  BY <1>1, <1>2, <1>3, <1>4 DEF SessionStep

\* Delivering answers only unanswered calls that asked this session.
LEMMA DeliverFrame ==
  ASSUME IInv, NEW s \in Sessions, NEW cov, NEW wr, NEW err, Deliver(s, cov, wr, err)
  PROVE  AnswersComeFrom(s)
<1> DEFINE fire == {b \in barriers[s] : Due(b, cov, wr)}
<1>1. done' = [c \in Calls |->
                 IF \E b \in fire : b.call = c
                 THEN Outcome(CHOOSE b \in fire : b.call = c, cov, err)
                 ELSE done[c]]
  BY DEF Deliver
<1>2. ASSUME NEW c \in Calls, done'[c] # done[c]
      PROVE  done[c] = "empty" /\ done'[c] \in {"ok", "fail"} /\ target[c] = s
  <2>1. \E b \in fire : b.call = c
    BY <1>1, <1>2
  <2>2. done[c] = "empty" /\ target[c] = s
    BY <2>1, Unpacked DEF BarriersAreCalls
  <2>3. done'[c] = Outcome(CHOOSE b \in fire : b.call = c, cov, err)
    BY <1>1, <2>1
  <2> QED  BY <2>2, <2>3 DEF Outcome
<1> QED  BY <1>2 DEF AnswersComeFrom

\* Hence so does every step of a session.
LEMMA SessionStepAnswers ==
  ASSUME IInv, NEW s \in Sessions, SessionStep(s)
  PROVE  AnswersComeFrom(s)
<1>1. CASE Quiet(s)
  BY <1>1, AsideFrame DEF AnswersComeFrom, Quiet, Wake, WriteLands, WriteDropped, WriteFails, Retire,
     SnapshotTaken, SnapshotRefused, SnapshotEnqueued, SnapshotNotified, AsideKeeps, Reconcile, SyncBegin, SyncCommit, SyncRefused, calls
<1>2. CASE Take(s)  BY <1>2, DeliverFrame DEF Take
<1>3. CASE Record(s)  BY <1>3, DeliverFrame DEF Record
<1>4. CASE SyncMark(s)
  <2>1. CASE registered[s]  BY <1>4, <2>1, DeliverFrame DEF SyncMark
  <2>2. CASE ~registered[s]  BY <1>4, <2>2 DEF SyncMark, AnswersComeFrom
  <2> QED  BY <2>1, <2>2
<1> QED  BY <1>1, <1>2, <1>3, <1>4 DEF SessionStep

\* All three together.
LEMMA SessionMoves ==
  ASSUME RInv, IInv', NEW s \in Sessions, SessionStep(s)
  PROVE  /\ Grows(s) /\ \A t \in Sessions : t # s => Stays(t)
         /\ CallsWait /\ AnswersComeFrom(s)
<1>1. IInv /\ Bounded(s)
  BY DEF RInv
<1> QED
  BY <1>1, QuietGrows, DeliveringGrows, SessionStepFrame, SessionStepAnswers DEF SessionStep

\* A caller's step moves no session.
LEMMA CallerFrame ==
  ASSUME NEW c \in Calls, CallStep(c)
  PROVE  \A t \in Sessions : Stays(t)
BY DEF CallStep, Stays, Flush, FlushAllRegisters, CallNotify, Answered, TimesOut, FlushAllBegins,
   FlushAllScans, FlushAllRescans, worker, reg, marks, drain, store, turn, rest, ended, ghosts

\* Next, split the way the lemmas need it.
LEMMA NextSplit ==
  ASSUME Next
  PROVE  (\E s \in Sessions : SessionStep(s)) \/ (\E c \in Calls : CallStep(c))
BY DEF Next, WorkerStep, TurnStep, OtherWriterStep, SessionStep, Quiet, Aside

-----------------------------------------------------------------------------
(* RInv is inductive. *)

\* What came to an end in a session stays ended.
LEMMA EndsStay ==
  ASSUME TypeOK, TypeOK', NEW s \in Sessions, Grows(s) \/ Stays(s), NEW n \in Nat
  PROVE  /\ n <= Larger(Settled(s), failed[s]) => n <= Larger(Settled(s)', failed'[s])
         /\ Settled(s) <= Settled(s)'
         /\ n <= req[s].snap => n <= Larger(Settled(s)', failed'[s]) \/ n <= req'[s].snap
<1>1. /\ landed[s] \in Nat /\ dropped[s] \in Nat /\ failed[s] \in Nat /\ req[s].snap \in Nat
      /\ landed'[s] \in Nat /\ dropped'[s] \in Nat /\ failed'[s] \in Nat /\ req'[s].snap \in Nat
  BY NothingTypes DEF TypeOK
<1>2. landed[s] <= landed'[s] /\ dropped[s] <= dropped'[s] /\ failed[s] <= failed'[s]
  BY <1>1 DEF Grows, Stays
<1>3. req'[s].snap = req[s].snap \/ req[s].snap <= Settled(s)' \/ req[s].snap <= failed'[s]
  BY DEF Grows, Stays
<1> QED  BY <1>1, <1>2, <1>3 DEF Settled, Larger

\* Initially nothing happened.
LEMMA RInvInit == Init => RInv
<1> SUFFICES ASSUME Init PROVE RInv
  OBVIOUS
<1>1. IInv
  BY IInvInit
<1>2. ASSUME NEW s \in Sessions PROVE Bounded(s)
  <2>1. /\ landed[s] = 0 /\ dropped[s] = 0 /\ over[s] = 0 /\ failed[s] = 0
        /\ enqueued[s] = 0 /\ req[s] = NoReq
    BY DEF Init
  <2> QED  BY <2>1, SlotFields DEF Bounded
<1>3. ReturnsOnce /\ IdleHidesOnlyFailures /\ FlushAllLeavesOnlyInFlight
  BY DEF Init, ReturnsOnce, IdleHidesOnlyFailures, FlushAllLeavesOnlyInFlight, Calls
<1> QED  BY <1>1, <1>2, <1>3 DEF RInv

\* A step of a session keeps RInv.
LEMMA RInvSession ==
  ASSUME RInv, IInv', NEW s \in Sessions, SessionStep(s)
  PROVE  RInv'
<1>1. /\ \A t \in Sessions : Grows(t) \/ Stays(t)
      /\ CallsWait
  BY SessionMoves
<1>2. TypeOK /\ TypeOK'
  BY DEF RInv, IInv
<1>3. \A t \in Sessions : Bounded(t)'
  BY <1>1 DEF RInv, Bounded, Grows, Stays
<1>4. ReturnsOnce'
  <2>1. \A t \in Sessions : enqueued[t] <= enqueued'[t] /\ enqueued[t] \in Nat /\ enqueued'[t] \in Nat
    BY <1>1, <1>2 DEF Grows, Stays, TypeOK
  <2>2. \A c \in Calls, t \in Sessions : asked[c][t] \in Nat /\ asked[c][t] <= enqueued[t]
    BY <1>2 DEF TypeOK, RInv, ReturnsOnce
  <2>3. \A c \in Calls, t \in Sessions : asked'[c][t] <= enqueued'[t]
    BY <1>1, <2>1, <2>2 DEF CallsWait
  <2> QED  BY <1>1, <2>3 DEF RInv, ReturnsOnce, CallsWait
<1>5. IdleHidesOnlyFailures'
  <2> SUFFICES ASSUME NEW c \in Flushes, result'[c] = "idle"
               PROVE  (want[c] <= Larger(Settled(target[c]), failed[target[c]]))'
    BY DEF IdleHidesOnlyFailures
  <2>1. /\ c \in Calls /\ target[c] \in Sessions /\ want[c] \in Nat /\ want'[c] = want[c]
        /\ target'[c] = target[c]
        /\ want[c] <= Larger(Settled(target[c]), failed[target[c]])
    BY <1>1, <1>2 DEF CallsWait, RInv, ReturnsOnce, IdleHidesOnlyFailures, Calls, TypeOK
  <2>2. PICK t \in Sessions : t = target[c]
    BY <2>1
  <2>3. want[c] <= Larger(Settled(t)', failed'[t])
    BY <1>1, <1>2, <2>1, <2>2, EndsStay
  <2> QED  BY <2>1, <2>2, <2>3 DEF Settled
<1>6. FlushAllLeavesOnlyInFlight'
  <2> SUFFICES ASSUME NEW c \in FlushAlls, result'[c] = "nil", NEW t \in Sessions
               PROVE  \/ asked'[c][t] <= Larger(Settled(t)', failed'[t])
                      \/ asked'[c][t] <= req'[t].snap
    BY DEF FlushAllLeavesOnlyInFlight
  <2>1. asked'[c][t] = asked[c][t] /\ asked[c][t] \in Nat
    BY <1>1, <1>2 DEF CallsWait, Calls, TypeOK
  <2>2. asked[c][t] <= Larger(Settled(t), failed[t]) \/ asked[c][t] <= req[t].snap
    BY <1>1 DEF CallsWait, RInv, FlushAllLeavesOnlyInFlight
  <2> QED  BY <1>1, <1>2, <2>1, <2>2, EndsStay
<1> QED  BY <1>3, <1>4, <1>5, <1>6 DEF RInv

\* With an empty slot, the newest snapshot came to an end or is being written.
LEMMA EmptySlot ==
  ASSUME IInv, NEW s \in Sessions, pending[s] = NoReq
  PROVE  enqueued[s] <= Larger(Settled(s), failed[s]) \/ req[s].snap = enqueued[s]
<1>1. enqueued[s] \in Nat /\ Settled(s) \in Nat /\ failed[s] \in Nat
  BY Unpacked, SessionTypes DEF Settled, Larger
<1>2. Accounted(s)
  BY Unpacked
<1> QED  BY <1>1, <1>2, SlotFields DEF Accounted, Larger

\* A retired worker held no snapshot either.
LEMMA RetiredSlot ==
  ASSUME IInv, NEW s \in Sessions, ~registered[s]
  PROVE  enqueued[s] <= Larger(Settled(s), failed[s])
<1>1. pending[s] = NoReq /\ req[s] = NoReq
  BY Unpacked DEF RetiredIsEmpty
<1>2. enqueued[s] \in Nat /\ Settled(s) \in Nat /\ failed[s] \in Nat
  BY Unpacked, SessionTypes DEF Settled, Larger
<1> QED  BY <1>1, <1>2, EmptySlot, SlotFields DEF Larger

\* A step of a caller changes that call only, and only if it had not returned.
LEMMA CallerChanges ==
  ASSUME TypeOK, NEW c \in Calls, CallStep(c)
  PROVE  /\ cpc[c] # "returned"
         /\ \A d \in Calls : d # c =>
              /\ cpc'[d] = cpc[d] /\ target'[d] = target[d] /\ want'[d] = want[d]
              /\ result'[d] = result[d] /\ asked'[d] = asked[d] /\ done'[d] = done[d]
<1> USE DEF TypeOK, worker, store, turn, rest, calls, asking, ended, ghosts
<1>1. ASSUME NEW s \in Sessions, Flush(c, s) PROVE
        /\ cpc[c] # "returned"
        /\ \A d \in Calls : d # c =>
              /\ cpc'[d] = cpc[d] /\ target'[d] = target[d] /\ want'[d] = want[d]
              /\ result'[d] = result[d] /\ asked'[d] = asked[d] /\ done'[d] = done[d]
  BY <1>1 DEF Flush, Register
<1>2. ASSUME NEW s \in Sessions, FlushAllRegisters(c, s) PROVE
        /\ cpc[c] # "returned"
        /\ \A d \in Calls : d # c =>
              /\ cpc'[d] = cpc[d] /\ target'[d] = target[d] /\ want'[d] = want[d]
              /\ result'[d] = result[d] /\ asked'[d] = asked[d] /\ done'[d] = done[d]
  BY <1>2 DEF FlushAllRegisters, Register
<1>3. CASE CallNotify(c)  BY <1>3 DEF CallNotify
<1>4. CASE Answered(c)  BY <1>4 DEF Answered
<1>5. CASE TimesOut(c)  BY <1>5 DEF TimesOut
<1>6. CASE FlushAllBegins(c)  BY <1>6 DEF FlushAllBegins
<1>7. CASE FlushAllScans(c)  BY <1>7 DEF FlushAllScans
<1>8. CASE FlushAllRescans(c)  BY <1>8 DEF FlushAllRescans
<1> QED  BY <1>1, <1>2, <1>3, <1>4, <1>5, <1>6, <1>7, <1>8 DEF CallStep

\* A step of a caller keeps RInv.
LEMMA RInvCaller ==
  ASSUME RInv, IInv', NEW c \in Calls, CallStep(c)
  PROVE  RInv'
<1> USE DEF worker, reg, marks, drain, store, turn, rest, calls, asking, ended, ghosts
<1>1. /\ \A t \in Sessions : Stays(t)
      /\ TypeOK /\ TypeOK' /\ IInv
  BY CallerFrame DEF RInv, IInv
<1>2. /\ cpc[c] # "returned" /\ result[c] = "none"
      /\ \A d \in Calls : d # c =>
           /\ cpc'[d] = cpc[d] /\ target'[d] = target[d] /\ want'[d] = want[d]
           /\ result'[d] = result[d] /\ asked'[d] = asked[d] /\ done'[d] = done[d]
  BY <1>1, CallerChanges DEF RInv, ReturnsOnce
<1>3. \A t \in Sessions : Bounded(t)'
  BY <1>1 DEF RInv, Bounded, Stays
\* what the step does to its own call
<1>4. /\ result'[c] # "none" => cpc'[c] = "returned"
      /\ result'[c] = "idle" =>
           /\ target'[c] \in Sessions
           /\ want'[c] <= Larger(Settled(target'[c]), failed[target'[c]])
      /\ \A t \in Sessions : asked'[c][t] = asked[c][t] \/ asked'[c][t] = enqueued[t]
      /\ result'[c] = "nil" =>
           /\ asked'[c] = asked[c]
           /\ \A t \in Sessions : pending[t] = NoReq
  <2>1. ASSUME NEW s \in Sessions, Flush(c, s) PROVE <1>4!:
    <3>1. CASE registered[s]
      BY <1>1, <1>2, <2>1, <3>1 DEF Flush, Register, TypeOK
    <3>2. CASE ~registered[s]
      <4>1. /\ target'[c] = s /\ want'[c] = enqueued[s] /\ result'[c] = "idle"
            /\ cpc'[c] = "returned" /\ asked' = asked
        BY <1>1, <2>1, <3>2 DEF Flush, TypeOK
      <4> QED  BY <1>1, <3>2, <4>1, RetiredSlot
    <3> QED  BY <3>1, <3>2
  <2>2. ASSUME NEW s \in Sessions, FlushAllRegisters(c, s) PROVE <1>4!:
    BY <1>2, <2>2 DEF FlushAllRegisters
  <2>3. CASE CallNotify(c)  BY <1>2, <2>3 DEF CallNotify
  <2>4. CASE Answered(c)  BY <1>1, <1>2, <2>4 DEF Answered, TypeOK
  <2>5. CASE TimesOut(c)  BY <1>1, <1>2, <2>5 DEF TimesOut, TypeOK
  <2>6. CASE FlushAllBegins(c)  BY <1>1, <1>2, <2>6 DEF FlushAllBegins, TypeOK
  <2>7. CASE FlushAllScans(c)
    <3>1. Holding = {} => \A t \in Sessions : pending[t] = NoReq
      BY <1>1, Unpacked DEF Holding, RetiredIsEmpty
    <3> QED  BY <1>1, <1>2, <2>7, <3>1 DEF FlushAllScans, TypeOK
  <2>8. CASE FlushAllRescans(c)  BY <1>2, <2>8 DEF FlushAllRescans
  <2> QED  BY <2>1, <2>2, <2>3, <2>4, <2>5, <2>6, <2>7, <2>8 DEF CallStep
<1>5. \A t \in Sessions : /\ Settled(t)' = Settled(t) /\ failed'[t] = failed[t]
                          /\ req'[t] = req[t] /\ enqueued'[t] = enqueued[t]
                          /\ enqueued[t] \in Nat
  BY <1>1 DEF Stays, Settled, TypeOK
<1>6. ReturnsOnce'
  <2> SUFFICES ASSUME NEW d \in Calls
               PROVE  /\ result'[d] # "none" => cpc'[d] = "returned"
                      /\ result'[d] = "idle" => target'[d] \in Sessions
                      /\ \A t \in Sessions : asked'[d][t] <= enqueued'[t]
    BY DEF ReturnsOnce
  <2>1. CASE d = c  BY <1>4, <1>5, <2>1 DEF RInv, ReturnsOnce
  <2>2. CASE d # c  BY <1>2, <1>5, <2>2 DEF RInv, ReturnsOnce
  <2> QED  BY <2>1, <2>2
<1>7. IdleHidesOnlyFailures'
  <2> SUFFICES ASSUME NEW d \in Flushes, result'[d] = "idle"
               PROVE  (want[d] <= Larger(Settled(target[d]), failed[target[d]]))'
    BY DEF IdleHidesOnlyFailures
  <2>1. /\ target'[d] \in Sessions
        /\ want'[d] <= Larger(Settled(target'[d]), failed[target'[d]])
    BY <1>2, <1>4 DEF RInv, ReturnsOnce, IdleHidesOnlyFailures, Calls
  <2>2. PICK t \in Sessions : t = target'[d]
    BY <2>1
  <2>3. want'[d] <= Larger(Settled(t)', failed'[t])
    BY <1>5, <2>1, <2>2
  <2> QED  BY <2>2, <2>3 DEF Settled
<1>8. FlushAllLeavesOnlyInFlight'
  <2> SUFFICES ASSUME NEW d \in FlushAlls, result'[d] = "nil", NEW t \in Sessions
               PROVE  \/ asked'[d][t] <= Larger(Settled(t)', failed'[t])
                      \/ asked'[d][t] <= req'[t].snap
    BY DEF FlushAllLeavesOnlyInFlight
  <2>1. CASE d = c
    <3>1. asked'[d][t] \in Nat /\ asked'[d][t] <= enqueued[t] /\ pending[t] = NoReq
      BY <1>1, <1>4, <2>1 DEF RInv, ReturnsOnce, Calls, TypeOK
    <3>2. Larger(Settled(t), failed[t]) \in Nat
      BY <1>1 DEF TypeOK, Settled, Larger
    <3> QED  BY <1>1, <1>5, <3>1, <3>2, EmptySlot
  <2>2. CASE d # c
    BY <1>2, <1>5, <2>2 DEF RInv, FlushAllLeavesOnlyInFlight, Calls
  <2> QED  BY <2>1, <2>2
<1> QED  BY <1>3, <1>6, <1>7, <1>8 DEF RInv

\* Every step keeps RInv.
LEMMA RInvStep == RInv /\ [Next]_vars => RInv'
<1> SUFFICES ASSUME RInv, [Next]_vars PROVE RInv'
  OBVIOUS
<1>1. IInv'
  BY IInvStep DEF RInv
<1>2. CASE UNCHANGED vars
  BY <1>1, <1>2 DEF RInv, Bounded, ReturnsOnce, IdleHidesOnlyFailures,
     FlushAllLeavesOnlyInFlight, Settled, vars, worker, reg, marks, drain, store, turn, rest,
     calls, asking, ended, ghosts
<1>3. CASE Next
  BY <1>1, <1>3, NextSplit, RInvSession, RInvCaller
<1> QED  BY <1>2, <1>3

\* RInv holds in every reachable state.
THEOREM StrongerInductive == Spec => []RInv
BY RInvInit, RInvStep, PTL DEF Spec

\* A Flush that finds no worker and returns nil hides no snapshot but one whose
\* write failed: tryRetire never lets a worker with work leave the registry.
THEOREM IdleIsHonest == Spec => []IdleHidesOnlyFailures
<1>1. RInv => IdleHidesOnlyFailures
  BY DEF RInv
<1> QED  BY <1>1, StrongerInductive, PTL

\* A FlushAll that returns nil has left nothing from before the call behind but
\* writes that are under way.
THEOREM FlushAllIsHonest == Spec => []FlushAllLeavesOnlyInFlight
<1>1. RInv => FlushAllLeavesOnlyInFlight
  BY DEF RInv
<1> QED  BY <1>1, StrongerInductive, PTL

-----------------------------------------------------------------------------
(* What a replacement took off the disk stays off. *)

\* A snapshot that still has the current generation has lost no row.
Whole(gen0, s, rows) == gen0 <= gen[s] /\ (gen0 = gen[s] => rows = {})

\* So it is wherever a snapshot of session s is under way: in a SaveAsync call
\* that has read history_gen, in the slot, in the drain loop's write.
SnapshotsWhole(s) ==
  /\ saver[s].pc = "enqueue" => Whole(saver[s].gen, s, erased[s].call)
  /\ pending[s] # NoReq => Whole(pending[s].gen, s, erased[s].slot)
  /\ wpc[s] = "write" => Whole(req[s].gen, s, erased[s].write)

GInv == TypeOK /\ \A s \in Sessions : SnapshotsWhole(s)

\* Rows of which the stored ones are a prefix miss none of them.
LEMMA PrefixKeepsRows ==
  ASSUME NEW stored \in Transcript, NEW rows \in Transcript, SamePrefix(stored, rows)
  PROVE  RowsOf(stored) \ RowsOf(rows) = {}
<1>1. Len(stored) \in Nat /\ Len(rows) \in Nat
  BY Transcripts
<1>2. \A i \in 1 .. Len(stored) : i \in 1 .. Len(rows) /\ stored[i] = rows[i]
  BY <1>1 DEF SamePrefix
<1> QED  BY <1>2 DEF RowsOf

\* A rewrite either takes nothing off, or leaves every snapshot behind.
LEMMA RewriteWhole ==
  ASSUME TypeOK, NEW s \in Sessions, NEW rows \in Transcript, Rewrite(s, rows),
         SnapshotsWhole(s), UNCHANGED <<worker, saver>>
  PROVE  /\ SnapshotsWhole(s)'
         /\ \A t \in Sessions : t # s => gen'[t] = gen[t] /\ erased'[t] = erased[t]
<1> DEFINE taken == RowsOf(disk[s]) \ RowsOf(rows)
<1>1. /\ erased'[s].call = IF saver[s].pc = "enqueue" THEN erased[s].call \cup taken ELSE {}
      /\ erased'[s].slot = IF pending[s] # NoReq THEN erased[s].slot \cup taken ELSE {}
      /\ erased'[s].write = IF wpc[s] = "write" THEN erased[s].write \cup taken ELSE {}
  BY DEF Rewrite, TypeOK
<1>2. \A t \in Sessions : t # s => gen'[t] = gen[t] /\ erased'[t] = erased[t]
  BY DEF Rewrite, TypeOK
<1>3. UNCHANGED <<pending, wpc, req, saver>>
  BY DEF worker, drain
<1>4. gen[s] \in Nat /\ disk[s] \in Transcript /\ saver[s].gen \in Nat
  BY DEF TypeOK
<1>5. pending[s].gen \in Nat /\ req[s].gen \in Nat
  BY NothingTypes DEF TypeOK
<1>6. CASE SamePrefix(disk[s], rows)
  <2>1. taken = {}
    BY <1>4, <1>6, PrefixKeepsRows
  <2>2. gen'[s] = gen[s]
    BY <1>6 DEF Rewrite, TypeOK
  <2> HIDE DEF taken
  <2> QED  BY <1>1, <1>2, <1>3, <2>1, <2>2 DEF SnapshotsWhole, Whole
<1>7. CASE ~SamePrefix(disk[s], rows)
  <2>1. gen'[s] = gen[s] + 1
    BY <1>7 DEF Rewrite, TypeOK
  <2> QED  BY <1>2, <1>3, <1>4, <1>5, <2>1 DEF SnapshotsWhole, Whole
<1> QED  BY <1>6, <1>7

\* What SnapshotsWhole speaks of.
GFields == <<saver, pending, wpc, req, gen, erased>>

\* Every step keeps GInv.
LEMMA GInvStep == GInv /\ [Next]_vars => GInv'
<1> SUFFICES ASSUME GInv, [Next]_vars PROVE GInv'
  OBVIOUS
<1>1. TypeOK /\ TypeOK' /\ \A t \in Sessions : SnapshotsWhole(t)
  BY TypeStep DEF GInv
<1> USE DEF worker, reg, marks, drain, store, turn, rest, calls, asking, ended, ghosts
<1>2. CASE UNCHANGED GFields
  BY <1>1, <1>2 DEF GInv, GFields, SnapshotsWhole, Whole
<1>3. CASE UNCHANGED vars
  BY <1>2, <1>3 DEF vars, GFields
\* the steps of a session that move a snapshot
<1>4. ASSUME NEW s \in Sessions, NEW t \in Sessions,
             \/ SnapshotTaken(s) \/ SnapshotRefused(s) \/ SnapshotEnqueued(s)
             \/ SnapshotNotified(s) \/ WorkerStep(s)
      PROVE  SnapshotsWhole(t)'
  <2> USE <1>1 DEF TypeOK
  <2>1. CASE t # s
    <3>1. /\ saver'[t] = saver[t] /\ pending'[t] = pending[t] /\ wpc'[t] = wpc[t]
          /\ req'[t] = req[t] /\ gen'[t] = gen[t] /\ erased'[t] = erased[t]
      <4>1. CASE WorkerStep(s)
        BY <2>1, <4>1 DEF WorkerStep, Wake, Take, WriteLands, WriteDropped, WriteFails, Record, Retire
      <4>2. CASE ~WorkerStep(s)
        <5>1. CASE SnapshotTaken(s)  BY <2>1, <5>1 DEF SnapshotTaken
        <5>2. CASE SnapshotRefused(s)  BY <2>1, <5>2 DEF SnapshotRefused
        <5>3. CASE SnapshotEnqueued(s)
          <6>1. /\ \E x : saver' = [saver EXCEPT ![s] = x]
                /\ \E x : pending' = [pending EXCEPT ![s] = x]
                /\ \E x : erased' = [erased EXCEPT ![s] = x]
                /\ \E x : wpc' = [wpc EXCEPT ![s] = x]
                /\ req' = req /\ gen' = gen
            BY <5>3 DEF SnapshotEnqueued
          <6> QED  BY <2>1, <6>1
        <5>4. CASE SnapshotNotified(s)  BY <2>1, <5>4 DEF SnapshotNotified
        <5> QED  BY <1>4, <4>2, <5>1, <5>2, <5>3, <5>4
      <4> QED  BY <4>1, <4>2
    <3> QED  BY <3>1 DEF SnapshotsWhole, Whole
  <2>2. CASE t = s
    <3> SUFFICES SnapshotsWhole(s)'
      BY <2>2
    <3> USE DEF SnapshotsWhole, Whole
    <3>1. CASE SnapshotTaken(s)
      <4>1. /\ saver' = [saver EXCEPT ![s] = [pc |-> "enqueue", gen |-> gen[s], inc |-> 0]]
            /\ erased' = [erased EXCEPT ![s].call = {}]
            /\ UNCHANGED <<pending, req, wpc, gen>>
        BY <3>1 DEF SnapshotTaken
      <4>2. saver'[s].pc = "enqueue" /\ saver'[s].gen = gen[s] /\ gen[s] \in Nat
        BY <4>1
      <4>3. /\ erased'[s].call = {} /\ erased'[s].slot = erased[s].slot
            /\ erased'[s].write = erased[s].write
        BY <4>1
      <4> HIDE DEF TypeOK
      <4> QED  BY <4>1, <4>2, <4>3
    <3>2. CASE SnapshotRefused(s)  BY <3>2 DEF SnapshotRefused, NoSnapshot
    <3>3. CASE SnapshotEnqueued(s)
      <4>1. /\ saver'[s].pc = "notify" /\ pending'[s].gen = saver[s].gen
            /\ erased'[s].slot = erased[s].call /\ erased'[s].write = erased[s].write
            /\ saver[s].pc = "enqueue" /\ gen' = gen /\ req' = req
        BY <3>3 DEF SnapshotEnqueued
      <4>2. wpc'[s] = "write" => wpc[s] = "write"
        BY <3>3 DEF SnapshotEnqueued
      <4> QED  BY <4>1, <4>2
    <3>4. CASE SnapshotNotified(s)  BY <3>4 DEF SnapshotNotified, NoSnapshot
    <3>5. CASE Wake(s)  BY <3>5 DEF Wake
    <3>6. CASE Take(s)
      <4>1. /\ pending'[s] = NoReq /\ req'[s] = pending[s]
            /\ wpc'[s] = (IF pending[s] = NoReq THEN "select" ELSE "write")
            /\ erased'[s].write = erased[s].slot /\ erased'[s].call = erased[s].call
            /\ UNCHANGED <<saver, gen>>
        BY <3>6 DEF Take
      <4> QED  BY <4>1
    <3>7. CASE WriteLands(s)  BY <3>7 DEF WriteLands
    <3>8. CASE WriteDropped(s)  BY <3>8 DEF WriteDropped
    <3>9. CASE WriteFails(s)  BY <3>9 DEF WriteFails
    <3>10. CASE Record(s)  BY <3>10 DEF Record
    <3>11. CASE Retire(s)  BY <3>11 DEF Retire
    <3> QED  BY <1>4, <3>1, <3>2, <3>3, <3>4, <3>5, <3>6, <3>7, <3>8, <3>9, <3>10, <3>11
             DEF WorkerStep
  <2> QED  BY <2>1, <2>2
\* the steps that rewrite
<1>5. ASSUME NEW s \in Sessions, ReplaceCommits(s) \/ TruncateCommits(s) PROVE GInv'
  <2>1. PICK rows \in Transcript : Rewrite(s, rows)
    BY <1>1, <1>5 DEF ReplaceCommits, TruncateCommits, TypeOK
  <2>2. UNCHANGED <<worker, saver>>
    BY <1>5 DEF ReplaceCommits, TruncateCommits
  <2>3. /\ SnapshotsWhole(s)'
        /\ \A t \in Sessions : t # s => gen'[t] = gen[t] /\ erased'[t] = erased[t]
    BY <1>1, <2>1, <2>2, RewriteWhole
  <2>4. ASSUME NEW t \in Sessions, t # s PROVE SnapshotsWhole(t)'
    BY <1>1, <2>2, <2>3, <2>4 DEF SnapshotsWhole, Whole
  <2> QED  BY <1>1, <2>3, <2>4 DEF GInv
\* and all the others
<1>6. ASSUME NEW s \in Sessions, OtherWriterStep(s), ~ReplaceCommits(s), ~TruncateCommits(s)
      PROVE  UNCHANGED GFields
  BY <1>6 DEF OtherWriterStep, ReplaceStep, ReplaceBegins, ReplaceFails, TruncateLoads,
     TruncateFails, ForeignAppend, Reconcile, ReconcileDiverged, SyncBegin, SyncCommit,
     SyncRefused, SyncMark, GFields
<1>7. ASSUME NEW c \in Calls, CallStep(c) PROVE UNCHANGED GFields
  BY <1>7 DEF CallStep, Flush, FlushAllRegisters, CallNotify, Answered, TimesOut, FlushAllBegins,
     FlushAllScans, FlushAllRescans, GFields
<1> QED  BY <1>1, <1>2, <1>3, <1>4, <1>5, <1>6, <1>7 DEF Next, TurnStep, GInv

\* A live write is the only step that ends one, and all that it brings back.
LEMMA OnlyLandingStores ==
  ASSUME TypeOK, Next, NEW t \in Sessions, wpc[t] = "write", wpc'[t] = "record"
  PROVE  disk'[t] = disk[t] \/ Current(t)
<1> USE DEF worker, reg, marks, drain, store, turn, rest, calls, asking, ended, ghosts
<1>1. ASSUME NEW s \in Sessions, WorkerStep(s) PROVE disk'[t] = disk[t] \/ Current(t)
  BY <1>1 DEF WorkerStep, Wake, Take, WriteLands, WriteDropped, WriteFails, Record, Retire, TypeOK
<1>2. ASSUME NEW s \in Sessions, TurnStep(s) PROVE disk'[t] = disk[t]
  BY <1>2 DEF TurnStep, SnapshotTaken, SnapshotRefused, SnapshotEnqueued, SnapshotNotified
<1>3. ASSUME NEW s \in Sessions, OtherWriterStep(s) PROVE FALSE
  BY <1>3 DEF OtherWriterStep, ReplaceStep, ReplaceBegins, ReplaceCommits, ReplaceFails,
     TruncateLoads, TruncateCommits, TruncateFails, ForeignAppend, Reconcile, ReconcileDiverged,
     SyncBegin, SyncCommit, SyncRefused, SyncMark
<1>4. ASSUME NEW c \in Calls, CallStep(c) PROVE FALSE
  BY <1>4 DEF CallStep, Flush, FlushAllRegisters, CallNotify, Answered, TimesOut, FlushAllBegins,
     FlushAllScans, FlushAllRescans
<1> QED  BY <1>1, <1>2, <1>3, <1>4 DEF Next

\* A live write brings back no row that a replacement took off the disk while
\* its snapshot was on its way: history_gen, read before the enqueue and compared
\* minutes later in the write's own transaction, has moved on whenever rows went.
THEOREM NothingComesBack == Spec => NothingResurrected
<1>1. Init => GInv
  <2> SUFFICES ASSUME Init PROVE GInv
    OBVIOUS
  <2>1. TypeOK
    BY IInvInit DEF IInv
  <2> QED  BY <2>1 DEF Init, GInv, SnapshotsWhole, NoSnapshot
<1>2. GInv /\ [Next]_vars =>
        [\A s \in Sessions :
           wpc[s] = "write" /\ wpc'[s] = "record" =>
             (RowsOf(disk'[s]) \ RowsOf(disk[s])) \cap erased[s].write = {}]_vars
  <2> SUFFICES ASSUME GInv, Next, NEW t \in Sessions, wpc[t] = "write", wpc'[t] = "record"
               PROVE  (RowsOf(disk'[t]) \ RowsOf(disk[t])) \cap erased[t].write = {}
    OBVIOUS
  <2>1. CASE disk'[t] = disk[t]
    BY <2>1
  <2>2. CASE Current(t)
    BY <2>2 DEF GInv, SnapshotsWhole, Whole, Current
  <2> QED  BY <2>1, <2>2, OnlyLandingStores DEF GInv
<1> QED  BY <1>1, <1>2, GInvStep, PTL DEF Spec, NothingResurrected

-----------------------------------------------------------------------------
(* The refinement: LiveWriter implements SaveQueue. *)

\* A session's step that enqueues nothing advances the abstract queue.
LEMMA MapsToAdvance ==
  ASSUME RInv, RInv', NEW s \in Sessions, Grows(s), enqueued' = enqueued,
         \A t \in Sessions : t # s => Stays(t), CallsWait, AnswersComeFrom(s)
  PROVE  Queue!Advance(s)
<1>1. TypeOK /\ TypeOK' /\ SuccessIsBacked' /\ FailureIsReal'
  BY DEF RInv, IInv
<1>2. /\ SettledOrCovered'[s] \in SettledOrCovered[s] .. enqueued[s]
      /\ failed'[s] \in failed[s] .. enqueued[s]
      /\ Writing'[s] \in 0 .. enqueued[s]
  <2>1. /\ landed[s] \in Nat /\ dropped[s] \in Nat /\ over[s] \in Nat /\ failed[s] \in Nat
        /\ landed'[s] \in Nat /\ dropped'[s] \in Nat /\ over'[s] \in Nat /\ failed'[s] \in Nat
        /\ enqueued[s] \in Nat /\ req'[s].snap \in Nat
    BY <1>1, NothingTypes DEF TypeOK
  <2>2. /\ SettledOrCovered[s] = Larger(Larger(landed[s], dropped[s]), over[s])
        /\ SettledOrCovered'[s] = Larger(Larger(landed'[s], dropped'[s]), over'[s])
        /\ Writing'[s] = req'[s].snap
    BY DEF SettledOrCovered, Settled, Writing
  <2> QED  BY <2>1, <2>2 DEF Grows, Bounded, Larger
<1>3. /\ SettledOrCovered' = [SettledOrCovered EXCEPT ![s] = SettledOrCovered'[s]]
      /\ failed' = [failed EXCEPT ![s] = failed'[s]]
      /\ Writing' = [Writing EXCEPT ![s] = Writing'[s]]
  <2>1. \A t \in Sessions : t # s =>
          /\ Larger(Settled(t)', over'[t]) = Larger(Settled(t), over[t])
          /\ failed'[t] = failed[t] /\ req'[t].snap = req[t].snap
    BY DEF Stays, Settled
  <2>2. failed \in [Sessions -> Nat] /\ failed' \in [Sessions -> Nat]
    BY <1>1 DEF TypeOK
  <2> QED  BY <2>1, <2>2 DEF SettledOrCovered, Writing
<1>4. Writing'[s] = Writing[s] \/ Writing[s] <= SettledOrCovered'[s] \/ Writing[s] <= failed'[s]
  <2>1. /\ landed'[s] \in Nat /\ dropped'[s] \in Nat /\ over'[s] \in Nat
        /\ req[s].snap \in Nat
    BY <1>1, NothingTypes DEF TypeOK
  <2> QED  BY <2>1 DEF Grows, SettledOrCovered, Writing, Settled, Larger
<1>5. ASSUME NEW c \in Calls
      PROVE  \/ done'[c] = done[c]
             \/ /\ done[c] = "empty" /\ target[c] = s
                /\ \/ done'[c] = "ok" /\ want[c] <= SettledOrCovered'[s]
                   \/ done'[c] = "fail" /\ want[c] <= failed'[s]
  <2>1. target' = target /\ want' = want
    BY DEF CallsWait
  <2>2. SettledOrCovered'[s] = Larger(Settled(s)', over'[s])
    BY DEF SettledOrCovered
  <2> QED  BY <1>1, <2>1, <2>2 DEF AnswersComeFrom, SuccessIsBacked, FailureIsReal, Settled
<1> QED  BY <1>2, <1>3, <1>4, <1>5 DEF Queue!Advance, CallsWait

\* What the abstract queue sees of the sessions.
SessionView == <<enqueued, SettledOrCovered, failed, Writing>>

\* An enqueue is an enqueue; every other step of a session advances.
LEMMA SessionStepMaps ==
  ASSUME RInv, RInv', NEW s \in Sessions, SessionStep(s)
  PROVE  Queue!Enqueue(s) \/ Queue!Advance(s)
<1>1. CASE SnapshotEnqueued(s)
  BY <1>1 DEF SnapshotEnqueued, Queue!Enqueue, SettledOrCovered, Settled, Writing, marks, drain,
     store, rest, calls, asking, ended, ghosts
<1>2. CASE ~SnapshotEnqueued(s)
  <2>1. enqueued' = enqueued
    BY <1>2, AsideFrame DEF SessionStep, Quiet, Take, Record, SyncMark, Wake, WriteLands, WriteDropped,
       WriteFails, Retire, SnapshotTaken, SnapshotRefused, SnapshotNotified, AsideKeeps, Reconcile, SyncBegin, SyncCommit, SyncRefused, turn
  <2> QED  BY <2>1, SessionMoves, MapsToAdvance DEF RInv
<1> QED  BY <1>1, <1>2

\* A caller's step leaves the abstract sessions alone.
LEMMA CallerView ==
  ASSUME NEW c \in Calls, CallStep(c)
  PROVE  UNCHANGED SessionView
<1>1. UNCHANGED <<enqueued, landed, dropped, over, failed, req>>
  BY DEF CallStep, Flush, FlushAllRegisters, CallNotify, Answered, TimesOut, FlushAllBegins,
     FlushAllScans, FlushAllRescans, worker, drain, store, turn, ended, ghosts
<1> QED  BY <1>1 DEF SessionView, SettledOrCovered, Settled, Writing

\* Registering a barrier is asking.
LEMMA RegisterMaps ==
  ASSUME NEW c \in Calls, NEW s \in Sessions, Register(c, s), result[c] = "none",
         result' = result, UNCHANGED SessionView
  PROVE  Queue!Ask(c, s)
BY DEF Register, Queue!Ask, SessionView

\* The steps of a caller ask, return, or are invisible.
LEMMA CallerStepMaps ==
  ASSUME RInv, RInv', NEW c \in Calls, CallStep(c)
  PROVE  \/ Queue!Return(c)
         \/ \E s \in Sessions : Queue!Ask(c, s) \/ Queue!FindNothing(c, s)
         \/ UNCHANGED Queue!vars
<1> USE DEF worker, reg, marks, drain, store, turn, rest, calls, asking, ended, ghosts
<1>1. UNCHANGED SessionView /\ TypeOK /\ IInv
  BY CallerView DEF RInv, IInv
<1>2. result[c] = "none"
  BY <1>1, CallerChanges DEF RInv, ReturnsOnce
<1>3. ASSUME NEW s \in Sessions, NEW n \in Nat, n <= Larger(Settled(s), failed[s])
      PROVE  n <= SettledOrCovered[s] \/ n <= failed[s]
  <2>1. /\ landed[s] \in Nat /\ dropped[s] \in Nat /\ over[s] \in Nat /\ failed[s] \in Nat
    BY <1>1 DEF TypeOK
  <2> QED  BY <1>3, <2>1 DEF SettledOrCovered, Settled, Larger
<1>4. ASSUME NEW s \in Sessions, Flush(c, s) PROVE Queue!Ask(c, s) \/ Queue!FindNothing(c, s)
  <2>1. CASE registered[s]
    BY <1>1, <1>2, <1>4, <2>1, RegisterMaps DEF Flush
  <2>2. CASE ~registered[s]
    <3>1. enqueued[s] \in Nat /\ enqueued[s] <= Larger(Settled(s), failed[s])
      BY <1>1, <2>2, RetiredSlot DEF TypeOK
    <3>2. Queue!Ended(s, enqueued[s])
      BY <1>3, <3>1 DEF Queue!Ended
    <3> QED  BY <1>1, <1>2, <1>4, <2>2, <3>2 DEF Flush, Queue!FindNothing, SessionView
  <2> QED  BY <2>1, <2>2
<1>5. ASSUME NEW s \in Sessions, FlushAllRegisters(c, s)
      PROVE  Queue!Ask(c, s) \/ UNCHANGED Queue!vars
  <2>1. Register(c, s) \/ UNCHANGED <<target, done, want>>
    BY <1>5 DEF FlushAllRegisters
  <2>2. result' = result
    BY <1>5 DEF FlushAllRegisters
  <2> QED  BY <1>1, <1>2, <2>1, <2>2, RegisterMaps DEF Queue!vars, SessionView
<1>6. CASE CallNotify(c)  BY <1>1, <1>6 DEF CallNotify, Queue!vars, SessionView
<1>7. CASE Answered(c)
  <2>1. result' = result \/ (done[c] # "empty" /\ result' = [result EXCEPT ![c] = done[c]])
    BY <1>7 DEF Answered
  <2>2. UNCHANGED <<target, want, done>>
    BY <1>7 DEF Answered
  <2> QED  BY <1>1, <1>2, <2>1, <2>2 DEF Queue!Return, Queue!vars, SessionView
<1>8. CASE TimesOut(c)  BY <1>1, <1>2, <1>8 DEF TimesOut, Queue!Return, SessionView
<1>9. CASE FlushAllBegins(c)  BY <1>1, <1>9 DEF FlushAllBegins, Queue!vars, SessionView
<1>10. CASE FlushAllScans(c)
  <2>1. CASE Holding = {}
    <3>1. ASSUME NEW s \in Sessions
          PROVE  Queue!Ended(s, enqueued[s]) \/ Writing[s] = enqueued[s]
      <4>1. pending[s] = NoReq
        BY <1>1, <2>1, Unpacked DEF Holding, RetiredIsEmpty
      <4>2. enqueued[s] \in Nat
        BY <1>1 DEF TypeOK
      <4> QED  BY <1>1, <1>3, <4>1, <4>2, EmptySlot DEF Queue!Ended, Writing
    <3>2. result' = [result EXCEPT ![c] = "nil"] /\ UNCHANGED <<target, want, done>>
      BY <1>10, <2>1 DEF FlushAllScans
    <3> QED  BY <1>1, <1>2, <3>1, <3>2 DEF Queue!Return, SessionView
  <2>2. CASE Holding # {}
    BY <1>1, <1>10, <2>2 DEF FlushAllScans, Queue!vars, SessionView
  <2> QED  BY <2>1, <2>2
<1>11. CASE FlushAllRescans(c)  BY <1>1, <1>11 DEF FlushAllRescans, Queue!vars, SessionView
<1> QED
  BY <1>4, <1>5, <1>6, <1>7, <1>8, <1>9, <1>10, <1>11 DEF CallStep

\* The live writer implements SaveQueue: to the callers of SaveAsync, Flush and
\* FlushAll its workers, sequence numbers, coalescing and retirement are a
\* queue that forgets nothing and answers truthfully.
THEOREM ImplementsQueue == Spec => QueueSpec
<1>1. Init => Queue!Init
  BY SlotFields DEF Init, Queue!Init, SettledOrCovered, Settled, Larger, Writing
<1>2. RInv /\ RInv' /\ [Next]_vars => [Queue!Next]_(Queue!vars)
  <2> SUFFICES ASSUME RInv, RInv', [Next]_vars PROVE [Queue!Next]_(Queue!vars)
    OBVIOUS
  <2>1. CASE UNCHANGED vars
    BY <2>1 DEF vars, worker, reg, marks, drain, store, turn, rest, calls, asking, ended, ghosts,
       Queue!vars, SettledOrCovered, Settled, Writing
  <2>2. CASE Next
    BY <2>2, NextSplit, SessionStepMaps, CallerStepMaps DEF Queue!Next
  <2> QED  BY <2>1, <2>2
<1> QED  BY <1>1, <1>2, StrongerInductive, PTL DEF Spec, QueueSpec, Queue!Spec

=============================================================================
