---------------------------- MODULE SessionTurns ----------------------------
(***************************************************************************)
(* The turns of one session of the server (internal/server): how a user's  *)
(* message becomes a row of the stored transcript, waits in the session's  *)
(* pending queue, and is turned by the resident agent.                     *)
(*                                                                         *)
(* Actors.  A turn job per message sent (executeTurnJob, under the         *)
(* session's turn lock); a queue request per message queued on a busy      *)
(* session (enqueueQueuedMessage, without that lock); the queue drainer;   *)
(* the live writer of module LiveWriter, reduced to its two buffers; Stop  *)
(* and Close; the idle sweep.  Every action is one critical section of     *)
(* cancelMu, turnMu, drainMu, the registry's mutex, as.mu or one SQLite    *)
(* transaction.                                                            *)
(*                                                                         *)
(* Pointers.  A job takes the turn lock of the map's present mutex, and    *)
(* turns on the agent it found or built.  A release deletes both from      *)
(* their maps, whoever holds them: locks and agents have identities here,  *)
(* and a job keeps its own.                                                *)
(*                                                                         *)
(* Data.  A message is its sender's request, so texts are distinct.  A     *)
(* stored row is a user row with its user_seq or the reply of a message's  *)
(* turn; a turn produces at most one reply row.  No row is a permission or *)
(* question ask, so the loader's filtered view is the stored transcript.   *)
(***************************************************************************)
EXTENDS SequencesExt

CONSTANTS
  Sends,      \* messages posted to the session: one turn job each
  Queued,     \* messages sent by queue requests
  Drain,      \* the turn job the drainer dispatches
  None,       \* no job, no message
  QueueCap,   \* maxQueuedMessages
  MaxStops,   \* bound: Stop and Close requests
  MaxEvicts,  \* bound: sweeps of the idle evictor that pick this session
  MaxFaults   \* bound: failed writes, failed bootstraps and failed model calls

ASSUME MessagesAssumption == /\ IsFiniteSet(Sends \cup Queued)
                             /\ Sends \cap Queued = {}
                             /\ Drain \notin Sends \cup Queued
                             /\ None \notin Sends \cup Queued \cup {Drain}
ASSUME CapsAssumption == /\ QueueCap \in Nat \ {0} /\ MaxStops \in Nat
                         /\ MaxEvicts \in Nat /\ MaxFaults \in Nat

Messages == Sends \cup Queued
Jobs == Sends \cup {Drain}

VARIABLES
  disk,          \* the stored rows
  pending,       \* sessionEntry.pending: persisted, not yet turned
  \* --- the agents
  resident,      \* the registered agent, or 0
  agents,        \* per agent: transcript, stop channel, was it saved?
  active,        \* sessionEntry.turnActive
  closePending,  \* Handler.closePending[id]
  \* --- the live writer
  slot, taken,   \* the snapshot in its slot, the one it is writing (or <<>>)
  \* --- the turn jobs
  pc,            \* where each job is
  turn,          \* its local variables, its lock and its agent among them
  lock,          \* the mutex that turnLocks[id] holds
  \* --- queue requests and their drainer
  request,       \* where each queue request is
  drainer,       \* where the drainer goroutine is
  before,        \* the queue's length when it dispatched
  kick,          \* queueDrainState.kick
  \* --- Stop, Close, the idle sweep
  stopFlag,      \* Handler.pendingCancel[id]
  stopper,       \* where the Stop or Close request is, and what it captured
  evictor,       \* where the sweep is, and the agent it picked
  \* --- bounds and history variables
  stops, evicts, faults,
  acked,         \* messages whose sender got its 202
  turned,        \* messages in the order their turns began
  overlapped     \* were two jobs past their locks at once?

agent   == <<resident, agents, active, closePending>>
live    == <<slot, taken>>
jobs    == <<pc, turn, lock>>
queue   == <<request, drainer, before, kick>>
control == <<stopFlag, stopper, evictor>>
bounds  == <<stops, evicts, faults>>
ghosts  == <<acked, turned, overlapped>>
vars == <<disk, pending, agent, live, jobs, queue, control, bounds, ghosts>>

Row == [by : {"user"}, msg : Messages, seq : Nat \ {0}]
         \cup [by : {"agent"}, msg : Messages, seq : {0}]
UserRow(m, n) == [by |-> "user", msg |-> m, seq |-> n]
Reply(m) == [by |-> "agent", msg |-> m, seq |-> 0]

\* NextUserSeq, and the MAX(user_seq) + 1 of appendUserMessageTail: reply rows
\* carry 0.
NextUserSeq(rows) == 1 + Max({0} \cup {rows[i].seq : i \in DOMAIN rows})

\* Identities of agents: as many as there can be pointers.  A lock is numbered
\* by the releases that dropped one in use.  0 stands for none.
Agents == 1 .. (Cardinality(Jobs) + 1)
NoAgent == [mem |-> <<>>, stopped |-> FALSE, saved |-> TRUE]

NoTurn == [lock |-> 0, agent |-> 0, msg |-> None, base |-> 0, resp |-> <<>>,
           err |-> FALSE, found |-> <<>>]

InFlight == \E j \in Jobs : pc[j] \notin {"new", "done"}   \* turnInFlight[id] > 0
Busy == InFlight \/ active                                 \* pulseSessionBusy
WorkRemains == pending # <<>> /\ resident # 0              \* queueWorkRemains

\* The jobs that hold a turn lock.
Running == {j \in Jobs : pc[j] \notin {"new", "dispatched", "waiting", "finishing", "done"}}

\* The places of a job between runTurn's lock and unlock of as.mu.
InTurn == {"begun", "stepping", "saving", "merging", "merged", "resyncing", "ending"}

Init ==
  /\ disk = <<>> /\ pending = <<>>
  /\ resident = 0 /\ agents = [a \in Agents |-> NoAgent] /\ active = FALSE
  /\ closePending = FALSE
  /\ slot = <<>> /\ taken = <<>>
  /\ pc = [j \in Jobs |-> "new"] /\ turn = [j \in Jobs |-> NoTurn] /\ lock = 1
  /\ request = [q \in Queued |-> "new"]
  /\ drainer = "off" /\ before = 0 /\ kick = FALSE
  /\ stopFlag = FALSE /\ evictor = [at |-> "idle", agent |-> 0]
  /\ stopper = [at |-> "idle", active |-> FALSE, closing |-> FALSE]
  /\ stops = 0 /\ evicts = 0 /\ faults = 0
  /\ acked = {} /\ turned = <<>> /\ overlapped = FALSE

-----------------------------------------------------------------------------
(* The pure parts. *)

\* Mutant of StripLen: nothing is withheld.
StripLenNever(history, contents) == 0

\* pendingStripLen: how many trailing rows of a loaded history are the newest
\* entries of the pending queue, matched by content from the tail.
StripLen(history, contents) ==
  Max({n \in 0..Len(history) :
         /\ n <= Len(contents)
         /\ \A k \in 0..(n - 1) :
              LET row == history[Len(history) - k]
              IN  row.by = "user" /\ row.msg = contents[Len(contents) - k]})

\* rebaseAppend's guard: the first base rows of ours are stored.
BaseStored(stored, ours, base) ==
  /\ base <= Len(stored)
  /\ SubSeq(stored, 1, base) = SubSeq(ours, 1, base)

\* Mutant of MergeAppend: the whole suffix is appended, matched or not.
MergeAppendAll(stored, ours, base) == stored \o SubSeq(ours, base + 1, Len(ours))

\* mergeAppend: every stored row is kept.  The rows of ours after the base that
\* stand among the stored rows behind it, in the same order, are stored; the
\* rest follows.
AlreadyStored(stored, ours, base) ==
  Max({n \in base..Len(ours) :
         \E at \in [base + 1 .. n -> base + 1 .. Len(stored)] :
           \A i, k \in base + 1 .. n :
             stored[at[i]] = ours[i] /\ (i < k => at[i] < at[k])})

MergeAppend(stored, ours, base) ==
  stored \o SubSeq(ours, AlreadyStored(stored, ours, base) + 1, Len(ours))

\* The loop that counts them: each stored row consumes the next row of ours if
\* it is that row.
Consumed(stored, ours, base) ==
  LET Consume(next, row) ==
        IF next < Len(ours) /\ row = ours[next + 1] THEN next + 1 ELSE next
  IN  FoldLeft(Consume, base, SubSeq(stored, base + 1, Len(stored)))

\* Mutant of Storable: the overlap with the stored rows is not compared.
StorableByLength(rows) == Len(disk) <= Len(rows)

\* appendSqliteSessionOnce without replace: a transcript is stored when the
\* stored rows are a prefix of it.  Otherwise a synchronous save conflicts and
\* a live snapshot is dropped.
Storable(rows) == IsPrefix(disk, rows)

\* Moves job j from one place to the next.
Goes(j, from, to) == pc[j] = from /\ pc' = [pc EXCEPT ![j] = to]

\* The transcript of j's agent, agentSession.messages.
Mem(j) == agents[turn[j].agent].mem

-----------------------------------------------------------------------------
(* A turn job: dispatchTurn, executeTurnJob, runTurn. *)

\* dispatchTurn for a posted message: the job is counted in turnInFlight
\* before its goroutine starts.
Dispatch(j) ==
  /\ j \in Sends /\ Goes(j, "new", "dispatched")
  /\ UNCHANGED <<disk, pending, agent, live, turn, lock, queue, control, bounds, ghosts>>

\* sessionTurnLock: the mutex that the map holds now.
Fetches(j) ==
  /\ Goes(j, "dispatched", "waiting")
  /\ turn' = [turn EXCEPT ![j].lock = lock]
  /\ UNCHANGED <<disk, pending, agent, live, lock, queue, control, bounds, ghosts>>

\* Mutant of Locks: the mutex excludes nobody.
LocksAnyway(j) ==
  /\ Goes(j, "waiting", IF j = Drain THEN "starting" ELSE "persisting")
  /\ overlapped' = (overlapped \/ Running # {})
  /\ UNCHANGED <<disk, pending, agent, live, turn, lock, queue, control, bounds, acked, turned>>

\* executeTurnJob takes that mutex.  The drainer's job has no message of its
\* own to persist (drainPending).
Locks(j) ==
  /\ \A i \in Running : turn[i].lock # turn[j].lock
  /\ Goes(j, "waiting", IF j = Drain THEN "starting" ELSE "persisting")
  /\ overlapped' = (overlapped \/ Running # {})
  /\ UNCHANGED <<disk, pending, agent, live, turn, lock, queue, control, bounds, acked, turned>>

\* persistUserMessage: appendUserMessageTail inserts at the tail of the
\* stored rows whatever they are.
Persists(j) ==
  /\ Goes(j, "persisting", "pushing")
  /\ disk' = Append(disk, UserRow(j, NextUserSeq(disk)))
  /\ UNCHANGED <<pending, agent, live, turn, lock, queue, control, bounds, ghosts>>

\* Mutant of PersistFails: the error is not returned.
PersistFailsSilently(j) ==
  /\ Goes(j, "persisting", "pushing")
  /\ faults < MaxFaults /\ faults' = faults + 1
  /\ UNCHANGED <<disk, pending, agent, live, turn, lock, queue, control, stops, evicts, ghosts>>

\* persistUserMessage fails: the sender gets the error and the job leaves.
PersistFails(j) ==
  /\ Goes(j, "persisting", "leaving")
  /\ faults < MaxFaults /\ faults' = faults + 1
  /\ UNCHANGED <<disk, pending, agent, live, turn, lock, queue, control, stops, evicts, ghosts>>

\* Mutant of Pushes: the message enters the queue at its front.
PushesInFront(j) ==
  /\ Goes(j, "pushing", "starting")
  /\ pending' = <<j>> \o pending
  /\ acked' = acked \cup {j}
  /\ UNCHANGED <<disk, agent, live, turn, lock, queue, control, bounds, turned, overlapped>>

\* PushPending, then the sender's 202.
Pushes(j) ==
  /\ Goes(j, "pushing", "starting")
  /\ pending' = Append(pending, j)
  /\ acked' = acked \cup {j}
  /\ UNCHANGED <<disk, agent, live, turn, lock, queue, control, bounds, turned, overlapped>>

\* Mutant of Starts: a cancelled job shifts its message away.
StartsShifting(j) ==
  /\ Goes(j, "starting", IF stopFlag THEN "leaving"
                         ELSE IF resident # 0 THEN "ready" ELSE "loading")
  /\ pending' = IF stopFlag /\ pending # <<>> THEN Tail(pending) ELSE pending
  /\ turn' = [turn EXCEPT ![j].agent = IF stopFlag THEN 0 ELSE resident]
  /\ stopFlag' = FALSE
  /\ UNCHANGED <<disk, agent, live, lock, queue, stopper, evictor, bounds, ghosts>>

\* The first consumePendingCancel: a cancelled job leaves its message pending.
\* Otherwise lookupAgentSession decides whether to bootstrap.
Starts(j) ==
  /\ Goes(j, "starting", IF stopFlag THEN "leaving"
                         ELSE IF resident # 0 THEN "ready" ELSE "loading")
  /\ turn' = [turn EXCEPT ![j].agent = IF stopFlag THEN 0 ELSE resident]
  /\ stopFlag' = FALSE
  /\ UNCHANGED <<disk, pending, agent, live, lock, queue, stopper, evictor, bounds, ghosts>>

\* bootstrapEntryAgent reads the stored transcript...
Loads(j) ==
  /\ Goes(j, "loading", "building")
  /\ turn' = [turn EXCEPT ![j].found = disk]
  /\ UNCHANGED <<disk, pending, agent, live, lock, queue, control, bounds, ghosts>>

\* ...withholds the rows of the queue as it is now, and registers the agent,
\* or takes the one that another job registered meanwhile.
Builds(j) ==
  LET found == turn[j].found
      fresh == CHOOSE a \in Agents : a \notin {resident, evictor.agent} \cup {turn[i].agent : i \in Jobs}
  IN  /\ Goes(j, "building", "built")
      /\ resident' = IF resident = 0 THEN fresh ELSE resident
      /\ agents' = IF resident # 0 THEN agents
                   ELSE [agents EXCEPT ![fresh].mem =
                           SubSeq(found, 1, Len(found) - StripLen(found, pending))]
      /\ turn' = [turn EXCEPT ![j].agent = resident', ![j].found = <<>>]
      /\ UNCHANGED <<disk, pending, active, closePending, live, lock, queue, control, bounds, ghosts>>

\* The load or the build of the agent fails: the message stays pending.
BootstrapFails(j) ==
  /\ pc[j] \in {"loading", "building"} /\ Goes(j, pc[j], "leaving")
  /\ faults < MaxFaults /\ faults' = faults + 1
  /\ stopFlag' = FALSE
  /\ turn' = [turn EXCEPT ![j].found = <<>>]
  /\ UNCHANGED <<disk, pending, agent, live, lock, queue, stopper, evictor, stops, evicts, ghosts>>

\* The cancel checks after the bootstrap and after reconcileProfileAgent both
\* close the agent's stop channel.
ChecksCancel(j) ==
  /\ \/ Goes(j, "built", IF stopFlag THEN "leaving" ELSE "ready")
     \/ Goes(j, "ready", IF stopFlag THEN "leaving" ELSE "draining")
  /\ agents' = [agents EXCEPT ![turn[j].agent].stopped = @ \/ stopFlag]
  /\ stopFlag' = FALSE
  /\ UNCHANGED <<disk, pending, resident, active, closePending, live, turn, lock, queue, stopper, evictor, bounds, ghosts>>

\* The head of the drain loop: nothing is to be turned, because the queue is
\* empty or a Stop arrived between two items...
StopsDraining(j) ==
  /\ Goes(j, "draining", "leaving")
  /\ pending = <<>> \/ stopFlag
  /\ stopFlag' = (stopFlag /\ pending = <<>>)
  /\ UNCHANGED <<disk, pending, agent, live, turn, lock, queue, stopper, evictor, bounds, ghosts>>

\* ...or PendingFront is the next item.
Picks(j) ==
  /\ Goes(j, "draining", "picked")
  /\ pending # <<>> /\ ~stopFlag
  /\ turn' = [turn EXCEPT ![j].msg = Head(pending)]
  /\ UNCHANGED <<disk, pending, agent, live, lock, queue, control, bounds, ghosts>>

\* runTurn takes as.mu, appends the message to the transcript, marks the turn
\* active and enqueues the first live snapshot.
Begins(j) ==
  LET a == turn[j].agent
      m == turn[j].msg
  IN  /\ Goes(j, "picked", "begun")
      /\ \A i \in Jobs : ~(pc[i] \in InTurn /\ turn[i].agent = a)
      /\ agents' = [agents EXCEPT ![a].mem = Append(@, UserRow(m, NextUserSeq(@))),
                                  ![a].saved = FALSE]
      /\ turn' = [turn EXCEPT ![j].base = Len(Mem(j)) + 1]
      /\ turned' = Append(turned, m)
      /\ active' = TRUE
      /\ slot' = agents'[a].mem
      /\ UNCHANGED <<disk, pending, resident, closePending, taken, lock, queue, control, bounds, acked, overlapped>>

\* ResetCancellation: a stop channel closed so far is replaced.
Resets(j) ==
  /\ Goes(j, "begun", "stepping")
  /\ agents' = [agents EXCEPT ![turn[j].agent].stopped = FALSE]
  /\ UNCHANGED <<disk, pending, resident, active, closePending, live, turn, lock, queue, control, bounds, ghosts>>

\* Mutant of Replies: the live view starts from the rows before the turn's
\* user message.
RepliesWithoutBase(j) ==
  /\ pc[j] = "stepping" /\ turn[j].resp = <<>>
  /\ turn' = [turn EXCEPT ![j].resp = <<Reply(turn[j].msg)>>]
  /\ slot' = Append(SubSeq(Mem(j), 1, turn[j].base - 1), Reply(turn[j].msg))
  /\ UNCHANGED <<disk, pending, agent, taken, pc, lock, queue, control, bounds, ghosts>>

\* Step completes a message: OnMessage streams it and enqueues a snapshot.
Replies(j) ==
  /\ pc[j] = "stepping" /\ turn[j].resp = <<>>
  /\ turn' = [turn EXCEPT ![j].resp = <<Reply(turn[j].msg)>>]
  /\ slot' = Append(Mem(j), Reply(turn[j].msg))
  /\ UNCHANGED <<disk, pending, agent, taken, pc, lock, queue, control, bounds, ghosts>>

\* Step returns: with its messages, or with an error after a Stop or a failed
\* model call.  Both keep what it produced (commitPartialTranscript).
Returns(j) ==
  LET a == turn[j].agent
  IN  /\ Goes(j, "stepping", "saving")
      /\ turn[j].resp # <<>> \/ agents[a].stopped
      /\ agents' = [agents EXCEPT ![a].mem = @ \o turn[j].resp]
      /\ turn' = [turn EXCEPT ![j].err = agents[a].stopped]
      /\ UNCHANGED <<disk, pending, resident, active, closePending, live, lock, queue, control, bounds, ghosts>>

StepFails(j) ==
  /\ Goes(j, "stepping", "saving")
  /\ faults < MaxFaults /\ faults' = faults + 1
  /\ agents' = [agents EXCEPT ![turn[j].agent].mem = @ \o turn[j].resp]
  /\ turn' = [turn EXCEPT ![j].err = TRUE]
  /\ UNCHANGED <<disk, pending, resident, active, closePending, live, lock, queue, control, stops, evicts, ghosts>>

\* persistTurnTranscript: the turn's first save.
Saves(j) ==
  /\ Goes(j, "saving", IF Storable(Mem(j)) THEN "ending" ELSE "merging")
  /\ disk' = IF Storable(Mem(j)) THEN Mem(j) ELSE disk
  /\ agents' = [agents EXCEPT ![turn[j].agent].saved = Storable(Mem(j))]
  /\ UNCHANGED <<pending, resident, active, closePending, live, turn, lock, queue, control, bounds, ghosts>>

\* The save fails for another reason than a conflict: it is logged.
SaveFails(j) ==
  /\ pc[j] \in {"saving", "merged"} /\ Goes(j, pc[j], "ending")
  /\ faults < MaxFaults /\ faults' = faults + 1
  /\ UNCHANGED <<disk, pending, agent, live, turn, lock, queue, control, stops, evicts, ghosts>>

\* A conflict: the raw rows are loaded, outside any lock, and the turn is
\* rebased on them unless its base is not stored.
Merges(j) ==
  LET fits == BaseStored(disk, Mem(j), turn[j].base)
  IN  /\ Goes(j, "merging", IF fits THEN "merged" ELSE "resyncing")
      /\ turn' = [turn EXCEPT ![j].found = IF fits THEN disk ELSE <<>>]
      /\ UNCHANGED <<disk, pending, agent, live, lock, queue, control, bounds, ghosts>>

\* Mutant of SavesMerged: the merged rows are not adopted.
SavesMergedKeepingMemory(j) ==
  LET rows == MergeAppend(turn[j].found, Mem(j), turn[j].base)
  IN  /\ Goes(j, "merged", IF Storable(rows) THEN "ending" ELSE "merging")
      /\ disk' = IF Storable(rows) THEN rows ELSE disk
      /\ agents' = [agents EXCEPT ![turn[j].agent].saved = Storable(rows)]
      /\ turn' = [turn EXCEPT ![j].found = <<>>]
      /\ UNCHANGED <<pending, resident, active, closePending, live, lock, queue, control, bounds, ghosts>>

\* The merged rows are saved, or conflict with a row stored since the load:
\* another attempt.
SavesMerged(j) ==
  LET rows == MergeAppend(turn[j].found, Mem(j), turn[j].base)
  IN  /\ Goes(j, "merged", IF Storable(rows) THEN "ending" ELSE "merging")
      /\ disk' = IF Storable(rows) THEN rows ELSE disk
      /\ agents' = [agents EXCEPT ![turn[j].agent].mem = IF Storable(rows) THEN rows ELSE @,
                                  ![turn[j].agent].saved = Storable(rows)]
      /\ turn' = [turn EXCEPT ![j].found = <<>>]
      /\ UNCHANGED <<pending, resident, active, closePending, live, lock, queue, control, bounds, ghosts>>

\* The base diverged: the transcript converges to the stored rows, what the
\* turn produced is dropped, and the agent is marked for release.
Resyncs(j) ==
  /\ Goes(j, "resyncing", "ending")
  /\ agents' = [agents EXCEPT ![turn[j].agent].mem = disk, ![turn[j].agent].saved = TRUE]
  /\ closePending' = TRUE
  /\ UNCHANGED <<disk, pending, resident, active, live, turn, lock, queue, control, bounds, ghosts>>

\* runTurn's deferred calls: the turn is no longer active, as.mu is free.
Ends(j) ==
  /\ Goes(j, "ending", "shifting")
  /\ active' = FALSE
  /\ UNCHANGED <<disk, pending, resident, agents, closePending, live, turn, lock, queue, control, bounds, ghosts>>

\* What a job keeps between two items.
Keeps(j) == [NoTurn EXCEPT !.lock = turn[j].lock, !.agent = turn[j].agent]
Failed(j) == turn[j].err \/ agents[turn[j].agent].stopped

\* Mutant of Shifts: only a turn that succeeded is shifted.
ShiftsOnSuccess(j) ==
  /\ Goes(j, "shifting", IF Failed(j) \/ stopFlag THEN "leaving" ELSE "draining")
  /\ pending' = IF pending = <<>> \/ turn[j].err THEN pending ELSE Tail(pending)
  /\ stopFlag' = FALSE
  /\ turn' = [turn EXCEPT ![j] = Keeps(j)]
  /\ UNCHANGED <<disk, agent, live, lock, queue, stopper, evictor, bounds, ghosts>>

\* ShiftPending drops the front of the queue.  A turn that failed or was
\* stopped ends the job; otherwise the flag is checked before the next item.
Shifts(j) ==
  /\ Goes(j, "shifting", IF Failed(j) \/ stopFlag THEN "leaving" ELSE "draining")
  /\ pending' = IF pending = <<>> THEN <<>> ELSE Tail(pending)
  /\ stopFlag' = FALSE
  /\ turn' = [turn EXCEPT ![j] = Keeps(j)]
  /\ UNCHANGED <<disk, agent, live, lock, queue, stopper, evictor, bounds, ghosts>>

\* onEvict deletes the session's mutex from its map: whoever comes next makes
\* another one.  While nobody else has the old one that changes nothing.
DropsLock(js) == IF \E i \in js : turn[i].lock = lock THEN lock + 1 ELSE lock

\* ReleaseAgent and EvictIdle detach the resident agent and call onEvict, which
\* shuts it down.  An agent that none of the jobs js works with is forgotten.
Release(js, detached) ==
  LET gone(a) == detached /\ a = resident
      used(a) == \E i \in js : turn[i].agent = a
  IN  /\ resident' = IF detached THEN 0 ELSE resident
      /\ agents' = [a \in Agents |->
                      IF used(a) THEN [agents[a] EXCEPT !.stopped = @ \/ gone(a)]
                      ELSE IF a = resident /\ ~detached THEN agents[a] ELSE NoAgent]
      /\ lock' = IF detached THEN DropsLock(js) ELSE lock

\* The deferred drainPendingClose: ReleaseAgent refuses during a turn, and the
\* marker stays.  Then the turn lock is released.
Leaves(j) ==
  /\ Goes(j, "leaving", "finishing")
  /\ Release(Jobs \ {j}, closePending /\ resident # 0 /\ ~active)
  /\ closePending' = (closePending /\ resident # 0 /\ active)
  /\ turn' = [turn EXCEPT ![j] = NoTurn]
  /\ UNCHANGED <<disk, pending, active, live, queue, control, bounds, ghosts>>

\* releaseTurnInFlight: the last job in flight clears the flag.
Finishes(j) ==
  /\ Goes(j, "finishing", IF j = Drain THEN "new" ELSE "done")
  /\ stopFlag' = (stopFlag /\ \E i \in Jobs \ {j} : pc[i] \notin {"new", "done"})
  /\ UNCHANGED <<disk, pending, agent, live, turn, lock, queue, stopper, evictor, bounds, ghosts>>

JobStep(j) ==
  \/ Fetches(j) \/ Locks(j) \/ Persists(j) \/ Pushes(j) \/ Starts(j)
  \/ Loads(j) \/ Builds(j) \/ ChecksCancel(j)
  \/ StopsDraining(j) \/ Picks(j) \/ Begins(j) \/ Resets(j) \/ Replies(j) \/ Returns(j)
  \/ Saves(j) \/ Merges(j) \/ SavesMerged(j) \/ Resyncs(j)
  \/ Ends(j) \/ Shifts(j) \/ Leaves(j) \/ Finishes(j)

JobFault(j) == PersistFails(j) \/ BootstrapFails(j) \/ StepFails(j) \/ SaveFails(j)

-----------------------------------------------------------------------------
(* The live writer's worker (module LiveWriter has its protocol). *)

Takes ==
  /\ slot # <<>> /\ taken = <<>>
  /\ taken' = slot /\ slot' = <<>>
  /\ UNCHANGED <<disk, pending, agent, jobs, queue, control, bounds, ghosts>>

\* A snapshot that does not extend the stored rows is dropped.
Writes ==
  /\ taken # <<>>
  /\ disk' = IF Storable(taken) THEN taken ELSE disk
  /\ taken' = <<>>
  /\ UNCHANGED <<pending, agent, slot, jobs, queue, control, bounds, ghosts>>

-----------------------------------------------------------------------------
(* A queue request: enqueueQueuedMessage. *)

Moves(q, from, to) == request[q] = from /\ request' = [request EXCEPT ![q] = to]

\* TryPushPending reserves the slot in the queue of a session that has a
\* resident agent.
Reserves(q) ==
  /\ resident # 0 /\ Len(pending) < QueueCap
  /\ Moves(q, "new", "persisting")
  /\ pending' = Append(pending, q)
  /\ UNCHANGED <<disk, agent, live, jobs, drainer, before, kick, control, bounds, ghosts>>

Refused(q) ==
  /\ resident = 0 \/ Len(pending) >= QueueCap
  /\ Moves(q, "new", "refused")
  /\ UNCHANGED <<disk, pending, agent, live, jobs, drainer, before, kick, control, bounds, ghosts>>

\* The message is persisted after it is queued, without the turn lock.
PersistsQueued(q) ==
  /\ Moves(q, "persisting", "scheduling")
  /\ disk' = Append(disk, UserRow(q, NextUserSeq(disk)))
  /\ UNCHANGED <<pending, agent, live, jobs, drainer, before, kick, control, bounds, ghosts>>

\* RemovePendingLast: the newest entry with this content leaves the queue.
PersistQueuedFails(q) ==
  /\ Moves(q, "persisting", "failed")
  /\ faults < MaxFaults /\ faults' = faults + 1
  /\ pending' = LET i == SelectLastInSeq(pending, LAMBDA m : m = q)
                IN  IF i = 0 THEN pending ELSE RemoveAt(pending, i)
  /\ UNCHANGED <<disk, agent, live, jobs, drainer, before, kick, control, stops, evicts, ghosts>>

\* scheduleQueueDrain starts the drainer or leaves it a kick; then the 202.
Schedules(q) ==
  /\ Moves(q, "scheduling", "accepted")
  /\ drainer' = IF drainer = "off" THEN "looking" ELSE drainer
  /\ kick' = (drainer # "off")
  /\ acked' = acked \cup {q}
  /\ UNCHANGED <<disk, pending, agent, live, jobs, before, control, bounds, turned, overlapped>>

RequestStep(q) == Reserves(q) \/ Refused(q) \/ PersistsQueued(q) \/ Schedules(q)

-----------------------------------------------------------------------------
(* The drainer: runQueueDrainer, retireQueueDrainer. *)

\* Mutant of Looks: a busy session's job is trusted to drain the queue.
LooksOnce ==
  /\ drainer = "looking"
  /\ drainer' = IF WorkRemains /\ ~Busy THEN "dispatching" ELSE "retiring"
  /\ before' = IF WorkRemains THEN Len(pending) ELSE before
  /\ UNCHANGED <<disk, pending, agent, live, jobs, request, kick, control, bounds, ghosts>>

\* The head of its loop.  While the session is busy it sleeps and looks again.
Looks ==
  /\ drainer = "looking"
  /\ ~WorkRemains \/ ~Busy
  /\ drainer' = IF WorkRemains THEN "dispatching" ELSE "retiring"
  /\ before' = IF WorkRemains THEN Len(pending) ELSE before
  /\ UNCHANGED <<disk, pending, agent, live, jobs, request, kick, control, bounds, ghosts>>

\* dispatchTurn with refuseIfBusy: a job in flight refuses it.
DispatchesDrain ==
  /\ drainer = "dispatching"
  /\ drainer' = IF InFlight THEN "looking" ELSE "waiting"
  /\ pc' = IF InFlight THEN pc ELSE [pc EXCEPT ![Drain] = "dispatched"]
  /\ UNCHANGED <<disk, pending, agent, live, turn, lock, request, before, kick, control, bounds, ghosts>>

\* The dispatched turn is over; one that consumed nothing ends the drain.
Judges ==
  /\ drainer = "waiting"
  /\ ~WorkRemains \/ ~Busy
  /\ drainer' = IF Len(pending) >= before THEN "retiring" ELSE "looking"
  /\ UNCHANGED <<disk, pending, agent, live, jobs, request, before, kick, control, bounds, ghosts>>

\* retireQueueDrainer, under drainMu: a kick with work left means another pass.
Retires ==
  /\ drainer = "retiring"
  /\ drainer' = IF kick /\ WorkRemains THEN "looking" ELSE "off"
  /\ kick' = FALSE
  /\ before' = 0
  /\ UNCHANGED <<disk, pending, agent, live, jobs, request, control, bounds, ghosts>>

DrainerStep == Looks \/ DispatchesDrain \/ Judges \/ Retires

-----------------------------------------------------------------------------
(* Stop, Close and the idle sweep. *)

\* interruptSessionWork reads turnActive before it takes cancelMu.
StopReads(closing) ==
  /\ stopper.at = "idle"
  /\ stops < MaxStops /\ stops' = stops + 1
  /\ stopper' = [at |-> "read", active |-> active, closing |-> closing]
  /\ UNCHANGED <<disk, pending, agent, live, jobs, queue, stopFlag, evictor, evicts, faults, ghosts>>

\* Under cancelMu: the flag is recorded when a turn or a job can consume it, a
\* stale one is cleared otherwise.
StopRecords ==
  /\ stopper.at = "read"
  /\ LET work == stopper.active \/ InFlight
     IN  /\ stopFlag' = work
         /\ stopper' = [stopper EXCEPT !.active = FALSE,
                          !.at = IF work THEN "cancel" ELSE "interrupted"]
  /\ UNCHANGED <<disk, pending, agent, live, jobs, queue, evictor, bounds, ghosts>>

\* Agent.Cancel closes the resident agent's stop channel.
StopCancels ==
  /\ stopper.at = "cancel"
  /\ agents' = [a \in Agents |-> IF a = resident THEN [agents[a] EXCEPT !.stopped = TRUE]
                                 ELSE agents[a]]
  /\ stopper' = [stopper EXCEPT !.at = "interrupted"]
  /\ UNCHANGED <<disk, pending, resident, active, closePending, live, jobs, queue, stopFlag, evictor, bounds, ghosts>>

\* HandleCancelSession answers; HandleCloseSession calls ReleaseAgent, which
\* refuses during a turn and without an agent, but not while a job is between
\* two turns or before its first.
StopEnds ==
  LET release == stopper.closing /\ resident # 0 /\ ~active
      mark == stopper.closing /\ ~release
  IN  /\ stopper.at = "interrupted"
      /\ Release(Jobs, release)
      /\ stopper' = [stopper EXCEPT !.at = IF mark THEN "mark" ELSE "idle",
                                    !.closing = FALSE]
      /\ UNCHANGED <<disk, pending, active, closePending, live, pc, turn, queue, stopFlag, evictor, bounds, ghosts>>

\* HandleCloseSession marks the session close-pending, under cancelMu.
CloseMarks ==
  /\ stopper.at = "mark"
  /\ closePending' = TRUE
  /\ stopper' = [stopper EXCEPT !.at = "idle"]
  /\ UNCHANGED <<disk, pending, resident, agents, active, live, jobs, queue, stopFlag, evictor, bounds, ghosts>>

\* EvictIdle picks a session without an active turn that has been idle for
\* idleTimeout: minutes, in which no job is in flight...
EvictScans ==
  /\ evictor.at = "idle" /\ resident # 0 /\ ~active /\ ~InFlight
  /\ evicts < MaxEvicts /\ evicts' = evicts + 1
  /\ evictor' = [at |-> "scanned", agent |-> resident]
  /\ UNCHANGED <<disk, pending, agent, live, jobs, queue, stopFlag, stopper, stops, faults, ghosts>>

\* ...looks for an ask under as.mu, which a running turn holds...
EvictChecks ==
  /\ evictor.at = "scanned"
  /\ \A j \in Jobs : ~(pc[j] \in InTurn /\ turn[j].agent = evictor.agent)
  /\ evictor' = [evictor EXCEPT !.at = "checked"]
  /\ UNCHANGED <<disk, pending, agent, live, jobs, queue, stopFlag, stopper, bounds, ghosts>>

\* ...and detaches the agent it picked, if it is still the session's.
EvictDetaches ==
  /\ evictor.at = "checked"
  /\ Release(Jobs, resident = evictor.agent)
  /\ evictor' = [at |-> "idle", agent |-> 0]
  /\ UNCHANGED <<disk, pending, active, closePending, live, pc, turn, queue, stopFlag, stopper, bounds, ghosts>>

ControlStep ==
  \/ StopRecords \/ StopCancels \/ StopEnds \/ CloseMarks
  \/ EvictChecks \/ EvictDetaches

-----------------------------------------------------------------------------

Next ==
  \/ \E j \in Jobs : Dispatch(j) \/ JobStep(j) \/ JobFault(j)
  \/ Takes \/ Writes
  \/ \E q \in Queued : RequestStep(q) \/ PersistQueuedFails(q)
  \/ DrainerStep
  \/ \E closing \in BOOLEAN : StopReads(closing)
  \/ EvictScans \/ ControlStep

\* Goroutines that were started go on; senders, Stop and Close, the sweep and
\* the failures owe nothing.  Lock and the drainer's dispatch compete with
\* other actors for ever only if those keep coming, and they are bounded.
Fairness ==
  /\ \A j \in Jobs : WF_vars(JobStep(j))
  /\ WF_vars(Takes) /\ WF_vars(Writes)
  /\ \A q \in Queued : WF_vars(PersistsQueued(q) \/ Schedules(q))
  /\ WF_vars(DrainerStep) /\ WF_vars(ControlStep)

Spec == Init /\ [][Next]_vars
FairSpec == Spec /\ Fairness

-----------------------------------------------------------------------------
(* Properties. *)

Places == {"new", "dispatched", "waiting", "persisting", "pushing", "starting",
           "loading", "building", "built", "ready", "draining", "picked",
           "shifting", "leaving", "finishing", "done"} \cup InTurn

TypesOfRows ==
  /\ disk \in Seq(Row) /\ slot \in Seq(Row) /\ taken \in Seq(Row)
  /\ pending \in Seq(Messages) /\ turned \in Seq(Messages) /\ acked \subseteq Messages

AgentState == [mem : Seq(Row), stopped : BOOLEAN, saved : BOOLEAN]
TurnState == [lock : Nat, agent : Agents \cup {0}, msg : Messages \cup {None}, base : Nat,
              resp : Seq(Row), err : BOOLEAN, found : Seq(Row)]

TypesOfAgents ==
  /\ resident \in Agents \cup {0} /\ active \in BOOLEAN /\ closePending \in BOOLEAN
  /\ agents \in [Agents -> AgentState]

TypesOfJobs ==
  /\ pc \in [Jobs -> Places] /\ lock \in Nat \ {0} /\ overlapped \in BOOLEAN
  /\ turn \in [Jobs -> TurnState]

TypesOfControl ==
  /\ request \in [Queued -> {"new", "persisting", "scheduling", "accepted", "refused", "failed"}]
  /\ drainer \in {"off", "looking", "dispatching", "waiting", "retiring"}
  /\ before \in Nat /\ kick \in BOOLEAN /\ stopFlag \in BOOLEAN
  /\ stopper \in [at : {"idle", "read", "cancel", "interrupted", "mark"},
                  active : BOOLEAN, closing : BOOLEAN]
  /\ evictor \in [at : {"idle", "scanned", "checked"}, agent : Agents \cup {0}]
  /\ stops \in 0..MaxStops /\ evicts \in 0..MaxEvicts /\ faults \in 0..MaxFaults

\* A turn lock has one holder, and so has the mutex of an agent's transcript.
LocksExclude == \A i, j \in Running : i # j => turn[i].lock # turn[j].lock
TurnsExclude ==
  \A i, j \in Jobs : i # j /\ {pc[i], pc[j]} \subseteq InTurn => turn[i].agent # turn[j].agent

\* Every variable stays in its domain, and the mutexes exclude.
TypeOK ==
  /\ TypesOfRows /\ TypesOfAgents /\ TypesOfJobs /\ TypesOfControl
  /\ LocksExclude /\ TurnsExclude

\* A row, once stored, stays where it is: no job, request, live snapshot or
\* merge deletes or moves another writer's row (appendSqliteSessionOnce,
\* mergeAppend), also when two jobs run at once.
NothingOverwritten == [][IsPrefix(disk, disk')]_disk

Stored(row) == \E i \in DOMAIN disk : disk[i] = row
CopiesOf(m) == {i \in DOMAIN disk : disk[i].by = "user" /\ disk[i].msg = m}

\* A message whose sender got its 202 is stored, whatever fails afterwards.
AckedIsStored == \A m \in acked : CopiesOf(m) # {}

\* "Single-flight is guaranteed by the session lock: at most one job runs per
\* session at a time" (executeTurnJob).
OneJobAtATime == Cardinality(Running) <= 1

\* Two jobs run at once only after a Close or the sweep released the agent
\* under a job that held or awaited the session's mutex.
OverlapNeedsRelease == overlapped => lock > 1

\* While jobs do not overlap, the queue hands out each message once: no message
\* is turned twice, and one that was turned is not in the queue any more once
\* its job went on.
TurnedOnce ==
  overlapped \/
  /\ \A i, k \in DOMAIN turned : turned[i] = turned[k] => i = k
  /\ \A i \in DOMAIN turned, k \in DOMAIN pending :
       turned[i] = pending[k] => k = 1 /\ \E j \in Jobs : pc[j] \in InTurn \cup {"shifting"}

\* While jobs do not overlap, an accepted message waits in the queue or has
\* been turned: Stop, Close, eviction and bootstraps lose none (executeTurnJob
\* keeps a cancelled job's message for the next one).  A queue request whose
\* write fails can break it.
NothingForgotten ==
  overlapped \/ faults > 0 \/
  \A m \in acked : \/ \E i \in DOMAIN pending : pending[i] = m
                   \/ \E i \in DOMAIN turned : turned[i] = m

\* A transcript that was rebuilt, saved or converged, and not touched since, is a
\* prefix of the stored rows, so the next save extends them
\* (persistTurnTranscript: "the NEXT save is guaranteed consistent").
Aligned == \A a \in Agents : agents[a].saved => IsPrefix(agents[a].mem, disk)

\* A turn that ended without a failed save left its reply on disk, unless it
\* marked the agent for release because its base had diverged
\* (persistTurnTranscript: "a racing writer's rows and this session's response
\* both survive").
TurnsAreKept ==
  \A j \in Jobs :
    pc[j] = "ending" /\ agents[turn[j].agent].saved /\ turn[j].resp # <<>> =>
      closePending \/ Stored(Reply(turn[j].msg))

\* A reply is stored once: the merge recognises the rows the live writer has
\* stored already (mergeAppend).
ReplyStoredOnce ==
  \A m \in Messages : Cardinality({i \in DOMAIN disk : disk[i] = Reply(m)}) <= 1

\* The merge of a turn's transcript with another writer's rows neither loses
\* the turn's reply nor doubles it, while jobs do not overlap.
RepliesAreKeptOnce == overlapped \/ (TurnsAreKept /\ ReplyStoredOnce)

\* Each message is stored once: the row that was persisted before the 202 is
\* the row runTurn appends.
StoredOnce == \A m \in Messages : Cardinality(CopiesOf(m)) <= 1

\* Nothing came between the posted messages: no second job, no Stop or failure
\* that leaves a message for another's job, no queue request that was let in.
Undisturbed == /\ ~overlapped /\ stops + faults = 0
               /\ \A q \in Queued : request[q] \in {"new", "refused"}

\* So it is for posted messages as long as nothing comes between them: every job
\* then turns its own message, alone under the lock.
StoredOnceUnlessStopped == Undisturbed => StoredOnce

\* While jobs do not overlap, posted messages are turned in the order of their
\* rows, whoever turns them and whatever was queued between them
\* (executeTurnJob: "persist and turn ordering never interleave").
RowBefore(m, n) == \E a \in CopiesOf(m) : \A b \in CopiesOf(n) : a < b
TurnsFollowRows ==
  overlapped \/
  \A i, k \in DOMAIN turned :
    {turned[i], turned[k]} \subseteq Sends /\ i < k => RowBefore(turned[i], turned[k])

\* A completed message of a running turn is stored as soon as the live writer
\* is idle, so a crash loses the round in flight and no more (runTurn).
RoundsAreStored ==
  \A j \in Jobs :
    pc[j] = "stepping" /\ turn[j].resp # <<>> /\ slot = <<>> /\ taken = <<>> =>
      Stored(Reply(turn[j].msg))

\* So it is as long as nothing leaves a second stored message in the queue: a
\* Stop, a failure or a queue request, whose row then stands where the turn's
\* first message should.
RoundsAreStoredUnlessStopped == Undisturbed => RoundsAreStored

\* Again and again no job is in flight: each gets its lock and comes to its end,
\* also after a release took the mutex from the map.  Unless a Stop, a Close, an
\* eviction or a failure leaves one for a later message's job, every accepted
\* message has then been turned, by its job or by the drainer.
ComesToRest ==
  []<>(/\ ~InFlight
       /\ \/ stops + evicts + faults > 0
          \/ \A m \in acked : \E i \in DOMAIN turned : turned[i] = m)
==============================================================================
