# A verification development for ocode

ocode is a coding agent: a terminal UI, an HTTP server with a web front end and a
desktop shell, all driving the same agent loop and the same on-disk sessions. This
directory holds TLA+ models of the parts of it whose correctness depends on
interleavings, failures and restarts, the TLC configurations that check them on small
instances, and TLAPS proofs that hold for every instance.

Line references are to the repository (`internal/session/live.go:380`).

## 1. Inventory

| component | state it keeps | operations | what is hard | what makes it correct |
|---|---|---|---|---|
| live session persistence, `internal/session/live.go` | the worker registry; per session a coalescing slot, a wake-up channel, flush barriers, two sequence watermarks | SaveAsync, the worker's drain loop, Flush, FlushAll, markLiveCovered, retirement | four kinds of goroutine meet on two mutexes and a one-slot channel; a worker retires while callers look it up; writes fail | no snapshot lost, no barrier stranded, no false success, no regression of the file |
| session transcript store, `session.go`, `sqlitestore.go` | per session: the rows, the history generation, title and metadata | Save, Replace, live append, ReconcileAppend, AppendUserMessage, RewriteAskResult, Rekey, loads with a filtered view | several writers of one file in and across processes, each with its own stale copy; unanswered ask rounds are stored but filtered from loads | no writer destroys another's rows, a pre-compaction snapshot resurrects nothing, retries converge |
| pending rewind and revisions, `pending_rewind.go`, `revision.go` | one single-use token row per session in its SQLite file: armed, committed or stale, with the fingerprint of the raw transcript; file revisions | arm, commit (one transaction), expiry | the transcript changes between arming and commit; a commit is retried after its answer was lost | a commit cuts exactly the rows it was armed on, at most once; a retry appends nothing |
| legacy formats, `ojsonl.go`, `migrateToSqlite` | `.json`, `.ojsonl` files | append, migrate, delete the old file | crash between commit and delete | a session exists in one authoritative format |
| scheduler, `internal/scheduler` | a slice of jobs mirrored in a JSON file, a run log, a wake channel | AddJob, UpdateJob, RemoveJob, tick, executeJob, syncFromDisk, the headless dispatcher, the drainer | several processes share the file; jobs change while one executes; clocks and restarts | each due one-shot runs once, no job is lost or run after removal, recurring jobs keep their period |
| local-model limiter, `internal/agent/local_model_limiter.go` | slot files locked with flock, an in-process registry | acquire, release, the response body that releases | processes and goroutines compete; a release has three steps | at most the configured number of requests at once; no slot leaks |
| agent loop, `internal/agent/agent.go`, `agent_runs.go`, `subagent.go`, `task_dag.go` | the conversation, the runs and sub-agents, the task graph | turns, tool calls, permission questions, cancellation, background runs | cancellation races completion; dependants of failed tasks | a turn ends once; each tool call has one result |
| compaction and context budget, `compact.go`, `internal/contextbudget` | the compacted prefix | compact, truncate | pairs of tool call and result must stay together | the transcript stays well-formed |
| model client, `client.go`, `models_registry.go`, `internal/models`, `internal/pricing`, `internal/usage` | provider connections, cached model list | stream, retry, refresh | retries after partial streams | one answer per request |
| permissions, `permissions.go`, `internal/pathscope` | rules, grants | check, ask, grant | a rule changes while a question is open | a denied action does not run |
| server session manager, `internal/server/session_manager.go` | resident sessions, pending queues, bootstrap tickets | Get/Bootstrap, Touch, EvictIdle, ReleaseAgent, Rekey, pending queue | eviction against a turn that starts; two bootstraps of a session | one resident agent per session, no queued message lost |
| server turn engine, `agent_session.go`, `handler*.go` | turn state, live persistence hooks, event stream | run a turn, interrupt, resume an ask, persist | the hand-off between a turn's end and the next message; a Close or a sweep that takes the turn lock and the agent from under a job | turns of a session do not overlap |
| server event bus, `event_bus.go` | subscriptions, sequence numbers | Publish, Subscribe, Unsubscribe | sends happen outside the lock; full channels drop | per-subscriber order, critical events not lost silently |
| note bus, `internal/notebus` | the owner goroutine's log and watermarks, a request channel, a stop channel | Append, Delta, HeadSeq, Snapshot, Stop | calls race the owner's end; a call may give up while its request is queued | each child is given each foreign note once; the hand-off holds all of them |
| file locks, `internal/filelock` | lock files | Lock, Unlock | crash with the lock held | mutual exclusion between processes |
| tools, `internal/tool` | todo store, process supervisor, edited files | read, edit, exec, todos | a process outlives its turn | a supervised process is reaped once |
| file snapshots, `internal/snapshot`, `internal/changes` | a journal of file versions | track, restore, prune | crash in the middle of a restore | undo gives back what was there |
| settings sync, `internal/sync` | a mirrored directory | push, pull, watch | echo of one's own writes | convergence |
| reminders, `internal/reminders` | reminders file | add, fire, snooze | restarts | each fires once |
| orchestrator, `internal/orchestrator` | plan phases | advance | restarts | phases in order |
| terminals, `internal/shell`, `termtabs`, server `terminal_session*` | ptys, scrollback | open, attach, detach, close | attach races exit | output is delivered once, in order |
| language servers, `internal/lsp` (+ broker) | server processes, documents | open, change, diagnostics | stale diagnostics, restarts | diagnostics match the document |
| MCP and ACP, `internal/mcp`, `internal/acp` | client connections, pending calls | call, notify, reconnect | an answer races a timeout | one answer per call |
| remote hosts, `internal/remote` | ssh tunnels, port maps | connect, map, disconnect | reconnects | a port belongs to one host |
| browser, computer use, `internal/browse`, `browse/cdp`, `computer`, `browsertabs` | CDP sessions | navigate, act | events race commands | outside this development |
| speech, OCR, `internal/tts`, `stt`, `ocr` | resident worker processes | start, speak, stop | a worker dies during a request | outside this development |
| credentials, `internal/auth`, `vault`, `encryption`, `redact`, `secret*` | tokens, sealed files | load, refresh, seal | refresh races use | outside this development |
| TUI, web and desktop shells, `internal/tui`, `web`, `cmd`, `internal/desktop` | view state | key handlers, rendering | | outside this development |
| configuration, skills, plugins, knowledge, discovery | files read at start | load, watch | | outside this development |

How they interact: the agent loop calls SaveAsync after each message of a turn and the
turn engine calls Save or ReconcileAppend at its end; compaction and rewinds call
Replace; the scheduler and Telegram start turns in sessions; the session manager decides
which sessions have a resident agent; the event bus and the note bus tell viewers what
happened. All writers of one session meet in `persistToDir` and the SQLite transaction.

## 2. Plan

The core is the path of a user's message: accepted by the server, stored, turned by the
agent, streamed to the session's file while the turn runs, saved at its end. Losing or
doubling a message there is the worst thing the program can do, and every part of the path
is concurrent. It is modelled first, from the file outwards; then the parts that run beside
it on a clock, in other processes, or below it in a turn.

| order | module | composes | abstract specification | theorems | state |
|---|---|---|---|---|---|
| 1 | LiveWriter | the live writer with the store's write | SaveQueue | inductive invariants, six safety properties, refinement | done |
| 2 | SessionTurns | turn jobs, queue requests, the drainer, Stop, Close and the sweep with LiveWriter reduced to its slot and its write | | inductive invariants, twelve safety properties | done, but for the operations of section 11 |
| 3 | Scheduler | several hosts and the terminal on one job file | | inductive invariant, four safety properties | done |
| 4 | LocalModelLimiter | requests of several processes on slot files and file locks | Semaphore | inductive invariant, three safety properties, refinement | done |
| 5 | NoteBus | the bus's owner with the parent's round and its sub-agents | | inductive invariant, five safety properties | done |
| 6 | PendingRewind | the rewind's resource and its commit with the client, the turn engine, the live writer, reset-id and crashes | | inductive invariant, four safety properties | done |
| 7 | the event bus, the session registry, ask rounds in SessionTurns | | | | left for later, section 11 |

The counts leave out type correctness, which is proved of each. The modules are written so that
they can be proved about: no recursion and no fold where a proof goes, parameters with named
assumptions, one action per step of the code. That is why SessionTurns states the merge by what
it computes, and why the loop is compared with it apart (section 4); why a scheduler's slice
loses an element by `SubSeq`, and why `due` is a set of indices taken from the least. What a fold
or a filter computes for every input needs induction over data, which is out of the prover's
reach.

## 3. LiveWriter

`LiveWriter.tla` models `internal/session/live.go`, with the parts of the store a live write
depends on (`appendSqliteSessionOnce`, `Replace`, `ReconcileAppend`, `Save`).

**State.** One worker per session: `registered` and `incarnation` are the registry entry and
the identity of the pointer in it (a pass of FlushAll keeps pointers, and a worker that
retired and was re-created has another one); `pending` is the coalescing slot, `notify` the
one-slot channel, `barriers`, `seq`, `writtenSeq`, `coveredOKSeq`, `lastFailErr` the fields of
the same names; `wpc` is the worker goroutine's place in `run` and `drain`, `req` and `werr`
its locals. A transcript is a sequence of rows and a row is its kind and its number:
the turn's messages, another writer's rows, compaction summaries. `disk` and `messages` are
the stored and the resident transcript, a snapshot carries the one it cloned; `gen` is the
stored history_gen. `cpc`, `target`, `done`, `active` are a caller's place and locals. `want`,
`asked`, `landed`, `dropped`, `over`, `failed`, `erased` are history variables: they record what
the snapshots and the replaced rows came to, and no guard reads them.

**Actions** are the code's critical sections. SaveAsync is three steps because the code
reads the generation, then enqueues under both locks, then sends the wake-up after
unlocking; `Take` and `Record` are drain's two critical sections with the write between
them outside any lock; a Flush registers under both locks, sends the wake-up, waits;
FlushAll scans, registers barrier by barrier, and scans again. A wake-up that is sent to a
worker that has retired goes nowhere.

The file has other writers. A replacement is two steps, since its transcript is captured before
the transaction that stores it. The owner of the resident transcript rewinds it to a prefix
(`picker.go:917`) or puts a summary in the place of some rows (`handler.go:2317`,
`agent_session.go:2803`), and then calls Replace; a truncation
(`handler_truncate.go:39`) loads the stored rows, keeps a prefix and replaces what is stored by
then, which may be more than it loaded. `Rewrite` is the store's replace path: the rows become
the caller's, and the generation moves on only when that takes rows off, that is when the new
transcript is shorter or differs in the overlap. Beside these, `ForeignAppend` is another
process's row, `SyncBegin` to `SyncMark` a Save with its mark, `Reconcile` the merge at the end
of a turn. A replacement that fails leaves the resident transcript cut (`ReplaceFails`).

**What it abstracts.** The contents of messages, the clone of a snapshot, the filtered view of an
unanswered ask round, the SQLite schema, timers (the idle timer and the caller's timeout may fire at
any moment), and the retries inside one write (a write lands, is dropped or fails).

`SaveQueue.tla` is what the callers may rely on: snapshots are numbered, the newest that
needs no write any more and the newest that failed only grow, a write that is no longer
under way has come to an end, and a caller is told the truth about the snapshot that was
the newest when it asked. `LiveWriter!Queue` instantiates it with `settled` mapped to what is
on disk, superseded, or covered by a sync save's mark, `writing` to the snapshot in the drain
loop and `answer` to the barrier's channel. Slots, sequence numbers, barriers, the wake-up
channel, passes, retirement and re-creation do not appear in it.

| run | question | bounds |
|---|---|---|
| live_flush | two overlapping Flush calls against coalescing, failures, retirement and re-creation and one other writer of any kind | 1 session, 2 snapshots, one of: a sync save, a rewind or compaction, a truncation, a foreign row; reconciliations at will: 1.05 million states |
| live_progress | what a nil from FlushAll leaves; calls return without their timeout, snapshots come to an end | 1 session, 2 snapshots, a Flush and a FlushAll, 1 truncation, under `FairSpec`: 1.18 million states |

Two snapshots are enough to coalesce, to have one in the slot while another is written, and to have
one numbered by each of two incarnations. Two calls are enough for two barriers at different seqs
that one write fires together. One replacement can meet a snapshot in each of its three places, one
can be in a SaveAsync call while the other is written. Retirement is not bounded: a worker may be
re-created as often as snapshots are enqueued. The theorems below hold for every bound, so the
bounds matter for the two liveness properties only.

**Properties.** `AnswersAreTrue` (`SuccessIsBacked` and `FailureIsReal`) relates a barrier's answer
to what became of the snapshot it stands for; `NothingVanishes` accounts for the newest snapshot
through coalescing and retirement; `NothingStranded` says that waiting work sits on a registered,
awake worker and that each barrier is covered by work that exists; `IdleHidesOnlyFailures` bounds
what a Flush that finds no worker can miss; `FlushAllLeavesOnlyInFlight` says exactly what a nil
from FlushAll leaves; `QueueSpec` is the refinement. `NothingResurrected` is what history_gen is
for: no live write brings back a row that a replacement took off the disk while the written snapshot
was in a SaveAsync call, in the slot or with the worker. `erased` keeps those rows for each of the
three places. Without the comparison of `Current` it fails.

It is about rows that were stored. The comment at `session.go:222` says that history_gen is bumped
on every Replace; the code bumps it only when rows go (`sqlitestore.go:594`). A rewind of rows that
no live write has stored yet leaves the generation alone, and a queued snapshot that still
holds them lands afterwards: the rows the user took back are then on the disk, and the owner's
next save conflicts with them (section 10).

**Fairness.** The worker goroutine is never blocked but on its channel, and SQLite's busy
timeout ends each write, so the worker is weakly fair; so are a SaveAsync call that has read
the generation and a caller that runs FlushAll or holds an answer. Nothing forces a turn to
speak, a timeout to expire, a worker to retire, another writer to write, or a write to fail
or not to fail (`WriteFails` is not in the fairness condition: a write that could land or be
dropped eventually ends one way or another). `CallsReturn` therefore does not lean on the
timeouts.

## 4. SessionTurns

`SessionTurns.tla` models one session of `internal/server`: `agent_session.go` (executeTurnJob,
runTurn, persistTurnTranscript, bootstrapEntryAgent), `handler_session_comm.go` (queue requests
and the drainer), `session_manager.go` (pending queue, EvictIdle), `handler_cancel.go`,
`handler_close.go`, and the store's append and merge.

**State.** `disk` is the sequence of stored rows: user rows with their user_seq, and the reply
of a message's turn. `pending` is the session entry's queue. `resident` is the registered agent
and `active` the turn flag; `agents` gives each agent its transcript, its stop channel and
whether it was saved since it last changed. `slot` and `taken` are the live writer seen from
here; `pc[j]` is a job's place in executeTurnJob and `turn[j]` its local variables; `request`,
`drainer`, `before`, `kick` belong to queue requests; `stopFlag`, `closePending`, `stopper`,
`evictor` to Stop, Close and the sweep.

Agents and mutexes have identities. `lock` names the mutex that `turnLocks[id]` holds now and
`turn[j].lock`, `turn[j].agent` the ones a job took from their maps: a release (`Release`,
the onEvict hook) removes both and shuts the agent down, whoever still works with them.
`overlapped` is a history variable: two jobs were past their locks at once.

**Actions.** A posted message's job is: dispatch, look up the mutex (`Fetches`), take it (`Locks`),
persist (`Persists`), push, answer the sender; consume a Stop, bootstrap the agent if there is none
(`Loads`, `Builds`: the load and the matching against the queue are two steps); then the drain loop:
`Picks` reads the front of the queue, `Begins` appends it to the transcript and enqueues a snapshot,
`Resets`, `Replies`, `Returns` are the agent's step, `Saves`, `Merges`, `SavesMerged`, `Resyncs` are
persistTurnTranscript with its conflict handling, `Ends` and `Shifts` leave the turn; `Leaves` and
`Finishes` drain a Close marker, give the lock back and release the in-flight count. A queue request
reserves a slot first and persists afterwards, without the lock. Stop reads `turnActive` before it
takes `cancelMu`, as the code does. `MergeAppend` states what mergeAppend computes, the longest run
of the turn's rows that stands behind the base already; `Consumed` is its loop, and MCSessionTurns's
assumption compares the two on all transcripts of up to three rows.

| run | question | bounds |
|---|---|---|
| turns_mixed | what is stored, queued and turned when a posted and a queued message meet a Stop or Close, an eviction and a failure; that jobs come to their end | 1 + 1 messages, 1 of each disturbance, under `FairSpec`: 0.64 million states |
| turns_stopped | order, single storage, durability of rounds, when jobs overlap | 2 posted messages, 2 Stops or Closes, 1 eviction: 1.95 million states |
| claim_stored_once | "the two copies of one message serialize byte-identically" | fails, see section 10 |
| claim_one_job | "at most one job runs per session at a time" | fails, see section 10 |

The model chooses where a Stop, a release or a failure falls, so one of each covers every
place, and two Stops let one leave a message behind and the other meet the job that turns it.
An overlap takes two posted messages, one job for the old mutex and one for the new; with a
single posted message (turns_mixed) none is reachable. Larger instances were checked by hand:
two posted messages with one of each disturbance (0.46 million states), where `AckedIsStored`,
`Aligned` and `NothingOverwritten` hold with overlapping jobs as well; the same with two Stops
(8.3 million); three posted messages with a Stop or Close (7.4 million) and with an eviction
(0.16 million). `QueueCap` stands for `maxQueuedMessages`; an instance whose queue fills takes
three messages, and in these runs a request is refused because no agent is resident.

**Properties.** Storage: `NothingOverwritten` (a stored row stays where it is),
`AckedIsStored`, `RepliesAreKeptOnce` (the merge neither loses a turn's reply nor doubles
it), `StoredOnceUnlessStopped`. Queue: `TurnedOnce`,
`NothingForgotten`, `TurnsFollowRows`. Transcript against file: `Aligned` (a saved or converged
transcript is a prefix of the stored rows, so the next save extends them),
`RoundsAreStoredUnlessStopped`. Jobs: `OverlapNeedsRelease`, `ComesToRest`.

Overlapping jobs turn messages twice and lose some, so the properties of the queue are stated for
runs in which no overlap has happened, and `OverlapNeedsRelease` says that only a release that took
a mutex in use from its map makes one: the lock itself excludes. `AckedIsStored`, `Aligned` and
`NothingOverwritten` have no such condition. All of these but `ComesToRest` are proved for every
instance (section 9). The two properties named "UnlessStopped" are about sessions that nothing has
disturbed (`Undisturbed`): no overlap, no Stop or failure, and no queue request that was let in;
what happens after one is described in section 10. `TurnsFollowRows` compares posted messages with
each other, also when queued ones are turned between them: a queue request pushes before it
persists, so for those the two orders differ by design. The instance of turns_stopped has no queue
requests; one with three posted messages, a queue request and an eviction (0.06 million states) was
checked by hand. `ComesToRest` asks that again and again no job is in flight, and that accepted
messages have been turned by then in undisturbed sessions: a Stop, a Close, an eviction or a failure
may leave a message in the queue until the next message's job comes, and nothing in the code makes
one come.

**Fairness.** A goroutine that was started goes on: jobs, the worker, the drainer, a request
past its reservation, Stop and the sweep once begun. Senders, Stops, sweeps and failures
owe nothing. A model call is assumed to return; a hung provider is not modelled.

**Abstractions.** `EvictScans` asks that no job is in flight: the code asks for minutes of
idleness, in which none is; the model keeps what may happen between the scan and the
detachment. `Merges`'s bound of eight attempts is left out: it takes eight other writers'
rows during one save, which the instances do not have.

## 5. Scheduler

`Scheduler.tla` models `internal/scheduler/scheduler.go`: hosts that each run a Service on one
`jobs.json`, the terminal's `/cron add`, crashes and restarts.

**State.** `file` is the list in `jobs.json`. Per host, `jobs` is the slice, `room` the spare
capacity of its array, `stale` whether the file has changed since the host read or wrote it; `pc` is
the loop's place in `run`, `tick` and `executeJob`, `due` the indices `tick` has still to execute, a
set from which `First` takes the least, `ptr` the pointer `executeJob` works through, `began` and
`firing` its time and the job whose prompt runs. A pointer is a position and, once the slice has
shrunk below it or moved to a new array, a copy of what its cell held: Go keeps the old cell alive,
and writes to it are lost. `early`, `misnamed`, `moved`, `disturbed`, `clobbered`, `fired`,
`accepted` and `removed` are history variables.

**Actions** are the critical sections of `Service.mu` and the loop's steps between two of them.
`Syncs` is `syncFromDisk`, `Collects` tick's scan, `Takes` the re-check of one index, `Begins`,
`Calls`, `Reports`, `Records`, `Persists` the stages of `executeJob` (the callback runs without
the mutex and reads the job through the pointer at its beginning and at its end), `PanicsOut`
a callback that does not return but panics. `fired` counts those that return. `AddJob`,
`RemoveJob` and `UpdateJob` change the slice and write it in
one critical section. `Start` loads, `StopBegins` closes the channel, `StopEnds` is the loop's
last look at it.

**What it abstracts.** Time is a small clock. An interval is one tick; a cron job's next run
is one or two ticks away, for the jitter. The timer fires at any moment, which includes
every early wake-up. A write of the file succeeds, and its rename and the `Stat` after it are
one step.

| run | question | bounds |
|---|---|---|
| sched_host | calls during a tick, a Stop, the terminal's write, a crash with restart, panics: what is kept, what fires, that the loop gets round | 1 host, a one-shot and an interval job, 2 instants, 2 calls, 1 terminal add, 1 crash, any number of panics, under `FairSpec`: 0.30 million states |
| claim_only_due_fires | "finds due jobs ... fires them" | fails, see section 10 |

Two jobs are enough for an index behind a removed one, which is the only way one job reaches
another's run; a third, needed for a job that is neither of the two due ones, is in the run
that shows the disagreement. The model chooses where a call falls; with two, a removal can
meet a job that a call of the same run added. The terminal and the host are the two
processes that write the file. A second host takes the same steps as the first; instances
with two hosts (1.23 million states with a cron job and a terminal add, 6.4 million with calls)
were checked by hand, the inductive invariant of the proofs among the latter's; no run here has
a second host or a cron job, and the theorems of section 9 hold for any number of both.

**Properties.** `AcceptedIsKept` says that the file holds what callers added and did not remove,
over crashes and restarts; `OneShotFiresOnce` counts the runs that returned, over crashes and
panics; `OnlyAMoveMisleads` says that a wrong job is run, or a run filed under a wrong job, only
when the slice was changed after the index or the pointer was taken; `ListIsOnDisk` that no change
of the slice waits for a later write; `DueIsHandled` that a due job is not passed over for ever,
unless its own callback panics again and again (`PanicsForEver`): that one stays due and is neither
rescheduled nor removed, which section 10 names, while the others still get their turn;
`StopReturns` that Stop ends with jobs due and callbacks that panic. The first two except what the
code does not guard against, by name: `clobbered`, a process that wrote over a list it had not read,
and `disturbed`, a removal during a run. The exceptions are history variables set by the step that
causes them, so they excuse nothing else.

**Fairness.** The loop is weakly fair, with callbacks that return or panic; nothing says that one
stops panicking. `StopEnds` is strongly
fair: Go's select picks fairly among a closed channel and a timer that keeps firing, so the
loop cannot take the timer for ever.

## 6. LocalModelLimiter

`LocalModelLimiter.tla` models `internal/agent/local_model_limiter.go`: requests to one managed
local model from any number of processes, limited by slot files and advisory locks.

**State.** `slot` says whether a slot's file is absent, fresh or stale, `guard` which request's
descriptor has the lock of the slot's guard file; `pc` and `at` are a request's place in
`acquireLocalModelSlot`, the request itself and the release, and the slot it is at.

**Actions** are the system calls with the code around them. An acquirer creates the slot
file and then tries the guard, and undoes the file when the guard is held; one that finds
the file looks at its age, takes the guard of a stale one and removes it; a release gives
the guard back first and removes the file by its path after that, whoever's file it is by
then. `Touches` is `touchLoop`, `Ages` and `Suspend` the passage of time, `Crash` the death of
the request's process, which drops its lock and leaves its file.

`Semaphore.tla` is the promise: a counting semaphore. `LocalModelLimiter!Sem` instantiates it
with the requests that are at the server. Files, guards, reaping and crashes do not appear
in it.

The run `limiter` has three requests for two slots, so that one waits while two hold and each
slot may be reaped and re-used, with one crash, one unreadable file and one pause of the
machine: 0.17 million states. `SlotsAreExclusive` is what reaping and the two-step release
put at risk, `NothingIsLeft` what failed attempts and releases owe each other,
`EveryRequestIsServed` that neither a crashed holder nor a contested guard keeps a request
waiting for ever, `SemaphoreSpec` the refinement. The theorems of section 9 hold for every
number of requests, slots and faults.

**Fairness.** A request keeps running, the server answers and the caller closes the body; a
file nobody tends gets old. Nothing forces a cancellation, a crash, a fault or a pause. A
request polls every slot in turn, so weak fairness of its steps is enough.

## 7. NoteBus

`NoteBus.tla` models `internal/notebus/notebus.go` in the round that owns a bus: `group_bus.go`,
the parent's Step in `agent.go`, `subagent.go`, `delta_inject.go`, `child_emit.go`,
`task_contract.go` and `reconcile.go`.

**State.** `log`, `wm` and `reslv` belong to the owner goroutine: the entries, each child's
watermark, the seqs some resolve named. `reqs` is the request channel, `ans` a caller's reply
channel, `call` the request in a caller's hand and whether it is being sent or waited for;
`running`, `stopped` and `cancelled` are the goroutine, its stop channel and its context. `at`
is where the parent and each child are, `status` the tracker, `loose` the children whose
dispatch has returned without them, `handoff` what the reconcile pre-pass made of the log.
`acked` and `heard` are history variables: the appends that were answered with a seq, and the
notes a child was given.

**Actions.** `Handle` is one request served by the owner, `Leave` its two ways out, which drop
what is queued. `CallStep` is the client half: `Send`, refused by a closed stop channel;
`Answered`; `GivesUp`, which only `Append` does and which leaves the request behind. The parent
seeds the brief, fans out, waits for the attached children, reads the log, stops the bus and
waits for the owner. A child asks for its delta, posts, ends its Step with success or
failure, and may be stepped once more when its result misses its contract. `Detach` is a
dispatch in the background or one that outlasts its wait; `Skip` a child that is never run;
`Cancel` the end of the turn's context.

The run `note_group` has two children, one of them with a contract, so that a delta falls
between two appends and a Step is followed by a second one; a brief of one entry, so that the
parent's notes have to be told apart; one resolve target; a channel of one, so that a sender
waits: 0.79 million states.

**Properties.** `AckedIsLogged`: a seq that was returned is that entry's, and nobody else's,
also when a call gave up while its request was queued. `NothingSkipped` and `ToldOnce`: a
delta neither loses nor repeats a note. `HandoffIsComplete`: the hand-off holds every open
note of a child the parent waited for, by author and seq. `GroupEnds`: a round that is not
cancelled ends. `claim_append_returns` shows what happens in one that is, see section 10.

**Fairness.** Every goroutine that can take a step takes one: the owner, the calls, the
parent, and the children, whose Step ends once the model has replied. Nothing forces a post,
a detachment or a cancellation.

## 8. PendingRewind

`PendingRewind.tla` models `internal/session/pending_rewind.go` and everything that meets it in
a session: `commitPendingRewindTurn` in the turn engine, the queue, the live writer, reset-id,
and the client's side in `web/src/hooks/useChat.ts`.

**State.** `rows` and `gen` are the stored messages and the history generation, `res` the one row
of `pending_rewinds`: the token, the row it names with its content, the fingerprint (here: the
rows themselves), the status, whether 24 hours have passed. `mem`, `pending`, `slot`, `closing`,
`active` are the server's memory; `released` and `own` are the agent that a running job goes on with
after a release took it out of the registry. `at[j]` is where a send's, a post's or the drainer's
job is, `request` where a queue request is; `dropped` are the jobs whose mutex is not in the map any
more; `resetting` says that a reset-id is between its release and its move. `tab` is the token and
draft in the client's local storage, `carry` what each tokenized send carries. `made`, `gone`,
`dead`, `commits`, `begun`, `blind`, `moved`, `lost`, `left` and `overlapped` are history variables.

**Actions.** `Prepare`, `Cancel`, `Expires` are the resource's; `Send` is the client's, with the
restored text or another. Under the turn lock a send is refused (`CommitRefused`), recognised
as a retry (`Repeated`), finds another transcript (`GoesStale`), fails, or commits: `Lands` is
the transaction, `Adopts` what the handler does after it, and a crash may fall between.
`Records` keeps the client's record in step with the answer, or loses the answer, after which
the client sends the same token again. Around it: a post persists, then pushes; a queue request
pushes, then stores, without the lock; a job boots an agent from the rows less the queued ones,
turns the queue's messages (`Picks`, `Begins`, `Replies`, `Saves`, `Shifts`) and saves; the live
worker writes or drops a snapshot; another process appends; a crash empties the memory.

Releases and moves come under a running job, as in the code. `Releases`, the sweep or a Close, asks
only whether a turn is active: the agent goes, the mutex leaves its map, and the job goes on with both
(`Closes` is a Close that finds nothing to release, and leaves it to a job's end). A reset-id
(`ResetReleases`, then `ResetMoves` or `ResetFails`) asks the same once and takes no turn lock, so
it may come after a commit has landed, before or after a job has taken a text from the queue, or
find a turn begun between its release and its move. The entry moves with its queue and its
`turnActive`; the jobs of the old id go on (`Overtaken`): one that waited finds no session, or, when
it found it before, stores its row under the new id (`StrayPersists`); one that committed answers
and its ReplacePending does nothing (`Hears`); both build an agent for the new id and leave
(`StrayBoots`).

**What it abstracts.** The turn engine is SessionTurns reduced to what a rewind can meet: the
mutex excludes, a turn has one reply, a save's merge is one step and so is the live worker's
take and write, a job fetches its mutex when its send begins, and RekeyForDir is one step with the
move of the registry's entry, as are the Flush and the release before it. Another process only
appends. The fingerprint is exact (a hash in the code). A session is followed until two jobs
overlap: `Overlaps` is the moment from which a waiting job may lock its mutex although another job
runs, because a release has dropped the mutex of one of them from the map. Nothing is modelled after
it: what two jobs do to each other is SessionTurns's subject (run claim_one_job). Releases and moves
under a running job come before it, and the four properties hold through them.

The run `rewinds` has one turned conversation, two tokenized sends, so that one is a retry of
the other or each has its own of two tokens, a post, a queue request with its drainer, and any
two of the steps that spoil a plain run (`MaxOdds`: an edit of the restored text, a lost answer,
an expiry, a failed commit, a queue request, a Stop or failed bootstrap, another process's row, a
release, a Close, a reset-id, a crash): 2.82 million
states. One conversation turn is enough to cut, since a send's own turn may be cut by the next
send's token. A token is prepared only while a send is left to carry it.

**Properties.** `CutIsGone`: three copies of what a commit cuts outlive the transaction, the live
writer's snapshot, the resident transcript and the pending queue, and an unchanged text makes the
new row equal to the old one, so that a prefix check alone would accept the old snapshot.
`SingleUse`: a token cuts once and its text is turned once, over retries, crashes, releases and
moves. `CommitsWhatWasSeen`: no row that came after the preparation is cut, but under a token that a
reset-id fingerprinted anew. `CommittedIsQueued`: a committed text is turned or waits for a turn,
unless a crash or a later rewind emptied the queue. What a reset-id does under a job is excused by
name and no further: `lost` has the text of a commit that it overtook before ReplacePending, `left`
the messages that it moved in the queue although that commit had cut them or a job had taken them.
Both are in section 10. All four are proved for every instance (section 9). No liveness is asked:
after a Stop nothing makes a turn come.

## 9. What is proved

Every theorem holds for every value of the constants under the named assumptions of its
module (`BoundsAssumption` and `CallsAssumption` of LiveWriter; `MessagesAssumption` and
`CapsAssumption` of SessionTurns; `KindsAssumption`, `NoneAssumption` and `BoundsAssumption` of
Scheduler; `RequestsAssumption`, `SlotsAssumption` and `BoundsAssumption`
of LocalModelLimiter; `NoteBusAssumption`; `TextsAssumption` and `BoundsAssumption` of PendingRewind).
Those of SessionTurns are that the messages are finitely many and of one kind each, and that
the bounds are numbers; those of Scheduler that every job has one of the three kinds, and that the
bounds are numbers; those of PendingRewind that sends, posts, queue requests and the
drainer are told apart.

| module | theorem | states |
|---|---|---|
| LiveWriterProofs | TypeCorrect | `TypeOK` |
| | Inductive | `IInv` |
| | BarriersTellTheTruth | `AnswersAreTrue` |
| | NoSnapshotVanishes | `NothingVanishes` |
| | NobodyIsStranded | `NothingStranded` |
| | StrongerInductive | `RInv` |
| | IdleIsHonest | `IdleHidesOnlyFailures` |
| | FlushAllIsHonest | `FlushAllLeavesOnlyInFlight` |
| | NothingComesBack | `NothingResurrected` |
| | ImplementsQueue | `QueueSpec` |
| SessionTurnsProofs | Inductive | `IInv` |
| | TypeCorrect | `TypeOK` |
| | OverlapAfterRelease | `OverlapNeedsRelease` |
| SessionTurnsQueue | RowsStay | `NothingOverwritten` |
| | AckedStays | `AckedIsStored` |
| | SavedStaysAligned | `Aligned` |
| | EachTurnedOnce | `TurnedOnce` |
| | NoneForgotten | `NothingForgotten` |
| | FlagIsTrue | `FlagTellsTurn` |
| | TurnsKeepAgents | `TurnsKeepTheirAgent` |
| SessionTurnsTranscripts | RepliesStayOnce | `RepliesAreKeptOnce` |
| | TurnsInRowOrder | `TurnsFollowRows` |
| | PostedAreStoredOnce | `StoredOnceUnlessStopped` |
| | RoundsReachDisk | `RoundsAreStoredUnlessStopped` |
| SchedulerProofs | Inductive | `IInv` |
| | TypeCorrect | `TypeOK` |
| | JobsAreKept | `AcceptedIsKept` |
| | OneShotsFireOnce | `OneShotFiresOnce` |
| | MovesMislead | `OnlyAMoveMisleads` |
| | ListsAreOnDisk | `ListIsOnDisk` |
| LocalModelLimiterProofs | Inductive | `IInv` |
| | TypeCorrect | `TypeOK` |
| | Exclusive | `SlotsAreExclusive` |
| | Limited | `AtMostMaxParallel` |
| | CleanedUp | `NothingIsLeft` |
| | ImplementsSemaphore | `SemaphoreSpec` |
| NoteBusProofs | Inductive | `IInv` |
| | TypeCorrect | `TypeOK` |
| | Acknowledged | `AckedIsLogged` |
| | Complete | `NothingSkipped` |
| | Once | `ToldOnce` |
| | HandedOff | `HandoffIsComplete` |
| | Tended | `CallsAreTended` |
| PendingRewindProofs | Inductive | `Inv` |
| | TypeCorrect | `TypeOK` |
| | CutStaysGone | `CutIsGone` |
| | TokenUsedOnce | `SingleUse` |
| | CommitSaw | `CommitsWhatWasSeen` |
| | CommitQueued | `CommittedIsQueued` |

**LiveWriter.** None of the safety properties is inductive: they speak of snapshots, the
worker of its own seqs, which start again at 0 with each incarnation. `IInv` ties the two
together. `SameEnqueue` says that seq n of the present worker carries snapshot m exactly when
`m + seq = enqueued + n`; `SlotAndWrite` says that the slot holds the newest enqueue, that the
drain loop holds an enqueued one while it writes, and that how the write ended is known
when it is recorded; `Watermarks` says what coveredOKSeq and writtenSeq claim, in particular
that an excess of the second over the first comes with a remembered failure;
`RetiredIsEmpty` is what tryRetire's check buys; `FileAndSync` bounds what landed by what was
enqueued; `BarriersAreCalls` and `AnswersHaveTargets` make a barrier the property of one
unanswered call on one session. The proof that a step keeps `IInv` splits it by locality:
`OtherSession` and `WorkersUntouched` dispose of what a step does not touch; the quiet steps
(which deliver nothing) share one set of lemmas; the three that deliver answers, `Take`,
`Record` and `SyncMark`, go through `DeliverAnswers`, which says that a fired barrier's answer
is what the watermarks say.

`RInv` adds that nothing came to an end that was not enqueued and that a call has a result
only when it has returned. A step of a session `Grows` its own view (what came to an end is
not taken back, and the drain loop lets go of a write only when it ended) and `Stays` on
every other session's; what it delivers satisfies `AnswersComeFrom`. That makes it an abstract
`Enqueue` or `Advance` (`SessionStepMaps`); a step of a caller is an `Ask`, a `FindNothing`, a
`Return` or invisible (`CallerStepMaps`).

`NothingComesBack` has an invariant of its own, `GInv`: a snapshot in a SaveAsync call, in the
slot or in a write was taken at a generation that is not ahead of the file's, and while the two
are the same no row was taken off the disk since (`SnapshotsWhole`). A write that lands stores
the rows of such a snapshot behind a prefix it shares with the disk (`PrefixKeepsRows`).

**SessionTurns.** `IInv` says with `Equipped` what a job has in hand where it stands: an agent from
its bootstrap to its last turn, a message while it turns one, a base inside its transcript.
`LocksKnown` says that no job holds a mutex that is not yet made. Two jobs past their locks hold
different mutexes, so one of them was made by a release (`OverlapNeedsRelease`). An agent is named
by a number of `Agents`; `FreshAgent` shows that these do not run out, as the resident agent and the
jobs' agents are fewer. Most steps of a job touch only its own agent and go through `QuietKeeps`;
whatever detaches the agent goes through `ReleaseKeeps`.

Storage needs little more. Five steps write rows, each of which appends one row or replaces
the rows by an extension of them, so `NothingOverwritten` is a property of every step by
itself (`DiskGrows`); this is where the prefix check of the store is used. With it,
`AckedIsStored` follows from `Persisted`: the row was written before the acknowledgement
was. A saved transcript stays aligned because rows are only added behind it and because
whoever touches the transcript clears the flag; `JobAligned` covers the two places where
it could fail, a turn that has not been saved and a bootstrap between its load and its build.

The queue takes most. Its properties need each other: `EntersOnce` says that a message is
pushed once, `HandsOut` that a picked message is at the front and has not been turned,
and that a turned one in the queue is the front of a job that is about to shift;
`FrontIsTurned`, where nothing failed, that the front of the queue is the message in the
running job's hand, so that the shift drops that one. A second job would break all of this,
which is what `overlapped` excepts; `OneRuns` says that until then the running jobs are one.
A queue request that fails removes its own entry only, which is what `Removal` shows.

The session's `active` flag tells Close, the sweep and a release whether a turn is running.
`FlagIsTrue` says that it is set only while one runs and, while no jobs overlap, whenever one
does: Close and a releasing job then clear the resident agent only when no turn has it, and the
sweep only when it had checked before the turn began (`TurnsKeepAgents`). Both exceptions are
needed, as small instances show.

Replies need to know where rows come from. `ReplyInv` follows every transcript there is, stored,
resident, in a snapshot or just loaded: it has known rows only (`KnownRows`: of a message that
was persisted, or the reply of one that was turned) and, until jobs overlap, no reply twice
(`Clean`). `Produced` says what a turn adds behind its base, `Unreplied` that the base has not the
reply of the message being turned, which holds because a message is turned once. A merge is
where this could break: the live writer may have stored the reply already. A turn adds at most one
row behind its base, and for that `MergeIs` says what `MergeAppend` is: the stored rows, with the
row behind them unless they hold it behind the base.

Order: `OrderInv` says that a posted message that `Precedes` another, because it was turned, was
picked or waits in front of it, or is in the queue when the other is about to be pushed, has its
row before the other's. The lock makes the row and the place in the queue one step for other
jobs, so a message is persisted when all earlier ones have entered; the places of a bootstrapped
agent, a Stop or a failure do not matter, since the queue alone says what is turned next.

Undisturbed turns: `Straight` describes a session in which each job turns its own message. Before
the turn begins, the stored rows are every transcript in use and the message behind it (`Leads`);
from there to the save they are the running transcript, with or without the reply (`Line`), and
each snapshot is a prefix of them or that transcript with the reply (`Snapshots`). So every save
and every write extends them (`SavesStraight`, `WritesStored`, `WritesReply`), no merge happens,
and an eviction is undone by a bootstrap that withholds exactly one row (`StripsOwn`). As a
disturbance is never taken back (`StaysDisturbed`), `Undisturbed => Straight` is inductive.

**Scheduler.** Two of the properties are inductive with the rest of `IInv`. `Lists` has the ids
of a list distinct, in the file and in every slice. `OnDisk` compares the slice of a host whose
sync is up to date with the file: the same ids in the same order but between a run's record
and the write behind it, where the slice may lack jobs that ran. `Pointed` is about the pointer
that executeJob holds over the callback: it always shows some job, and while no removal disturbed
it, a listed one and the same from the run's beginning to its record. `Collected` says that the
indices of a tick name due jobs until the slice is moved; `OnlyAMoveMisleads` follows. `Counted`
follows a one-shot: between its last run and the write of its removal its host is at the record
or the write (`Spent`), or a crash came between, which is counted. A callback that panics has
not run the job.
Every writer overwrites the whole file, so what a write does to it is shared by all
(`OverwriteOnDisk`, `OverwriteLists`, `OverwriteKeeps`, `OverwriteCounts`). That `First` is an
index of the set follows from the well-foundedness of the numbers (`FirstIsLeast`).

**LocalModelLimiter.** Exclusion is not inductive: a reaper and a releaser may both be at a
slot that a third request creates anew. What is kept is that the guard decides: `OwnersLock`
says that a request which serves, releases or reaps has its slot's guard, `LocksAreOwned` that
a held guard's owner is at such a place. Two that serve from one slot would own one guard.
The limit follows because the map from serving requests to slots is injective (`ServedFit`).
`FilesAreTended` gives the clean-up: while nobody died, every slot file has somebody who is
going to remove it. The refinement needs the limit in the state after the step, since `Locks`
is where a request gets in.

**NoteBus.** `IInv` says what a caller may have in hand where its code stands (`Places`), that a
queued request is the one its caller waits for and the only one (`Requests`), that a reply
fits the request (`Replied`) and that two unread replies to appends carry different seqs
(`Apart`). `Resolved` and `Marked` tie the owner's resolved set and the watermarks to the log.
For the hand-off, `Joined` says that attached children are over when the parent reads,
`Quiet` that nobody stopped the bus before, `Covered` that the head the parent is answered is
behind every acknowledged append of an attached child, `Early` that a hand-off comes after the
read. A request that was given up is harmless because it is no longer anybody's (`Nobody`).
`Tended` is the safety half of `GroupEnds`, for every number of children and every capacity:
whoever sent a request and has no answer is in the channel (`NoneIsLost`), the owner leaves only
a bus that is stopped or whose turn was cancelled (`OwnerStays`), and by `Quiet` and `Joined` the
bus is not stopped while the parent or a child it waits for is in a call. Both conditions are
needed: the Delta of a child that was let go may stay behind in a stopped bus, and after a
cancellation the request may wait in the channel of an owner that left (section 10, 3).

**PendingRewind.** `OneHolds` is the turn lock: one job holds it, since a second one is the step
`Overlaps`, after which nothing is followed; jobs of the old id (`Strays`) do not count, and the
lemmas `HoldersAre` and `AfterMove` say that a move leaves no other. A release takes the agent away
from under the holder, so what a turn works on is `Hand`, the released agent's transcript or the
registry's: `AgentIsThere` says that a job in the queue has one of the two, `TurnInHand` that a
turn's message is at the front and its transcript is not empty. `HoldsTokens` says that the client
and its sends hold tokens that were prepared, so that a new token is nobody's, and `UsedOnce` that a
committed send's token is the resource's only while that says committed: the checks of a commit then
keep a second one out. `SeenOrMoved` ties the fingerprint to what was seen. `QueueOfEntered` and
`DeadAreOut` say that a message that is not in `left` enters the queue once, is begun once, and is
out of the queue when the commit that cut it is adopted; between the transaction and that, the lock
keeps every turn from beginning (`Landed`), and a move in between ends in `left` and `lost`.
`RowsInv` is what `CutIsGone` needs: every reply has a number of its own (`Proper`), so that what a
commit keeps is not what it cuts; the stored rows (`StoredClean`), the registry's and the released
agent's transcript (`AgentClean`) and a snapshot of the present generation (`SlotClean`) have no cut
reply. A snapshot of an older generation may, and the generation check is where that is used; a
reset-id, which starts the generation again at 0, takes the snapshots with the old id.
`MaxOfFinite`, which `NextUserSeq` and `pendingStripLen` rest on, follows from the library's theorem
that strict subsets of a finite set are well-founded.

**Model-checked only.** Liveness (`CallsReturn`, `SnapshotsSettle`, `ComesToRest`,
`DueIsHandled`, `StopReturns`, `EveryRequestIsServed`, `GroupEnds`), which is out of the prover's
reach; that the loop of mergeAppend computes what `MergeAppend` states, which needs induction over
transcripts and is compared on all of up to three rows (MCSessionTurns). Every safety property
that a passing run checks is a theorem.

## 10. What the runs found

1. **A message can be stored twice** (`agent_session.go:1937`, run claim_stored_once). A job that
   merges another queued message's row adopts it, and turns the message again.
2. **A job that is not due can run** (`scheduler.go:224`, run claim_only_due_fires). A one-shot
   that ran is removed and the jobs behind it move up, so the next index of the tick names
   the job behind the one that was due.
3. **An Append in a cancelled group can wait for ever** (`notebus.go:474`, run
   claim_append_returns). The owner leaves on its context without serving the channel, and
   the stop channel that would free the caller is closed only after the caller has returned.

4. **Two jobs of a session can run at once** (`handler.go:828`, run claim_one_job). The onEvict
   hook takes the session's mutex out of its map while a job that has not begun its turn holds
   it or waits for it. A Close does it between a job's bootstrap and its first turn or between
   two turns; the next message's job makes a new mutex. Both jobs may then turn the front of
   the queue and each shifts an entry, the second one a message that nobody turned: without
   their `overlapped` disjunct `TurnedOnce` and `NothingForgotten` fail on that run's instance.
   With the mutex left in its map all three hold.

Seen while modelling, without a run of their own.

Live writer:
- FlushAll skips a worker that has taken its snapshot and is writing it (`live.go:407`; the
  comment at `:380` says "drained"). `FlushAllLeavesOnlyInFlight`, proved, says that this is
  all it misses.
- A sync save's mark covers whatever was enqueued by the time it runs, a snapshot enqueued
  behind that save included, so a barrier may be answered with a success its snapshot did
  not have (`live.go:247`; the comment at `:33` rules it out). `AnswersAreTrue` says that
  this is the only way.
- Retirement forgets a failed write: a Flush after it finds no worker and returns nil.
  `IdleHidesOnlyFailures` bounds the effect.
- A rewind of rows that are queued and not yet stored does not bump history_gen
  (`sqlitestore.go:594`; compare `session.go:222`), so the queued snapshot stores them
  afterwards.

Turns:
- Once another message's row stands behind the turn's, the turn's live snapshots are dropped
  (`agent_session.go:3008`; compare `:1403`): a crash then loses more than the round in flight.
- Stop reads `turnActive` before it takes the lock under which it uses it
  (`handler_cancel.go:51`; compare `:34`), so the flag it sets may meet the next message.
- A Close that finds a turn running sets its marker after the job that should have seen it
  may have left (`handler_close.go:60`); the agent stays until the next job or the sweep.
- EvictIdle waits for a running turn to release `as.mu` and then detaches the agent that its
  scan picked, even when a turn began after the scan.
- A queue request pushes and then persists, a posted message persists and then pushes: with
  both, the order of turns and the order of rows can differ. `TurnsFollowRows` is checked for
  posted messages.
- A queue request whose write fails removes the newest entry with its text from the queue; if
  that entry has been the front of a running turn, the turn's end drops the entry behind it.
  `NothingForgotten` excepts runs with a failure for that reason.
- A Close or the sweep also shuts down the agent that a job holds and is about to turn on: the
  job goes on with an agent nobody can look up, so a Stop no longer reaches it.

Pending rewinds:
- Re-keying a session moves an armed token and computes its fingerprint anew from the stored
  rows (`pending_rewind.go:770`), where the comment says it is retained (`session.go:1773`): a
  token that the transcript had outdated since it was armed is valid again under the new id.
- A commit replaces the pending queue by its own message (`agent_session.go:2254`): messages
  that were accepted and not yet turned leave the queue.
- A commit that is sent again with another text is answered like the first (`:2225`), and the
  new text is stored nowhere.
- A new prepare is refused while a committed resource is retained, unless it has expired; the
  design (`docs/superpowers/specs/2026-09-25-deferred-session-rewind-design.md`, section 2.2) has
  it replace the previous row.
- A queue request reserves its place before it stores its row (`handler_session_comm.go:169`). A
  commit that falls between replaces the queue, and the row is stored for a message that no
  longer waits; and a reserved message that a running job turned has its row stored a second
  time by its late persist when a rewind has cut the first (the comment at `:161` says
  "one-to-one with the persisted rows").
- The client clears its record by session and not by token, so a late answer may clear a newer
  token's draft.
- Reset-id asks only whether a turn is active (`handler_reset_id.go:45`) and takes no turn lock, where
  the comments have the caller quiesce the session (`session.go:1765`, `session_manager.go:422`).
  Between a commit and its ReplacePending, which is then a no-op for the old id
  (`session_manager.go:885-892`), it loses the committed text's place in the queue, and the messages
  that the commit cut stay in the moved queue and are turned (without `lost` and `left`
  `CommittedIsQueued` and `CutIsGone` fail in `rewinds`).
- A reset-id after a job took its text from the queue leaves the text there: the old id's job turns it
  under the old id, the new id's next job turns it again (without `left` `SingleUse` fails).
- A post that has stored its row when the session moves, or finds its entry before the move and stores
  it after (`persistUserMessage` reads the entry's id), is never queued: its row waits for no turn.
- A job of the old id builds an agent for the new one (`agent_session.go:2516`). When it loads the
  transcript between a new job's row and its place in the queue, that row is not withheld and stands
  in memory twice.
- A turn that begins between the reset's release and its move leaves the moved entry's `turnActive`
  set: it is cleared under the old id.
- A Save checks no generation, as a live write does: a save of another process's older transcript
  after a resend of the unchanged text extends the new rows by those that were cut.

Scheduler:
- `/cron add` in the terminal makes a Service that was never started, and writes a list of one
  over the store; `/cron list` and `/cron remove` look at the same empty slice
  (`internal/tui/command_cron.go:37`).
- `persistLocked` writes the whole list whatever the file holds by then: what another process
  added since the last sync is gone. All processes use the same `.tmp` name (`scheduler.go:621`).
- A removal during a run shifts the slice under `executeJob`'s pointer: the run is filed under,
  and the reschedule written to, the job that moved up.
- A callback that panics leaves its job due: executeJob's recover neither reschedules nor removes
  it (`scheduler.go:273-282`), so the loop runs it again at once, and without an end when it
  always panics. The comment at `scheduler.go:150-151` says "tick removes or reschedules every due
  job, so this cannot spin". Without its `PanicsForEver` disjunct `DueIsHandled` fails on the run's
  instance, with a loop that goes round through `PanicsOut` and `Persists`.
- AddJob and UpdateJob report a failed write and keep the change in memory.
- The outbox's drain reads and then truncates (`deliver.go:101`): a line appended between the
  two is lost.

Note bus:
- A capped Append answers (-1, nil); no caller sets the cap. Delta, HeadSeq and Snapshot
  after the owner left wait for ever, as Append does. An Append that races Stop may answer
  ErrBusClosed for an entry that is logged.
- A resolve that names a seq ahead of the head silences the note that will get it.
- Children that ended without a record (skipped, queued out) are not in the hand-off
  (`reconcile.go:185`; compare `:73-76`).

## 11. Not modelled

In the modelled parts. SessionTurns: retries in place, rewind sends, permission and question asks
and their continuations, synchronous turns, messages injected into a running turn, auto-continue
chains, compaction, the title writer. Scheduler: the job cap, refused schedules, writes that fail,
the outbox with its drainer, the run history, delivery targets. NoteBus: the soft cap, the sidecar
file and Hydrate, which no caller switches on; nested groups; touch entries, which nothing in
production appends. LocalModelLimiter: the look-up of the model by port, and an os.Remove that
fails, whose error the code drops. PendingRewind: rows without a user_seq, which a target names by
index, the status probe, the bridge to a terminal, permission asks, other processes that save, what
two jobs do once they overlap, what a turn under an id that was moved away writes there (a new file
of the old id), an agent that a job builds between a reset's release and its move (the moved entry
keeps it, and a release there only drops the lock), a drainer scheduled under the old id, a move's
failure between its new file and the deletion of the old one, and the file revisions of
`revision.go`.

Left for later, with state worth a module: the event bus, bootstrap tickets
in the session registry, ask rounds, compaction's cut, the task graph, the
snapshot journal, settings sync, reminders, terminals.

Outside this development: rendering and key handling, the tools' effects on files, processes
and protocols of external programs, speech, browser control, cryptography, configuration and
prompts. PROJECT.json gives the reason for each.
