------------------------------ MODULE Scheduler ------------------------------
(***************************************************************************)
(* The job scheduler (internal/scheduler/scheduler.go).                    *)
(*                                                                         *)
(* A host (serve, web, desktop) keeps the jobs of a project in a slice,    *)
(* a loop fires the due ones through a callback, and every change is       *)
(* written to jobs.json, which other hosts and the /cron command of the    *)
(* terminal interface share without a lock.                                *)
(*                                                                         *)
(* Each action is one critical section of Service.mu, or one step of the   *)
(* loop between two of them.  The loop works on slice positions: tick      *)
(* remembers indices, executeJob a pointer to an element, and both outlive *)
(* the critical section they come from.  A removal shifts the elements in  *)
(* place, an append may move the slice to a new array.                     *)
(*                                                                         *)
(* A job is its id, its kind, the time it is authored for, the time of its *)
(* next run, whether it is enabled and when it was created.  Time is a     *)
(* small clock; an interval is one tick of it.                             *)
(***************************************************************************)
EXTENDS Naturals, Sequences, SequencesExt

CONSTANTS
  Hosts,      \* processes that run a Service on the same store
  Jobs,       \* job ids
  KindOf,     \* the kind of each job: at, every or cron
  None,       \* no job
  Life,       \* age at which an interval job expires (sevenDaysMs)
  MaxTime,    \* bound: the clock
  MaxCalls,   \* bound: calls of RemoveJob and UpdateJob
  MaxTui,     \* bound: jobs added by /cron add in the terminal interface
  MaxCrashes  \* bound: crashes of hosts

ASSUME KindsAssumption == KindOf \in [Jobs -> {"at", "every", "cron"}]
ASSUME NoneAssumption == None \notin Jobs
ASSUME BoundsAssumption == {Life, MaxTime, MaxCalls, MaxTui, MaxCrashes} \subseteq Nat

VARIABLES
  now,        \* the wall clock
  file,       \* the jobs of jobs.json
  \* --- per host: its Service
  up,         \* is the loop running: down, up or stopping
  jobs,       \* the slice
  room,       \* spare capacity of the slice's array
  stale,      \* has the file an mtime after loadedAt?
  \* --- per host: its loop
  pc,         \* where it is: wait, collect, run, begin, call, report, record, persist
  due,        \* the indices tick has still to execute, from the least to the greatest
  ptr,        \* the pointer executeJob works through
  began,      \* when executeJob began
  firing,     \* the job whose prompt the callback runs, or None
  \* --- bounds
  unused,     \* ids no AddJob has taken
  calls, tuis,
  \* --- history variables
  accepted,   \* jobs an AddJob or a /cron add returned an id for
  removed,    \* jobs a RemoveJob took away
  fired,      \* how often each host's callback returned from each job
  crashes,    \* how often each host crashed
  early,      \* hosts whose callback runs a job that was not due
  misnamed,   \* hosts that filed the run they are at under another job
  moved,      \* hosts whose slice changed since this tick collected its indices
  disturbed,  \* hosts whose slice shrank while executeJob held a pointer
  clobbered   \* has a process written over a list it had not read?

service == <<up, jobs, room, stale>>
loop    == <<pc, due, ptr, began, firing>>
bounds  == <<unused, calls, tuis>>
history == <<accepted, removed, fired, crashes, early, misnamed, moved, disturbed, clobbered>>
vars    == <<now, file, service, loop, bounds, history>>

Job == [id : Jobs, kind : {"at", "every", "cron"}, at : Nat, next : Nat, on : BOOLEAN,
        created : Nat]

Nowhere == [at |-> 0, copy |-> None]

Ids(list) == {list[i].id : i \in DOMAIN list}
Index(list, id) == CHOOSE i \in DOMAIN list : list[i].id = id

\* nextFireDelayLocked, tick: the test for a job that should run.
Due(j) == j.on /\ j.next > 0 /\ j.next <= now

\* computeNextRun: a one-shot keeps its time even when it has passed, an
\* interval is counted from now, a cron job gets a jitter on top.
NextRuns(j, t) ==
  IF j.kind = "at" THEN {j.at} ELSE IF j.kind = "every" THEN {t + 1} ELSE {t + 1, t + 2}

Rescheduled(j, t) == {[j EXCEPT !.next = n] : n \in NextRuns(j, t)}

\* What AddJob makes of a request: an id nobody has, enabled, next run computed.
NewJobs(id) ==
  LET at == IF KindOf[id] = "at" THEN 1 .. MaxTime ELSE {0}
      job(a) == [id |-> id, kind |-> KindOf[id], at |-> a, next |-> 0, on |-> TRUE,
                 created |-> now]
  IN  UNION {Rescheduled(job(a), now) : a \in at}

Init ==
  /\ now = 1
  /\ file = <<>>
  /\ up = [h \in Hosts |-> "down"]
  /\ jobs = [h \in Hosts |-> <<>>]
  /\ room = [h \in Hosts |-> 0]
  /\ stale = [h \in Hosts |-> FALSE]
  /\ pc = [h \in Hosts |-> "wait"]
  /\ due = [h \in Hosts |-> {}]
  /\ ptr = [h \in Hosts |-> Nowhere]
  /\ began = [h \in Hosts |-> 0]
  /\ firing = [h \in Hosts |-> None]
  /\ unused = Jobs
  /\ calls = 0 /\ tuis = 0
  /\ accepted = {} /\ removed = {}
  /\ fired = [h \in Hosts |-> [j \in Jobs |-> 0]]
  /\ crashes = [h \in Hosts |-> 0]
  /\ early = {} /\ misnamed = {} /\ moved = {} /\ disturbed = {}
  /\ clobbered = FALSE

-----------------------------------------------------------------------------
(* The slice and the pointer into it. *)

\* The element executeJob's pointer shows: a live one, or the remains of the
\* cell it pointed at when the slice shrank below it or moved away.
Shown(h) ==
  IF ptr[h].at \in DOMAIN jobs[h] THEN jobs[h][ptr[h].at] ELSE ptr[h].copy

\* A write through the pointer.
Write(h, j) ==
  IF ptr[h].at \in DOMAIN jobs[h]
  THEN /\ jobs' = [jobs EXCEPT ![h][ptr[h].at] = j]
       /\ UNCHANGED ptr
  ELSE /\ ptr' = [ptr EXCEPT ![h].copy = j]
       /\ UNCHANGED jobs

\* removeJobLocked: the elements after position i move up in place; a pointer
\* to the last cell keeps seeing what that cell held.  list is the slice as
\* the critical section has changed it so far, p the pointer.
Shrunk(list, i) == RemoveAt(list, i)
Left(p, list) == IF p.at = Len(list) THEN [p EXCEPT !.copy = list[Len(list)]] ELSE p

\* Mutant: the newest job comes first.
Prepended(h, j) ==
  /\ jobs' = [jobs EXCEPT ![h] = <<j>> \o @]
  /\ UNCHANGED <<room, ptr>>

\* append: into the spare cell, or into a new array that leaves the pointer
\* behind on the old one.
Appended(h, j) ==
  /\ jobs' = [jobs EXCEPT ![h] = Append(@, j)]
  /\ IF room[h] > 0
     THEN /\ room' = [room EXCEPT ![h] = @ - 1]
          /\ UNCHANGED ptr
     ELSE /\ \E r \in {0, 1} : room' = [room EXCEPT ![h] = r]
          /\ ptr' = [ptr EXCEPT ![h] = IF @ = Nowhere THEN @ ELSE [at |-> 0, copy |-> Shown(h)]]

\* persistLocked: the whole list over the file, whatever the file holds by now.
\* Mutants: the write is forgotten; jobs the file has and the list has not are
\* kept.
PersistNothing(h, list) == UNCHANGED <<file, stale, clobbered>>
PersistMerged(h, list) ==
  /\ file' = list \o SelectSeq(file, LAMBDA j : j.id \notin Ids(list))
  /\ UNCHANGED <<stale, clobbered>>

Persist(h, list) ==
  /\ file' = list
  /\ stale' = [g \in Hosts |-> g # h /\ (stale[g] \/ up[g] # "down")]
  /\ clobbered' = (clobbered \/ stale[h])

-----------------------------------------------------------------------------
(* The public calls, each one critical section. *)

Holding(h) == pc[h] \in {"begin", "call", "report", "record"}

AddJob(h, id) ==
  /\ up[h] = "up"
  /\ id \in unused
  /\ \E j \in NewJobs(id) : Appended(h, j)
  /\ Persist(h, jobs'[h])
  /\ unused' = unused \ {id}
  /\ accepted' = accepted \cup {id}
  /\ UNCHANGED <<now, up, pc, due, began, firing, calls, tuis, removed, fired,
                 crashes, early, misnamed, moved, disturbed>>

RemoveJob(h, id) ==
  /\ up[h] = "up"
  /\ calls < MaxCalls
  /\ id \in Ids(jobs[h])
  /\ LET i == Index(jobs[h], id)
     IN  /\ jobs' = [jobs EXCEPT ![h] = Shrunk(@, i)]
         /\ ptr' = [ptr EXCEPT ![h] = Left(@, jobs[h])]
  /\ room' = [room EXCEPT ![h] = @ + 1]
  /\ Persist(h, jobs'[h])
  /\ calls' = calls + 1
  /\ removed' = removed \cup {id}
  /\ moved' = moved \cup {h}
  /\ disturbed' = IF Holding(h) THEN disturbed \cup {h} ELSE disturbed
  /\ UNCHANGED <<now, up, pc, due, began, firing, unused, tuis, accepted, fired,
                 crashes, early, misnamed>>

\* UpdateJob: enable or disable, or author a new time; the next run is computed
\* anew for a new time and for a job that was disabled.
Patches(j) ==
  {[j EXCEPT !.on = FALSE]}
  \cup (IF j.on THEN {[j EXCEPT !.on = TRUE]} ELSE Rescheduled([j EXCEPT !.on = TRUE], now))
  \cup UNION {Rescheduled([j EXCEPT !.at = a], now) : a \in IF j.kind = "at" THEN 1 .. MaxTime ELSE {0}}

UpdateJob(h, id) ==
  /\ up[h] = "up"
  /\ calls < MaxCalls
  /\ id \in Ids(jobs[h])
  /\ LET i == Index(jobs[h], id)
     IN  \E j \in Patches(jobs[h][i]) : jobs' = [jobs EXCEPT ![h][i] = j]
  /\ Persist(h, jobs'[h])
  /\ calls' = calls + 1
  /\ moved' = moved \cup {h}
  /\ UNCHANGED <<now, up, room, loop, unused, tuis, accepted, removed, fired,
                 crashes, early, misnamed, disturbed>>

\* /cron add: a Service of its own that nobody started, whose slice is empty.
\* Its AddJob writes a list of one.
TuiAdds(id) ==
  /\ tuis < MaxTui
  /\ id \in unused
  /\ \E j \in NewJobs(id) : file' = <<j>>
  /\ stale' = [h \in Hosts |-> stale[h] \/ up[h] # "down"]
  /\ clobbered' = (clobbered \/ file # <<>>)
  /\ unused' = unused \ {id}
  /\ tuis' = tuis + 1
  /\ accepted' = accepted \cup {id}
  /\ UNCHANGED <<now, up, jobs, room, loop, calls, removed, fired, crashes, early,
                 misnamed, moved, disturbed>>

-----------------------------------------------------------------------------
(* The loop: run, tick, executeJob. *)

\* syncFromDisk: a job the host knows takes the authored fields and keeps its
\* next run, one it does not know gets a next run, the others are dropped.
Adopted(h, j) ==
  IF j.id \in Ids(jobs[h])
  THEN {[jobs[h][Index(jobs[h], j.id)] EXCEPT !.at = j.at, !.on = j.on]}
  ELSE Rescheduled(j, now)
\* Mutant: jobs that are gone from the file are kept.
MergesKeeping(h) ==
  {list \o SelectSeq(jobs[h], LAMBDA j : j.id \notin Ids(file)) :
     list \in [DOMAIN file -> UNION {Adopted(h, file[i]) : i \in DOMAIN file}]}
Merges(h) ==
  {list \in [DOMAIN file -> UNION {Adopted(h, file[i]) : i \in DOMAIN file}] :
     \A i \in DOMAIN file : list[i] \in Adopted(h, file[i])}

\* run reaches tick: it is due, or a timer fired; a Stop is looked at first when
\* a job is due, and races the timers otherwise.
Ticks(h) == up[h] = "up" \/ (up[h] = "stopping" /\ \A i \in DOMAIN jobs[h] : ~Due(jobs[h][i]))

Syncs(h) ==
  /\ pc[h] = "wait"
  /\ Ticks(h)
  /\ IF stale[h]
     THEN /\ \E list \in Merges(h) : jobs' = [jobs EXCEPT ![h] = list]
          /\ room' = [room EXCEPT ![h] = 0]
          /\ stale' = [stale EXCEPT ![h] = FALSE]
     ELSE UNCHANGED <<jobs, room, stale>>
  /\ pc' = [pc EXCEPT ![h] = "collect"]
  /\ UNCHANGED <<now, file, up, due, ptr, began, firing, bounds, history>>

\* tick's first critical section: the indices of the due jobs.  Mutant: of the
\* enabled ones.
FoundEnabled(h) == {i \in DOMAIN jobs[h] : jobs[h][i].on}
Found(h) == {i \in DOMAIN jobs[h] : Due(jobs[h][i])}
Collects(h) ==
  /\ pc[h] = "collect"
  /\ due' = [due EXCEPT ![h] = Found(h)]
  /\ moved' = moved \ {h}
  /\ pc' = [pc EXCEPT ![h] = "run"]
  /\ UNCHANGED <<now, file, service, ptr, began, firing, bounds, accepted, removed, fired,
                 crashes, early, misnamed, disturbed, clobbered>>

\* The range over the indices tick collected: the least one left is the next.
First(h) == CHOOSE i \in due[h] : \A k \in due[h] : i <= k
Points(h, i) ==
  /\ ptr' = [ptr EXCEPT ![h] = [at |-> i, copy |-> None]]
  /\ pc' = [pc EXCEPT ![h] = "begin"]

\* Mutants: the index is not looked at again; an index outside the slice is
\* not passed over.
TakesUnchecked(h) ==
  /\ pc[h] = "run"
  /\ due[h] # {}
  /\ due' = [due EXCEPT ![h] = @ \ {First(h)}]
  /\ Points(h, First(h))
  /\ UNCHANGED <<now, file, service, began, firing, bounds, history>>
TakesStuck(h) ==
  /\ pc[h] = "run"
  /\ due[h] # {}
  /\ First(h) \in DOMAIN jobs[h]
  /\ due' = [due EXCEPT ![h] = @ \ {First(h)}]
  /\ Points(h, First(h))
  /\ UNCHANGED <<now, file, service, began, firing, bounds, history>>

\* tick's second one: an index that is still inside the slice becomes a pointer.
Takes(h) ==
  /\ pc[h] = "run"
  /\ due[h] # {}
  /\ due' = [due EXCEPT ![h] = @ \ {First(h)}]
  /\ IF First(h) \in DOMAIN jobs[h] THEN Points(h, First(h)) ELSE UNCHANGED <<ptr, pc>>
  /\ UNCHANGED <<now, file, service, began, firing, bounds, history>>

TickEnds(h) ==
  /\ pc[h] = "run"
  /\ due[h] = {}
  /\ pc' = [pc EXCEPT ![h] = "wait"]
  /\ UNCHANGED <<now, file, service, due, ptr, began, firing, bounds, history>>

\* executeJob's first critical section: the time of the run.
Begins(h) ==
  /\ pc[h] = "begin"
  /\ began' = [began EXCEPT ![h] = now]
  /\ pc' = [pc EXCEPT ![h] = "call"]
  /\ UNCHANGED <<now, file, service, due, ptr, firing, bounds, history>>

\* The callback reads the job it runs through the pointer, without the mutex.
Calls(h) ==
  /\ pc[h] = "call"
  /\ firing' = [firing EXCEPT ![h] = Shown(h).id]
  /\ early' = IF Due(Shown(h)) THEN early ELSE early \cup {h}
  /\ pc' = [pc EXCEPT ![h] = "report"]
  /\ UNCHANGED <<now, file, service, due, ptr, began, bounds, accepted, removed, fired,
                 crashes, misnamed, moved, disturbed, clobbered>>

\* It returns: the dispatcher files the run under the job the pointer shows now.
Reports(h) ==
  /\ pc[h] = "report"
  /\ fired' = [fired EXCEPT ![h][firing[h]] = @ + 1]
  /\ misnamed' = IF Shown(h).id = firing[h] THEN misnamed ELSE misnamed \cup {h}
  /\ pc' = [pc EXCEPT ![h] = "record"]
  /\ UNCHANGED <<now, file, service, due, ptr, began, firing, bounds, accepted, removed,
                 crashes, early, moved, disturbed, clobbered>>

\* It panics: executeJob's recover records that, and neither reschedules nor removes.
PanicsOut(h) ==
  /\ pc[h] = "report"
  /\ pc' = [pc EXCEPT ![h] = "persist"]
  /\ UNCHANGED <<now, file, service, due, ptr, began, firing, bounds, history>>

Expired(h, j) == j.kind = "every" /\ began[h] - j.created > Life
\* Mutant: a one-shot that ran stays in the list.
OverExpired(h, j) == Expired(h, j)
Over(h, j) == j.kind = "at" \/ Expired(h, j)

\* executeJob's last critical section: a one-shot and an expired job go, by id;
\* the others get their next run.
Records(h) ==
  /\ pc[h] = "record"
  /\ IF Over(h, Shown(h))
     THEN /\ IF Shown(h).id \in Ids(jobs[h])
             THEN /\ jobs' = [jobs EXCEPT ![h] = Shrunk(@, Index(@, Shown(h).id))]
                  /\ room' = [room EXCEPT ![h] = @ + 1]
                  /\ moved' = moved \cup {h}
             ELSE UNCHANGED <<jobs, room, moved>>
          /\ UNCHANGED ptr
     ELSE /\ \E j \in Rescheduled(Shown(h), now) : Write(h, j)
          /\ UNCHANGED <<room, moved>>
  /\ pc' = [pc EXCEPT ![h] = "persist"]
  /\ UNCHANGED <<now, file, up, stale, due, began, firing, bounds, accepted, removed, fired,
                 crashes, early, misnamed, disturbed, clobbered>>

\* executeJob's persist, in a critical section of its own.
Persists(h) ==
  /\ pc[h] = "persist"
  /\ Persist(h, jobs[h])
  /\ ptr' = [ptr EXCEPT ![h] = Nowhere]
  /\ began' = [began EXCEPT ![h] = 0]
  /\ firing' = [firing EXCEPT ![h] = None]
  /\ pc' = [pc EXCEPT ![h] = "run"]
  /\ early' = early \ {h} /\ misnamed' = misnamed \ {h}
  /\ UNCHANGED <<now, up, jobs, room, due, bounds, accepted, removed, fired, crashes, moved,
                 disturbed>>

-----------------------------------------------------------------------------
(* Start, Stop and crashes. *)

\* load: a next run that has passed is computed anew; a one-shot keeps its own.
Reloaded(j) == IF j.next <= now THEN Rescheduled(j, now) ELSE {j}
Loads ==
  {list \in [DOMAIN file -> UNION {Reloaded(file[i]) : i \in DOMAIN file}] :
     \A i \in DOMAIN file : list[i] \in Reloaded(file[i])}

Start(h) ==
  /\ up[h] = "down"
  /\ up' = [up EXCEPT ![h] = "up"]
  /\ \E list \in Loads : jobs' = [jobs EXCEPT ![h] = list]
  /\ \E r \in {0, 1} : room' = [room EXCEPT ![h] = r]
  /\ UNCHANGED <<now, file, stale, loop, bounds, history>>

StopBegins(h) ==
  /\ up[h] = "up"
  /\ calls < MaxCalls
  /\ calls' = calls + 1
  /\ up' = [up EXCEPT ![h] = "stopping"]
  /\ UNCHANGED <<now, file, jobs, room, stale, loop, unused, tuis, history>>

\* The process forgets its Service.
Gone(h) ==
  /\ up' = [up EXCEPT ![h] = "down"]
  /\ jobs' = [jobs EXCEPT ![h] = <<>>]
  /\ room' = [room EXCEPT ![h] = 0]
  /\ stale' = [stale EXCEPT ![h] = FALSE]
  /\ pc' = [pc EXCEPT ![h] = "wait"]
  /\ due' = [due EXCEPT ![h] = {}]
  /\ ptr' = [ptr EXCEPT ![h] = Nowhere]
  /\ began' = [began EXCEPT ![h] = 0]
  /\ firing' = [firing EXCEPT ![h] = None]
  /\ early' = early \ {h} /\ misnamed' = misnamed \ {h} /\ moved' = moved \ {h}

\* run sees the closed stopCh and returns; Stop, which waits for it, returns too.
StopEnds(h) ==
  /\ up[h] = "stopping"
  /\ pc[h] = "wait"
  /\ Gone(h)
  /\ UNCHANGED <<now, file, bounds, accepted, removed, fired, crashes, disturbed, clobbered>>

Crash(h) ==
  /\ up[h] # "down"
  /\ crashes[h] < MaxCrashes
  /\ crashes' = [crashes EXCEPT ![h] = @ + 1]
  /\ Gone(h)
  /\ UNCHANGED <<now, file, bounds, accepted, removed, fired, disturbed, clobbered>>

Clock ==
  /\ now < MaxTime
  /\ now' = now + 1
  /\ UNCHANGED <<file, service, loop, bounds, history>>

-----------------------------------------------------------------------------
LoopStep(h) ==
  \/ Syncs(h) \/ Collects(h) \/ Takes(h) \/ TickEnds(h) \/ Begins(h) \/ Calls(h)
  \/ Reports(h) \/ Records(h) \/ Persists(h)

CallStep(h) == \E id \in Jobs : AddJob(h, id) \/ RemoveJob(h, id) \/ UpdateJob(h, id)

Next ==
  \/ \E h \in Hosts : LoopStep(h) \/ PanicsOut(h) \/ CallStep(h)
  \/ \E h \in Hosts : Start(h) \/ StopBegins(h) \/ StopEnds(h) \/ Crash(h)
  \/ \E id \in Jobs : TuiAdds(id)
  \/ Clock

Spec == Init /\ [][Next]_vars

\* A loop keeps running, its callbacks return or panic, and a closed stopCh is not lost
\* to the timers for ever (select chooses fairly).  Nobody has to call, to
\* start a host or to let time pass.
Fairness == \A h \in Hosts : WF_vars(LoopStep(h)) /\ SF_vars(StopEnds(h))

FairSpec == Spec /\ Fairness

-----------------------------------------------------------------------------
(* Properties. *)

\* The slice, the file and the loop's locals keep their types, and the loop
\* holds a pointer exactly while it executes a job.
TypeOK ==
  /\ now \in Nat
  /\ file \in Seq(Job)
  /\ up \in [Hosts -> {"down", "up", "stopping"}]
  /\ jobs \in [Hosts -> Seq(Job)]
  /\ room \in [Hosts -> Nat]
  /\ stale \in [Hosts -> BOOLEAN]
  /\ pc \in [Hosts -> {"wait", "collect", "run", "begin", "call", "report", "record", "persist"}]
  /\ due \in [Hosts -> SUBSET (Nat \ {0})]
  /\ \A h \in Hosts : Holding(h) => Shown(h) \in Job
  /\ firing \in [Hosts -> Jobs \cup {None}]
  /\ unused \subseteq Jobs /\ accepted \subseteq Jobs /\ removed \subseteq accepted
  /\ {early, misnamed, moved, disturbed} \subseteq SUBSET Hosts

\* Nothing a caller was given an id for is lost, over crashes and restarts: it
\* stays in jobs.json until it is removed or has run -- unless a process wrote
\* its list over one it had not read, or a removal moved the slice under a run.
NothingIsLost ==
  ~clobbered /\ disturbed = {} =>
    \A id \in accepted \ removed :
      id \in Ids(file) \/ \E h \in Hosts : fired[h][id] > 0

\* A removed job does not come back, with the first of these exceptions.
NothingComesBack == ~clobbered => removed \cap Ids(file) = {}

\* The store holds what the callers made it hold: what AddJob accepted and
\* RemoveJob has not taken away, through ticks, syncs, restarts and crashes.
AcceptedIsKept == NothingIsLost /\ NothingComesBack

\* The callback of a one-shot returns once on a host, however often it panicked
\* before, and once more for a crash that came before the removal was written
\* (types.go: "fires once ... then deletes itself"), with the same two exceptions.
OneShotFiresOnce ==
  ~clobbered /\ disturbed = {} =>
    \A h \in Hosts : \A id \in Jobs :
      KindOf[id] = "at" => fired[h][id] <= 1 + crashes[h]

\* What a running loop lists between two jobs is what jobs.json lists, in the
\* same order, unless another process has written since: no change of the slice
\* is left to a later write.
IdList(list) == [i \in DOMAIN list |-> list[i].id]
ListIsOnDisk ==
  \A h \in Hosts :
    up[h] # "down" /\ pc[h] \in {"wait", "collect", "run"} /\ ~stale[h] =>
      IdList(jobs[h]) = IdList(file)

\* A job that is not due, or is disabled, runs only in a tick that moved the
\* slice after it had collected its indices.
EarlyOnlyAfterAMove == early \subseteq moved

\* A run is filed under the job whose prompt ran, unless a removal moved the
\* slice under it.
RunsAreFiledRight == misnamed \subseteq disturbed

\* What goes wrong in a tick goes wrong only after the slice was changed under
\* the loop: an index or a pointer that nobody disturbed names the right job.
OnlyAMoveMisleads == EarlyOnlyAfterAMove /\ RunsAreFiledRight

\* A due job of a running host is run, removed, disabled or put off, unless its own
\* callback panics again and again: the loop is not kept from it by the callers, nor
\* by other jobs, one whose callback always panics among them.  That one stays due,
\* and executeJob runs it for ever.
IsDue(h, id) == \E i \in DOMAIN jobs[h] : jobs[h][i].id = id /\ Due(jobs[h][i])
PanicsForEver(h, id) == []<><<PanicsOut(h) /\ firing[h] = id>>_vars
DueIsHandled ==
  \A h \in Hosts : \A id \in Jobs :
    \/ (up[h] = "up" /\ IsDue(h, id)) ~> ~(up[h] = "up" /\ IsDue(h, id))
    \/ PanicsForEver(h, id)

\* Stop returns: the loop leaves, whatever is due and whatever panics.
StopReturns == \A h \in Hosts : (up[h] = "stopping") ~> (up[h] = "down")

-----------------------------------------------------------------------------
(* What the comments promise. *)

\* types.go:20: a one-shot "fires once at a specific time"; scheduler.go:201:
\* tick "finds due jobs ..., fires them": nothing fires that is not due.
OnlyDueFires == early = {}
=============================================================================
