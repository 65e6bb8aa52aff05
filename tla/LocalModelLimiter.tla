-------------------------- MODULE LocalModelLimiter --------------------------
(***************************************************************************)
(* The cross-process limit on requests to a local model server             *)
(* (internal/agent/local_model_limiter.go).                                *)
(*                                                                         *)
(* A slot is a file made with O_CREATE|O_EXCL and a guard file next to it, *)
(* whose advisory lock the holder keeps: the operating system drops that   *)
(* lock when a process dies, the slot file stays behind until somebody     *)
(* finds it stale.  Every action is one system call on these files and the *)
(* code around it; requests run in any number of processes.                *)
(*                                                                         *)
(* The content of the files and the clock are abstracted: a slot file is   *)
(* absent, fresh or stale.  A holder whose response body is open touches   *)
(* its slot file; one that still waits for the response does not.          *)
(***************************************************************************)
EXTENDS Naturals, FiniteSets

CONSTANTS
  Requests,     \* calls of RoundTrip to one managed model, in all processes
  None,         \* no request
  MaxParallel,  \* the model's max_parallel
  MaxCrashes,   \* bound: processes that die while they hold or try a slot
  MaxSuspends,  \* bound: pauses of the machine longer than the staleness limit
  MaxFaults     \* bound: files that cannot be opened

ASSUME RequestsAssumption == IsFiniteSet(Requests) /\ None \notin Requests
ASSUME SlotsAssumption == MaxParallel \in Nat \ {0}
ASSUME BoundsAssumption == MaxCrashes \in Nat /\ MaxSuspends \in Nat /\ MaxFaults \in Nat

Slots == 1 .. MaxParallel

VARIABLES
  slot,      \* the slot files: absent, fresh or stale
  guard,     \* the request whose descriptor holds the lock of a guard file
  pc,        \* where a request is
  at,        \* the slot it tries or holds
  crashes, suspends, faults   \* how often each bounded thing has happened

bounds == <<crashes, suspends, faults>>
vars   == <<slot, guard, pc, at, bounds>>

Init ==
  /\ slot = [s \in Slots |-> "absent"]
  /\ guard = [s \in Slots |-> None]
  /\ pc = [r \in Requests |-> "idle"]
  /\ at = [r \in Requests |-> 1]
  /\ crashes = 0
  /\ suspends = 0
  /\ faults = 0

-----------------------------------------------------------------------------
(* acquireLocalModelSlot. *)

Goes(r, to) == pc' = [pc EXCEPT ![r] = to]

\* continue, or the end of the loop's body: the next slot, or the poll timer.
Advances(r) ==
  IF at[r] < MaxParallel
  THEN Goes(r, "try") /\ at' = [at EXCEPT ![r] = @ + 1]
  ELSE Goes(r, "wait") /\ at' = [at EXCEPT ![r] = 1]

Enters(r) ==
  /\ pc[r] = "idle"
  /\ Goes(r, "try")
  /\ UNCHANGED <<slot, guard, at, bounds>>

\* The exclusive create succeeds.
Creates(r) ==
  /\ pc[r] = "try"
  /\ slot[at[r]] = "absent"
  /\ slot' = [slot EXCEPT ![at[r]] = "fresh"]
  /\ Goes(r, "lock")
  /\ UNCHANGED <<guard, at, bounds>>

\* TryLock on the guard, which another descriptor may hold.
\* Mutant: a slot file nobody else could create is taken for the lease.
LocksAnyway(r) ==
  /\ pc[r] = "lock"
  /\ guard' = [guard EXCEPT ![at[r]] = r]
  /\ Goes(r, "send")
  /\ UNCHANGED <<slot, at, bounds>>
Locks(r) ==
  /\ pc[r] = "lock"
  /\ guard[at[r]] = None
  /\ guard' = [guard EXCEPT ![at[r]] = r]
  /\ Goes(r, "send")
  /\ UNCHANGED <<slot, at, bounds>>

\* Mutant: the fresh slot file is left where it is.
LockFailsLeaving(r) ==
  /\ pc[r] = "lock"
  /\ guard[at[r]] # None
  /\ Advances(r)
  /\ UNCHANGED <<slot, guard, bounds>>
LockFails(r) ==
  /\ pc[r] = "lock"
  /\ guard[at[r]] # None
  /\ Goes(r, "undo")
  /\ UNCHANGED <<slot, guard, at, bounds>>

\* The guard file cannot be opened: an acquirer undoes its slot file, a reaper
\* leaves the stale one.
GuardFails(r) ==
  /\ pc[r] \in {"lock", "steal"}
  /\ faults < MaxFaults
  /\ faults' = faults + 1
  /\ IF pc[r] = "lock" THEN Goes(r, "undo") /\ UNCHANGED at ELSE Advances(r)
  /\ UNCHANGED <<slot, guard, crashes, suspends>>

\* The slot file cannot be created, and does not exist: RoundTrip fails.
CreateFails(r) ==
  /\ pc[r] = "try"
  /\ faults < MaxFaults
  /\ faults' = faults + 1
  /\ Goes(r, "failed")
  /\ UNCHANGED <<slot, guard, at, crashes, suspends>>

\* The slot file goes again, by its path.
Undoes(r) ==
  /\ pc[r] = "undo"
  /\ slot' = [slot EXCEPT ![at[r]] = "absent"]
  /\ Advances(r)
  /\ UNCHANGED <<guard, bounds>>

\* The exclusive create finds the file.
FindsTaken(r) ==
  /\ pc[r] = "try"
  /\ slot[at[r]] # "absent"
  /\ Goes(r, "stat")
  /\ UNCHANGED <<slot, guard, at, bounds>>

\* Stat: the file is fresh, or gone by now.
PassesOn(r) ==
  /\ pc[r] = "stat"
  /\ slot[at[r]] # "stale"
  /\ Advances(r)
  /\ UNCHANGED <<slot, guard, bounds>>

FindsStale(r) ==
  /\ pc[r] = "stat"
  /\ slot[at[r]] = "stale"
  /\ Goes(r, "steal")
  /\ UNCHANGED <<slot, guard, at, bounds>>

\* "A stale mtime is only a hint": the guard decides.
\* Mutant: the hint is enough, and the path is reused without the lock.
StealsUnguarded(r) ==
  /\ pc[r] = "steal"
  /\ guard' = [guard EXCEPT ![at[r]] = r]
  /\ Goes(r, "reap")
  /\ UNCHANGED <<slot, at, bounds>>
Steals(r) ==
  /\ pc[r] = "steal"
  /\ guard[at[r]] = None
  /\ guard' = [guard EXCEPT ![at[r]] = r]
  /\ Goes(r, "reap")
  /\ UNCHANGED <<slot, at, bounds>>

StealRefused(r) ==
  /\ pc[r] = "steal"
  /\ guard[at[r]] # None
  /\ Advances(r)
  /\ UNCHANGED <<slot, guard, bounds>>

Reaps(r) ==
  /\ pc[r] = "reap"
  /\ slot' = [slot EXCEPT ![at[r]] = "absent"]
  /\ Goes(r, "reaped")
  /\ UNCHANGED <<guard, at, bounds>>

ReapEnds(r) ==
  /\ pc[r] = "reaped"
  /\ guard' = [guard EXCEPT ![at[r]] = None]
  /\ Advances(r)
  /\ UNCHANGED <<slot, bounds>>

Polls(r) ==
  /\ pc[r] = "wait"
  /\ Goes(r, "try")
  /\ UNCHANGED <<slot, guard, at, bounds>>

\* The request's context ends; it is looked at between two polls only.
Cancels(r) ==
  /\ pc[r] = "wait"
  /\ Goes(r, "failed")
  /\ UNCHANGED <<slot, guard, at, bounds>>

-----------------------------------------------------------------------------
(* RoundTrip, slotReleasingBody and the release function. *)

Responds(r) ==
  /\ pc[r] = "send"
  /\ Goes(r, "body")
  /\ UNCHANGED <<slot, guard, at, bounds>>

\* The request failed, or the body is closed: the release starts.
\* Mutant: a failed request does not give its slot back.
ReleasesClosedOnly(r) ==
  /\ pc[r] \in {"send", "body"}
  /\ Goes(r, IF pc[r] = "body" THEN "release" ELSE "failed")
  /\ UNCHANGED <<slot, guard, at, bounds>>
Releases(r) ==
  /\ pc[r] \in {"send", "body"}
  /\ Goes(r, "release")
  /\ UNCHANGED <<slot, guard, at, bounds>>

Unlocks(r) ==
  /\ pc[r] = "release"
  /\ guard' = [guard EXCEPT ![at[r]] = None]
  /\ Goes(r, "remove")
  /\ UNCHANGED <<slot, at, bounds>>

\* Whatever file has the slot's path by now is removed.
Removes(r) ==
  /\ pc[r] = "remove"
  /\ slot' = [slot EXCEPT ![at[r]] = "absent"]
  /\ Goes(r, "done")
  /\ UNCHANGED <<guard, at, bounds>>

\* touchLoop, by path, as long as the body is open.
Touches(r) ==
  /\ pc[r] = "body"
  /\ slot[at[r]] = "stale"
  /\ slot' = [slot EXCEPT ![at[r]] = "fresh"]
  /\ UNCHANGED <<guard, pc, at, bounds>>

-----------------------------------------------------------------------------
(* Time and crashes. *)

\* Somebody is about to lock, remove or touch the slot's file: it ages beyond
\* the limit only when the machine stands still.
Tended(s) == \E r \in Requests : at[r] = s /\ pc[r] \in {"lock", "undo", "body", "release", "remove"}

Ages(s) ==
  /\ slot[s] = "fresh"
  /\ ~Tended(s)
  /\ slot' = [slot EXCEPT ![s] = "stale"]
  /\ UNCHANGED <<guard, pc, at, bounds>>

Suspend(s) ==
  /\ slot[s] = "fresh"
  /\ Tended(s)
  /\ suspends < MaxSuspends
  /\ suspends' = suspends + 1
  /\ slot' = [slot EXCEPT ![s] = "stale"]
  /\ UNCHANGED <<guard, pc, at, crashes, faults>>

\* A request's process dies: its locks go, its slot file stays.
Crash(r) ==
  /\ pc[r] \notin {"idle", "done", "failed", "crashed"}
  /\ crashes < MaxCrashes
  /\ crashes' = crashes + 1
  /\ guard' = [s \in Slots |-> IF guard[s] = r THEN None ELSE guard[s]]
  /\ Goes(r, "crashed")
  /\ UNCHANGED <<slot, at, suspends, faults>>

-----------------------------------------------------------------------------
AcquireStep(r) ==
  \/ Creates(r) \/ Locks(r) \/ LockFails(r) \/ Undoes(r) \/ FindsTaken(r) \/ PassesOn(r)
  \/ FindsStale(r) \/ Steals(r) \/ StealRefused(r) \/ Reaps(r) \/ ReapEnds(r) \/ Polls(r)

HoldStep(r) == Responds(r) \/ Releases(r) \/ Unlocks(r) \/ Removes(r)

Next ==
  \/ \E r \in Requests :
       \/ Enters(r) \/ AcquireStep(r) \/ HoldStep(r) \/ Touches(r)
       \/ Cancels(r) \/ Crash(r) \/ GuardFails(r) \/ CreateFails(r)
  \/ \E s \in Slots : Ages(s) \/ Suspend(s)

Spec == Init /\ [][Next]_vars

\* Every request keeps running, the server answers and the caller closes the
\* body; a file nobody tends gets old.
Fairness ==
  /\ \A r \in Requests : WF_vars(AcquireStep(r)) /\ WF_vars(HoldStep(r))
  /\ \A s \in Slots : WF_vars(Ages(s))

FairSpec == Spec /\ Fairness

-----------------------------------------------------------------------------
(* Properties. *)

Places == {"idle", "try", "lock", "undo", "stat", "steal", "reap", "reaped", "wait", "send",
           "body", "release", "remove", "done", "failed", "crashed"}

\* Every variable has its type; a request that works on a slot works on one of
\* the model's max_parallel slots.
TypeOK ==
  /\ slot \in [Slots -> {"absent", "fresh", "stale"}]
  /\ guard \in [Slots -> Requests \cup {None}]
  /\ pc \in [Requests -> Places]
  /\ at \in [Requests -> Slots]
  /\ crashes \in Nat /\ suspends \in Nat /\ faults \in Nat

\* The requests the local server is working on.
Serving == {r \in Requests : pc[r] \in {"send", "body"}}

\* Two requests never hold the same slot, whatever was removed, reaped or
\* created anew under its path meanwhile.
SlotsAreExclusive ==
  \A r1, r2 \in Serving : at[r1] = at[r2] => r1 = r2

\* "enforces LocalModelConfig.MaxParallel ... as a cross-process counting
\* semaphore" (localConcurrencyTransport).
AtMostMaxParallel == Cardinality(Serving) <= MaxParallel

\* When no process died and every request is over, no slot file and no lock is
\* left: releases, failed attempts and reapers clean up after each other.
NothingIsLeft ==
  crashes = 0 /\ (\A r \in Requests : pc[r] \in {"idle", "done", "failed"}) =>
    \A s \in Slots : slot[s] = "absent" /\ guard[s] = None

\* "a crashed holder cannot deadlock other processes forever": a request that
\* tries gets a slot, unless its context ends or its process dies.
EveryRequestIsServed ==
  \A r \in Requests :
    (pc[r] = "try") ~> (pc[r] \in {"send", "body", "failed", "crashed"})

\* The limiter is a counting semaphore.
Sem == INSTANCE Semaphore WITH inside <- Serving
SemaphoreSpec == Sem!Spec
=============================================================================
