-------------------------- MODULE SchedulerProofs ---------------------------
(***************************************************************************)
(* Safety of the scheduler for every number of hosts and jobs and every    *)
(* bound: its types, what it keeps, what it fires, and what a tick can get *)
(* wrong.  Beside the types and two of these properties IInv has OnDisk,   *)
(* which compares a host's slice with the file between and after the       *)
(* writes; Pointed and Collected, which say what an undisturbed pointer and *)
(* undisturbed indices name; Counted, the life of a one-shot from its last *)
(* run to its removal.                                                     *)
(***************************************************************************)
EXTENDS Scheduler, TLAPS, WellFoundedInduction

-----------------------------------------------------------------------------
(* The inductive invariant. *)

\* A job somebody was given an id for, of the kind it was made with.
Real == {j \in Job : j.id \in accepted /\ j.kind = KindOf[j.id]}

Distinct(list) == \A i, k \in DOMAIN list : list[i].id = list[k].id => i = k

Pointer == [at : Nat, copy : Job \cup {None}]

PCs == {"wait", "collect", "run", "begin", "call", "report", "record", "persist"}

Lists ==
  /\ now \in Nat
  /\ file \in Seq(Real) /\ Distinct(file)
  /\ jobs \in [Hosts -> Seq(Real)] /\ \A h \in Hosts : Distinct(jobs[h])
  /\ up \in [Hosts -> {"down", "up", "stopping"}]
  /\ room \in [Hosts -> Nat]
  /\ stale \in [Hosts -> BOOLEAN]
  /\ clobbered \in BOOLEAN
  /\ unused \subseteq Jobs /\ accepted \subseteq Jobs \ unused
  /\ removed \subseteq accepted
  /\ \A h \in Hosts : up[h] = "down" => jobs[h] = <<>> /\ pc[h] = "wait" /\ ~stale[h]

Locals ==
  /\ pc \in [Hosts -> PCs]
  /\ due \in [Hosts -> SUBSET (Nat \ {0})]
  /\ ptr \in [Hosts -> Pointer]
  /\ firing \in [Hosts -> Jobs \cup {None}]
  /\ fired \in [Hosts -> [Jobs -> Nat]]
  /\ crashes \in [Hosts -> Nat]
  /\ early \subseteq Hosts /\ misnamed \subseteq Hosts
  /\ moved \subseteq Hosts /\ disturbed \subseteq Hosts
  /\ \A h \in Hosts, id \in unused : fired[h][id] = 0

\* An up-to-date host lists what the file lists; between a run's record and the
\* write behind it, it may list less: jobs that ran.
OnDisk ==
  \A h \in Hosts : up[h] # "down" /\ ~stale[h] =>
    /\ pc[h] # "persist" => IdList(jobs[h]) = IdList(file)
    /\ Ids(jobs[h]) \subseteq Ids(file)
    /\ disturbed = {} => \A id \in Ids(file) \ Ids(jobs[h]) : fired[h][id] > 0

\* A pointer shows a job.  One nobody disturbed is inside the slice, or was left
\* behind on an old array; it shows a listed job, and the same one over a run.
Pointed(h) ==
  /\ Holding(h) => Shown(h) \in Real
  /\ Holding(h) /\ (h \notin moved \/ h \notin disturbed) =>
       ptr[h].at \in DOMAIN jobs[h] \cup {0}
  /\ Holding(h) /\ h \notin disturbed => Shown(h).id \in Ids(jobs[h])
  /\ pc[h] \in {"report", "record"} =>
       /\ firing[h] \in accepted
       /\ pc[h] = "record" => fired[h][firing[h]] > 0
       /\ h \notin disturbed => Shown(h).id = firing[h]

\* Indices nobody disturbed name due jobs, and so does a pointer taken from one.
Collected(h) ==
  /\ h \notin moved /\ pc[h] \notin {"wait", "collect"} =>
       \A i \in due[h] : i \in DOMAIN jobs[h] /\ Due(jobs[h][i])
  /\ h \notin moved /\ Holding(h) => ptr[h].at \notin due[h]
  /\ h \notin moved /\ pc[h] \in {"begin", "call"} => Due(Shown(h))
  /\ h \in early \cup misnamed => pc[h] \in {"report", "record", "persist"}

\* A one-shot that ran once more than crashes excuse is being removed, or is gone.
Spent(h, id) ==
  \/ pc[h] = "record" /\ firing[h] = id
  \/ id \notin Ids(jobs[h]) /\ (pc[h] = "persist" \/ id \notin Ids(file))

Counted ==
  ~clobbered /\ disturbed = {} =>
    \A h \in Hosts : \A id \in Jobs :
      KindOf[id] = "at" =>
        /\ fired[h][id] <= 1 + crashes[h]
        /\ fired[h][id] > crashes[h] => Spent(h, id)

IInv ==
  /\ Lists /\ Locals /\ OnDisk /\ Counted
  /\ \A h \in Hosts : Pointed(h) /\ Collected(h)
  /\ AcceptedIsKept /\ OnlyAMoveMisleads

-----------------------------------------------------------------------------
(* What the operators of the model return. *)

\* The least of the indices left: a set of numbers that is not empty has one.
LEMMA FirstIsLeast ==
  ASSUME NEW h \in Hosts, due[h] \subseteq Nat \ {0}, due[h] # {}
  PROVE  First(h) \in due[h] /\ First(h) \in Nat \ {0}
<1>1. PICK i \in due[h] : \A k \in due[h] : ~ <<k, i>> \in OpToRel(<, Nat)
  BY NatLessThanWellFounded, WFMin
<1>2. \A k \in due[h] : ~(k < i)
  BY <1>1 DEF OpToRel
<1>3. \E n \in due[h] : \A k \in due[h] : n <= k
  <2>1. \A k \in due[h] : i <= k
    BY <1>2
  <2> QED  BY <2>1
<1> QED  BY <1>3 DEF First

\* removeJobLocked and UpdateJob search for an id that is there.
LEMMA IndexIs ==
  ASSUME NEW list, NEW id \in Ids(list)
  PROVE  Index(list, id) \in DOMAIN list /\ list[Index(list, id)].id = id
  BY DEF Index, Ids

\* Lists with the same ids in the same order.
LEMMA SameIds ==
  ASSUME NEW one, NEW two, IdList(one) = IdList(two)
  PROVE  /\ DOMAIN one = DOMAIN two
         /\ \A i \in DOMAIN one : one[i].id = two[i].id
         /\ Ids(one) = Ids(two) /\ (Distinct(two) => Distinct(one))
<1>1. DOMAIN one = DOMAIN two
  <2>1. DOMAIN IdList(one) = DOMAIN one /\ DOMAIN IdList(two) = DOMAIN two
    BY DEF IdList
  <2> QED  BY <2>1
<1>2. \A i \in DOMAIN one : one[i].id = two[i].id
  <2> TAKE i \in DOMAIN one
  <2>1. IdList(one)[i] = one[i].id /\ IdList(two)[i] = two[i].id
    BY <1>1 DEF IdList
  <2> QED  BY <2>1
<1> QED  BY <1>1, <1>2 DEF Ids, Distinct

\* A removal moves the elements behind it up by one ...
LEMMA ShrunkIs ==
  ASSUME NEW S, NEW list \in Seq(S), NEW i \in DOMAIN list
  PROVE  /\ Shrunk(list, i) \in Seq(S)
         /\ DOMAIN Shrunk(list, i) = 1 .. Len(list) - 1
         /\ \A k \in DOMAIN Shrunk(list, i) :
              Shrunk(list, i)[k] = IF k < i THEN list[k] ELSE list[k + 1]
<1> DEFINE front == SubSeq(list, 1, i - 1)  back == SubSeq(list, i + 1, Len(list))
<1>1. /\ front \in Seq(S) /\ Len(front) = i - 1
      /\ \A k \in 1 .. i - 1 : front[k] = list[k]
  OBVIOUS
<1>2. /\ back \in Seq(S) /\ Len(back) = Len(list) - i
      /\ \A k \in 1 .. Len(list) - i : back[k] = list[k + i]
  OBVIOUS
<1>3. Shrunk(list, i) = front \o back
  BY DEF Shrunk, RemoveAt
<1>4. i \in Nat /\ Len(list) \in Nat /\ 1 <= i /\ i <= Len(list)
  OBVIOUS
<1> HIDE DEF front, back
<1>5. front \o back \in Seq(S) /\ Len(front \o back) = Len(list) - 1
  BY <1>1, <1>2, <1>4
<1>6. \A k \in 1 .. Len(list) - 1 : (front \o back)[k] = IF k < i THEN list[k] ELSE list[k + 1]
  <2> TAKE k \in 1 .. Len(list) - 1
  <2>1. CASE k < i
    BY <2>1, <1>1, <1>2, <1>4
  <2>2. CASE ~(k < i)
    <3>1. (front \o back)[k] = back[k - (i - 1)]
      <4>1. k \in Len(front) + 1 .. Len(front) + Len(back)
        BY <2>2, <1>1, <1>2, <1>4
      <4>2. (front \o back)[k] = back[k - Len(front)]
        <5>1. front \in Seq(S) /\ back \in Seq(S)
          BY <1>1, <1>2
        <5> QED  BY <4>1, <5>1
      <4> QED  BY <4>2, <1>1
    <3>2. k - (i - 1) \in 1 .. Len(list) - i
      BY <2>2, <1>4
    <3>3. back[k - (i - 1)] = list[(k - (i - 1)) + i]
      BY <3>2, <1>2
    <3>4. (k - (i - 1)) + i = k + 1
      BY <1>4
    <3> QED  BY <3>1, <3>3, <3>4, <2>2
  <2> QED  BY <2>1, <2>2
<1>7. DOMAIN (front \o back) = 1 .. Len(list) - 1
  BY <1>5
<1> QED  BY <1>3, <1>5, <1>6, <1>7

\* ... and takes away one id.
LEMMA ShrunkIds ==
  ASSUME NEW S, NEW list \in Seq(S), NEW i \in DOMAIN list, Distinct(list)
  PROVE  /\ Ids(Shrunk(list, i)) = Ids(list) \ {list[i].id}
         /\ Distinct(Shrunk(list, i))
<1> DEFINE rest == Shrunk(list, i)
<1>1. /\ DOMAIN rest = 1 .. Len(list) - 1
      /\ \A k \in DOMAIN rest : rest[k] = IF k < i THEN list[k] ELSE list[k + 1]
  BY ShrunkIs
<1>2. DOMAIN list = 1 .. Len(list) /\ Len(list) \in Nat /\ i \in 1 .. Len(list)
  OBVIOUS
<1> DEFINE From(k) == IF k < i THEN k ELSE k + 1
<1>3. \A k \in DOMAIN rest : From(k) \in DOMAIN list /\ From(k) # i /\ rest[k] = list[From(k)]
  BY <1>1, <1>2
<1>4. \A m \in DOMAIN list \ {i} : \E k \in DOMAIN rest : From(k) = m
  <2> TAKE m \in DOMAIN list \ {i}
  <2>1. CASE m < i
    BY <2>1, <1>1, <1>2
  <2>2. CASE ~(m < i)
    <3>1. m - 1 \in DOMAIN rest /\ From(m - 1) = m
      BY <2>2, <1>1, <1>2
    <3> QED  BY <3>1
  <2> QED  BY <2>1, <2>2
<1>5. \A k, m \in DOMAIN rest : From(k) = From(m) => k = m
  BY <1>1, <1>2
<1> HIDE DEF rest, From
<1>6. Distinct(rest)
  BY <1>3, <1>5 DEF Distinct
<1>7. Ids(rest) = Ids(list) \ {list[i].id}
  <2>1. \A k \in DOMAIN list : list[k].id = list[i].id => k = i
    BY DEF Distinct
  <2> QED  BY <2>1, <1>3, <1>4 DEF Ids
<1> QED  BY <1>6, <1>7 DEF rest

\* An append adds one id.
LEMMA AppendIds ==
  ASSUME NEW S, NEW list \in Seq(S), NEW j \in S, j.id \notin Ids(list), Distinct(list)
  PROVE  /\ Append(list, j) \in Seq(S)
         /\ DOMAIN list \subseteq DOMAIN Append(list, j)
         /\ \A i \in DOMAIN list : Append(list, j)[i] = list[i]
         /\ Ids(Append(list, j)) = Ids(list) \cup {j.id}
         /\ Distinct(Append(list, j))
<1> DEFINE more == Append(list, j)
<1>1. /\ more \in Seq(S) /\ DOMAIN more = 1 .. Len(list) + 1
      /\ DOMAIN list = 1 .. Len(list) /\ Len(list) \in Nat
      /\ more[Len(list) + 1] = j
      /\ \A i \in 1 .. Len(list) : more[i] = list[i]
  OBVIOUS
<1> HIDE DEF more
<1>2. \A i \in DOMAIN more : i \in DOMAIN list \/ i = Len(list) + 1
  BY <1>1
<1>3. Len(list) + 1 \in DOMAIN more /\ DOMAIN list \subseteq DOMAIN more
  BY <1>1
<1>4. Ids(more) = Ids(list) \cup {j.id}
  BY <1>1, <1>2, <1>3 DEF Ids
<1>5. Distinct(more)
  BY <1>1, <1>2, <1>3 DEF Distinct, Ids
<1> QED  BY <1>1, <1>3, <1>4, <1>5 DEF more

\* An element is replaced by one of the same id.
LEMMA ReplacedIs ==
  ASSUME NEW S, NEW list \in Seq(S), NEW i \in DOMAIN list, NEW j \in S, j.id = list[i].id
  PROVE  /\ [list EXCEPT ![i] = j] \in Seq(S)
         /\ DOMAIN [list EXCEPT ![i] = j] = DOMAIN list
         /\ IdList([list EXCEPT ![i] = j]) = IdList(list)
  BY DEF IdList

\* A job that is rescheduled differs in its next run only.
LEMMA RescheduledIs ==
  ASSUME NEW j \in Job, NEW t \in Nat, NEW k \in Rescheduled(j, t)
  PROVE  k \in Job /\ k.id = j.id /\ k.kind = j.kind
<1>1. PICK n \in NextRuns(j, t) : k = [j EXCEPT !.next = n]
  BY DEF Rescheduled
<1>2. n \in Nat
  BY DEF NextRuns, Job
<1> QED  BY <1>1, <1>2 DEF Job

LEMMA NewJobsAre ==
  ASSUME NEW id \in Jobs, now \in Nat, NEW j \in NewJobs(id)
  PROVE  j \in Job /\ j.id = id /\ j.kind = KindOf[id]
<1> DEFINE job(a) == [id |-> id, kind |-> KindOf[id], at |-> a, next |-> 0, on |-> TRUE,
                      created |-> now]
<1>1. PICK a \in Nat : j \in Rescheduled(job(a), now)
  <2>1. (IF KindOf[id] = "at" THEN 1 .. MaxTime ELSE {0}) \subseteq Nat
    BY BoundsAssumption
  <2>2. \E a \in IF KindOf[id] = "at" THEN 1 .. MaxTime ELSE {0} : j \in Rescheduled(job(a), now)
    BY Zenon DEF NewJobs
  <2> QED  BY <2>1, <2>2
<1>2. job(a) \in Job /\ job(a).id = id /\ job(a).kind = KindOf[id]
  BY KindsAssumption DEF Job
<1> HIDE DEF job
<1> QED  BY <1>1, <1>2, RescheduledIs

LEMMA PatchesAre ==
  ASSUME NEW j \in Job, now \in Nat, NEW k \in Patches(j)
  PROVE  k \in Job /\ k.id = j.id /\ k.kind = j.kind
<1> DEFINE off == [j EXCEPT !.on = FALSE]  on == [j EXCEPT !.on = TRUE]
           at(a) == [j EXCEPT !.at = a]
<1>1. off \in Job /\ off.id = j.id /\ off.kind = j.kind
  BY DEF Job
<1>2. on \in Job /\ on.id = j.id /\ on.kind = j.kind
  BY DEF Job
<1>3. \A a \in Nat : at(a) \in Job /\ at(a).id = j.id /\ at(a).kind = j.kind
  BY DEF Job
<1>4. \/ k \in {off, on} \/ k \in Rescheduled(on, now)
      \/ \E a \in Nat : k \in Rescheduled(at(a), now)
  <2>1. (IF j.kind = "at" THEN 1 .. MaxTime ELSE {0}) \subseteq Nat
    BY BoundsAssumption
  <2> QED  BY <2>1 DEF Patches
<1> HIDE DEF off, on, at
<1>5. CASE k \in {off, on}
  BY <1>1, <1>2, <1>5
<1>6. CASE k \in Rescheduled(on, now)
  BY <1>2, <1>6, RescheduledIs
<1>7. CASE \E a \in Nat : k \in Rescheduled(at(a), now)
  BY <1>3, <1>7, RescheduledIs
<1> QED  BY <1>4, <1>5, <1>6, <1>7

\* Reading the file keeps its ids in their order and makes jobs of its rows.
LEMMA AdoptedIs ==
  ASSUME NEW h \in Hosts, jobs[h] \in Seq(Real), now \in Nat,
         NEW j \in Real, NEW k \in Adopted(h, j)
  PROVE  k \in Real /\ k.id = j.id
<1>1. CASE j.id \in Ids(jobs[h])
  <2> DEFINE mine == jobs[h][Index(jobs[h], j.id)]
  <2>1. mine \in Real /\ mine.id = j.id
    BY <1>1, IndexIs
  <2>2. k = [mine EXCEPT !.at = j.at, !.on = j.on]
    BY <1>1 DEF Adopted
  <2> HIDE DEF mine
  <2> QED  BY <2>1, <2>2 DEF Real, Job
<1>2. CASE j.id \notin Ids(jobs[h])
  <2>1. k \in Rescheduled(j, now)
    BY <1>2 DEF Adopted
  <2> QED  BY <2>1, RescheduledIs DEF Real
<1> QED  BY <1>1, <1>2

LEMMA MergesAre ==
  ASSUME NEW h \in Hosts, jobs[h] \in Seq(Real), file \in Seq(Real), now \in Nat,
         NEW list \in Merges(h)
  PROVE  list \in Seq(Real) /\ IdList(list) = IdList(file)
<1>1. DOMAIN list = DOMAIN file /\ \A i \in DOMAIN file : list[i] \in Adopted(h, file[i])
  BY DEF Merges
<1>2. \A i \in DOMAIN file : list[i] \in Real /\ list[i].id = file[i].id
  BY <1>1, AdoptedIs
<1>3. list \in [1 .. Len(file) -> Real]
  <2>1. list \in [DOMAIN file -> UNION {Adopted(h, file[i]) : i \in DOMAIN file}]
    BY DEF Merges
  <2> QED  BY <2>1, <1>2
<1> QED  BY <1>1, <1>2, <1>3 DEF IdList

LEMMA LoadsAre ==
  ASSUME file \in Seq(Real), now \in Nat, NEW list \in Loads
  PROVE  list \in Seq(Real) /\ IdList(list) = IdList(file)
<1>1. DOMAIN list = DOMAIN file /\ \A i \in DOMAIN file : list[i] \in Reloaded(file[i])
  BY DEF Loads
<1>2. \A i \in DOMAIN file : list[i] \in Real /\ list[i].id = file[i].id
  <2> TAKE i \in DOMAIN file
  <2>1. file[i] \in Real
    OBVIOUS
  <2>2. list[i] \in Rescheduled(file[i], now) \/ list[i] = file[i]
    BY <1>1 DEF Reloaded
  <2> QED  BY <2>1, <2>2, RescheduledIs DEF Real
<1>3. list \in [1 .. Len(file) -> Real]
  <2>1. list \in [DOMAIN file -> UNION {Reloaded(file[i]) : i \in DOMAIN file}]
    BY DEF Loads
  <2> QED  BY <2>1, <1>2
<1> QED  BY <1>1, <1>2, <1>3 DEF IdList

LEMMA RealIds ==
  ASSUME NEW list \in Seq(Real)
  PROVE  Ids(list) \subseteq accepted
  BY DEF Ids, Real

-----------------------------------------------------------------------------
(* Steps that leave most of it alone. *)

LEMMA RealGrows ==
  ASSUME accepted \subseteq accepted'
  PROVE  Real \subseteq Real' /\ Seq(Real) \subseteq Seq(Real')
<1>1. Real \subseteq Real'
  BY DEF Real
<1> QED  BY <1>1

\* What a step leaves alone of a host g.
Untouched(g) ==
  /\ jobs'[g] = jobs[g] /\ pc'[g] = pc[g] /\ due'[g] = due[g] /\ ptr'[g] = ptr[g]
  /\ firing'[g] = firing[g] /\ fired'[g] = fired[g]
  /\ g \in early' <=> g \in early
  /\ g \in misnamed' <=> g \in misnamed
  /\ g \in moved' <=> g \in moved
  /\ g \in disturbed' <=> g \in disturbed

LEMMA OthersKeep ==
  ASSUME Lists, NEW g \in Hosts, Untouched(g), Pointed(g), Collected(g),
         accepted \subseteq accepted', now' \in Nat, now <= now'
  PROVE  Pointed(g)' /\ Collected(g)'
<1>1. Real \subseteq Real'
  BY RealGrows
<1>2. Shown(g)' = Shown(g) /\ (Holding(g)' <=> Holding(g))
  BY DEF Untouched, Shown, Holding
<1>3. Pointed(g)'
  BY <1>1, <1>2 DEF Untouched, Pointed
<1>4. \A j \in Real : Due(j) => Due(j)'
  BY DEF Due, Real, Job, Lists
<1>5. \A i \in DOMAIN jobs[g] : jobs[g][i] \in Real
  BY DEF Lists
<1>6. pc[g] \in {"begin", "call"} => Shown(g) \in Real
  BY DEF Pointed, Holding
<1>7. Collected(g)'
  BY <1>2, <1>4, <1>5, <1>6 DEF Untouched, Collected, Due
<1> QED  BY <1>3, <1>7

\* A step inside the loop leaves the lists alone.
LEMMA ListsStay ==
  ASSUME Lists,
         UNCHANGED <<now, file, up, jobs, room, stale, unused, accepted, removed, clobbered>>,
         \A g \in Hosts : up[g] = "down" => pc'[g] = pc[g]
  PROVE  Lists'
  BY DEF Lists, Real

\* A host that acts runs.
LEMMA ActsUp ==
  ASSUME Lists, NEW h \in Hosts, pc[h] # "wait"
  PROVE  up[h] # "down"
  BY DEF Lists

LEMMA InitHolds == Init => IInv
<1> SUFFICES ASSUME Init PROVE IInv
  OBVIOUS
<1> USE DEF Init
<1>1. file = <<>> /\ \A h \in Hosts : jobs[h] = <<>>
  OBVIOUS
<1>2. <<>> \in Seq(Real) /\ DOMAIN <<>> = {} /\ Ids(<<>>) = {} /\ Distinct(<<>>)
  BY DEF Ids, Distinct
<1>3. Lists
  <2>1. jobs \in [Hosts -> Seq(Real)]
    BY <1>1, <1>2
  <2> QED  BY <1>1, <1>2, <2>1 DEF Lists
<1>4. Locals
  BY DEF Locals, PCs, Pointer, Nowhere
<1>5. OnDisk
  BY DEF OnDisk
<1>6. Counted
  BY DEF Counted
<1>7. \A h \in Hosts : Pointed(h) /\ Collected(h)
  BY DEF Pointed, Collected, Holding
<1>8. AcceptedIsKept /\ OnlyAMoveMisleads
  BY DEF AcceptedIsKept, NothingIsLost, NothingComesBack, OnlyAMoveMisleads,
         EarlyOnlyAfterAMove, RunsAreFiledRight
<1> QED  BY <1>3, <1>4, <1>5, <1>6, <1>7, <1>8 DEF IInv

-----------------------------------------------------------------------------
(* The steps that write the file over: AddJob, RemoveJob, UpdateJob and the *)
(* end of executeJob.                                                      *)

\* persistLocked writes the slice as the step leaves it.
Overwrites(h) ==
  /\ up[h] # "down" /\ up' = up
  /\ Persist(h, jobs'[h])
  /\ \A g \in Hosts \ {h} : jobs'[g] = jobs[g]

\* The file lists what the host lists, and every other host is behind.
LEMMA OverwriteOnDisk ==
  ASSUME Lists, NEW h \in Hosts, Overwrites(h)
  PROVE  OnDisk'
<1>1. file' = jobs'[h]
  BY DEF Overwrites, Persist
<1>2. \A g \in Hosts \ {h} : up'[g] # "down" => stale'[g]
  BY DEF Overwrites, Persist, Lists
<1> QED  BY <1>1, <1>2 DEF OnDisk

LEMMA OverwriteLists ==
  ASSUME Lists, NEW h \in Hosts, Overwrites(h),
         now' = now, jobs' \in [Hosts -> Seq(Real)'], Distinct(jobs'[h]),
         room' \in [Hosts -> Nat], unused' \subseteq Jobs,
         accepted \subseteq accepted', accepted' \subseteq Jobs \ unused',
         removed' \subseteq accepted',
         \A g \in Hosts \ {h} : pc'[g] = pc[g]
  PROVE  Lists'
<1>1. file' = jobs'[h] /\ file' \in Seq(Real)' /\ Distinct(file')
  BY DEF Overwrites, Persist
<1>2. stale' \in [Hosts -> BOOLEAN] /\ clobbered' \in BOOLEAN
  BY DEF Overwrites, Persist, Lists
<1>3. \A g \in Hosts : up'[g] = "down" => jobs'[g] = <<>> /\ pc'[g] = "wait" /\ ~stale'[g]
  BY DEF Overwrites, Persist, Lists
<1>4. \A g \in Hosts : Distinct(jobs'[g])
  BY DEF Overwrites, Lists
<1> QED  BY <1>1, <1>2, <1>3, <1>4 DEF Lists, Overwrites

\* Nothing is lost by a write of a list that has been read and then changed by
\* what the step says it added and removed.
LEMMA OverwriteKeeps ==
  ASSUME Lists, OnDisk, AcceptedIsKept, NEW h \in Hosts, Overwrites(h),
         Ids(jobs'[h]) \subseteq Ids(jobs[h]) \cup (unused \cap accepted'),
         removed \subseteq removed', removed' \cap (unused \cup Ids(jobs'[h])) \subseteq removed,
         Ids(jobs[h]) \ Ids(jobs'[h]) \subseteq removed',
         accepted' \ accepted \subseteq Ids(jobs'[h]),
         fired' = fired, disturbed \subseteq disturbed'
  PROVE  AcceptedIsKept'
<1>1. /\ file' = jobs'[h]
      /\ ~clobbered' => ~clobbered /\ ~stale[h]
  BY DEF Overwrites, Persist
<1>2. ASSUME ~stale[h]
      PROVE  /\ Ids(jobs[h]) \subseteq Ids(file)
             /\ disturbed = {} => \A id \in Ids(file) \ Ids(jobs[h]) : fired[h][id] > 0
  BY <1>2 DEF OnDisk, Overwrites
<1>3. NothingIsLost'
  <2> SUFFICES ASSUME ~clobbered', disturbed' = {}, NEW id \in accepted' \ removed'
               PROVE  id \in Ids(file') \/ \E g \in Hosts : fired'[g][id] > 0
    BY DEF NothingIsLost
  <2>1. CASE id \in accepted
    <3>1. id \in Ids(file) \/ \E g \in Hosts : fired[g][id] > 0
      BY <1>1, <2>1 DEF AcceptedIsKept, NothingIsLost
    <3>2. CASE id \in Ids(file)
      BY <1>1, <1>2, <3>2
    <3> QED  BY <3>1, <3>2
  <2>2. CASE id \notin accepted
    BY <1>1, <2>2
  <2> QED  BY <2>1, <2>2
<1>4. NothingComesBack'
  <2> SUFFICES ASSUME ~clobbered', NEW id \in removed' \cap Ids(file') PROVE FALSE
    BY DEF NothingComesBack
  <2>1. id \in removed /\ id \notin Ids(file)
    BY <1>1 DEF AcceptedIsKept, NothingComesBack
  <2>2. id \notin unused
    BY <2>1 DEF Lists
  <2> QED  BY <1>1, <1>2, <2>1, <2>2
<1> QED  BY <1>3, <1>4 DEF AcceptedIsKept

\* A job that is gone stays gone: a list that was read has nothing else.
LEMMA OverwriteCounts ==
  ASSUME Lists, Locals, OnDisk, Counted, NEW h \in Hosts, Overwrites(h),
         Ids(jobs'[h]) \subseteq Ids(jobs[h]) \cup unused,
         fired' = fired, crashes' = crashes,
         disturbed \subseteq disturbed',
         \A g \in Hosts : \/ pc'[g] = pc[g] /\ firing'[g] = firing[g]
                          \/ g = h /\ pc[g] = "persist"
  PROVE  Counted'
<1>1. /\ file' = jobs'[h]
      /\ ~clobbered' => ~clobbered /\ ~stale[h]
  BY DEF Overwrites, Persist
<1>2. SUFFICES ASSUME ~clobbered', disturbed' = {}, NEW g \in Hosts, NEW id \in Jobs,
                      KindOf[id] = "at"
               PROVE  /\ fired'[g][id] <= 1 + crashes'[g]
                      /\ fired'[g][id] > crashes'[g] => Spent(g, id)'
  BY DEF Counted
<1>3. crashes'[g] = crashes[g] /\ crashes[g] \in Nat /\ fired[g][id] \in Nat
  BY DEF Locals
<1>4. /\ fired[g][id] <= 1 + crashes[g]
      /\ fired[g][id] > crashes[g] => Spent(g, id)
  BY <1>1, <1>2 DEF Counted
<1>5. ASSUME fired[g][id] > crashes[g] PROVE Spent(g, id)'
  <2>1. id \notin unused
    BY <1>3, <1>5 DEF Locals
  <2>2. Ids(jobs[h]) \subseteq Ids(file)
    BY <1>1, <1>2 DEF OnDisk, Overwrites
  <2>3. CASE pc[g] = "record" /\ firing[g] = id
    BY <2>3 DEF Spent
  <2>4. CASE id \notin Ids(jobs[g]) /\ (pc[g] = "persist" \/ id \notin Ids(file))
    <3>1. CASE g = h
      BY <3>1, <2>1, <2>4, <1>1 DEF Spent
    <3>2. CASE g # h
      <4>1. jobs'[g] = jobs[g] /\ pc'[g] = pc[g]
        BY <3>2 DEF Overwrites
      <4>2. id \notin Ids(file) => id \notin Ids(file')
        BY <1>1, <2>1, <2>2
      <4> QED  BY <2>4, <4>1, <4>2 DEF Spent
    <3> QED  BY <3>1, <3>2
  <2> QED  BY <1>4, <1>5, <2>3, <2>4 DEF Spent
<1> QED  BY <1>3, <1>4, <1>5

LEMMA AddJobKeeps ==
  ASSUME IInv, NEW h \in Hosts, NEW id \in Jobs, AddJob(h, id)
  PROVE  IInv'
<1> USE DEF IInv
<1>1. PICK j \in NewJobs(id) : Appended(h, j)
  BY DEF AddJob
<1>2. j \in Job /\ j.id = id /\ j.kind = KindOf[id]
  BY NewJobsAre DEF Lists
<1>3. Real \subseteq Real' /\ Seq(Real) \subseteq Seq(Real)' /\ j \in Real'
  BY <1>2, RealGrows DEF AddJob, Real
<1>4. jobs[h] \in Seq(Real)' /\ Distinct(jobs[h]) /\ id \notin Ids(jobs[h]) /\ id \in unused
  BY <1>3, RealIds DEF Lists, AddJob
<1>5. /\ jobs'[h] = Append(jobs[h], j)
      /\ \A g \in Hosts \ {h} : jobs'[g] = jobs[g]
      /\ DOMAIN jobs' = Hosts
  BY <1>1 DEF Appended, Lists
<1>6. /\ jobs'[h] \in Seq(Real)' /\ Distinct(jobs'[h])
      /\ Ids(jobs'[h]) = Ids(jobs[h]) \cup {id}
      /\ DOMAIN jobs[h] \subseteq DOMAIN jobs'[h]
      /\ \A i \in DOMAIN jobs[h] : jobs'[h][i] = jobs[h][i]
  BY <1>2, <1>3, <1>4, <1>5, AppendIds
<1>7. jobs' \in [Hosts -> Seq(Real)']
  <2>1. \A g \in Hosts : jobs'[g] \in Seq(Real)'
    BY <1>3, <1>5, <1>6 DEF Lists
  <2>2. jobs' = [g \in Hosts |-> jobs'[g]]
    <3>1. \E s : jobs' = [jobs EXCEPT ![h] = s]
      BY <1>1 DEF Appended
    <3>2. jobs \in [Hosts -> Seq(Real)]
      BY DEF Lists
    <3> HIDE DEF IInv
    <3> QED  BY <3>1, <3>2
  <2> QED  BY <2>1, <2>2
<1>8. Overwrites(h)
  BY <1>5 DEF AddJob, Overwrites
<1>9. Lists'
  <2>1. room' \in [Hosts -> Nat]
    <3>1. CASE room[h] > 0
      <4>1. room' = [room EXCEPT ![h] = @ - 1] /\ room \in [Hosts -> Nat]
        BY <1>1, <3>1 DEF Appended, Lists
      <4> HIDE DEF IInv
      <4>2. room[h] - 1 \in Nat
        BY <3>1, <4>1
      <4> QED  BY <4>1, <4>2
    <3>2. CASE ~(room[h] > 0)
      <4>1. PICK r \in {0, 1} : room' = [room EXCEPT ![h] = r]
        BY <1>1, <3>2 DEF Appended
      <4> QED  BY <4>1 DEF Lists
    <3> QED  BY <3>1, <3>2
  <2> QED  BY <1>6, <1>7, <1>8, <2>1, OverwriteLists DEF AddJob, Lists
<1>10. \A i \in DOMAIN jobs'[h] : jobs'[h][i] \in Real'
  BY <1>6
<1>11. /\ ptr' \in [Hosts -> Pointer]
       /\ \A g \in Hosts \ {h} : ptr'[g] = ptr[g]
  <2>1. CASE ptr' = ptr
    BY <2>1 DEF Locals
  <2>2. CASE ptr' # ptr
    <3>1. ptr' = [ptr EXCEPT ![h] = IF @ = Nowhere THEN @ ELSE [at |-> 0, copy |-> Shown(h)]]
      BY <1>1, <2>2 DEF Appended
    <3>2. ptr[h] \in Pointer /\ Shown(h) \in Job \cup {None}
      <4>1. ptr[h] \in Pointer
        BY DEF Locals
      <4>2. ptr[h].at \in DOMAIN jobs[h] => jobs[h][ptr[h].at] \in Real
        BY DEF Lists
      <4> QED  BY <4>1, <4>2 DEF Shown, Pointer, Real
    <3>3. [at |-> 0, copy |-> Shown(h)] \in Pointer
      BY <3>2 DEF Pointer
    <3> QED  BY <3>1, <3>2, <3>3 DEF Locals
  <2> QED  BY <2>1, <2>2
<1>12. Locals'
  BY <1>11 DEF AddJob, Locals
<1>13. /\ Shown(h)' = Shown(h) \/ (Shown(h)' = j /\ ptr[h].at \notin DOMAIN jobs[h] \cup {0})
       /\ ptr[h].at \in DOMAIN jobs[h] \cup {0} =>
            /\ ptr'[h].at \in DOMAIN jobs'[h] \cup {0}
            /\ ptr'[h].at = ptr[h].at \/ ptr'[h].at = 0
  <2>1. 0 \notin DOMAIN jobs[h] /\ 0 \notin DOMAIN jobs'[h]
    BY <1>6 DEF Lists
  <2>2. CASE ptr' = ptr
    <3>1. CASE ptr[h].at \in DOMAIN jobs[h]
      BY <2>2, <3>1, <1>6 DEF Shown
    <3>2. CASE ptr[h].at \notin DOMAIN jobs[h]
      <4>1. ptr[h].at \in DOMAIN jobs'[h] => jobs'[h][ptr[h].at] = j
        <5>1. /\ DOMAIN jobs[h] = 1 .. Len(jobs[h]) /\ Len(jobs[h]) \in Nat
              /\ DOMAIN jobs'[h] = 1 .. Len(jobs[h]) + 1
              /\ jobs'[h][Len(jobs[h]) + 1] = j
          BY <1>4, <1>5, <1>3
        <5> QED  BY <5>1, <3>2
      <4> QED  BY <2>1, <2>2, <3>2, <4>1 DEF Shown
    <3> QED  BY <3>1, <3>2
  <2>3. CASE ptr' # ptr
    <3>1. ptr' = [ptr EXCEPT ![h] = IF @ = Nowhere THEN @ ELSE [at |-> 0, copy |-> Shown(h)]]
      BY <1>1, <2>3 DEF Appended
    <3>2. ptr'[h] = [at |-> 0, copy |-> Shown(h)]
      BY <3>1, <2>3 DEF Locals
    <3>3. Shown(h)' = Shown(h)
      BY <3>2, <2>1 DEF Shown
    <3> QED  BY <3>2, <3>3
  <2> QED  BY <2>2, <2>3
<1>14. ASSUME NEW g \in Hosts PROVE Pointed(g)' /\ Collected(g)'
  <2>1. CASE g # h
    <3>1. Untouched(g)
      BY <2>1, <1>5, <1>11 DEF AddJob, Untouched
    <3> QED  BY <3>1, OthersKeep DEF AddJob, Lists
  <2>2. CASE g = h
    <3>1. Holding(h)' <=> Holding(h)
      BY DEF Holding, AddJob
    <3>2. Pointed(h)'
      BY <1>3, <1>6, <1>13, <3>1 DEF AddJob, Pointed, Holding
    <3>3. \A k : Due(k)' <=> Due(k)
      BY DEF Due, AddJob
    <3>4. 0 \notin due[h]
      BY DEF Locals
    <3>5. h \notin moved /\ Holding(h) => ptr[h].at \in DOMAIN jobs[h] \cup {0}
      BY DEF Pointed
    <3>6. h \notin moved /\ Holding(h) => Shown(h)' = Shown(h)
      BY <1>13, <3>5
    <3>7. Collected(h)'
      <4>1. h \notin moved' /\ pc'[h] \notin {"wait", "collect"} =>
              \A i \in due'[h] : i \in DOMAIN jobs'[h] /\ Due(jobs[h][i])'
        <5> SUFFICES ASSUME h \notin moved, pc[h] \notin {"wait", "collect"}, NEW i \in due[h]
                     PROVE  i \in DOMAIN jobs'[h] /\ Due(jobs[h][i])'
          BY DEF AddJob
        <5>1. i \in DOMAIN jobs[h] /\ Due(jobs[h][i])
          BY DEF Collected
        <5>2. now' = now /\ jobs'[h][i] = jobs[h][i]
          BY <5>1, <1>6 DEF AddJob
        <5> QED  BY <5>1, <5>2, <1>6 DEF Due
      <4>2. h \notin moved' /\ Holding(h)' => ptr'[h].at \notin due'[h]
        BY <1>13, <3>1, <3>4, <3>5 DEF AddJob, Collected
      <4>3. h \notin moved' /\ pc'[h] \in {"begin", "call"} => Due(Shown(h))'
        BY <3>6 DEF AddJob, Collected, Holding, Due
      <4>4. h \in (early \cup misnamed)' => pc'[h] \in {"report", "record", "persist"}
        BY DEF AddJob, Collected
      <4> QED  BY <4>1, <4>2, <4>3, <4>4 DEF Collected
    <3> QED  BY <2>2, <3>2, <3>7
  <2> QED  BY <2>1, <2>2
<1>15. OnDisk'
  BY <1>8, OverwriteOnDisk
<1>16. Counted'
  BY <1>4, <1>6, <1>8, OverwriteCounts DEF AddJob
<1>17. AcceptedIsKept'
  <2>1. removed' = removed /\ accepted' = accepted \cup {id}
    BY DEF AddJob
  <2> QED  BY <1>4, <1>6, <1>8, <2>1, OverwriteKeeps DEF AddJob
<1>18. OnlyAMoveMisleads'
  BY DEF AddJob, OnlyAMoveMisleads, EarlyOnlyAfterAMove, RunsAreFiledRight
<1> QED  BY <1>9, <1>12, <1>14, <1>15, <1>16, <1>17, <1>18

LEMMA RemoveJobKeeps ==
  ASSUME IInv, NEW h \in Hosts, NEW id \in Jobs, RemoveJob(h, id)
  PROVE  IInv'
<1> USE DEF IInv
<1> DEFINE n == Index(jobs[h], id)
<1>1. n \in DOMAIN jobs[h] /\ jobs[h][n].id = id
  BY IndexIs DEF RemoveJob
<1>2. jobs[h] \in Seq(Real) /\ Distinct(jobs[h])
  BY DEF Lists
<1>3. Real' = Real
  BY DEF Real, RemoveJob
<1>4. /\ jobs' = [jobs EXCEPT ![h] = Shrunk(@, n)]
      /\ ptr' = [ptr EXCEPT ![h] = Left(@, jobs[h])]
  BY DEF RemoveJob
<1> HIDE DEF n
<1>5. /\ jobs'[h] = Shrunk(jobs[h], n)
      /\ \A g \in Hosts \ {h} : jobs'[g] = jobs[g] /\ ptr'[g] = ptr[g]
      /\ ptr'[h] = Left(ptr[h], jobs[h])
  BY <1>4 DEF Lists, Locals
<1>6. /\ jobs'[h] \in Seq(Real) /\ Distinct(jobs'[h])
      /\ Ids(jobs'[h]) = Ids(jobs[h]) \ {id}
      /\ DOMAIN jobs'[h] = 1 .. Len(jobs[h]) - 1
  BY <1>1, <1>2, <1>5, ShrunkIs, ShrunkIds
<1>7. jobs' \in [Hosts -> Seq(Real)]
  BY <1>4, <1>5, <1>6 DEF Lists
<1>8. Overwrites(h)
  BY <1>5 DEF RemoveJob, Overwrites
<1>9. id \in accepted
  BY <1>2, RealIds DEF RemoveJob
<1>10. Lists'
  <2>1. room' \in [Hosts -> Nat]
    BY DEF RemoveJob, Lists
  <2> QED  BY <1>3, <1>6, <1>7, <1>8, <1>9, <2>1, OverwriteLists DEF RemoveJob, Lists
<1>11. /\ ptr[h] \in Pointer /\ DOMAIN jobs[h] = 1 .. Len(jobs[h]) /\ Len(jobs[h]) \in Nat
       /\ \A i \in DOMAIN jobs[h] : jobs[h][i] \in Real
  BY <1>2 DEF Locals
<1>12. /\ ptr'[h] \in Pointer /\ ptr'[h].at = ptr[h].at
       /\ ptr[h].at = Len(jobs[h]) => ptr'[h].copy = jobs[h][Len(jobs[h])]
       /\ ptr[h].at # Len(jobs[h]) => ptr'[h].copy = ptr[h].copy
  <2>1. CASE ptr[h].at = Len(jobs[h])
    <3>1. jobs[h][Len(jobs[h])] \in Job
      BY <1>1, <1>11 DEF Real
    <3> QED  BY <2>1, <3>1, <1>5, <1>11 DEF Left, Pointer
  <2>2. CASE ptr[h].at # Len(jobs[h])
    BY <2>2, <1>5, <1>11 DEF Left
  <2> QED  BY <2>1, <2>2
<1>13. Locals'
  <2>1. ptr' \in [Hosts -> Pointer]
    BY <1>4, <1>5, <1>12 DEF Locals
  <2> QED  BY <2>1 DEF RemoveJob, Locals
<1>14. Holding(h) => Shown(h)' \in Real
  <2> SUFFICES ASSUME Holding(h) PROVE Shown(h)' \in Real
    OBVIOUS
  <2>1. Shown(h) \in Real
    BY DEF Pointed
  <2>2. CASE ptr[h].at \in 1 .. Len(jobs[h]) - 1
    BY <2>2, <1>6, <1>12 DEF Shown
  <2>3. CASE ptr[h].at = Len(jobs[h])
    <3>1. Shown(h)' = jobs[h][Len(jobs[h])]
      BY <2>3, <1>6, <1>11, <1>12 DEF Shown
    <3> QED  BY <3>1, <1>1, <1>11
  <2>4. CASE ptr[h].at \notin 1 .. Len(jobs[h])
    <3>1. Shown(h)' = ptr[h].copy /\ Shown(h) = ptr[h].copy
      <4>1. ptr[h].at # Len(jobs[h])
        BY <2>4, <1>1, <1>11
      <4> QED  BY <4>1, <2>4, <1>6, <1>11, <1>12 DEF Shown
    <3> QED  BY <3>1, <2>1
  <2> QED  BY <2>2, <2>3, <2>4, <1>11
<1>15. ASSUME NEW g \in Hosts PROVE Pointed(g)' /\ Collected(g)'
  <2>1. CASE g # h
    <3>1. Untouched(g)
      BY <2>1, <1>5 DEF RemoveJob, Untouched
    <3> QED  BY <3>1, OthersKeep DEF RemoveJob, Lists
  <2>2. CASE g = h
    <3>1. (Holding(h)' <=> Holding(h)) /\ h \in moved'
      BY DEF Holding, RemoveJob
    <3>2. Holding(h) => h \in disturbed'
      BY DEF RemoveJob
    <3>3. pc[h] \in {"report", "record"} => Holding(h)
      BY DEF Holding
    <3>4. Pointed(h)'
      BY <1>3, <1>14, <3>1, <3>2, <3>3 DEF RemoveJob, Pointed
    <3>5. Collected(h)'
      BY <3>1 DEF RemoveJob, Collected
    <3> QED  BY <2>2, <3>4, <3>5
  <2> QED  BY <2>1, <2>2
<1>16. OnDisk'
  BY <1>8, OverwriteOnDisk
<1>17. Counted'
  BY <1>6, <1>8, OverwriteCounts DEF RemoveJob
<1>18. AcceptedIsKept'
  <2>1. removed' = removed \cup {id} /\ accepted' = accepted /\ id \notin unused
    BY <1>9 DEF RemoveJob, Lists
  <2>2. removed \cap unused = {}
    BY DEF Lists
  <2>3. removed' \cap (unused \cup Ids(jobs'[h])) \subseteq removed
    BY <1>6, <2>1
  <2>4. disturbed \subseteq disturbed' /\ fired' = fired
    BY DEF RemoveJob
  <2> QED  BY <1>6, <1>8, <2>1, <2>3, <2>4, OverwriteKeeps
<1>19. OnlyAMoveMisleads'
  BY DEF RemoveJob, OnlyAMoveMisleads, EarlyOnlyAfterAMove, RunsAreFiledRight
<1> QED  BY <1>10, <1>13, <1>15, <1>16, <1>17, <1>18, <1>19

LEMMA UpdateJobKeeps ==
  ASSUME IInv, NEW h \in Hosts, NEW id \in Jobs, UpdateJob(h, id)
  PROVE  IInv'
<1> USE DEF IInv
<1> DEFINE n == Index(jobs[h], id)
<1>1. n \in DOMAIN jobs[h]
  BY IndexIs DEF UpdateJob
<1>2. jobs[h] \in Seq(Real) /\ jobs[h][n] \in Real
  BY <1>1 DEF Lists
<1>3. Real' = Real
  BY DEF Real, UpdateJob
<1>4. PICK j \in Patches(jobs[h][n]) : jobs' = [jobs EXCEPT ![h][n] = j]
  BY DEF UpdateJob
<1> HIDE DEF n
<1>5. j \in Real /\ j.id = jobs[h][n].id
  BY <1>2, <1>4, PatchesAre DEF Lists, Real
<1>6. /\ jobs'[h] = [jobs[h] EXCEPT ![n] = j]
      /\ \A g \in Hosts \ {h} : jobs'[g] = jobs[g]
  BY <1>4 DEF Lists
<1>7. /\ jobs'[h] \in Seq(Real) /\ DOMAIN jobs'[h] = DOMAIN jobs[h]
      /\ IdList(jobs'[h]) = IdList(jobs[h])
  BY <1>1, <1>2, <1>5, <1>6, ReplacedIs
<1>8. /\ \A i \in DOMAIN jobs[h] : jobs'[h][i].id = jobs[h][i].id
      /\ Ids(jobs'[h]) = Ids(jobs[h]) /\ Distinct(jobs'[h])
  BY <1>7, SameIds DEF Lists
<1>9. jobs' \in [Hosts -> Seq(Real)]
  BY <1>4, <1>6, <1>7 DEF Lists
<1>10. Overwrites(h)
  BY <1>6 DEF UpdateJob, Overwrites
<1>11. Lists'
  BY <1>3, <1>8, <1>9, <1>10, OverwriteLists DEF UpdateJob, Lists, loop
<1>12. Locals'
  BY DEF UpdateJob, Locals, loop
<1>13. ASSUME NEW g \in Hosts PROVE Pointed(g)' /\ Collected(g)'
  <2>1. CASE g # h
    <3>1. Untouched(g)
      BY <2>1, <1>6 DEF UpdateJob, Untouched, loop
    <3> QED  BY <3>1, OthersKeep DEF UpdateJob, Lists
  <2>2. CASE g = h
    <3>1. (Holding(h)' <=> Holding(h)) /\ h \in moved'
      BY DEF Holding, UpdateJob, loop
    <3>2. pc[h] \in {"report", "record"} => Holding(h)
      BY DEF Holding
    <3>3. Holding(h) => Shown(h)' \in Real /\ Shown(h)'.id = Shown(h).id
      <4>1. CASE ptr[h].at \in DOMAIN jobs[h]
        BY <4>1, <1>7, <1>8 DEF Shown, UpdateJob, loop
      <4>2. CASE ptr[h].at \notin DOMAIN jobs[h]
        BY <4>2, <1>7 DEF Shown, UpdateJob, loop, Pointed
      <4> QED  BY <4>1, <4>2
    <3>4. Pointed(h)'
      BY <1>3, <1>7, <1>8, <3>1, <3>2, <3>3 DEF UpdateJob, Pointed, loop
    <3>5. Collected(h)'
      BY <3>1 DEF UpdateJob, Collected, loop
    <3> QED  BY <2>2, <3>4, <3>5
  <2> QED  BY <2>1, <2>2
<1>14. OnDisk'
  BY <1>10, OverwriteOnDisk
<1>15. Counted'
  BY <1>8, <1>10, OverwriteCounts DEF UpdateJob, loop
<1>16. AcceptedIsKept'
  BY <1>8, <1>10, OverwriteKeeps DEF UpdateJob
<1>17. OnlyAMoveMisleads'
  BY DEF UpdateJob, OnlyAMoveMisleads, EarlyOnlyAfterAMove, RunsAreFiledRight
<1> QED  BY <1>11, <1>12, <1>13, <1>14, <1>15, <1>16, <1>17

LEMMA PersistsKeeps ==
  ASSUME IInv, NEW h \in Hosts, Persists(h)
  PROVE  IInv'
<1> USE DEF IInv
<1>1. Real' = Real /\ jobs' = jobs
  BY DEF Real, Persists
<1>2. Overwrites(h)
  BY <1>1, ActsUp DEF Persists, Overwrites
<1>3. Lists'
  BY <1>1, <1>2, OverwriteLists DEF Persists, Lists, Locals, bounds
<1>4. Locals'
  <2>1. ptr' \in [Hosts -> Pointer]
    BY DEF Persists, Locals, Pointer, Nowhere
  <2> QED  BY <2>1 DEF Persists, Locals, PCs, bounds
<1>5. ASSUME NEW g \in Hosts PROVE Pointed(g)' /\ Collected(g)'
  <2>1. CASE g # h
    <3>1. Untouched(g)
      BY <2>1 DEF Persists, Untouched, Locals, Lists
    <3> QED  BY <3>1, OthersKeep DEF Persists, Lists
  <2>2. CASE g = h
    <3>1. pc[h] = "persist" /\ pc'[h] = "run"
      BY DEF Persists, Locals
    <3>2. Pointed(h)'
      BY <3>1 DEF Pointed, Holding
    <3>3. Collected(h)'
      BY <3>1 DEF Persists, Collected, Holding, Due
    <3> QED  BY <2>2, <3>2, <3>3
  <2> QED  BY <2>1, <2>2
<1>6. OnDisk'
  BY <1>2, OverwriteOnDisk
<1>7. Counted'
  BY <1>1, <1>2, OverwriteCounts DEF Persists, Locals, bounds
<1>8. AcceptedIsKept'
  BY <1>1, <1>2, OverwriteKeeps DEF Persists
<1>9. OnlyAMoveMisleads'
  BY DEF Persists, OnlyAMoveMisleads, EarlyOnlyAfterAMove, RunsAreFiledRight
<1> QED  BY <1>3, <1>4, <1>5, <1>6, <1>7, <1>8, <1>9

-----------------------------------------------------------------------------
(* The steps that read or replace the file. *)

\* /cron add leaves every running host behind; only over an empty file has it
\* read what it writes over.
LEMMA TuiAddsKeeps ==
  ASSUME IInv, NEW id \in Jobs, TuiAdds(id)
  PROVE  IInv'
<1> USE DEF IInv
<1>1. PICK j \in NewJobs(id) : file' = <<j>>
  BY DEF TuiAdds
<1>2. j \in Job /\ j.id = id /\ j.kind = KindOf[id]
  BY NewJobsAre DEF Lists
<1>3. Real \subseteq Real' /\ Seq(Real) \subseteq Seq(Real)' /\ j \in Real'
  BY <1>2, RealGrows DEF TuiAdds, Real
<1>4. file' \in Seq(Real)' /\ Distinct(file') /\ Ids(file') = {id}
  BY <1>1, <1>2, <1>3 DEF Distinct, Ids
<1>5. \A g \in Hosts : up'[g] # "down" => stale'[g]
  BY DEF TuiAdds, Lists
<1>6. /\ stale' \in [Hosts -> BOOLEAN]
      /\ \A g \in Hosts : up'[g] = "down" => ~stale'[g]
  BY DEF TuiAdds, Lists
<1>7. Lists'
  <2>1. jobs' \in [Hosts -> Seq(Real)']
    BY <1>3 DEF TuiAdds, Lists
  <2> QED  BY <1>4, <1>6, <2>1 DEF TuiAdds, Lists, loop
<1>8. Locals'
  BY DEF TuiAdds, Locals, loop
<1>9. ASSUME NEW g \in Hosts PROVE Pointed(g)' /\ Collected(g)'
  <2>1. Untouched(g)
    BY DEF TuiAdds, Untouched, loop
  <2> QED  BY <2>1, OthersKeep DEF TuiAdds, Lists
<1>10. OnDisk'
  BY <1>5 DEF OnDisk
<1>11. ~clobbered' => ~clobbered /\ file = <<>>
  BY DEF TuiAdds, Lists
<1>12. Counted'
  <2> SUFFICES ASSUME ~clobbered', disturbed' = {}, NEW g \in Hosts, NEW i \in Jobs,
                      KindOf[i] = "at"
               PROVE  /\ fired'[g][i] <= 1 + crashes'[g]
                      /\ fired'[g][i] > crashes'[g] => Spent(g, i)'
    BY DEF Counted
  <2>1. crashes'[g] = crashes[g] /\ crashes[g] \in Nat /\ fired'[g][i] = fired[g][i]
    BY DEF Locals, TuiAdds
  <2>2. /\ fired[g][i] <= 1 + crashes[g]
        /\ fired[g][i] > crashes[g] => Spent(g, i)
    BY <1>11 DEF Counted, TuiAdds
  <2>3. fired[g][i] > crashes[g] => i # id
    BY <2>1 DEF Locals, TuiAdds
  <2> QED  BY <1>4, <2>1, <2>2, <2>3 DEF Spent, TuiAdds, loop
<1>13. AcceptedIsKept'
  <2>1. Ids(file) = {} \/ clobbered'
    BY <1>11 DEF Ids
  <2>2. NothingIsLost'
    BY <1>4, <1>11, <2>1 DEF AcceptedIsKept, NothingIsLost, TuiAdds
  <2>3. NothingComesBack'
    BY <1>4 DEF NothingComesBack, TuiAdds, Lists
  <2> QED  BY <2>2, <2>3 DEF AcceptedIsKept
<1>14. OnlyAMoveMisleads'
  BY DEF TuiAdds, OnlyAMoveMisleads, EarlyOnlyAfterAMove, RunsAreFiledRight
<1> QED  BY <1>7, <1>8, <1>9, <1>10, <1>12, <1>13, <1>14

\* A host that reads the file lists what it lists.
LEMMA ReadKeeps ==
  ASSUME IInv, NEW h \in Hosts, pc[h] = "wait",
         NEW list, list \in Seq(Real), IdList(list) = IdList(file),
         jobs' = [jobs EXCEPT ![h] = list],
         room' \in [Hosts -> Nat], stale' = [stale EXCEPT ![h] = FALSE],
         up'[h] # "down", up' \in [Hosts -> {"down", "up", "stopping"}],
         \A g \in Hosts \ {h} : up'[g] = up[g] /\ pc'[g] = pc[g],
         pc' \in [Hosts -> PCs], pc'[h] \in {"wait", "collect"},
         UNCHANGED <<now, file, due, ptr, began, firing, bounds, history>>
  PROVE  IInv'
<1> USE DEF IInv
<1>1. Ids(list) = Ids(file) /\ Distinct(list)
  BY SameIds DEF Lists
<1>2. Real' = Real
  BY DEF Real, history
<1>3. jobs'[h] = list /\ \A g \in Hosts \ {h} : jobs'[g] = jobs[g]
  BY DEF Lists
<1>4. ~stale'[h] /\ \A g \in Hosts \ {h} : stale'[g] = stale[g]
  BY DEF Lists
<1>5. Lists'
  <2>1. jobs' \in [Hosts -> Seq(Real)] /\ stale' \in [Hosts -> BOOLEAN]
    BY DEF Lists
  <2>2. \A g \in Hosts : Distinct(jobs'[g])
    BY <1>1, <1>3 DEF Lists
  <2>3. \A g \in Hosts : up'[g] = "down" => jobs'[g] = <<>> /\ pc'[g] = "wait" /\ ~stale'[g]
    BY <1>3, <1>4 DEF Lists
  <2> QED  BY <1>2, <2>1, <2>2, <2>3 DEF Lists, bounds, history
<1>6. Locals'
  BY DEF Locals, bounds, history
<1>7. ASSUME NEW g \in Hosts PROVE Pointed(g)' /\ Collected(g)'
  <2>1. CASE g # h
    <3>1. Untouched(g)
      BY <2>1, <1>3 DEF Untouched, history
    <3> QED  BY <3>1, OthersKeep DEF history, Lists
  <2>2. CASE g = h
    <3>1. Pointed(h)'
      BY DEF Pointed, Holding
    <3>2. Collected(h)'
      BY DEF Collected, Holding, history
    <3> QED  BY <2>2, <3>1, <3>2
  <2> QED  BY <2>1, <2>2
<1>8. OnDisk'
  <2> SUFFICES ASSUME NEW g \in Hosts, up'[g] # "down", ~stale'[g]
               PROVE  /\ pc'[g] # "persist" => IdList(jobs'[g]) = IdList(file')
                      /\ Ids(jobs'[g]) \subseteq Ids(file')
                      /\ disturbed' = {} =>
                           \A id \in Ids(file') \ Ids(jobs'[g]) : fired'[g][id] > 0
    BY DEF OnDisk
  <2>1. CASE g = h
    BY <2>1, <1>1, <1>3
  <2>2. CASE g # h
    BY <2>2, <1>3, <1>4 DEF OnDisk, history
  <2> QED  BY <2>1, <2>2
<1>9. Counted'
  <2> SUFFICES ASSUME ~clobbered, disturbed = {}, NEW g \in Hosts, NEW id \in Jobs,
                      KindOf[id] = "at"
               PROVE  /\ fired'[g][id] <= 1 + crashes'[g]
                      /\ fired'[g][id] > crashes'[g] => Spent(g, id)'
    BY DEF Counted, history
  <2>1. crashes'[g] = crashes[g] /\ fired' = fired /\ file' = file /\ firing' = firing
    BY DEF history, bounds
  <2>2. /\ fired[g][id] <= 1 + crashes[g]
        /\ fired[g][id] > crashes[g] => Spent(g, id)
    BY DEF Counted
  <2>3. CASE g = h
    BY <2>1, <2>2, <2>3, <1>1, <1>3 DEF Spent
  <2>4. CASE g # h
    BY <2>1, <2>2, <2>4, <1>3 DEF Spent
  <2> QED  BY <2>3, <2>4
<1>10. AcceptedIsKept' /\ OnlyAMoveMisleads'
  BY DEF history, AcceptedIsKept, NothingIsLost, NothingComesBack,
         OnlyAMoveMisleads, EarlyOnlyAfterAMove, RunsAreFiledRight
<1> QED  BY <1>5, <1>6, <1>7, <1>8, <1>9, <1>10

LEMMA SyncsKeeps ==
  ASSUME IInv, NEW h \in Hosts, Syncs(h)
  PROVE  IInv'
<1> USE DEF IInv
<1>1. /\ pc[h] = "wait" /\ up[h] # "down"
      /\ pc' = [pc EXCEPT ![h] = "collect"] /\ pc' \in [Hosts -> PCs]
      /\ pc'[h] = "collect" /\ \A g \in Hosts \ {h} : pc'[g] = pc[g]
      /\ up' = up /\ up \in [Hosts -> {"down", "up", "stopping"}]
      /\ UNCHANGED <<now, file, due, ptr, began, firing, bounds, history>>
  BY DEF Syncs, Ticks, Lists, Locals, PCs
<1>2. CASE stale[h]
  <2>1. PICK list \in Merges(h) : jobs' = [jobs EXCEPT ![h] = list]
    BY <1>2 DEF Syncs
  <2>2. list \in Seq(Real) /\ IdList(list) = IdList(file)
    BY MergesAre DEF Lists
  <2>3. room' \in [Hosts -> Nat] /\ stale' = [stale EXCEPT ![h] = FALSE]
    BY <1>2 DEF Syncs, Lists
  <2> QED  BY <1>1, <2>1, <2>2, <2>3, ReadKeeps
<1>3. CASE ~stale[h]
  <2>1. jobs' = jobs /\ room' = room /\ stale' = stale
    BY <1>3 DEF Syncs
  <2>2. jobs[h] \in Seq(Real) /\ IdList(jobs[h]) = IdList(file)
    BY <1>1, <1>3 DEF Lists, OnDisk
  <2>3. jobs' = [jobs EXCEPT ![h] = jobs[h]] /\ stale' = [stale EXCEPT ![h] = FALSE]
    BY <1>3, <2>1 DEF Lists
  <2>4. room' \in [Hosts -> Nat]
    BY <2>1 DEF Lists
  <2> QED  BY <1>1, <2>2, <2>3, <2>4, ReadKeeps
<1> QED  BY <1>2, <1>3

LEMMA StartKeeps ==
  ASSUME IInv, NEW h \in Hosts, Start(h)
  PROVE  IInv'
<1> USE DEF IInv
<1>1. PICK list \in Loads : jobs' = [jobs EXCEPT ![h] = list]
  BY DEF Start
<1>2. list \in Seq(Real) /\ IdList(list) = IdList(file)
  BY LoadsAre DEF Lists
<1>3. room' \in [Hosts -> Nat]
  <2>1. PICK r \in {0, 1} : room' = [room EXCEPT ![h] = r]
    BY DEF Start
  <2> QED  BY <2>1 DEF Lists
<1>4. /\ pc[h] = "wait" /\ pc' = pc /\ pc \in [Hosts -> PCs]
      /\ stale' = [stale EXCEPT ![h] = FALSE]
      /\ up'[h] # "down" /\ up' \in [Hosts -> {"down", "up", "stopping"}]
      /\ \A g \in Hosts \ {h} : up'[g] = up[g]
      /\ UNCHANGED <<now, file, due, ptr, began, firing, bounds, history>>
  BY DEF Start, Lists, Locals, loop
<1> QED  BY <1>1, <1>2, <1>3, <1>4, ReadKeeps

-----------------------------------------------------------------------------
(* The steps of the loop that change the slice, or nothing but its locals. *)

\* Nothing is written and no slice changes.
LEMMA StillOnDisk ==
  ASSUME Lists, Locals, OnDisk, UNCHANGED <<file, up, jobs, stale, disturbed>>,
         \A g \in Hosts : pc[g] = "persist" => pc'[g] = "persist",
         \A g \in Hosts, id \in Jobs : fired[g][id] > 0 => fired'[g][id] > 0
  PROVE  OnDisk'
<1> SUFFICES ASSUME NEW g \in Hosts, up[g] # "down", ~stale[g]
             PROVE  /\ pc'[g] # "persist" => IdList(jobs[g]) = IdList(file)
                    /\ Ids(jobs[g]) \subseteq Ids(file)
                    /\ disturbed = {} => \A id \in Ids(file) \ Ids(jobs[g]) : fired'[g][id] > 0
  BY DEF OnDisk
<1>1. Ids(file) \subseteq Jobs
  BY RealIds DEF Lists
<1> QED  BY <1>1 DEF OnDisk

LEMMA StillKept ==
  ASSUME Lists, AcceptedIsKept, UNCHANGED <<file, accepted, removed, disturbed, clobbered>>,
         \A g \in Hosts, id \in Jobs : fired[g][id] > 0 => fired'[g][id] > 0
  PROVE  AcceptedIsKept'
<1>1. \A id \in accepted : (\E g \in Hosts : fired[g][id] > 0) => \E g \in Hosts : fired'[g][id] > 0
  BY DEF Lists
<1> QED  BY <1>1 DEF AcceptedIsKept, NothingIsLost, NothingComesBack

\* Where no host leaves record or persist a job that is spent stays so.
LEMMA StillCounted ==
  ASSUME Counted, UNCHANGED <<file, jobs, fired, crashes, disturbed, clobbered>>,
         \A g \in Hosts : \/ pc[g] \notin {"record", "persist"}
                          \/ pc'[g] = pc[g] /\ firing'[g] = firing[g]
  PROVE  Counted'
<1> SUFFICES ASSUME ~clobbered, disturbed = {}, NEW g \in Hosts, NEW id \in Jobs,
                    KindOf[id] = "at"
             PROVE  /\ fired[g][id] <= 1 + crashes[g]
                    /\ fired[g][id] > crashes[g] => Spent(g, id)'
  BY DEF Counted
<1>1. /\ fired[g][id] <= 1 + crashes[g]
      /\ fired[g][id] > crashes[g] => Spent(g, id)
  BY DEF Counted
<1>2. Spent(g, id) => Spent(g, id)'
  BY DEF Spent
<1> QED  BY <1>1, <1>2

\* Collects, TickEnds, Begins: the loop looks at the slice.
LEMMA CollectsKeeps ==
  ASSUME IInv, NEW h \in Hosts, Collects(h)
  PROVE  IInv'
<1> USE DEF IInv
<1>1. /\ pc[h] = "collect" /\ pc'[h] = "run" /\ \A g \in Hosts \ {h} : pc'[g] = pc[g]
      /\ due'[h] = Found(h) /\ \A g \in Hosts \ {h} : due'[g] = due[g]
  BY DEF Collects, Locals
<1>2. Lists'
  BY <1>1, ListsStay, ActsUp DEF Collects, service, bounds
<1>3. Locals'
  <2>1. Found(h) \subseteq Nat \ {0}
    BY DEF Found, Lists
  <2> QED  BY <2>1 DEF Collects, Locals, PCs, bounds
<1>4. ASSUME NEW g \in Hosts PROVE Pointed(g)' /\ Collected(g)'
  <2>1. CASE g # h
    <3>1. Untouched(g)
      BY <1>1, <2>1 DEF Collects, Untouched, service
    <3> QED  BY <3>1, OthersKeep DEF Collects, Lists
  <2>2. CASE g = h
    <3>1. Pointed(h)'
      BY <1>1 DEF Pointed, Holding
    <3>2. h \notin early /\ h \notin misnamed
      BY <1>1 DEF Collected
    <3>3. Collected(h)'
      BY <1>1, <3>2 DEF Collected, Holding, Found, Due, Collects, service
    <3> QED  BY <2>2, <3>1, <3>3
  <2> QED  BY <2>1, <2>2
<1>5. OnDisk'
  BY <1>1, StillOnDisk DEF Collects, service
<1>6. Counted'
  BY <1>1, StillCounted DEF Collects, service, bounds, Locals
<1>7. AcceptedIsKept'
  BY StillKept DEF Collects
<1>8. OnlyAMoveMisleads'
  <2>1. h \notin early
    BY <1>1 DEF Collected
  <2> QED  BY <2>1 DEF Collects, OnlyAMoveMisleads, EarlyOnlyAfterAMove, RunsAreFiledRight
<1> QED  BY <1>2, <1>3, <1>4, <1>5, <1>6, <1>7, <1>8

LEMMA TakesKeeps ==
  ASSUME IInv, NEW h \in Hosts, Takes(h)
  PROVE  IInv'
<1> USE DEF IInv
<1> DEFINE i == First(h)
<1>1. i \in due[h] /\ i \in Nat \ {0}
  BY FirstIsLeast DEF Takes, Locals
<1>2. /\ pc[h] = "run" /\ \A g \in Hosts \ {h} : pc'[g] = pc[g] /\ ptr'[g] = ptr[g]
      /\ due' = [due EXCEPT ![h] = @ \ {i}]
      /\ due'[h] = due[h] \ {i} /\ \A g \in Hosts \ {h} : due'[g] = due[g]
      /\ \/ /\ i \in DOMAIN jobs[h] /\ pc' = [pc EXCEPT ![h] = "begin"]
            /\ ptr' = [ptr EXCEPT ![h] = [at |-> i, copy |-> None]]
            /\ pc'[h] = "begin" /\ ptr'[h] = [at |-> i, copy |-> None]
         \/ pc' = pc /\ ptr' = ptr
  BY DEF Takes, Points, Locals
<1> HIDE DEF i
<1>3. Lists'
  BY <1>2, ListsStay, ActsUp DEF Takes, service, bounds, history
<1>4. Locals'
  <2>1. ptr' \in [Hosts -> Pointer] /\ pc' \in [Hosts -> PCs]
    <3>1. [at |-> i, copy |-> None] \in Pointer /\ "begin" \in PCs
      BY <1>1 DEF Pointer, PCs
    <3> DEFINE to == [at |-> i, copy |-> None]
    <3>2. CASE pc' = pc /\ ptr' = ptr
      BY <3>2 DEF Locals
    <3>3. CASE pc' = [pc EXCEPT ![h] = "begin"] /\ ptr' = [ptr EXCEPT ![h] = to]
      <4> HIDE DEF to
      <4> QED  BY <3>1, <3>3 DEF Locals, to
    <3> QED  BY <1>2, <3>2, <3>3
  <2>2. due' \in [Hosts -> SUBSET (Nat \ {0})]
    BY <1>2 DEF Locals
  <2> QED  BY <2>1, <2>2 DEF Takes, Locals, bounds, history
<1>5. ASSUME NEW g \in Hosts PROVE Pointed(g)' /\ Collected(g)'
  <2>1. CASE g # h
    <3>1. Untouched(g)
      BY <1>2, <2>1 DEF Takes, Untouched, service, history
    <3> QED  BY <3>1, OthersKeep DEF Takes, Lists, history
  <2>2. CASE g = h /\ pc' = pc /\ ptr' = ptr
    <3>1. Pointed(h)'
      BY <1>2, <2>2 DEF Pointed, Holding
    <3>2. Collected(h)'
      BY <1>2, <2>2 DEF Collected, Holding, Due, Takes, service, history
    <3> QED  BY <2>2, <3>1, <3>2
  <2>3. CASE g = h /\ ~(pc' = pc /\ ptr' = ptr)
    <3>1. /\ i \in DOMAIN jobs[h] /\ pc'[h] = "begin" /\ ptr'[h].at = i /\ jobs' = jobs
          /\ Shown(h)' = jobs[h][i]
      BY <1>2, <2>3 DEF Shown, Takes, service
    <3>2. jobs[h][i] \in Real /\ Real' = Real
      <4>1. Real' = Real
        BY DEF Real, Takes, history
      <4>2. jobs[h] \in Seq(Real)
        BY DEF Lists
      <4> QED  BY <3>1, <4>1, <4>2
    <3>3. Pointed(h)'
      BY <3>1, <3>2 DEF Pointed, Holding, Ids
    <3>4. Collected(h)'
      <4>1. h \notin moved' => \A k \in due'[h] : k \in DOMAIN jobs'[h] /\ Due(jobs[h][k])'
        BY <1>2 DEF Collected, Due, Takes, service, history
      <4>2. h \notin moved' => Due(Shown(h))'
        BY <1>1, <1>2, <3>1 DEF Collected, Due, Takes, service, history
      <4>3. h \notin (early \cup misnamed)'
        BY <1>2 DEF Collected, Takes, history
      <4> QED  BY <1>2, <3>1, <4>1, <4>2, <4>3 DEF Collected
    <3> QED  BY <2>3, <3>3, <3>4
  <2> QED  BY <2>1, <2>2, <2>3
<1>6. OnDisk'
  BY <1>2, StillOnDisk DEF Takes, service, history
<1>7. Counted'
  BY <1>2, StillCounted DEF Takes, service, bounds, history, Locals
<1>8. AcceptedIsKept'
  BY StillKept DEF Takes, history
<1>9. OnlyAMoveMisleads'
  BY DEF Takes, history, OnlyAMoveMisleads, EarlyOnlyAfterAMove, RunsAreFiledRight
<1> QED  BY <1>3, <1>4, <1>5, <1>6, <1>7, <1>8, <1>9

LEMMA TickEndsKeeps ==
  ASSUME IInv, NEW h \in Hosts, TickEnds(h)
  PROVE  IInv'
<1> USE DEF IInv
<1>1. pc[h] = "run" /\ pc'[h] = "wait" /\ \A g \in Hosts \ {h} : pc'[g] = pc[g]
  BY DEF TickEnds, Locals
<1>2. Lists'
  BY <1>1, ListsStay, ActsUp DEF TickEnds, service, bounds, history
<1>3. Locals'
  BY DEF TickEnds, Locals, PCs, bounds, history
<1>4. ASSUME NEW g \in Hosts PROVE Pointed(g)' /\ Collected(g)'
  <2>1. CASE g # h
    <3>1. Untouched(g)
      BY <1>1, <2>1 DEF TickEnds, Untouched, service, history
    <3> QED  BY <3>1, OthersKeep DEF TickEnds, Lists, history
  <2>2. CASE g = h
    BY <1>1, <2>2 DEF Pointed, Collected, Holding, TickEnds, history
  <2> QED  BY <2>1, <2>2
<1>5. OnDisk'
  BY <1>1, StillOnDisk DEF TickEnds, service, history
<1>6. Counted'
  BY <1>1, StillCounted DEF TickEnds, service, bounds, history, Locals
<1>7. AcceptedIsKept' /\ OnlyAMoveMisleads'
  BY StillKept DEF TickEnds, history, OnlyAMoveMisleads, EarlyOnlyAfterAMove, RunsAreFiledRight
<1> QED  BY <1>2, <1>3, <1>4, <1>5, <1>6, <1>7

LEMMA BeginsKeeps ==
  ASSUME IInv, NEW h \in Hosts, Begins(h)
  PROVE  IInv'
<1> USE DEF IInv
<1>1. pc[h] = "begin" /\ pc'[h] = "call" /\ \A g \in Hosts \ {h} : pc'[g] = pc[g]
  BY DEF Begins, Locals
<1>2. Lists'
  BY <1>1, ListsStay, ActsUp DEF Begins, service, bounds, history
<1>3. Locals'
  BY DEF Begins, Locals, PCs, bounds, history
<1>4. ASSUME NEW g \in Hosts PROVE Pointed(g)' /\ Collected(g)'
  <2>1. CASE g # h
    <3>1. Untouched(g)
      BY <1>1, <2>1 DEF Begins, Untouched, service, history
    <3> QED  BY <3>1, OthersKeep DEF Begins, Lists, history
  <2>2. CASE g = h
    <3>1. Shown(h)' = Shown(h) /\ Holding(h) /\ Holding(h)' /\ Real' = Real
      BY <1>1 DEF Shown, Holding, Real, Begins, service, history
    <3>2. Pointed(h)'
      BY <1>1, <3>1 DEF Pointed, Begins, service, history
    <3>3. Collected(h)'
      BY <1>1, <3>1 DEF Collected, Due, Begins, service, history
    <3> QED  BY <2>2, <3>2, <3>3
  <2> QED  BY <2>1, <2>2
<1>5. OnDisk'
  BY <1>1, StillOnDisk DEF Begins, service, history
<1>6. Counted'
  BY <1>1, StillCounted DEF Begins, service, bounds, history, Locals
<1>7. AcceptedIsKept' /\ OnlyAMoveMisleads'
  BY StillKept DEF Begins, history, OnlyAMoveMisleads, EarlyOnlyAfterAMove, RunsAreFiledRight
<1> QED  BY <1>2, <1>3, <1>4, <1>5, <1>6, <1>7

\* The callback gets a listed job.
LEMMA CallsKeeps ==
  ASSUME IInv, NEW h \in Hosts, Calls(h)
  PROVE  IInv'
<1> USE DEF IInv
<1>0. PICK id : id = Shown(h).id
  OBVIOUS
<1>1. /\ pc[h] = "call" /\ pc' = [pc EXCEPT ![h] = "report"]
      /\ pc'[h] = "report" /\ \A g \in Hosts \ {h} : pc'[g] = pc[g]
  BY DEF Calls, Locals
<1>2. Holding(h) /\ Shown(h) \in Real /\ id \in Jobs /\ id \in accepted
  BY <1>0, <1>1 DEF Holding, Pointed, Real, Job
<1>3. /\ firing' = [firing EXCEPT ![h] = id]
      /\ firing'[h] = id /\ \A g \in Hosts \ {h} : firing'[g] = firing[g]
      /\ early' = IF Due(Shown(h)) THEN early ELSE early \cup {h}
  BY <1>0 DEF Calls, Locals
<1>4. Lists'
  BY <1>1, ListsStay, ActsUp DEF Calls, service, bounds
<1>5. Locals'
  <2>1. firing' \in [Hosts -> Jobs \cup {None}] /\ pc' \in [Hosts -> PCs]
    BY <1>1, <1>2, <1>3 DEF Locals, PCs
  <2>2. early' \subseteq Hosts
    BY <1>3 DEF Locals
  <2> QED  BY <2>1, <2>2 DEF Calls, Locals, bounds
<1>6. ASSUME NEW g \in Hosts PROVE Pointed(g)' /\ Collected(g)'
  <2>1. CASE g # h
    <3>1. Untouched(g)
      BY <1>1, <1>3, <2>1 DEF Calls, Untouched, service
    <3> QED  BY <3>1, OthersKeep DEF Calls, Lists
  <2>2. CASE g = h
    <3>1. Shown(h)' = Shown(h) /\ Holding(h)' /\ Real' = Real
      BY <1>1 DEF Shown, Holding, Real, Calls, service
    <3>2. Pointed(h)'
      BY <1>0, <1>1, <1>2, <1>3, <3>1 DEF Pointed, Calls, service
    <3>3. Collected(h)'
      BY <1>1, <1>2, <3>1 DEF Collected, Due, Calls, service
    <3> QED  BY <2>2, <3>2, <3>3
  <2> QED  BY <2>1, <2>2
<1>7. OnDisk' /\ AcceptedIsKept'
  BY <1>1, StillOnDisk, StillKept DEF Calls, service
<1>8. Counted'
  BY <1>1, <1>3, StillCounted DEF Calls, service
<1>9. OnlyAMoveMisleads'
  <2>1. h \notin moved => Due(Shown(h))
    BY <1>1 DEF Collected
  <2> QED  BY <1>3, <2>1 DEF Calls, OnlyAMoveMisleads, EarlyOnlyAfterAMove, RunsAreFiledRight
<1> QED  BY <1>4, <1>5, <1>6, <1>7, <1>8, <1>9

\* The run is counted: the pointer shows a listed job, so a one-shot that had
\* used up its excuses would have been gone.
LEMMA ReportsKeeps ==
  ASSUME IInv, NEW h \in Hosts, Reports(h)
  PROVE  IInv'
<1> USE DEF IInv
<1>0. PICK id : id = firing[h]
  OBVIOUS
<1>1. pc[h] = "report" /\ pc'[h] = "record" /\ \A g \in Hosts \ {h} : pc'[g] = pc[g]
  BY DEF Reports, Locals
<1>2. id \in accepted /\ id \in Jobs /\ id \notin unused /\ (h \notin disturbed => id \in Ids(jobs[h]))
  BY <1>0, <1>1 DEF Pointed, Holding, Lists
<1>3. fired' = [fired EXCEPT ![h][id] = @ + 1] /\ firing' = firing
  BY <1>0 DEF Reports
<1>4. /\ fired'[h][id] = fired[h][id] + 1 /\ fired[h][id] \in Nat
      /\ \A i \in Jobs \ {id} : fired'[h][i] = fired[h][i]
      /\ \A g \in Hosts \ {h} : fired'[g] = fired[g]
  BY <1>2, <1>3 DEF Locals
<1>5. fired' \in [Hosts -> [Jobs -> Nat]]
  BY <1>2, <1>3 DEF Locals
<1>6. Lists'
  BY <1>1, ListsStay, ActsUp DEF Reports, service, bounds
<1>7. Locals'
  <2>1. ASSUME NEW g \in Hosts, NEW i \in unused PROVE fired'[g][i] = 0
    <3>1. i \in Jobs /\ i # id /\ fired[g][i] = 0
      BY <1>2 DEF Locals, Lists
    <3> QED  BY <1>4, <3>1
  <2>2. misnamed' \subseteq Hosts
    BY DEF Reports, Locals
  <2> QED  BY <1>5, <2>1, <2>2 DEF Reports, Locals, PCs, bounds
<1>8. ASSUME NEW g \in Hosts PROVE Pointed(g)' /\ Collected(g)'
  <2>1. CASE g # h
    <3>1. Untouched(g)
      BY <1>1, <1>4, <2>1 DEF Reports, Untouched, service
    <3> QED  BY <3>1, OthersKeep DEF Reports, Lists
  <2>2. CASE g = h
    <3>1. Shown(h)' = Shown(h) /\ Holding(h) /\ Holding(h)' /\ Real' = Real
      BY <1>1 DEF Shown, Holding, Real, Reports, service
    <3>2. fired'[h][firing'[h]] > 0
      BY <1>0, <1>3, <1>4
    <3>3. Pointed(h)'
      BY <1>1, <3>1, <3>2 DEF Pointed, Reports, service
    <3>4. Collected(h)'
      BY <1>1, <3>1 DEF Collected, Due, Reports, service
    <3> QED  BY <2>2, <3>3, <3>4
  <2> QED  BY <2>1, <2>2
<1>9. \A g \in Hosts, i \in Jobs : fired[g][i] > 0 => fired'[g][i] > 0
  BY <1>4 DEF Locals
<1>10. OnDisk' /\ AcceptedIsKept'
  BY <1>1, <1>9, StillOnDisk, StillKept DEF Reports, service
<1>11. Counted'
  <2> SUFFICES ASSUME ~clobbered, disturbed = {}, NEW g \in Hosts, NEW i \in Jobs,
                      KindOf[i] = "at"
               PROVE  /\ fired'[g][i] <= 1 + crashes[g]
                      /\ fired'[g][i] > crashes[g] => Spent(g, i)'
    BY DEF Counted, Reports
  <2>1. /\ fired[g][i] <= 1 + crashes[g]
        /\ fired[g][i] > crashes[g] => Spent(g, i)
    BY DEF Counted
  <2>2. crashes[g] \in Nat
    BY DEF Locals
  <2>3. CASE g = h /\ i = id
    <3>1. ~(fired[h][id] > crashes[h])
      BY <1>1, <1>2, <2>1, <2>3 DEF Spent
    <3>2. Spent(h, id)'
      BY <1>0, <1>1, <1>3 DEF Spent
    <3> QED  BY <1>4, <2>2, <2>3, <3>1, <3>2
  <2>4. CASE ~(g = h /\ i = id)
    <3>1. fired'[g][i] = fired[g][i]
      BY <1>4, <2>4
    <3>2. Spent(g, i) => Spent(g, i)'
      BY <1>1 DEF Spent, Reports, service
    <3> QED  BY <2>1, <3>1, <3>2
  <2> QED  BY <2>3, <2>4
<1>12. OnlyAMoveMisleads'
  <2>1. h \notin disturbed => Shown(h).id = firing[h]
    BY <1>1 DEF Pointed
  <2> QED  BY <2>1 DEF Reports, OnlyAMoveMisleads, EarlyOnlyAfterAMove, RunsAreFiledRight
<1> QED  BY <1>6, <1>7, <1>8, <1>10, <1>11, <1>12

LEMMA PanicsOutKeeps ==
  ASSUME IInv, NEW h \in Hosts, PanicsOut(h)
  PROVE  IInv'
<1> USE DEF IInv
<1>1. pc[h] = "report" /\ pc'[h] = "persist" /\ \A g \in Hosts \ {h} : pc'[g] = pc[g]
  BY DEF PanicsOut, Locals
<1>2. Lists'
  BY <1>1, ListsStay, ActsUp DEF PanicsOut, service, bounds, history
<1>3. Locals'
  BY DEF PanicsOut, Locals, PCs, bounds, history
<1>4. ASSUME NEW g \in Hosts PROVE Pointed(g)' /\ Collected(g)'
  <2>1. CASE g # h
    <3>1. Untouched(g)
      BY <1>1, <2>1 DEF PanicsOut, Untouched, service, history
    <3> QED  BY <3>1, OthersKeep DEF PanicsOut, Lists, history
  <2>2. CASE g = h
    <3>1. Pointed(h)'
      BY <1>1 DEF Pointed, Holding
    <3>2. Collected(h)'
      BY <1>1 DEF Collected, Holding, Due, PanicsOut, service, history
    <3> QED  BY <2>2, <3>1, <3>2
  <2> QED  BY <2>1, <2>2
<1>5. OnDisk' /\ AcceptedIsKept' /\ OnlyAMoveMisleads'
  BY <1>1, StillOnDisk, StillKept DEF PanicsOut, service, history,
     OnlyAMoveMisleads, EarlyOnlyAfterAMove, RunsAreFiledRight
<1>6. Counted'
  BY <1>1, StillCounted DEF PanicsOut, service, history, Locals
<1> QED  BY <1>2, <1>3, <1>4, <1>5, <1>6

\* The record: a one-shot and an expired job go, by the id the pointer shows.
LEMMA RecordsKeeps ==
  ASSUME IInv, NEW h \in Hosts, Records(h)
  PROVE  IInv'
<1> USE DEF IInv
<1> DEFINE j == Shown(h)
<1>1. /\ pc[h] = "record" /\ pc' = [pc EXCEPT ![h] = "persist"]
      /\ pc'[h] = "persist" /\ \A g \in Hosts \ {h} : pc'[g] = pc[g]
  BY DEF Records, Locals
<1>2. /\ Holding(h) /\ j \in Real
      /\ h \notin disturbed => j.id \in Ids(jobs[h]) /\ j.id = firing[h]
      /\ firing[h] \in Jobs /\ fired[h][firing[h]] > 0
  BY <1>1 DEF Holding, Pointed, Lists
<1>3. Real' = Real /\ jobs[h] \in Seq(Real) /\ Distinct(jobs[h])
  BY DEF Records, bounds, Real, Lists
<1> HIDE DEF j
\* The slice and the pointer after it.
<1>4. \/ /\ Over(h, j) /\ j.id \in Ids(jobs[h])
         /\ jobs' = [jobs EXCEPT ![h] = Shrunk(@, Index(@, j.id))]
         /\ room' = [room EXCEPT ![h] = @ + 1] /\ ptr' = ptr /\ moved' = moved \cup {h}
      \/ /\ Over(h, j) /\ j.id \notin Ids(jobs[h])
         /\ jobs' = jobs /\ room' = room /\ ptr' = ptr /\ moved' = moved
      \/ /\ ~Over(h, j) /\ \E k \in Rescheduled(j, now) : Write(h, k)
         /\ room' = room /\ moved' = moved
  BY DEF Records, j
<1>5. /\ jobs' \in [Hosts -> Seq(Real)] /\ Distinct(jobs'[h])
      /\ \A g \in Hosts \ {h} : jobs'[g] = jobs[g] /\ ptr'[g] = ptr[g]
      /\ ptr' \in [Hosts -> Pointer] /\ room' \in [Hosts -> Nat]
      /\ Ids(jobs'[h]) \subseteq Ids(jobs[h]) /\ Ids(jobs[h]) \ Ids(jobs'[h]) \subseteq {j.id}
      /\ Over(h, j) => j.id \notin Ids(jobs'[h])
  <2>1. CASE Over(h, j) /\ j.id \in Ids(jobs[h])
    <3> DEFINE n == Index(jobs[h], j.id)
    <3>1. n \in DOMAIN jobs[h] /\ jobs[h][n].id = j.id
      BY <2>1, IndexIs
    <3>2. /\ jobs' = [jobs EXCEPT ![h] = Shrunk(jobs[h], n)] /\ ptr' = ptr
          /\ room' = [room EXCEPT ![h] = @ + 1]
      BY <1>4, <2>1 DEF Lists
    <3> HIDE DEF n
    <3>3. /\ Shrunk(jobs[h], n) \in Seq(Real) /\ Distinct(Shrunk(jobs[h], n))
          /\ Ids(Shrunk(jobs[h], n)) = Ids(jobs[h]) \ {j.id}
      BY <1>3, <3>1, ShrunkIs, ShrunkIds
    <3>4. jobs'[h] = Shrunk(jobs[h], n) /\ \A g \in Hosts \ {h} : jobs'[g] = jobs[g]
      BY <3>2 DEF Lists
    <3>5. jobs' \in [Hosts -> Seq(Real)] /\ room' \in [Hosts -> Nat]
      BY <3>2, <3>3 DEF Lists
    <3> QED  BY <3>2, <3>3, <3>4, <3>5 DEF Locals
  <2>2. CASE Over(h, j) /\ j.id \notin Ids(jobs[h])
    BY <1>4, <2>2 DEF Lists, Locals
  <2>3. CASE ~Over(h, j)
    <3>1. PICK k \in Rescheduled(j, now) : Write(h, k)
      BY <1>4, <2>3
    <3>2. k \in Real /\ k.id = j.id
      BY <1>2, RescheduledIs DEF Real, Lists
    <3>3. room' = room
      BY <1>4, <2>3
    <3>4. CASE ptr[h].at \in DOMAIN jobs[h]
      <4>1. jobs' = [jobs EXCEPT ![h][ptr[h].at] = k] /\ ptr' = ptr
        BY <3>1, <3>4 DEF Write
      <4>2. j = jobs[h][ptr[h].at]
        BY <3>4 DEF Shown, j
      <4>3. jobs'[h] = [jobs[h] EXCEPT ![ptr[h].at] = k] /\ \A g \in Hosts \ {h} : jobs'[g] = jobs[g]
        BY <4>1 DEF Lists
      <4>4. jobs'[h] \in Seq(Real) /\ IdList(jobs'[h]) = IdList(jobs[h])
        BY <1>3, <3>2, <3>4, <4>2, <4>3, ReplacedIs
      <4>5. Ids(jobs'[h]) = Ids(jobs[h]) /\ Distinct(jobs'[h])
        BY <1>3, <4>4, SameIds
      <4>6. jobs' \in [Hosts -> Seq(Real)]
        BY <4>1, <4>3, <4>4 DEF Lists
      <4> QED  BY <2>3, <3>3, <4>1, <4>3, <4>5, <4>6 DEF Lists, Locals
    <3>5. CASE ptr[h].at \notin DOMAIN jobs[h]
      <4>1. ptr' = [ptr EXCEPT ![h].copy = k] /\ jobs' = jobs
        BY <3>1, <3>5 DEF Write
      <4>2. ptr' \in [Hosts -> Pointer] /\ \A g \in Hosts \ {h} : ptr'[g] = ptr[g]
        <5>1. ptr[h] \in Pointer /\ k \in Job
          BY <3>2 DEF Locals, Real
        <5>2. [ptr[h] EXCEPT !.copy = k] \in Pointer
          BY <5>1 DEF Pointer
        <5> QED  BY <4>1, <5>2 DEF Locals
      <4> QED  BY <1>3, <2>3, <3>3, <4>1, <4>2 DEF Lists
    <3> QED  BY <3>4, <3>5
  <2> QED  BY <2>1, <2>2, <2>3
<1>6. moved' = moved \/ moved' = moved \cup {h}
  BY <1>4
<1>7. Lists'
  <2>1. \A g \in Hosts : Distinct(jobs'[g])
    BY <1>5 DEF Lists
  <2>2. up[h] # "down"
    BY <1>1, ActsUp
  <2> QED  BY <1>1, <1>3, <1>5, <2>1, <2>2 DEF Records, Lists, bounds
<1>8. Locals'
  <2>1. moved' \subseteq Hosts
    BY <1>6 DEF Locals
  <2>2. pc' \in [Hosts -> PCs]
    BY <1>1 DEF Locals, PCs
  <2>3. UNCHANGED <<due, firing, fired, crashes, early, misnamed, disturbed, unused>>
    BY DEF Records, bounds
  <2> QED  BY <1>5, <2>1, <2>2, <2>3 DEF Locals
<1>9. ASSUME NEW g \in Hosts PROVE Pointed(g)' /\ Collected(g)'
  <2>1. CASE g # h
    <3>1. Untouched(g)
      BY <1>1, <1>5, <1>6, <2>1 DEF Records, Untouched
    <3> QED  BY <3>1, OthersKeep DEF Records, Lists
  <2>2. CASE g = h
    <3>1. Pointed(h)'
      BY <1>1 DEF Pointed, Holding
    <3>2. h \notin moved' => \A i \in due'[h] : i \in DOMAIN jobs'[h] /\ Due(jobs[h][i])'
      <4> SUFFICES ASSUME h \notin moved', NEW i \in due[h]
                   PROVE  i \in DOMAIN jobs'[h] /\ Due(jobs[h][i])'
        BY DEF Records
      <4>1. i \in DOMAIN jobs[h] /\ Due(jobs[h][i]) /\ ptr[h].at # i
        BY <1>1, <1>2, <1>6 DEF Collected
      <4>2. DOMAIN jobs'[h] = DOMAIN jobs[h] /\ jobs'[h][i] = jobs[h][i]
        <5>1. CASE jobs' = jobs
          BY <5>1
        <5>2. CASE jobs' # jobs
          <6>1. h \in Hosts /\ moved' = moved /\ h \notin moved
            BY <1>6
          <6>2. PICK k : jobs' = [jobs EXCEPT ![h][ptr[h].at] = k]
            BY <1>4, <5>2, <6>1 DEF Write
          <6> QED  BY <4>1, <6>2 DEF Lists
        <5> QED  BY <5>1, <5>2
      <4> QED  BY <4>1, <4>2 DEF Due, Records
    <3>3. Collected(h)'
      BY <1>1, <3>2 DEF Collected, Holding
    <3> QED  BY <2>2, <3>1, <3>3
  <2> QED  BY <2>1, <2>2
<1>10. OnDisk'
  <2> SUFFICES ASSUME NEW g \in Hosts, up[g] # "down", ~stale[g]
               PROVE  /\ pc'[g] # "persist" => IdList(jobs'[g]) = IdList(file)
                      /\ Ids(jobs'[g]) \subseteq Ids(file)
                      /\ disturbed = {} =>
                           \A id \in Ids(file) \ Ids(jobs'[g]) : fired[g][id] > 0
    BY DEF OnDisk, Records
  <2>1. CASE g = h
    BY <1>1, <1>2, <1>5, <2>1 DEF OnDisk
  <2>2. CASE g # h
    <3>1. jobs'[g] = jobs[g] /\ pc'[g] = pc[g]
      BY <1>1, <1>5, <2>2
    <3> QED  BY <3>1 DEF OnDisk
  <2> QED  BY <2>1, <2>2
<1>11. Counted'
  <2> SUFFICES ASSUME ~clobbered, disturbed = {}, NEW g \in Hosts, NEW id \in Jobs,
                      KindOf[id] = "at"
               PROVE  /\ fired'[g][id] <= 1 + crashes'[g]
                      /\ fired'[g][id] > crashes'[g] => Spent(g, id)'
    BY DEF Counted, Records
  <2>1. crashes'[g] = crashes[g] /\ fired' = fired /\ firing' = firing /\ file' = file
    BY DEF Records, bounds
  <2>2. /\ fired[g][id] <= 1 + crashes[g]
        /\ fired[g][id] > crashes[g] => Spent(g, id)
    BY DEF Counted
  <2>3. Spent(g, id) => Spent(g, id)'
    <3>1. CASE g # h
      BY <1>1, <1>5, <2>1, <3>1 DEF Spent
    <3>2. CASE g = h /\ firing[h] # id
      BY <1>1, <1>5, <3>2 DEF Spent
    <3>3. CASE g = h /\ firing[h] = id
      <4>1. j.kind = "at" /\ Over(h, j)
        BY <1>2, <3>3 DEF Over, Real
      <4> QED  BY <1>1, <1>2, <1>5, <3>3, <4>1 DEF Spent
    <3> QED  BY <3>1, <3>2, <3>3
  <2> QED  BY <2>1, <2>2, <2>3
<1>12. AcceptedIsKept'
  BY StillKept DEF Records
<1>13. OnlyAMoveMisleads'
  BY <1>6 DEF Records, OnlyAMoveMisleads, EarlyOnlyAfterAMove, RunsAreFiledRight
<1> QED  BY <1>7, <1>8, <1>9, <1>10, <1>11, <1>12, <1>13

-----------------------------------------------------------------------------
(* Stop, crashes and the clock. *)

\* A host that is gone is down; what it had not written is what it may have
\* run again, and then a crash is the excuse.
LEMMA GoneKeeps ==
  ASSUME IInv, NEW h \in Hosts, Gone(h),
         pc[h] = "wait" \/ crashes[h] < crashes'[h],
         crashes' \in [Hosts -> Nat], \A g \in Hosts : crashes[g] <= crashes'[g],
         UNCHANGED <<now, file, bounds, accepted, removed, fired, disturbed, clobbered>>
  PROVE  IInv'
<1> USE DEF IInv
<1>1. /\ up'[h] = "down" /\ jobs'[h] = <<>> /\ ~stale'[h] /\ pc'[h] = "wait"
      /\ \A g \in Hosts \ {h} : /\ up'[g] = up[g] /\ jobs'[g] = jobs[g]
                                /\ stale'[g] = stale[g] /\ pc'[g] = pc[g]
                                /\ due'[g] = due[g] /\ ptr'[g] = ptr[g]
                                /\ firing'[g] = firing[g]
  BY DEF Gone, Lists, Locals
<1>2. Real' = Real
  BY DEF Real
<1>3. Lists'
  <2>1. /\ up' \in [Hosts -> {"down", "up", "stopping"}] /\ room' \in [Hosts -> Nat]
        /\ stale' \in [Hosts -> BOOLEAN]
    BY DEF Gone, Lists
  <2>2. <<>> \in Seq(Real) /\ Distinct(<<>>)
    BY DEF Distinct
  <2>3. jobs' \in [Hosts -> Seq(Real)]
    BY <2>2 DEF Gone, Lists
  <2>4. \A g \in Hosts : Distinct(jobs'[g])
    BY <1>1, <2>2 DEF Lists
  <2>5. \A g \in Hosts : up'[g] = "down" => jobs'[g] = <<>> /\ pc'[g] = "wait" /\ ~stale'[g]
    BY <1>1 DEF Lists
  <2> QED  BY <1>2, <2>1, <2>3, <2>4, <2>5 DEF Lists, bounds
<1>4. Locals'
  <2>1. Nowhere \in Pointer /\ "wait" \in PCs
    BY DEF Nowhere, Pointer, PCs
  <2>2. ptr' \in [Hosts -> Pointer] /\ pc' \in [Hosts -> PCs]
    BY <2>1 DEF Gone, Locals
  <2>3. due' \in [Hosts -> SUBSET (Nat \ {0})] /\ firing' \in [Hosts -> Jobs \cup {None}]
    BY DEF Gone, Locals
  <2> QED  BY <2>2, <2>3 DEF Gone, Locals, bounds
<1>5. ASSUME NEW g \in Hosts PROVE Pointed(g)' /\ Collected(g)'
  <2>1. CASE g # h
    <3>1. Untouched(g)
      BY <1>1, <2>1 DEF Gone, Untouched
    <3> QED  BY <3>1, OthersKeep DEF Lists
  <2>2. CASE g = h
    BY <1>1, <2>2 DEF Pointed, Collected, Holding, Gone
  <2> QED  BY <2>1, <2>2
<1>6. OnDisk'
  <2> SUFFICES ASSUME NEW g \in Hosts, up'[g] # "down", ~stale'[g]
               PROVE  /\ pc'[g] # "persist" => IdList(jobs'[g]) = IdList(file)
                      /\ Ids(jobs'[g]) \subseteq Ids(file)
                      /\ disturbed = {} =>
                           \A id \in Ids(file) \ Ids(jobs'[g]) : fired[g][id] > 0
    BY DEF OnDisk
  <2>1. g # h
    BY <1>1
  <2>2. jobs'[g] = jobs[g] /\ pc'[g] = pc[g] /\ up[g] # "down" /\ ~stale[g]
    BY <1>1, <2>1
  <2> QED  BY <2>2 DEF OnDisk
<1>7. Counted'
  <2> SUFFICES ASSUME ~clobbered, disturbed = {}, NEW g \in Hosts, NEW id \in Jobs,
                      KindOf[id] = "at"
               PROVE  /\ fired'[g][id] <= 1 + crashes'[g]
                      /\ fired'[g][id] > crashes'[g] => Spent(g, id)'
    BY DEF Counted
  <2>1. /\ fired[g][id] \in Nat /\ crashes[g] \in Nat /\ crashes'[g] \in Nat
        /\ crashes[g] <= crashes'[g] /\ fired' = fired /\ file' = file
    BY DEF Locals, bounds
  <2>2. /\ fired[g][id] <= 1 + crashes[g]
        /\ fired[g][id] > crashes[g] => Spent(g, id)
    BY DEF Counted
  <2>3. CASE g = h
    <3>1. CASE pc[h] = "wait"
      <4>1. Ids(jobs'[h]) = {}
        BY <1>1 DEF Ids
      <4> QED  BY <1>1, <2>1, <2>2, <2>3, <3>1, <4>1 DEF Spent
    <3>2. CASE crashes[h] < crashes'[h]
      BY <2>1, <2>2, <2>3, <3>2
    <3> QED  BY <3>1, <3>2
  <2>4. CASE g # h
    <3>1. Spent(g, id) => Spent(g, id)'
      BY <1>1, <2>1, <2>4 DEF Spent
    <3> QED  BY <2>1, <2>2, <3>1
  <2> QED  BY <2>3, <2>4
<1>8. AcceptedIsKept'
  BY DEF AcceptedIsKept, NothingIsLost, NothingComesBack
<1>9. OnlyAMoveMisleads'
  BY DEF Gone, OnlyAMoveMisleads, EarlyOnlyAfterAMove, RunsAreFiledRight
<1> QED  BY <1>3, <1>4, <1>5, <1>6, <1>7, <1>8, <1>9

LEMMA StopEndsKeeps ==
  ASSUME IInv, NEW h \in Hosts, StopEnds(h)
  PROVE  IInv'
<1>1. crashes' = crashes /\ crashes \in [Hosts -> Nat] /\ pc[h] = "wait" /\ Gone(h)
  BY DEF StopEnds, IInv, Locals
<1> QED  BY <1>1, GoneKeeps DEF StopEnds

LEMMA CrashKeeps ==
  ASSUME IInv, NEW h \in Hosts, Crash(h)
  PROVE  IInv'
<1>1. /\ crashes' \in [Hosts -> Nat] /\ \A g \in Hosts : crashes[g] <= crashes'[g]
      /\ crashes[h] < crashes'[h] /\ Gone(h)
  BY DEF Crash, IInv, Locals, bounds
<1> QED  BY <1>1, GoneKeeps DEF Crash

LEMMA StopBeginsKeeps ==
  ASSUME IInv, NEW h \in Hosts, StopBegins(h)
  PROVE  IInv'
<1> USE DEF IInv
<1>1. /\ up'[h] = "stopping" /\ up[h] = "up" /\ \A g \in Hosts \ {h} : up'[g] = up[g]
      /\ up' \in [Hosts -> {"down", "up", "stopping"}]
  BY DEF StopBegins, Lists
<1>2. Real' = Real
  BY DEF Real, StopBegins, history
<1>3. Lists'
  BY <1>1, <1>2 DEF StopBegins, Lists, history, loop
<1>4. Locals'
  BY DEF StopBegins, Locals, history, loop
<1>5. ASSUME NEW g \in Hosts PROVE Pointed(g)' /\ Collected(g)'
  <2>1. Untouched(g)
    BY DEF StopBegins, Untouched, history, loop
  <2> QED  BY <2>1, OthersKeep DEF StopBegins, Lists, history
<1>6. OnDisk'
  <2>1. \A g \in Hosts : up'[g] # "down" => up[g] # "down"
    BY <1>1
  <2> QED  BY <2>1 DEF OnDisk, StopBegins, history, loop
<1>7. Counted'
  BY StillCounted DEF StopBegins, history, loop, Locals
<1>8. AcceptedIsKept' /\ OnlyAMoveMisleads'
  BY StillKept DEF StopBegins, history, OnlyAMoveMisleads, EarlyOnlyAfterAMove, RunsAreFiledRight
<1> QED  BY <1>3, <1>4, <1>5, <1>6, <1>7, <1>8

\* What is due stays due when time passes.
LEMMA ClockKeeps ==
  ASSUME IInv, Clock
  PROVE  IInv'
<1> USE DEF IInv
<1>1. now' = now + 1 /\ now \in Nat
  BY DEF Clock, Lists
<1>2. Lists'
  BY <1>1 DEF Clock, Lists, Real, service, loop, bounds, history
<1>3. Locals'
  BY DEF Clock, Locals, loop, bounds, history
<1>4. ASSUME NEW g \in Hosts PROVE Pointed(g)' /\ Collected(g)'
  <2>1. Untouched(g)
    BY DEF Clock, Untouched, service, loop, history
  <2> QED  BY <1>1, <2>1, OthersKeep DEF Clock, history
<1>5. OnDisk'
  BY StillOnDisk DEF Clock, service, loop, history
<1>6. Counted'
  BY StillCounted DEF Clock, service, loop, bounds, history, Locals
<1>7. AcceptedIsKept' /\ OnlyAMoveMisleads'
  BY StillKept DEF Clock, history, OnlyAMoveMisleads, EarlyOnlyAfterAMove, RunsAreFiledRight
<1> QED  BY <1>2, <1>3, <1>4, <1>5, <1>6, <1>7

LEMMA StutterKeeps ==
  ASSUME IInv, UNCHANGED vars
  PROVE  IInv'
<1> USE DEF IInv, vars, service, loop, bounds, history
<1>1. Lists' /\ Locals'
  BY DEF Lists, Locals, Real
<1>2. ASSUME NEW g \in Hosts PROVE Pointed(g)' /\ Collected(g)'
  <2>1. Untouched(g) /\ now' = now /\ now \in Nat
    BY DEF Untouched, Lists
  <2> QED  BY <2>1, OthersKeep
<1>3. OnDisk' /\ AcceptedIsKept'
  BY StillOnDisk, StillKept
<1>4. Counted'
  BY StillCounted DEF Locals
<1>5. OnlyAMoveMisleads'
  BY DEF OnlyAMoveMisleads, EarlyOnlyAfterAMove, RunsAreFiledRight
<1> QED  BY <1>1, <1>2, <1>3, <1>4, <1>5

-----------------------------------------------------------------------------
(* The theorems. *)

LEMMA NextKeeps ==
  ASSUME IInv, [Next]_vars
  PROVE  IInv'
<1>1. ASSUME NEW h \in Hosts, LoopStep(h) \/ PanicsOut(h) PROVE IInv'
  BY <1>1, SyncsKeeps, CollectsKeeps, TakesKeeps, TickEndsKeeps, BeginsKeeps, CallsKeeps,
     ReportsKeeps, PanicsOutKeeps, RecordsKeeps, PersistsKeeps DEF LoopStep
<1>2. ASSUME NEW h \in Hosts, CallStep(h) PROVE IInv'
  BY <1>2, AddJobKeeps, RemoveJobKeeps, UpdateJobKeeps DEF CallStep
<1>3. ASSUME NEW h \in Hosts, Start(h) \/ StopBegins(h) \/ StopEnds(h) \/ Crash(h) PROVE IInv'
  BY <1>3, StartKeeps, StopBeginsKeeps, StopEndsKeeps, CrashKeeps
<1>4. ASSUME NEW id \in Jobs, TuiAdds(id) PROVE IInv'
  BY <1>4, TuiAddsKeeps
<1>5. CASE Clock
  BY <1>5, ClockKeeps
<1>6. CASE UNCHANGED vars
  BY <1>6, StutterKeeps
<1> QED  BY <1>1, <1>2, <1>3, <1>4, <1>5, <1>6 DEF Next

\* The slices, the file and the locals of the loops are what IInv says of them
\* (Service, tick and executeJob in scheduler.go), for any number of hosts,
\* calls, crashes and panics of callbacks.
THEOREM Inductive == Spec => []IInv
<1> QED  BY InitHolds, NextKeeps, PTL DEF Spec

\* TypeOK: the slice, jobs.json and the loop's locals keep their types, and
\* executeJob's pointer always shows a job.
THEOREM TypeCorrect == Spec => []TypeOK
<1>1. ASSUME IInv PROVE TypeOK
  <2> USE <1>1 DEF IInv
  <2>1. Real \subseteq Job /\ Seq(Real) \subseteq Seq(Job)
    BY DEF Real
  <2>2. file \in Seq(Job) /\ jobs \in [Hosts -> Seq(Job)]
    BY <2>1 DEF Lists
  <2>3. \A h \in Hosts : Holding(h) => Shown(h) \in Job
    BY <2>1 DEF Pointed
  <2> QED  BY <2>2, <2>3 DEF TypeOK, Lists, Locals, PCs
<1> QED  BY <1>1, Inductive, PTL

\* AcceptedIsKept: what AddJob returned an id for stays in jobs.json until it is
\* removed or has run, and what RemoveJob took away does not come back, unless
\* persistLocked wrote over a list its process had not read or a removal moved
\* the slice under a run.
THEOREM JobsAreKept == Spec => []AcceptedIsKept
<1>1. IInv => AcceptedIsKept
  BY DEF IInv
<1> QED  BY <1>1, Inductive, PTL

\* OneShotFiresOnce: the callback of a KindAt job returns once on a host, and once
\* more for every crash before the removal was written, with the same exceptions.
THEOREM OneShotsFireOnce == Spec => []OneShotFiresOnce
<1>1. IInv => OneShotFiresOnce
  BY DEF IInv, Counted, OneShotFiresOnce
<1> QED  BY <1>1, Inductive, PTL

\* OnlyAMoveMisleads: a job that is not due runs only in a tick whose slice
\* changed after the indices were collected, and a run is filed under another
\* job only when a removal moved the slice under executeJob's pointer.
THEOREM MovesMislead == Spec => []OnlyAMoveMisleads
<1>1. IInv => OnlyAMoveMisleads
  BY DEF IInv
<1> QED  BY <1>1, Inductive, PTL

\* ListIsOnDisk: between two jobs a running host lists what jobs.json lists, in
\* the same order, unless another process has written since.
THEOREM ListsAreOnDisk == Spec => []ListIsOnDisk
<1>1. IInv => ListIsOnDisk
  BY DEF IInv, OnDisk, ListIsOnDisk
<1> QED  BY <1>1, Inductive, PTL

=============================================================================
