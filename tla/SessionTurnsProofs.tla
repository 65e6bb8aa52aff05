------------------------- MODULE SessionTurnsProofs -------------------------
(***************************************************************************)
(* Proofs about SessionTurns: its types, and that jobs overlap only after  *)
(* a release.  The invariant says what a job has in hand where it stands   *)
(* (a mutex once it looked one up, an agent once it has one, a message     *)
(* while it turns one) and that no job holds a mutex that is not yet made. *)
(* Two jobs past their locks then have two mutexes, and the newer one was  *)
(* made by a release.                                                      *)
(***************************************************************************)
EXTENDS SessionTurns, TLAPS, FiniteSetTheorems, WellFoundedInduction

-----------------------------------------------------------------------------
(* The pure parts. *)

\* A finite set of integers has a greatest element: no finite set is the
\* smallest without one.
LEMMA MaxOfFinite ==
    ASSUME NEW S \in SUBSET Int, IsFiniteSet(S), S # {}
    PROVE  Max(S) \in S /\ \A x \in S : Max(S) >= x
<1> DEFINE Top(U) == \E m \in U : \A x \in U : m >= x
           Open == {U \in SUBSET S : U # {} /\ ~Top(U)}
<1>1. Open = {}
  <2>1. SUFFICES ASSUME Open # {} PROVE FALSE
    OBVIOUS
  <2>2. IsWellFoundedOn(StrictSubsetOrdering(S), SUBSET S)
    BY FS_StrictSubsetOrderingWellFounded, FS_FiniteSubsetsOfFinite
  <2>3. Open \subseteq SUBSET S
    OBVIOUS
  <2>4. PICK U \in Open : \A V \in Open : ~ (<<V, U>> \in StrictSubsetOrdering(S))
    <3> HIDE DEF Open
    <3> QED
      BY ONLY <2>1, <2>2, <2>3, WFMin
  <2>5. PICK x \in U : TRUE
    OBVIOUS
  <2>6. U \ {x} \notin Open
    BY <2>4, <2>5 DEF StrictSubsetOrdering
  <2>7. CASE U \ {x} = {}
    <3>1. U = {x} /\ x \in Int
      BY <2>5, <2>7
    <3> QED
      BY <3>1
  <2>8. CASE U \ {x} # {}
    <3>1. PICK m \in U \ {x} : \A y \in U \ {x} : m >= y
      BY <2>6, <2>8
    <3>2. CASE m >= x
      <4>1. \A y \in U : m >= y
        BY <3>1, <3>2
      <4> QED
        BY <4>1, <3>1
    <3>3. CASE x >= m
      <4>1. \A y \in U : x >= y
        BY <3>1, <3>3, <2>5
      <4> QED
        BY <4>1, <2>5
    <3> QED
      BY <3>1, <3>2, <3>3, <2>5
  <2> QED
    BY <2>7, <2>8
<1> QED
  BY <1>1 DEF Max

\* The greatest of the numbers between two bounds that pass a test, when one
\* does.
LEMMA MaxOfInterval ==
    ASSUME NEW a \in Nat, NEW b \in Nat, NEW S \in SUBSET (a..b), S # {}
    PROVE  Max(S) \in S
<1>1. IsFiniteSet(a..b)
  BY FS_Interval
<1>2. IsFiniteSet(S)
  BY <1>1, FS_Subset
<1>3. S \in SUBSET Int
  OBVIOUS
<1> QED
  BY <1>2, <1>3, MaxOfFinite

LEMMA NextUserSeqTyped ==
    ASSUME NEW rows \in Seq(Row)
    PROVE  NextUserSeq(rows) \in Nat \ {0}
<1> DEFINE T == {rows[i].seq : i \in DOMAIN rows}
           f == [i \in 1..Len(rows) |-> rows[i].seq]
<1>1. \A i \in 1..Len(rows) : rows[i] \in Row /\ rows[i].seq \in Nat
  BY DEF Row
<1>2. f \in Surjection(1..Len(rows), T)
  <2>1. f \in [1..Len(rows) -> T] /\ DOMAIN rows = 1..Len(rows)
    OBVIOUS
  <2>2. \A t \in T : \E i \in 1..Len(rows) : f[i] = t
    BY <2>1
  <2> QED
    BY <2>1, <2>2 DEF Surjection
<1>3. IsFiniteSet(1..Len(rows))
  BY FS_Interval
<1>4. IsFiniteSet({0} \cup T)
  <2>1. IsFiniteSet(T)
    BY <1>2, <1>3, FS_Surjection
  <2> QED
    BY <2>1, FS_AddElement, {0} \cup T = T \cup {0}
<1>5. {0} \cup T \in SUBSET Nat
  BY <1>1
<1> HIDE DEF T
<1>6. Max({0} \cup T) \in Nat
  BY <1>4, <1>5, MaxOfFinite
<1> QED
  BY <1>6 DEF NextUserSeq, T

\* A user row is a row.
LEMMA UserRowTyped ==
    ASSUME NEW m \in Messages, NEW rows \in Seq(Row)
    PROVE  UserRow(m, NextUserSeq(rows)) \in Row
BY NextUserSeqTyped DEF UserRow, Row

LEMMA ReplyTyped ==
    ASSUME NEW m \in Messages
    PROVE  Reply(m) \in Row
BY DEF Reply, Row

LEMMA StripLenTyped ==
    ASSUME NEW history \in Seq(Row), NEW contents \in Seq(Messages)
    PROVE  StripLen(history, contents) \in 0..Len(history)
<1> DEFINE S == {n \in 0..Len(history) :
                   /\ n <= Len(contents)
                   /\ \A k \in 0..(n - 1) :
                        LET row == history[Len(history) - k]
                        IN  row.by = "user" /\ row.msg = contents[Len(contents) - k]}
<1>1. 0 \in S
  OBVIOUS
<1>2. S \in SUBSET (0..Len(history)) /\ Len(history) \in Nat
  OBVIOUS
<1> HIDE DEF S
<1>3. Max(S) \in S
  BY <1>1, <1>2, MaxOfInterval
<1> QED
  BY <1>2, <1>3 DEF StripLen, S

\* The merge appends a run of our rows, and nothing else.
LEMMA MergeAppendTyped ==
    ASSUME NEW stored \in Seq(Row), NEW ours \in Seq(Row), NEW base \in Nat,
           base <= Len(ours)
    PROVE  MergeAppend(stored, ours, base) \in Seq(Row)
<1> DEFINE Fits(n) == \E at \in [base + 1 .. n -> base + 1 .. Len(stored)] :
                        \A i, k \in base + 1 .. n :
                          stored[at[i]] = ours[i] /\ (i < k => at[i] < at[k])
           S == {n \in base..Len(ours) : Fits(n)}
<1>1. base \in S
  <2>1. base + 1 .. base = {}
    OBVIOUS
  <2>2. [i \in {} |-> 0] \in [{} -> base + 1 .. Len(stored)]
    OBVIOUS
  <2>3. Fits(base)
    BY <2>1, <2>2
  <2> QED
    BY <2>3
<1>2. S \in SUBSET (base..Len(ours)) /\ Len(ours) \in Nat
  OBVIOUS
<1>3. Max(S) \in base..Len(ours)
  <2> HIDE DEF S
  <2> QED
    BY <1>1, <1>2, MaxOfInterval
<1>4. AlreadyStored(stored, ours, base) \in base..Len(ours)
  BY <1>3 DEF AlreadyStored
<1>5. SubSeq(ours, AlreadyStored(stored, ours, base) + 1, Len(ours)) \in Seq(Row)
  BY <1>4
<1> QED
  BY <1>5 DEF MergeAppend

\* What a prefix is, row by row.
LEMMA PrefixAgrees ==
    ASSUME NEW S, NEW s \in Seq(S), NEW t \in Seq(S)
    PROVE  IsPrefix(s, t) <=> Len(s) <= Len(t) /\ \A i \in 1..Len(s) : s[i] = t[i]
<1>1. SubSeq(s, 1, Len(s)) = s
  OBVIOUS
<1>2. ASSUME Len(s) <= Len(t)
      PROVE  /\ Len(SubSeq(t, 1, Len(s))) = Len(s) /\ SubSeq(t, 1, Len(s)) \in Seq(S)
             /\ \A i \in 1..Len(s) : SubSeq(t, 1, Len(s))[i] = t[i]
  BY <1>2
<1>3. ASSUME NEW u \in Seq(S), Len(u) = Len(s), \A i \in 1..Len(s) : s[i] = u[i]
      PROVE  s = u
  BY <1>3
<1> QED
  BY <1>1, <1>2, <1>3 DEF IsPrefix

LEMMA PrefixOfAppend ==
    ASSUME NEW S, NEW s \in Seq(S), NEW x \in S
    PROVE  IsPrefix(s, Append(s, x))
BY DEF IsPrefix

LEMMA PrefixOfItself ==
    ASSUME NEW S, NEW s \in Seq(S)
    PROVE  IsPrefix(s, s)
BY DEF IsPrefix

LEMMA PrefixOfPrefix ==
    ASSUME NEW S, NEW s \in Seq(S), NEW t \in Seq(S), NEW u \in Seq(S),
           IsPrefix(s, t), IsPrefix(t, u)
    PROVE  IsPrefix(s, u)
<1>1. \A i \in 1..Len(s) : s[i] = t[i] /\ t[i] = u[i]
  BY PrefixAgrees
<1>2. Len(s) <= Len(t) /\ Len(t) <= Len(u)
  BY PrefixAgrees
<1> QED
  BY <1>1, <1>2, PrefixAgrees

LEMMA EmptyIsPrefix ==
    ASSUME NEW S, NEW s \in Seq(S)
    PROVE  IsPrefix(<<>>, s)
BY DEF IsPrefix

-----------------------------------------------------------------------------
(* The inductive invariant: types, what a job has where it stands, and the    *)
(* turn locks.                                                                *)

Unlocked == {"new", "dispatched", "finishing", "done"}
Agentless == {"persisting", "pushing", "starting", "loading", "building", "waiting"} \cup Unlocked
Turning == {"picked", "shifting"} \cup InTurn
Working == {"built", "ready", "draining"} \cup Turning

\* A job has an agent from its bootstrap to its last turn, and a message from
\* PendingFront to ShiftPending; the base of a turn is inside its transcript;
\* the drainer's job persists nothing.
EquippedJob(j) ==
    /\ pc[j] \in Agentless => turn[j].agent = 0
    /\ pc[j] \in Working => turn[j].agent \in Agents
    /\ pc[j] \in Turning => turn[j].msg \in Messages
    /\ pc[j] \in {"begun", "stepping", "saving", "merging", "merged"} =>
           turn[j].base <= Len(Mem(j))
    /\ pc[j] \in {"persisting", "pushing"} => j \in Sends

Equipped == \A j \in Jobs : EquippedJob(j)

\* A job has a turn lock from its look-up to its end, and no release makes up a
\* lock of the past.
LocksKnown ==
    \A j \in Jobs : IF pc[j] \in Unlocked THEN turn[j].lock = 0
                    ELSE turn[j].lock \in 1..lock

IInv == TypeOK /\ Equipped /\ LocksKnown /\ OverlapNeedsRelease

-----------------------------------------------------------------------------
(* Agents. *)

\* Pointers do not run out: jobs that have none leave one to be built.
LEMMA FreshAgent ==
    ASSUME IInv, NEW j \in Jobs, pc[j] = "building", resident = 0
    PROVE  \E a \in Agents : a \notin {resident, evictor.agent} \cup {turn[i].agent : i \in Jobs}
<1> DEFINE Others == Jobs \ {j}
           f == [i \in Others |-> turn[i].agent]
           Used == {turn[i].agent : i \in Others}
<1>1. IsFiniteSet(Jobs)
  BY MessagesAssumption, FS_AddElement, FS_Subset, Sends \in SUBSET (Sends \cup Queued) DEF Jobs
<1>2. IsFiniteSet(Others) /\ Cardinality(Others) = Cardinality(Jobs) - 1
  BY <1>1, FS_RemoveElement
<1>3. IsFiniteSet(Used) /\ Cardinality(Used) <= Cardinality(Others)
  <2>1. f \in Surjection(Others, Used)
    BY DEF Surjection
  <2> QED
    BY <1>2, <2>1, FS_Surjection
<1>4. IsFiniteSet(Used \cup {evictor.agent})
      /\ Cardinality(Used \cup {evictor.agent}) <= Cardinality(Used) + 1
  <2> HIDE DEF Used
  <2> DEFINE e == evictor.agent
  <2> HIDE DEF e
  <2>1. Cardinality(Used) \in Nat
    BY <1>3, FS_CardinalityType
  <2>2. /\ IsFiniteSet(Used \cup {e})
        /\ Cardinality(Used \cup {e}) \in {Cardinality(Used), Cardinality(Used) + 1}
    BY <1>3, FS_AddElement
  <2> QED
    BY <2>1, <2>2 DEF e
<1>5. Cardinality(Jobs) \in Nat /\ Cardinality(Used) \in Nat
      /\ Cardinality(Used \cup {evictor.agent}) \in Nat
  BY <1>1, <1>3, <1>4, FS_CardinalityType
<1>6. IsFiniteSet(Agents) /\ Cardinality(Agents) = Cardinality(Jobs) + 1
  <2>1. IsFiniteSet(1..(Cardinality(Jobs) + 1))
        /\ Cardinality(1..(Cardinality(Jobs) + 1)) = Cardinality(Jobs) + 1
    <3> DEFINE n == Cardinality(Jobs) + 1
    <3>1. n \in Int /\ 1 \in Int /\ ~ (1 > n) /\ n - 1 + 1 = Cardinality(Jobs) + 1
      BY <1>5
    <3> HIDE DEF n
    <3>2. IsFiniteSet(1..n) /\ Cardinality(1..n) = n - 1 + 1
      BY <3>1, FS_Interval
    <3> QED
      BY <3>1, <3>2 DEF n
  <2> QED
    BY <2>1 DEF Agents
<1>7. PICK a \in Agents : a \notin Used \cup {evictor.agent}
  <2> HIDE DEF Used
  <2>1. CASE Agents \subseteq Used \cup {evictor.agent}
    <3>1. Cardinality(Agents) <= Cardinality(Used \cup {evictor.agent})
      BY <1>4, <2>1, FS_Subset
    <3> QED
      BY <1>2, <1>3, <1>4, <1>5, <1>6, <3>1
  <2> QED
    BY <2>1
<1>8. turn[j].agent = 0 /\ 0 \notin Agents
  BY DEF IInv, Equipped, EquippedJob, Agentless, Agents
<1> QED
  BY <1>7, <1>8

\* What a job has in hand.
LEMMA InHand ==
    ASSUME IInv, NEW j \in Jobs
    PROVE  /\ turn[j] \in TurnState /\ pc[j] \in Places
           /\ pc[j] \in Working => /\ turn[j].agent \in Agents
                                   /\ agents[turn[j].agent] \in AgentState
                                   /\ Mem(j) \in Seq(Row)
           /\ pc[j] \in Turning => turn[j].msg \in Messages
<1>1. turn[j] \in TurnState /\ pc[j] \in Places
  BY DEF IInv, TypeOK, TypesOfJobs
<1>2. ASSUME pc[j] \in Working PROVE turn[j].agent \in Agents
  BY <1>2 DEF IInv, Equipped, EquippedJob
<1>3. ASSUME pc[j] \in Working
      PROVE  agents[turn[j].agent] \in AgentState /\ Mem(j) \in Seq(Row)
  BY <1>2, <1>3 DEF IInv, TypeOK, TypesOfAgents, AgentState, Mem
<1> QED
  BY <1>1, <1>2, <1>3 DEF IInv, Equipped, EquippedJob

\* A field of a job's variables, or of an agent, is given another value.
LEMMA TurnFields ==
    ASSUME NEW t \in TurnState
    PROVE  /\ \A v \in Nat : [t EXCEPT !.lock = v] \in TurnState /\ [t EXCEPT !.base = v] \in TurnState
           /\ \A v \in Agents \cup {0} : [t EXCEPT !.agent = v] \in TurnState
           /\ \A v \in Messages : [t EXCEPT !.msg = v] \in TurnState
           /\ \A v \in Seq(Row) : [t EXCEPT !.resp = v] \in TurnState /\ [t EXCEPT !.found = v] \in TurnState
           /\ \A v \in BOOLEAN : [t EXCEPT !.err = v] \in TurnState
BY DEF TurnState

LEMMA AgentFields ==
    ASSUME NEW s \in AgentState
    PROVE  /\ \A v \in Seq(Row) : [s EXCEPT !.mem = v] \in AgentState
           /\ \A v \in BOOLEAN : [s EXCEPT !.stopped = v] \in AgentState /\ [s EXCEPT !.saved = v] \in AgentState
BY DEF AgentState

\* A job's variables, or its agent's, are replaced by others of their type.
LEMMA NewTurn ==
    ASSUME IInv, NEW j \in Jobs, NEW to \in Places, NEW t \in TurnState,
           pc' = [pc EXCEPT ![j] = to], turn' = [turn EXCEPT ![j] = t],
           lock' \in Nat \ {0}, overlapped' = overlapped
    PROVE  TypesOfJobs'
BY DEF IInv, TypeOK, TypesOfJobs

LEMMA NewAgent ==
    ASSUME IInv, NEW j \in Jobs, NEW s \in AgentState,
           agents' = [agents EXCEPT ![turn[j].agent] = s],
           resident' = resident, active' \in BOOLEAN, closePending' \in BOOLEAN
    PROVE  TypesOfAgents'
BY DEF IInv, TypeOK, TypesOfAgents

\* Jobs other than j that stay where they are stay equipped, as long as the
\* transcripts they turn on are not touched.
LEMMA OthersEquipped ==
    ASSUME IInv, NEW j \in Jobs, EquippedJob(j)',
           \A i \in Jobs \ {j} : /\ pc'[i] = pc[i] /\ turn'[i] = turn[i]
                                 /\ pc[i] \in InTurn => Mem(i)' = Mem(i)
    PROVE  Equipped'
<1>1. ASSUME NEW i \in Jobs \ {j}
      PROVE  EquippedJob(i)'
  BY DEF IInv, Equipped, EquippedJob, InTurn
<1> QED
  BY <1>1 DEF Equipped

\* No other job in its turn reads the transcript that job j's turn writes.
LEMMA OthersMem ==
    ASSUME IInv, NEW j \in Jobs, pc[j] \in InTurn, NEW i \in Jobs \ {j}, pc[i] \in InTurn,
           turn'[i] = turn[i], \A b \in Agents \ {turn[j].agent} : agents'[b] = agents[b]
    PROVE  Mem(i)' = Mem(i)
<1>1. turn[i].agent # turn[j].agent
  BY DEF IInv, TypeOK, TurnsExclude
<1>2. turn[i].agent \in Agents
  BY InHand DEF Working, Turning
<1> QED
  BY <1>1, <1>2 DEF Mem

LEMMA EmptySeqTyped == <<>> \in Seq(Row)
OBVIOUS

LEMMA NoTurnTyped == NoTurn \in TurnState
BY EmptySeqTyped DEF NoTurn, TurnState

\* What a release can change.
LEMMA Released ==
    ASSUME IInv, NEW js \in SUBSET Jobs, NEW detached \in BOOLEAN, Release(js, detached)
    PROVE  /\ resident' \in {0, resident} /\ lock' \in {lock, lock + 1}
           /\ agents' \in [Agents -> AgentState]
           /\ \A i \in js : turn[i].agent \in Agents =>
                  agents'[turn[i].agent].mem = agents[turn[i].agent].mem
<1>1. agents \in [Agents -> AgentState] /\ NoAgent \in AgentState
  BY EmptySeqTyped DEF IInv, TypeOK, TypesOfAgents, NoAgent, AgentState
<1>2. resident' \in {0, resident} /\ lock' \in {lock, lock + 1}
  BY DEF Release, DropsLock
<1>3. ASSUME NEW a \in Agents
      PROVE  /\ agents'[a] \in AgentState
             /\ (\E i \in js : turn[i].agent = a) => agents'[a].mem = agents[a].mem
  <2>1. agents[a] \in AgentState
    BY <1>1
  <2>2. agents'[a] = IF \E i \in js : turn[i].agent = a
                     THEN [agents[a] EXCEPT !.stopped = @ \/ (detached /\ a = resident)]
                     ELSE IF a = resident /\ ~detached THEN agents[a] ELSE NoAgent
    BY DEF Release
  <2>3. [agents[a] EXCEPT !.stopped = @ \/ (detached /\ a = resident)] \in AgentState
        /\ [agents[a] EXCEPT !.stopped = @ \/ (detached /\ a = resident)].mem = agents[a].mem
    BY <2>1 DEF AgentState
  <2> QED
    BY <1>1, <2>1, <2>2, <2>3
<1>4. agents' = [a \in Agents |-> agents'[a]]
  BY DEF Release
<1> QED
  BY <1>2, <1>3, <1>4

LEMMA DispatchKeeps ==
    ASSUME IInv, NEW j \in Jobs, Dispatch(j)
    PROVE  IInv'
<1> USE DEF IInv, TypeOK, Dispatch, Goes
<1>1. TypesOfRows'
  BY DEF TypesOfRows, live, ghosts
<1>2. TypesOfAgents'
  BY DEF TypesOfAgents, agent
<1>3. TypesOfJobs'
  BY DEF TypesOfJobs, Places, InTurn, jobs, ghosts
<1>4. TypesOfControl'
  BY DEF TypesOfControl, queue, control, bounds
<1>5. LocksExclude'
  BY DEF LocksExclude, TypesOfJobs, Running
<1>6. TurnsExclude'
  BY DEF TurnsExclude, TypesOfJobs, InTurn
<1>7. Equipped'
  BY DEF Equipped, EquippedJob, TypesOfJobs, TypesOfAgents, Agentless, Working, Turning,
     InTurn, Unlocked, Mem, agent
<1>8. LocksKnown'
  BY DEF LocksKnown, TypesOfJobs, Unlocked
<1>9. OverlapNeedsRelease'
  BY DEF OverlapNeedsRelease, ghosts
<1> QED
  BY <1>1, <1>2, <1>3, <1>4, <1>5, <1>6, <1>7, <1>8, <1>9

LEMMA FetchesKeeps ==
    ASSUME IInv, NEW j \in Jobs, Fetches(j)
    PROVE  IInv'
<1> USE DEF IInv, TypeOK, Fetches, Goes
<1>1. TypesOfRows'
  BY DEF TypesOfRows, live, ghosts
<1>2. TypesOfAgents'
  BY DEF TypesOfAgents, agent
<1>3. TypesOfJobs'
  <2>1. lock \in Nat
    BY DEF TypesOfJobs
  <2>2. turn[j] \in TurnState
    BY InHand
  <2>3. turn' = [turn EXCEPT ![j] = [turn[j] EXCEPT !.lock = lock]]
    OBVIOUS
  <2>4. pc' = [pc EXCEPT ![j] = "waiting"] /\ "waiting" \in Places
    BY DEF Places, InTurn
  <2>5. lock' \in Nat \ {0} /\ overlapped' = overlapped
    BY DEF TypesOfJobs, ghosts
  <2> HIDE DEF IInv, TypeOK, Fetches, Goes
  <2>6. [turn[j] EXCEPT !.lock = lock] \in TurnState
    BY <2>1, <2>2, TurnFields
  <2> QED
    BY <2>3, <2>4, <2>5, <2>6, NewTurn
<1>4. TypesOfControl'
  BY DEF TypesOfControl, queue, control, bounds
<1>5. LocksExclude'
  BY DEF LocksExclude, TypesOfJobs, Running
<1>6. TurnsExclude'
  BY DEF TurnsExclude, TypesOfJobs, InTurn
<1>7. Equipped'
  BY DEF Equipped, EquippedJob, TypesOfJobs, TypesOfAgents, Agentless, Working, Turning,
     InTurn, Unlocked, Mem, agent
<1>8. LocksKnown'
  BY DEF LocksKnown, TypesOfJobs, Unlocked
<1>9. OverlapNeedsRelease'
  BY DEF OverlapNeedsRelease, ghosts
<1> QED
  BY <1>1, <1>2, <1>3, <1>4, <1>5, <1>6, <1>7, <1>8, <1>9

LEMMA LocksKeeps ==
    ASSUME IInv, NEW j \in Jobs, Locks(j)
    PROVE  IInv'
<1> USE DEF IInv, TypeOK, Locks, Goes
<1>1. TypesOfRows'
  BY DEF TypesOfRows, live, ghosts
<1>2. TypesOfAgents'
  BY DEF TypesOfAgents, agent
<1>3. TypesOfJobs'
  BY DEF TypesOfJobs, Places, InTurn, jobs, ghosts
<1>4. TypesOfControl'
  BY DEF TypesOfControl, queue, control, bounds
<1>5. LocksExclude'
  BY DEF LocksExclude, TypesOfJobs, Running
<1>6. TurnsExclude'
  BY DEF TurnsExclude, TypesOfJobs, InTurn
<1>7. Equipped'
  BY DEF Equipped, EquippedJob, TypesOfJobs, TypesOfAgents, Agentless, Working, Turning,
     InTurn, Unlocked, Mem, agent, Jobs
<1>8. LocksKnown'
  BY DEF LocksKnown, TypesOfJobs, Unlocked
<1>9. OverlapNeedsRelease'
  <2>1. CASE \E i \in Running : TRUE
    <3>1. PICK i \in Running : turn[i].lock # turn[j].lock
      BY <2>1
    <3>2. turn[i].lock \in 1..lock /\ turn[j].lock \in 1..lock
      BY DEF LocksKnown, Running, Unlocked
    <3>3. lock \in Nat /\ lock' = lock
      BY DEF TypesOfJobs
    <3> QED
      BY <3>1, <3>2, <3>3 DEF OverlapNeedsRelease
  <2>2. CASE Running = {}
    BY <2>2 DEF OverlapNeedsRelease
  <2> QED
    BY <2>1, <2>2
<1> QED
  BY <1>1, <1>2, <1>3, <1>4, <1>5, <1>6, <1>7, <1>8, <1>9

LEMMA PersistsKeeps ==
    ASSUME IInv, NEW j \in Jobs, Persists(j)
    PROVE  IInv'
<1> USE DEF IInv, TypeOK, Persists, Goes
<1>0. j \in Messages /\ UserRow(j, NextUserSeq(disk)) \in Row
  BY UserRowTyped DEF Equipped, EquippedJob, Messages, TypesOfRows
<1>1. TypesOfRows'
  BY <1>0 DEF TypesOfRows, live, ghosts
<1>2. TypesOfAgents'
  BY <1>0 DEF TypesOfAgents, agent
<1>3. TypesOfJobs'
  BY <1>0 DEF TypesOfJobs, Places, InTurn, jobs, ghosts
<1>4. TypesOfControl'
  BY <1>0 DEF TypesOfControl, queue, control, bounds
<1>5. LocksExclude'
  BY <1>0 DEF LocksExclude, TypesOfJobs, Running
<1>6. TurnsExclude'
  BY <1>0 DEF TurnsExclude, TypesOfJobs, InTurn
<1>7. Equipped'
  BY <1>0 DEF Equipped, EquippedJob, TypesOfJobs, TypesOfAgents, Agentless, Working, Turning,
     InTurn, Unlocked, Mem, agent
<1>8. LocksKnown'
  BY <1>0 DEF LocksKnown, TypesOfJobs, Unlocked
<1>9. OverlapNeedsRelease'
  BY <1>0 DEF OverlapNeedsRelease, ghosts
<1> QED
  BY <1>1, <1>2, <1>3, <1>4, <1>5, <1>6, <1>7, <1>8, <1>9

LEMMA PersistFailsKeeps ==
    ASSUME IInv, NEW j \in Jobs, PersistFails(j)
    PROVE  IInv'
<1> USE DEF IInv, TypeOK, PersistFails, Goes
<1>1. TypesOfRows'
  BY DEF TypesOfRows, live, ghosts
<1>2. TypesOfAgents'
  BY DEF TypesOfAgents, agent
<1>3. TypesOfJobs'
  BY DEF TypesOfJobs, Places, InTurn, jobs, ghosts
<1>4. TypesOfControl'
  <2>1. faults' \in 0..MaxFaults
    BY CapsAssumption DEF TypesOfControl
  <2> QED
    BY <2>1 DEF TypesOfControl, queue, control
<1>5. LocksExclude'
  BY DEF LocksExclude, TypesOfJobs, Running
<1>6. TurnsExclude'
  BY DEF TurnsExclude, TypesOfJobs, InTurn
<1>7. Equipped'
  BY DEF Equipped, EquippedJob, TypesOfJobs, TypesOfAgents, Agentless, Working, Turning,
     InTurn, Unlocked, Mem, agent
<1>8. LocksKnown'
  BY DEF LocksKnown, TypesOfJobs, Unlocked
<1>9. OverlapNeedsRelease'
  BY DEF OverlapNeedsRelease, ghosts
<1> QED
  BY <1>1, <1>2, <1>3, <1>4, <1>5, <1>6, <1>7, <1>8, <1>9

LEMMA PushesKeeps ==
    ASSUME IInv, NEW j \in Jobs, Pushes(j)
    PROVE  IInv'
<1> USE DEF IInv, TypeOK, Pushes, Goes
<1>0. j \in Messages
  BY DEF Equipped, EquippedJob, Messages
<1>1. TypesOfRows'
  BY <1>0 DEF TypesOfRows, live
<1>2. TypesOfAgents'
  BY <1>0 DEF TypesOfAgents, agent
<1>3. TypesOfJobs'
  BY <1>0 DEF TypesOfJobs, Places, InTurn, jobs, ghosts
<1>4. TypesOfControl'
  BY <1>0 DEF TypesOfControl, queue, control, bounds
<1>5. LocksExclude'
  BY <1>0 DEF LocksExclude, TypesOfJobs, Running
<1>6. TurnsExclude'
  BY <1>0 DEF TurnsExclude, TypesOfJobs, InTurn
<1>7. Equipped'
  BY <1>0 DEF Equipped, EquippedJob, TypesOfJobs, TypesOfAgents, Agentless, Working, Turning,
     InTurn, Unlocked, Mem, agent
<1>8. LocksKnown'
  BY <1>0 DEF LocksKnown, TypesOfJobs, Unlocked
<1>9. OverlapNeedsRelease'
  BY <1>0 DEF OverlapNeedsRelease, ghosts
<1> QED
  BY <1>1, <1>2, <1>3, <1>4, <1>5, <1>6, <1>7, <1>8, <1>9

LEMMA StartsKeeps ==
    ASSUME IInv, NEW j \in Jobs, Starts(j)
    PROVE  IInv'
<1> USE DEF IInv, TypeOK, Starts, Goes
<1>1. TypesOfRows'
  BY DEF TypesOfRows, live, ghosts
<1>2. TypesOfAgents'
  BY DEF TypesOfAgents, agent
<1>3. TypesOfJobs'
  <2> DEFINE to == IF stopFlag THEN "leaving" ELSE IF resident # 0 THEN "ready" ELSE "loading"
             val == IF stopFlag THEN 0 ELSE resident
  <2>1. val \in Agents \cup {0}
    BY DEF TypesOfAgents
  <2>2. turn[j] \in TurnState
    BY InHand
  <2>3. turn' = [turn EXCEPT ![j] = [turn[j] EXCEPT !.agent = val]]
    OBVIOUS
  <2>4. pc' = [pc EXCEPT ![j] = to] /\ to \in Places
    BY DEF Places, InTurn
  <2>5. lock' \in Nat \ {0} /\ overlapped' = overlapped
    BY DEF TypesOfJobs, ghosts
  <2> HIDE DEF IInv, TypeOK, Starts, Goes
  <2>6. [turn[j] EXCEPT !.agent = val] \in TurnState
    BY <2>1, <2>2, TurnFields
  <2> QED
    BY <2>3, <2>4, <2>5, <2>6, NewTurn
<1>4. TypesOfControl'
  BY DEF TypesOfControl, queue, control, bounds
<1>5. LocksExclude'
  BY DEF LocksExclude, TypesOfJobs, Running
<1>6. TurnsExclude'
  BY DEF TurnsExclude, TypesOfJobs, InTurn
<1>7. Equipped'
  BY DEF Equipped, EquippedJob, TypesOfJobs, TypesOfAgents, Agentless, Working, Turning,
     InTurn, Unlocked, Mem, agent
<1>8. LocksKnown'
  BY DEF LocksKnown, TypesOfJobs, Unlocked
<1>9. OverlapNeedsRelease'
  BY DEF OverlapNeedsRelease, ghosts
<1> QED
  BY <1>1, <1>2, <1>3, <1>4, <1>5, <1>6, <1>7, <1>8, <1>9

LEMMA LoadsKeeps ==
    ASSUME IInv, NEW j \in Jobs, Loads(j)
    PROVE  IInv'
<1> USE DEF IInv, TypeOK, Loads, Goes
<1>1. TypesOfRows'
  BY DEF TypesOfRows, live, ghosts
<1>2. TypesOfAgents'
  BY DEF TypesOfAgents, agent
<1>3. TypesOfJobs'
  <2>1. disk \in Seq(Row)
    BY DEF TypesOfRows
  <2>2. turn[j] \in TurnState
    BY InHand
  <2>3. turn' = [turn EXCEPT ![j] = [turn[j] EXCEPT !.found = disk]]
    OBVIOUS
  <2>4. pc' = [pc EXCEPT ![j] = "building"] /\ "building" \in Places
    BY DEF Places, InTurn
  <2>5. lock' \in Nat \ {0} /\ overlapped' = overlapped
    BY DEF TypesOfJobs, ghosts
  <2> HIDE DEF IInv, TypeOK, Loads, Goes
  <2>6. [turn[j] EXCEPT !.found = disk] \in TurnState
    BY <2>1, <2>2, TurnFields
  <2> QED
    BY <2>3, <2>4, <2>5, <2>6, NewTurn
<1>4. TypesOfControl'
  BY DEF TypesOfControl, queue, control, bounds
<1>5. LocksExclude'
  BY DEF LocksExclude, TypesOfJobs, Running
<1>6. TurnsExclude'
  BY DEF TurnsExclude, TypesOfJobs, InTurn
<1>7. Equipped'
  BY DEF Equipped, EquippedJob, TypesOfJobs, TypesOfAgents, Agentless, Working, Turning,
     InTurn, Unlocked, Mem, agent
<1>8. LocksKnown'
  BY DEF LocksKnown, TypesOfJobs, Unlocked
<1>9. OverlapNeedsRelease'
  BY DEF OverlapNeedsRelease, ghosts
<1> QED
  BY <1>1, <1>2, <1>3, <1>4, <1>5, <1>6, <1>7, <1>8, <1>9

LEMMA BuildsKeeps ==
    ASSUME IInv, NEW j \in Jobs, Builds(j)
    PROVE  IInv'
<1> USE DEF IInv, TypeOK, Builds, Goes
<1> DEFINE found == turn[j].found
           fresh == CHOOSE a \in Agents :
                      a \notin {resident, evictor.agent} \cup {turn[i].agent : i \in Jobs}
           kept == SubSeq(found, 1, Len(found) - StripLen(found, pending))
<1>a. found \in Seq(Row) /\ kept \in Seq(Row)
  <2>1. found \in Seq(Row)
    BY InHand DEF TurnState
  <2>2. StripLen(found, pending) \in 0..Len(found)
    BY <2>1, StripLenTyped DEF TypesOfRows
  <2> QED
    BY <2>1, <2>2
<1>b. ASSUME resident = 0
      PROVE  fresh \in Agents /\ \A i \in Jobs : turn[i].agent # fresh
  <2>1. \E a \in Agents : a \notin {resident, evictor.agent} \cup {turn[i].agent : i \in Jobs}
    BY <1>b, FreshAgent
  <2> QED
    BY <2>1
<1>0. resident' \in Agents /\ (resident = 0 => resident' = fresh) /\ (resident # 0 => resident' = resident)
  BY <1>b DEF TypesOfAgents
<1> HIDE DEF fresh
<1>1. TypesOfRows'
  BY <1>0 DEF TypesOfRows, live, ghosts
<1>2. TypesOfAgents'
  <2>1. CASE resident = 0
    <3>1. agents' = [agents EXCEPT ![fresh] = [agents[fresh] EXCEPT !.mem = kept]]
      BY <2>1 DEF fresh
    <3>2. fresh \in Agents /\ agents[fresh] \in AgentState
      BY <1>b, <2>1 DEF TypesOfAgents
    <3>3. [agents[fresh] EXCEPT !.mem = kept] \in AgentState
      BY <1>a, <3>2, AgentFields
    <3> QED
      BY <1>0, <3>1, <3>3 DEF TypesOfAgents
  <2>2. CASE resident # 0
    BY <1>0, <2>2 DEF TypesOfAgents
  <2> QED
    BY <2>1, <2>2
<1>3. TypesOfJobs'
  <2>1. turn[j] \in TurnState /\ <<>> \in Seq(Row)
    BY InHand, EmptySeqTyped
  <2>2. [[turn[j] EXCEPT !.agent = resident'] EXCEPT !.found = <<>>] \in TurnState
    BY <1>0, <2>1, TurnFields
  <2>3. turn' = [turn EXCEPT ![j] = [[turn[j] EXCEPT !.agent = resident'] EXCEPT !.found = <<>>]]
    <3>1. turn' = [turn EXCEPT ![j].agent = resident', ![j].found = <<>>]
      OBVIOUS
    <3>2. turn \in [Jobs -> TurnState]
      BY DEF TypesOfJobs
    <3> HIDE DEF IInv, TypeOK, Builds, Goes
    <3> QED
      BY <3>1, <3>2
  <2>4. pc' = [pc EXCEPT ![j] = "built"] /\ "built" \in Places
    BY DEF Places
  <2>5. lock' \in Nat \ {0} /\ overlapped' = overlapped
    BY DEF TypesOfJobs, ghosts
  <2> HIDE DEF IInv, TypeOK, Builds, Goes
  <2> QED
    BY <2>2, <2>3, <2>4, <2>5, NewTurn
<1>4. TypesOfControl'
  BY <1>0 DEF TypesOfControl, queue, control, bounds
<1>5. LocksExclude'
  BY <1>0 DEF LocksExclude, TypesOfJobs, Running
<1>6. TurnsExclude'
  BY <1>0 DEF TurnsExclude, TypesOfJobs, InTurn
<1>7. Equipped'
  <2>1. \A i \in Jobs \ {j} : turn'[i] = turn[i] /\ pc'[i] = pc[i]
    BY DEF TypesOfJobs
  <2>2. ASSUME NEW i \in Jobs \ {j}, pc[i] \in InTurn
        PROVE  Mem(i)' = Mem(i)
    <3>1. turn'[i] = turn[i] /\ turn[i].agent \in Agents
      BY <2>1, <2>2, InHand DEF Working, Turning
    <3>2. agents'[turn[i].agent] = agents[turn[i].agent]
      BY <1>b, <3>1 DEF TypesOfAgents, fresh
    <3> QED
      BY <3>1, <3>2 DEF Mem
  <2>3. turn'[j].agent = resident' /\ pc'[j] = "built"
    BY DEF TypesOfJobs, TurnState
  <2>4. EquippedJob(j)'
    BY <1>0, <2>3 DEF EquippedJob, Agentless, Unlocked, Working, Turning, InTurn
  <2> HIDE DEF IInv, TypeOK, Builds, Goes
  <2> QED
    BY <2>1, <2>2, <2>4, OthersEquipped
<1>8. LocksKnown'
  BY <1>0 DEF LocksKnown, TypesOfJobs, Unlocked
<1>9. OverlapNeedsRelease'
  BY <1>0 DEF OverlapNeedsRelease, ghosts
<1> QED
  BY <1>1, <1>2, <1>3, <1>4, <1>5, <1>6, <1>7, <1>8, <1>9

LEMMA BootstrapFailsKeeps ==
    ASSUME IInv, NEW j \in Jobs, BootstrapFails(j)
    PROVE  IInv'
<1> USE DEF IInv, TypeOK, BootstrapFails, Goes
<1>1. TypesOfRows'
  BY DEF TypesOfRows, live, ghosts
<1>2. TypesOfAgents'
  BY DEF TypesOfAgents, agent
<1>3. TypesOfJobs'
  <2>1. <<>> \in Seq(Row)
    BY EmptySeqTyped
  <2>2. turn[j] \in TurnState
    BY InHand
  <2>3. turn' = [turn EXCEPT ![j] = [turn[j] EXCEPT !.found = <<>>]]
    OBVIOUS
  <2>4. pc' = [pc EXCEPT ![j] = "leaving"] /\ "leaving" \in Places
    BY DEF Places, InTurn
  <2>5. lock' \in Nat \ {0} /\ overlapped' = overlapped
    BY DEF TypesOfJobs, ghosts
  <2> HIDE DEF IInv, TypeOK, BootstrapFails, Goes
  <2>6. [turn[j] EXCEPT !.found = <<>>] \in TurnState
    BY <2>1, <2>2, TurnFields
  <2> QED
    BY <2>3, <2>4, <2>5, <2>6, NewTurn
<1>4. TypesOfControl'
  <2>1. faults' \in 0..MaxFaults
    BY CapsAssumption DEF TypesOfControl
  <2> QED
    BY <2>1 DEF TypesOfControl, queue, control
<1>5. LocksExclude'
  BY DEF LocksExclude, TypesOfJobs, Running
<1>6. TurnsExclude'
  BY DEF TurnsExclude, TypesOfJobs, InTurn
<1>7. Equipped'
  BY DEF Equipped, EquippedJob, TypesOfJobs, TypesOfAgents, Agentless, Working, Turning,
     InTurn, Unlocked, Mem, agent
<1>8. LocksKnown'
  BY DEF LocksKnown, TypesOfJobs, Unlocked
<1>9. OverlapNeedsRelease'
  BY DEF OverlapNeedsRelease, ghosts
<1> QED
  BY <1>1, <1>2, <1>3, <1>4, <1>5, <1>6, <1>7, <1>8, <1>9

LEMMA ChecksCancelKeeps ==
    ASSUME IInv, NEW j \in Jobs, ChecksCancel(j)
    PROVE  IInv'
<1> USE DEF IInv, TypeOK, ChecksCancel, Goes
<1> DEFINE a == turn[j].agent
<1>0. a \in Agents /\ agents[a] \in AgentState /\ Mem(j) \in Seq(Row) /\ turn[j] \in TurnState
  BY InHand DEF Working, Turning, InTurn
<1>1. TypesOfRows'
  BY <1>0 DEF TypesOfRows, live, ghosts
<1>2. TypesOfAgents'
  <2>1. agents' = [agents EXCEPT ![a] = [agents[a] EXCEPT !.stopped = @ \/ stopFlag]]
    OBVIOUS
  <2>2. [agents[a] EXCEPT !.stopped = @ \/ stopFlag] \in AgentState
    BY <1>0 DEF AgentState, TypesOfControl
  <2>3. resident' = resident /\ active' \in BOOLEAN /\ closePending' \in BOOLEAN
    BY DEF TypesOfAgents
  <2> HIDE DEF IInv, TypeOK, ChecksCancel, Goes
  <2> QED
    BY <2>1, <2>2, <2>3, NewAgent
<1>3. TypesOfJobs'
  BY <1>0 DEF TypesOfJobs, Places, InTurn, jobs, ghosts
<1>4. TypesOfControl'
  BY <1>0 DEF TypesOfControl, queue, control, bounds
<1>5. LocksExclude'
  BY <1>0 DEF LocksExclude, TypesOfJobs, Running
<1>6. TurnsExclude'
  <2>1. turn' = turn /\ \A i \in Jobs : pc'[i] \in InTurn => pc'[i] = pc[i]
    BY DEF TypesOfJobs, InTurn
  <2> QED
    BY <2>1 DEF TurnsExclude
<1>7. Equipped'
  BY <1>0 DEF Equipped, EquippedJob, TypesOfJobs, TypesOfAgents, Agentless, Working, Turning,
     InTurn, Unlocked, Mem, agent
<1>8. LocksKnown'
  BY <1>0 DEF LocksKnown, TypesOfJobs, Unlocked
<1>9. OverlapNeedsRelease'
  BY <1>0 DEF OverlapNeedsRelease, ghosts
<1> QED
  BY <1>1, <1>2, <1>3, <1>4, <1>5, <1>6, <1>7, <1>8, <1>9

LEMMA StopsDrainingKeeps ==
    ASSUME IInv, NEW j \in Jobs, StopsDraining(j)
    PROVE  IInv'
<1> USE DEF IInv, TypeOK, StopsDraining, Goes
<1>1. TypesOfRows'
  BY DEF TypesOfRows, live, ghosts
<1>2. TypesOfAgents'
  BY DEF TypesOfAgents, agent
<1>3. TypesOfJobs'
  BY DEF TypesOfJobs, Places, InTurn, jobs, ghosts
<1>4. TypesOfControl'
  BY DEF TypesOfControl, queue, control, bounds
<1>5. LocksExclude'
  BY DEF LocksExclude, TypesOfJobs, Running
<1>6. TurnsExclude'
  BY DEF TurnsExclude, TypesOfJobs, InTurn
<1>7. Equipped'
  BY DEF Equipped, EquippedJob, TypesOfJobs, TypesOfAgents, Agentless, Working, Turning,
     InTurn, Unlocked, Mem, agent
<1>8. LocksKnown'
  BY DEF LocksKnown, TypesOfJobs, Unlocked
<1>9. OverlapNeedsRelease'
  BY DEF OverlapNeedsRelease, ghosts
<1> QED
  BY <1>1, <1>2, <1>3, <1>4, <1>5, <1>6, <1>7, <1>8, <1>9

LEMMA PicksKeeps ==
    ASSUME IInv, NEW j \in Jobs, Picks(j)
    PROVE  IInv'
<1> USE DEF IInv, TypeOK, Picks, Goes
<1>1. TypesOfRows'
  BY DEF TypesOfRows, live, ghosts
<1>2. TypesOfAgents'
  BY DEF TypesOfAgents, agent
<1>3. TypesOfJobs'
  <2>1. Head(pending) \in Messages
    BY DEF TypesOfRows
  <2>2. turn[j] \in TurnState
    BY InHand
  <2>3. turn' = [turn EXCEPT ![j] = [turn[j] EXCEPT !.msg = Head(pending)]]
    OBVIOUS
  <2>4. pc' = [pc EXCEPT ![j] = "picked"] /\ "picked" \in Places
    BY DEF Places, InTurn
  <2>5. lock' \in Nat \ {0} /\ overlapped' = overlapped
    BY DEF TypesOfJobs, ghosts
  <2> HIDE DEF IInv, TypeOK, Picks, Goes
  <2>6. [turn[j] EXCEPT !.msg = Head(pending)] \in TurnState
    BY <2>1, <2>2, TurnFields
  <2> QED
    BY <2>3, <2>4, <2>5, <2>6, NewTurn
<1>4. TypesOfControl'
  BY DEF TypesOfControl, queue, control, bounds
<1>5. LocksExclude'
  BY DEF LocksExclude, TypesOfJobs, Running
<1>6. TurnsExclude'
  BY DEF TurnsExclude, TypesOfJobs, InTurn
<1>7. Equipped'
  <2>1. Head(pending) \in Messages
    BY DEF TypesOfRows
  <2>2. turn'[j].msg = Head(pending) /\ turn'[j].agent = turn[j].agent /\ pc'[j] = "picked"
    BY DEF TypesOfJobs, TurnState
  <2>3. \A i \in Jobs : i # j => turn'[i] = turn[i] /\ pc'[i] = pc[i]
    BY DEF TypesOfJobs
  <2> QED
    BY <2>1, <2>2, <2>3 DEF Equipped, EquippedJob, Agentless, Unlocked, Working, Turning,
       InTurn, Mem, agent
<1>8. LocksKnown'
  BY DEF LocksKnown, TypesOfJobs, Unlocked
<1>9. OverlapNeedsRelease'
  BY DEF OverlapNeedsRelease, ghosts
<1> QED
  BY <1>1, <1>2, <1>3, <1>4, <1>5, <1>6, <1>7, <1>8, <1>9

LEMMA BeginsKeeps ==
    ASSUME IInv, NEW j \in Jobs, Begins(j)
    PROVE  IInv'
<1> USE DEF IInv, TypeOK, Begins, Goes
<1> DEFINE row == UserRow(turn[j].msg, NextUserSeq(Mem(j)))
<1>0. turn[j].agent \in Agents /\ Mem(j) \in Seq(Row) /\ row \in Row
  BY InHand, UserRowTyped DEF Working, Turning
<1>a. Append(Mem(j), row) \in Seq(Row) /\ Len(Append(Mem(j), row)) = Len(Mem(j)) + 1 /\ Len(Mem(j)) + 1 \in Nat
  <2> HIDE DEF IInv, TypeOK, Begins, Goes, row
  <2> QED
    BY <1>0
<1>1. TypesOfRows'
  <2>1. slot' = Append(Mem(j), row)
    BY <1>0 DEF TypesOfAgents, AgentState, Mem
  <2>2. turned' = Append(turned, turn[j].msg) /\ turn[j].msg \in Messages
    BY InHand DEF Turning
  <2>3. /\ disk \in Seq(Row) /\ taken \in Seq(Row) /\ pending \in Seq(Messages)
        /\ turned \in Seq(Messages) /\ acked \subseteq Messages
    BY DEF TypesOfRows
  <2>4. disk' = disk /\ taken' = taken /\ pending' = pending /\ acked' = acked
    OBVIOUS
  <2> HIDE DEF IInv, TypeOK, Begins, Goes
  <2> QED
    BY <1>0, <2>1, <2>2, <2>3, <2>4 DEF TypesOfRows
<1>2. TypesOfAgents'
  <2>1. Append(Mem(j), row) \in Seq(Row)
    BY <1>a
  <2> DEFINE s == [agents[turn[j].agent] EXCEPT !.mem = Append(Mem(j), row), !.saved = FALSE]
  <2>2. agents' = [agents EXCEPT ![turn[j].agent] = s]
    BY DEF Mem
  <2>3. s \in AgentState
    BY <1>0, <2>1 DEF TypesOfAgents, AgentState
  <2>4. resident' = resident /\ closePending' \in BOOLEAN /\ active' \in BOOLEAN
    BY DEF TypesOfAgents
  <2> HIDE DEF IInv, TypeOK, Begins, Goes, s
  <2> QED
    BY <2>2, <2>3, <2>4, NewAgent
<1>3. TypesOfJobs'
  <2>1. Len(Mem(j)) + 1 \in Nat
    BY <1>a
  <2>2. turn[j] \in TurnState /\ "begun" \in Places
    BY InHand DEF Places, InTurn
  <2>3. /\ turn' = [turn EXCEPT ![j] = [turn[j] EXCEPT !.base = Len(Mem(j)) + 1]]
        /\ pc' = [pc EXCEPT ![j] = "begun"] /\ lock' \in Nat \ {0} /\ overlapped' = overlapped
    BY DEF TypesOfJobs, ghosts
  <2> HIDE DEF IInv, TypeOK, Begins, Goes
  <2>4. [turn[j] EXCEPT !.base = Len(Mem(j)) + 1] \in TurnState
    BY <2>1, <2>2, TurnFields
  <2> QED
    BY <2>2, <2>3, <2>4, NewTurn
<1>4. TypesOfControl'
  <2>1. UNCHANGED <<request, drainer, before, kick, stopFlag, stopper, evictor, stops, evicts, faults>>
    BY DEF queue, control, bounds
  <2>2. TypesOfControl
    OBVIOUS
  <2> HIDE DEF IInv, TypeOK, Begins, Goes, row
  <2> QED
    BY <2>1, <2>2 DEF TypesOfControl
<1>5. LocksExclude'
  BY <1>0 DEF LocksExclude, TypesOfJobs, Running
<1>6. TurnsExclude'
  BY <1>0 DEF TurnsExclude, TypesOfJobs, InTurn
<1>7. Equipped'
  <2>1. \A i \in Jobs \ {j} : turn'[i] = turn[i] /\ pc'[i] = pc[i]
    BY DEF TypesOfJobs
  <2>2. ASSUME NEW i \in Jobs \ {j}, pc[i] \in InTurn
        PROVE  Mem(i)' = Mem(i)
    BY <2>1, <2>2, InHand DEF TypesOfAgents, Working, Turning, Mem
  <2>3. /\ pc'[j] = "begun" /\ turn'[j].agent = turn[j].agent /\ turn'[j].msg = turn[j].msg
        /\ turn'[j].base = Len(Mem(j)) + 1
    BY DEF TypesOfJobs, TurnState
  <2>4. Mem(j)' = Append(Mem(j), row)
    BY <1>0, <2>3 DEF TypesOfAgents, AgentState, Mem
  <2>5. turn'[j].base <= Len(Mem(j)') /\ turn[j].msg \in Messages
    <3>1. turn[j].msg \in Messages
      BY InHand DEF Turning
    <3> HIDE DEF IInv, TypeOK, Begins, Goes, row
    <3> QED
      BY <1>a, <2>3, <2>4, <3>1
  <2>6. EquippedJob(j)'
    BY <1>0, <2>3, <2>5 DEF EquippedJob, Agentless, Unlocked
  <2> HIDE DEF IInv, TypeOK, Begins, Goes
  <2> QED
    BY <2>1, <2>2, <2>6, OthersEquipped
<1>8. LocksKnown'
  BY <1>0 DEF LocksKnown, TypesOfJobs, Unlocked
<1>9. OverlapNeedsRelease'
  BY <1>0 DEF OverlapNeedsRelease, ghosts
<1> QED
  BY <1>1, <1>2, <1>3, <1>4, <1>5, <1>6, <1>7, <1>8, <1>9

LEMMA ResetsKeeps ==
    ASSUME IInv, NEW j \in Jobs, Resets(j)
    PROVE  IInv'
<1> USE DEF IInv, TypeOK, Resets, Goes
<1> DEFINE a == turn[j].agent
<1>0. a \in Agents /\ agents[a] \in AgentState /\ Mem(j) \in Seq(Row) /\ turn[j] \in TurnState
  BY InHand DEF Working, Turning, InTurn
<1>1. TypesOfRows'
  BY <1>0 DEF TypesOfRows, live, ghosts
<1>2. TypesOfAgents'
  <2>1. [agents[a] EXCEPT !.stopped = FALSE] \in AgentState
    BY <1>0, AgentFields
  <2>2. resident' = resident /\ active' \in BOOLEAN /\ closePending' \in BOOLEAN
    BY DEF TypesOfAgents
  <2> QED
    BY <2>1, <2>2, NewAgent
<1>3. TypesOfJobs'
  BY <1>0 DEF TypesOfJobs, Places, InTurn, jobs, ghosts
<1>4. TypesOfControl'
  BY <1>0 DEF TypesOfControl, queue, control, bounds
<1>5. LocksExclude'
  BY <1>0 DEF LocksExclude, TypesOfJobs, Running
<1>6. TurnsExclude'
  BY <1>0 DEF TurnsExclude, TypesOfJobs, InTurn
<1>7. Equipped'
  BY <1>0 DEF Equipped, EquippedJob, TypesOfJobs, TypesOfAgents, Agentless, Working, Turning,
     InTurn, Unlocked, Mem, agent
<1>8. LocksKnown'
  BY <1>0 DEF LocksKnown, TypesOfJobs, Unlocked
<1>9. OverlapNeedsRelease'
  BY <1>0 DEF OverlapNeedsRelease, ghosts
<1> QED
  BY <1>1, <1>2, <1>3, <1>4, <1>5, <1>6, <1>7, <1>8, <1>9

LEMMA RepliesKeeps ==
    ASSUME IInv, NEW j \in Jobs, Replies(j)
    PROVE  IInv'
<1> USE DEF IInv, TypeOK, Replies, Goes
<1>0. Mem(j) \in Seq(Row) /\ Reply(turn[j].msg) \in Row
  BY InHand, ReplyTyped DEF Working, Turning, InTurn
<1>1. TypesOfRows'
  BY <1>0 DEF TypesOfRows, ghosts
<1>2. TypesOfAgents'
  BY <1>0 DEF TypesOfAgents, agent
<1>3. TypesOfJobs'
  <2>1. <<Reply(turn[j].msg)>> \in Seq(Row)
    BY <1>0
  <2>2. [turn[j] EXCEPT !.resp = <<Reply(turn[j].msg)>>] \in TurnState
    BY <2>1, InHand DEF TurnState
  <2>3. turn' = [turn EXCEPT ![j] = [turn[j] EXCEPT !.resp = <<Reply(turn[j].msg)>>]]
    OBVIOUS
  <2>4. pc' = pc /\ lock' = lock /\ overlapped' = overlapped
    BY DEF ghosts
  <2> HIDE DEF Replies
  <2> QED
    BY <2>2, <2>3, <2>4 DEF TypesOfJobs
<1>4. TypesOfControl'
  BY <1>0 DEF TypesOfControl, queue, control, bounds
<1>5. LocksExclude'
  BY <1>0 DEF LocksExclude, TypesOfJobs, Running
<1>6. TurnsExclude'
  BY <1>0 DEF TurnsExclude, TypesOfJobs, InTurn
<1>7. Equipped'
  BY <1>0 DEF Equipped, EquippedJob, TypesOfJobs, TypesOfAgents, Agentless, Working, Turning,
     InTurn, Unlocked, Mem, agent
<1>8. LocksKnown'
  BY <1>0 DEF LocksKnown, TypesOfJobs, Unlocked
<1>9. OverlapNeedsRelease'
  BY <1>0 DEF OverlapNeedsRelease, ghosts
<1> QED
  BY <1>1, <1>2, <1>3, <1>4, <1>5, <1>6, <1>7, <1>8, <1>9

LEMMA ReturnsKeeps ==
    ASSUME IInv, NEW j \in Jobs, Returns(j)
    PROVE  IInv'
<1> USE DEF IInv, TypeOK, Returns, Goes
<1> DEFINE a == turn[j].agent
<1>0. a \in Agents /\ agents[a] \in AgentState /\ Mem(j) \in Seq(Row) /\ turn[j] \in TurnState
  BY InHand DEF Working, Turning, InTurn
<1>1. TypesOfRows'
  BY <1>0 DEF TypesOfRows, live, ghosts
<1>2. TypesOfAgents'
  <2>1. agents[a].mem \o turn[j].resp \in Seq(Row)
    BY <1>0 DEF TurnState, AgentState
  <2>2. [agents[a] EXCEPT !.mem = agents[a].mem \o turn[j].resp] \in AgentState
    BY <1>0, <2>1 DEF AgentState
  <2> QED
    BY <2>2, NewAgent DEF TypesOfAgents
<1>3. TypesOfJobs'
  <2>1. agents[turn[j].agent].stopped \in BOOLEAN
    BY <1>0 DEF AgentState
  <2>2. turn[j] \in TurnState
    BY InHand
  <2>3. turn' = [turn EXCEPT ![j] = [turn[j] EXCEPT !.err = agents[turn[j].agent].stopped]]
    OBVIOUS
  <2>4. pc' = [pc EXCEPT ![j] = "saving"] /\ "saving" \in Places
    BY DEF Places, InTurn
  <2>5. lock' \in Nat \ {0} /\ overlapped' = overlapped
    BY DEF TypesOfJobs, ghosts
  <2> HIDE DEF IInv, TypeOK, Returns, Goes
  <2>6. [turn[j] EXCEPT !.err = agents[turn[j].agent].stopped] \in TurnState
    BY <2>1, <2>2, TurnFields
  <2> QED
    BY <2>3, <2>4, <2>5, <2>6, NewTurn
<1>4. TypesOfControl'
  BY <1>0 DEF TypesOfControl, queue, control, bounds
<1>5. LocksExclude'
  BY <1>0 DEF LocksExclude, TypesOfJobs, Running
<1>6. TurnsExclude'
  BY <1>0 DEF TurnsExclude, TypesOfJobs, InTurn
<1>7. Equipped'
  <2>1. \A i \in Jobs \ {j} : turn'[i] = turn[i] /\ pc'[i] = pc[i]
    BY DEF TypesOfJobs
  <2>2. ASSUME NEW i \in Jobs \ {j}, pc[i] \in InTurn
        PROVE  Mem(i)' = Mem(i)
    <3>1. pc[j] \in InTurn /\ turn'[i] = turn[i]
      BY <2>1 DEF InTurn
    <3>2. \A b \in Agents \ {a} : agents'[b] = agents[b]
      BY DEF TypesOfAgents
    <3> HIDE DEF IInv, TypeOK, Returns, Goes
    <3> QED
      BY <2>2, <3>1, <3>2, OthersMem
  <2>3. /\ pc'[j] = "saving" /\ turn'[j].agent = a /\ turn'[j].msg = turn[j].msg
        /\ turn'[j].base = turn[j].base
    BY DEF TypesOfJobs, TurnState
  <2>4. Mem(j)' = Mem(j) \o turn[j].resp
    BY <1>0, <2>3 DEF TypesOfAgents, AgentState, Mem
  <2>5. turn'[j].base <= Len(Mem(j)') /\ turn[j].msg \in Messages
    <3>1. turn[j].base \in Nat /\ turn[j].base <= Len(Mem(j)) /\ turn[j].resp \in Seq(Row)
      BY <1>0 DEF Equipped, EquippedJob, TurnState
    <3>2. turn[j].msg \in Messages
      BY InHand DEF Turning, InTurn
    <3> HIDE DEF IInv, TypeOK, Returns, Goes
    <3>3. Len(Mem(j) \o turn[j].resp) = Len(Mem(j)) + Len(turn[j].resp)
          /\ Len(Mem(j)) \in Nat /\ Len(turn[j].resp) \in Nat
      BY <1>0, <3>1
    <3> QED
      BY <2>3, <2>4, <3>1, <3>2, <3>3
  <2>6. EquippedJob(j)'
    BY <1>0, <2>3, <2>5 DEF EquippedJob, Agentless, Unlocked
  <2> HIDE DEF IInv, TypeOK, Returns, Goes
  <2> QED
    BY <2>1, <2>2, <2>6, OthersEquipped
<1>8. LocksKnown'
  BY <1>0 DEF LocksKnown, TypesOfJobs, Unlocked
<1>9. OverlapNeedsRelease'
  BY <1>0 DEF OverlapNeedsRelease, ghosts
<1> QED
  BY <1>1, <1>2, <1>3, <1>4, <1>5, <1>6, <1>7, <1>8, <1>9

LEMMA StepFailsKeeps ==
    ASSUME IInv, NEW j \in Jobs, StepFails(j)
    PROVE  IInv'
<1> USE DEF IInv, TypeOK, StepFails, Goes
<1> DEFINE a == turn[j].agent
<1>0. a \in Agents /\ agents[a] \in AgentState /\ Mem(j) \in Seq(Row) /\ turn[j] \in TurnState
  BY InHand DEF Working, Turning, InTurn
<1>1. TypesOfRows'
  BY <1>0 DEF TypesOfRows, live, ghosts
<1>2. TypesOfAgents'
  <2>1. agents[a].mem \o turn[j].resp \in Seq(Row)
    BY <1>0 DEF TurnState, AgentState
  <2>2. [agents[a] EXCEPT !.mem = agents[a].mem \o turn[j].resp] \in AgentState
    BY <1>0, <2>1 DEF AgentState
  <2> QED
    BY <2>2, NewAgent DEF TypesOfAgents
<1>3. TypesOfJobs'
  <2>1. TRUE \in BOOLEAN
    BY TRUE \in BOOLEAN
  <2>2. turn[j] \in TurnState
    BY InHand
  <2>3. turn' = [turn EXCEPT ![j] = [turn[j] EXCEPT !.err = TRUE]]
    OBVIOUS
  <2>4. pc' = [pc EXCEPT ![j] = "saving"] /\ "saving" \in Places
    BY DEF Places, InTurn
  <2>5. lock' \in Nat \ {0} /\ overlapped' = overlapped
    BY DEF TypesOfJobs, ghosts
  <2> HIDE DEF IInv, TypeOK, StepFails, Goes
  <2>6. [turn[j] EXCEPT !.err = TRUE] \in TurnState
    BY <2>1, <2>2, TurnFields
  <2> QED
    BY <2>3, <2>4, <2>5, <2>6, NewTurn
<1>4. TypesOfControl'
  <2>1. faults' \in 0..MaxFaults
    BY CapsAssumption DEF TypesOfControl
  <2> QED
    BY <2>1 DEF TypesOfControl, queue, control
<1>5. LocksExclude'
  BY <1>0 DEF LocksExclude, TypesOfJobs, Running
<1>6. TurnsExclude'
  BY <1>0 DEF TurnsExclude, TypesOfJobs, InTurn
<1>7. Equipped'
  <2>1. \A i \in Jobs \ {j} : turn'[i] = turn[i] /\ pc'[i] = pc[i]
    BY DEF TypesOfJobs
  <2>2. ASSUME NEW i \in Jobs \ {j}, pc[i] \in InTurn
        PROVE  Mem(i)' = Mem(i)
    <3>1. pc[j] \in InTurn /\ turn'[i] = turn[i]
      BY <2>1 DEF InTurn
    <3>2. \A b \in Agents \ {a} : agents'[b] = agents[b]
      BY DEF TypesOfAgents
    <3> HIDE DEF IInv, TypeOK, StepFails, Goes
    <3> QED
      BY <2>2, <3>1, <3>2, OthersMem
  <2>3. /\ pc'[j] = "saving" /\ turn'[j].agent = a /\ turn'[j].msg = turn[j].msg
        /\ turn'[j].base = turn[j].base
    BY DEF TypesOfJobs, TurnState
  <2>4. Mem(j)' = Mem(j) \o turn[j].resp
    BY <1>0, <2>3 DEF TypesOfAgents, AgentState, Mem
  <2>5. turn'[j].base <= Len(Mem(j)') /\ turn[j].msg \in Messages
    <3>1. turn[j].base \in Nat /\ turn[j].base <= Len(Mem(j)) /\ turn[j].resp \in Seq(Row)
      BY <1>0 DEF Equipped, EquippedJob, TurnState
    <3> QED
      BY <1>0, <2>3, <2>4, <3>1, InHand DEF Turning, InTurn
  <2>6. EquippedJob(j)'
    BY <1>0, <2>3, <2>5 DEF EquippedJob, Agentless, Unlocked
  <2> HIDE DEF IInv, TypeOK, StepFails, Goes
  <2> QED
    BY <2>1, <2>2, <2>6, OthersEquipped
<1>8. LocksKnown'
  BY <1>0 DEF LocksKnown, TypesOfJobs, Unlocked
<1>9. OverlapNeedsRelease'
  BY <1>0 DEF OverlapNeedsRelease, ghosts
<1> QED
  BY <1>1, <1>2, <1>3, <1>4, <1>5, <1>6, <1>7, <1>8, <1>9

LEMMA SavesKeeps ==
    ASSUME IInv, NEW j \in Jobs, Saves(j)
    PROVE  IInv'
<1> USE DEF IInv, TypeOK, Saves, Goes
<1> DEFINE a == turn[j].agent
<1>0. a \in Agents /\ agents[a] \in AgentState /\ Mem(j) \in Seq(Row) /\ turn[j] \in TurnState
  BY InHand DEF Working, Turning, InTurn
<1>1. TypesOfRows'
  BY <1>0 DEF TypesOfRows, live, ghosts
<1>2. TypesOfAgents'
  <2>1. [agents[a] EXCEPT !.saved = Storable(Mem(j))] \in AgentState
    BY <1>0 DEF AgentState, TypesOfRows, Storable, IsPrefix
  <2>2. agents' = [agents EXCEPT ![a] = [agents[a] EXCEPT !.saved = Storable(Mem(j))]]
    OBVIOUS
  <2> QED
    BY <2>1, <2>2, NewAgent DEF TypesOfAgents
<1>3. TypesOfJobs'
  BY <1>0 DEF TypesOfJobs, Places, InTurn, jobs, ghosts
<1>4. TypesOfControl'
  BY <1>0 DEF TypesOfControl, queue, control, bounds
<1>5. LocksExclude'
  BY <1>0 DEF LocksExclude, TypesOfJobs, Running
<1>6. TurnsExclude'
  BY <1>0 DEF TurnsExclude, TypesOfJobs, InTurn
<1>7. Equipped'
  BY <1>0 DEF Equipped, EquippedJob, TypesOfJobs, TypesOfAgents, Agentless, Working, Turning,
     InTurn, Unlocked, Mem, agent
<1>8. LocksKnown'
  BY <1>0 DEF LocksKnown, TypesOfJobs, Unlocked
<1>9. OverlapNeedsRelease'
  BY <1>0 DEF OverlapNeedsRelease, ghosts
<1> QED
  BY <1>1, <1>2, <1>3, <1>4, <1>5, <1>6, <1>7, <1>8, <1>9

LEMMA SaveFailsKeeps ==
    ASSUME IInv, NEW j \in Jobs, SaveFails(j)
    PROVE  IInv'
<1> USE DEF IInv, TypeOK, SaveFails, Goes
<1>1. TypesOfRows'
  BY DEF TypesOfRows, live, ghosts
<1>2. TypesOfAgents'
  BY DEF TypesOfAgents, agent
<1>3. TypesOfJobs'
  BY DEF TypesOfJobs, Places, InTurn, jobs, ghosts
<1>4. TypesOfControl'
  <2>1. faults' \in 0..MaxFaults
    BY CapsAssumption DEF TypesOfControl
  <2> QED
    BY <2>1 DEF TypesOfControl, queue, control
<1>5. LocksExclude'
  BY DEF LocksExclude, TypesOfJobs, Running
<1>6. TurnsExclude'
  BY DEF TurnsExclude, TypesOfJobs, InTurn
<1>7. Equipped'
  BY DEF Equipped, EquippedJob, TypesOfJobs, TypesOfAgents, Agentless, Working, Turning,
     InTurn, Unlocked, Mem, agent
<1>8. LocksKnown'
  BY DEF LocksKnown, TypesOfJobs, Unlocked
<1>9. OverlapNeedsRelease'
  BY DEF OverlapNeedsRelease, ghosts
<1> QED
  BY <1>1, <1>2, <1>3, <1>4, <1>5, <1>6, <1>7, <1>8, <1>9

LEMMA MergesKeeps ==
    ASSUME IInv, NEW j \in Jobs, Merges(j)
    PROVE  IInv'
<1> USE DEF IInv, TypeOK, Merges, Goes
<1>1. TypesOfRows'
  BY DEF TypesOfRows, live, ghosts
<1>2. TypesOfAgents'
  BY DEF TypesOfAgents, agent
<1>3. TypesOfJobs'
  <2> DEFINE to == IF BaseStored(disk, Mem(j), turn[j].base) THEN "merged" ELSE "resyncing"
             val == IF BaseStored(disk, Mem(j), turn[j].base) THEN disk ELSE <<>>
  <2>1. val \in Seq(Row)
    BY EmptySeqTyped DEF TypesOfRows
  <2>2. turn[j] \in TurnState
    BY InHand
  <2>3. turn' = [turn EXCEPT ![j] = [turn[j] EXCEPT !.found = val]]
    OBVIOUS
  <2>4. pc' = [pc EXCEPT ![j] = to] /\ to \in Places
    BY DEF Places, InTurn
  <2>5. lock' \in Nat \ {0} /\ overlapped' = overlapped
    BY DEF TypesOfJobs, ghosts
  <2> HIDE DEF IInv, TypeOK, Merges, Goes
  <2>6. [turn[j] EXCEPT !.found = val] \in TurnState
    BY <2>1, <2>2, TurnFields
  <2> QED
    BY <2>3, <2>4, <2>5, <2>6, NewTurn
<1>4. TypesOfControl'
  BY DEF TypesOfControl, queue, control, bounds
<1>5. LocksExclude'
  BY DEF LocksExclude, TypesOfJobs, Running
<1>6. TurnsExclude'
  BY DEF TurnsExclude, TypesOfJobs, InTurn
<1>7. Equipped'
  BY DEF Equipped, EquippedJob, TypesOfJobs, TypesOfAgents, Agentless, Working, Turning,
     InTurn, Unlocked, Mem, agent
<1>8. LocksKnown'
  BY DEF LocksKnown, TypesOfJobs, Unlocked
<1>9. OverlapNeedsRelease'
  BY DEF OverlapNeedsRelease, ghosts
<1> QED
  BY <1>1, <1>2, <1>3, <1>4, <1>5, <1>6, <1>7, <1>8, <1>9

LEMMA SavesMergedKeeps ==
    ASSUME IInv, NEW j \in Jobs, SavesMerged(j)
    PROVE  IInv'
<1> USE DEF IInv, TypeOK, SavesMerged, Goes
<1> DEFINE a == turn[j].agent
<1>0. a \in Agents /\ agents[a] \in AgentState /\ Mem(j) \in Seq(Row) /\ turn[j] \in TurnState
  BY InHand DEF Working, Turning, InTurn

<1> DEFINE rows == MergeAppend(turn[j].found, Mem(j), turn[j].base)
<1>r. rows \in Seq(Row)
  BY <1>0, MergeAppendTyped DEF Equipped, EquippedJob, TurnState
<1> HIDE DEF rows
<1>1. TypesOfRows'
  BY <1>r DEF TypesOfRows, live, ghosts, rows
<1>2. TypesOfAgents'
  <2> DEFINE s == [[agents[a] EXCEPT !.mem = IF Storable(rows) THEN rows ELSE @]
                     EXCEPT !.saved = Storable(rows)]
  <2>1. s \in AgentState
    <3>1. Storable(rows) \in BOOLEAN
      BY DEF Storable, IsPrefix
    <3>2. (IF Storable(rows) THEN rows ELSE agents[a].mem) \in Seq(Row)
      BY <1>0, <1>r DEF AgentState
    <3> QED
      BY <1>0, <3>1, <3>2, AgentFields
  <2>2. agents' = [agents EXCEPT ![a] = s]
    BY <1>0 DEF TypesOfAgents, rows
  <2>3. resident' = resident /\ active' \in BOOLEAN /\ closePending' \in BOOLEAN
    BY DEF TypesOfAgents
  <2> HIDE DEF IInv, TypeOK, SavesMerged, Goes
  <2> QED
    BY <2>1, <2>2, <2>3, NewAgent
<1>3. TypesOfJobs'
  <2> DEFINE to == IF Storable(rows) THEN "ending" ELSE "merging"
  <2>1. <<>> \in Seq(Row)
    BY EmptySeqTyped
  <2>2. turn[j] \in TurnState
    BY InHand
  <2>3. turn' = [turn EXCEPT ![j] = [turn[j] EXCEPT !.found = <<>>]]
    OBVIOUS
  <2>4. pc' = [pc EXCEPT ![j] = to] /\ to \in Places
    BY DEF Places, InTurn, rows
  <2>5. lock' \in Nat \ {0} /\ overlapped' = overlapped
    BY DEF TypesOfJobs, ghosts
  <2> HIDE DEF IInv, TypeOK, SavesMerged, Goes
  <2>6. [turn[j] EXCEPT !.found = <<>>] \in TurnState
    BY <2>1, <2>2, TurnFields
  <2> QED
    BY <2>3, <2>4, <2>5, <2>6, NewTurn
<1>4. TypesOfControl'
  BY <1>0 DEF TypesOfControl, queue, control, bounds
<1>5. LocksExclude'
  BY <1>0 DEF LocksExclude, TypesOfJobs, Running
<1>6. TurnsExclude'
  BY <1>0 DEF TurnsExclude, TypesOfJobs, InTurn
<1>7. Equipped'
  <2>1. \A i \in Jobs \ {j} : turn'[i] = turn[i] /\ pc'[i] = pc[i]
    BY DEF TypesOfJobs
  <2>2. ASSUME NEW i \in Jobs \ {j}, pc[i] \in InTurn
        PROVE  Mem(i)' = Mem(i)
    <3>1. pc[j] \in InTurn /\ turn'[i] = turn[i]
      BY <2>1 DEF InTurn
    <3>2. \A b \in Agents \ {a} : agents'[b] = agents[b]
      BY DEF TypesOfAgents
    <3> HIDE DEF IInv, TypeOK, SavesMerged, Goes
    <3> QED
      BY <2>2, <3>1, <3>2, OthersMem
  <2>3. /\ pc'[j] = (IF Storable(rows) THEN "ending" ELSE "merging")
        /\ turn'[j].agent = a /\ turn'[j].msg = turn[j].msg /\ turn'[j].base = turn[j].base
    BY <1>0 DEF TypesOfJobs, TurnState, rows
  <2>4. ~Storable(rows) => Mem(j)' = Mem(j)
    BY <1>0, <2>3 DEF TypesOfAgents, AgentState, Mem, rows
  <2>5. turn[j].base <= Len(Mem(j)) /\ turn[j].msg \in Messages
    BY InHand DEF Equipped, EquippedJob, Turning, InTurn
  <2>6. EquippedJob(j)'
    BY <1>0, <2>3, <2>4, <2>5 DEF EquippedJob, Agentless, Unlocked
  <2> HIDE DEF IInv, TypeOK, SavesMerged, Goes
  <2> QED
    BY <2>1, <2>2, <2>6, OthersEquipped
<1>8. LocksKnown'
  BY <1>0 DEF LocksKnown, TypesOfJobs, Unlocked
<1>9. OverlapNeedsRelease'
  BY <1>0 DEF OverlapNeedsRelease, ghosts
<1> QED
  BY <1>1, <1>2, <1>3, <1>4, <1>5, <1>6, <1>7, <1>8, <1>9

LEMMA ResyncsKeeps ==
    ASSUME IInv, NEW j \in Jobs, Resyncs(j)
    PROVE  IInv'
<1> USE DEF IInv, TypeOK, Resyncs, Goes
<1> DEFINE a == turn[j].agent
<1>0. a \in Agents /\ agents[a] \in AgentState /\ Mem(j) \in Seq(Row) /\ turn[j] \in TurnState
  BY InHand DEF Working, Turning, InTurn
<1>1. TypesOfRows'
  BY <1>0 DEF TypesOfRows, live, ghosts
<1>2. TypesOfAgents'
  <2>1. [agents[a] EXCEPT !.mem = disk, !.saved = TRUE] \in AgentState
    BY <1>0 DEF AgentState, TypesOfRows, Storable, IsPrefix
  <2>2. agents' = [agents EXCEPT ![a] = [agents[a] EXCEPT !.mem = disk, !.saved = TRUE]]
    OBVIOUS
  <2> QED
    BY <2>1, <2>2, NewAgent DEF TypesOfAgents
<1>3. TypesOfJobs'
  BY <1>0 DEF TypesOfJobs, Places, InTurn, jobs, ghosts
<1>4. TypesOfControl'
  BY <1>0 DEF TypesOfControl, queue, control, bounds
<1>5. LocksExclude'
  BY <1>0 DEF LocksExclude, TypesOfJobs, Running
<1>6. TurnsExclude'
  BY <1>0 DEF TurnsExclude, TypesOfJobs, InTurn
<1>7. Equipped'
  <2>1. \A i \in Jobs \ {j} : turn'[i] = turn[i] /\ pc'[i] = pc[i]
    BY DEF TypesOfJobs
  <2>2. ASSUME NEW i \in Jobs \ {j}, pc[i] \in InTurn
        PROVE  Mem(i)' = Mem(i)
    <3>1. pc[j] \in InTurn /\ turn'[i] = turn[i]
      BY <2>1 DEF InTurn
    <3>2. \A b \in Agents \ {a} : agents'[b] = agents[b]
      BY DEF TypesOfAgents
    <3> HIDE DEF IInv, TypeOK, Resyncs, Goes
    <3> QED
      BY <2>2, <3>1, <3>2, OthersMem
  <2>3. pc'[j] = "ending" /\ turn' = turn /\ turn[j].msg \in Messages
    BY InHand DEF TypesOfJobs, Turning, InTurn
  <2>4. EquippedJob(j)'
    BY <1>0, <2>3 DEF EquippedJob, Agentless, Unlocked
  <2> HIDE DEF IInv, TypeOK, Resyncs, Goes
  <2> QED
    BY <2>1, <2>2, <2>4, OthersEquipped
<1>8. LocksKnown'
  BY <1>0 DEF LocksKnown, TypesOfJobs, Unlocked
<1>9. OverlapNeedsRelease'
  BY <1>0 DEF OverlapNeedsRelease, ghosts
<1> QED
  BY <1>1, <1>2, <1>3, <1>4, <1>5, <1>6, <1>7, <1>8, <1>9

LEMMA EndsKeeps ==
    ASSUME IInv, NEW j \in Jobs, Ends(j)
    PROVE  IInv'
<1> USE DEF IInv, TypeOK, Ends, Goes
<1>1. TypesOfRows'
  BY DEF TypesOfRows, live, ghosts
<1>2. TypesOfAgents'
  BY DEF TypesOfAgents, agent
<1>3. TypesOfJobs'
  BY DEF TypesOfJobs, Places, InTurn, jobs, ghosts
<1>4. TypesOfControl'
  BY DEF TypesOfControl, queue, control, bounds
<1>5. LocksExclude'
  BY DEF LocksExclude, TypesOfJobs, Running
<1>6. TurnsExclude'
  BY DEF TurnsExclude, TypesOfJobs, InTurn
<1>7. Equipped'
  BY DEF Equipped, EquippedJob, TypesOfJobs, TypesOfAgents, Agentless, Working, Turning,
     InTurn, Unlocked, Mem, agent
<1>8. LocksKnown'
  BY DEF LocksKnown, TypesOfJobs, Unlocked
<1>9. OverlapNeedsRelease'
  BY DEF OverlapNeedsRelease, ghosts
<1> QED
  BY <1>1, <1>2, <1>3, <1>4, <1>5, <1>6, <1>7, <1>8, <1>9

LEMMA ShiftsKeeps ==
    ASSUME IInv, NEW j \in Jobs, Shifts(j)
    PROVE  IInv'
<1> USE DEF IInv, TypeOK, Shifts, Goes
<1> DEFINE a == turn[j].agent
<1>0. a \in Agents /\ agents[a] \in AgentState /\ Mem(j) \in Seq(Row) /\ turn[j] \in TurnState
  BY InHand DEF Working, Turning, InTurn

<1>k. Keeps(j) \in TurnState /\ Keeps(j).lock = turn[j].lock /\ Keeps(j).agent = a
  BY <1>0, NoTurnTyped DEF TurnState, Keeps, NoTurn
<1>o. turn'[j] = Keeps(j) /\ \A i \in Jobs \ {j} : turn'[i] = turn[i] /\ pc'[i] = pc[i]
  BY DEF TypesOfJobs
<1>1. TypesOfRows'
  BY <1>0 DEF TypesOfRows, live, ghosts
<1>2. TypesOfAgents'
  BY <1>0 DEF TypesOfAgents, agent
<1>3. TypesOfJobs'
  <2>1. pc' = [pc EXCEPT ![j] = IF Failed(j) \/ stopFlag THEN "leaving" ELSE "draining"]
        /\ {"leaving", "draining"} \subseteq Places
    BY DEF Places
  <2>2. lock' \in Nat \ {0} /\ overlapped' = overlapped /\ turn' = [turn EXCEPT ![j] = Keeps(j)]
    BY DEF TypesOfJobs, ghosts
  <2> HIDE DEF IInv, TypeOK, Shifts, Goes
  <2> QED
    BY <1>k, <2>1, <2>2, NewTurn
<1>4. TypesOfControl'
  BY <1>0 DEF TypesOfControl, queue, control, bounds
<1>5. LocksExclude'
  <2>1. \A i \in Jobs : turn'[i].lock = turn[i].lock /\ (i \in Running' => i \in Running)
    BY <1>k, <1>o DEF Running
  <2>2. Running' \subseteq Running
    BY <2>1 DEF Running
  <2>3. Running \subseteq Jobs
    BY DEF Running
  <2> QED
    BY <2>1, <2>2, <2>3 DEF LocksExclude
<1>6. TurnsExclude'
  BY <1>0 DEF TurnsExclude, TypesOfJobs, InTurn
<1>7. Equipped'
  <2>1. pc'[j] \in {"leaving", "draining"}
    BY DEF TypesOfJobs
  <2>2. EquippedJob(j)'
    BY <1>0, <1>k, <1>o, <2>1 DEF EquippedJob, Agentless, Unlocked, Turning, InTurn
  <2>3. ASSUME NEW i \in Jobs \ {j}
        PROVE  Mem(i)' = Mem(i)
    BY <1>o DEF Mem, agent
  <2> HIDE DEF IInv, TypeOK, Shifts, Goes
  <2> QED
    BY <1>o, <2>2, <2>3, OthersEquipped
<1>8. LocksKnown'
  <2>1. \A i \in Jobs : turn'[i].lock = turn[i].lock /\ (pc'[i] \in Unlocked <=> pc[i] \in Unlocked)
    BY <1>k, <1>o DEF TypesOfJobs, Unlocked
  <2> QED
    BY <2>1 DEF LocksKnown
<1>9. OverlapNeedsRelease'
  BY <1>0 DEF OverlapNeedsRelease, ghosts
<1> QED
  BY <1>1, <1>2, <1>3, <1>4, <1>5, <1>6, <1>7, <1>8, <1>9

LEMMA LeavesKeeps ==
    ASSUME IInv, NEW j \in Jobs, Leaves(j)
    PROVE  IInv'
<1> USE DEF IInv, TypeOK, Leaves, Goes
<1>0. Release(Jobs \ {j}, closePending /\ resident # 0 /\ ~active)
  OBVIOUS
<1>r. /\ resident' \in {0, resident} /\ lock' \in {lock, lock + 1} /\ agents' \in [Agents -> AgentState]
      /\ \A i \in Jobs \ {j} : turn[i].agent \in Agents =>
             agents'[turn[i].agent].mem = agents[turn[i].agent].mem
  <2> HIDE DEF IInv, TypeOK, Leaves, Goes
  <2> QED
    BY <1>0, Released
<1>o. turn'[j] = NoTurn /\ pc'[j] = "finishing" /\ \A i \in Jobs \ {j} : turn'[i] = turn[i] /\ pc'[i] = pc[i]
  BY DEF TypesOfJobs
<1>1. TypesOfRows'
  BY <1>0 DEF TypesOfRows, live, ghosts
<1>2. TypesOfAgents'
  BY <1>r DEF TypesOfAgents
<1>3. TypesOfJobs'
  <2>1. pc' = [pc EXCEPT ![j] = "finishing"] /\ "finishing" \in Places
    BY DEF Places
  <2>2. lock' \in Nat \ {0} /\ overlapped' = overlapped /\ turn' = [turn EXCEPT ![j] = NoTurn]
    BY <1>r DEF TypesOfJobs, ghosts
  <2> HIDE DEF IInv, TypeOK, Leaves, Goes
  <2> QED
    BY NoTurnTyped, <2>1, <2>2, NewTurn
<1>4. TypesOfControl'
  BY <1>0 DEF TypesOfControl, queue, control, bounds
<1>5. LocksExclude'
  BY <1>0 DEF LocksExclude, TypesOfJobs, Running
<1>6. TurnsExclude'
  BY <1>0 DEF TurnsExclude, TypesOfJobs, InTurn
<1>7. Equipped'
  <2>1. EquippedJob(j)'
    BY <1>o DEF EquippedJob, Agentless, Unlocked, Working, Turning, InTurn, NoTurn
  <2>2. ASSUME NEW i \in Jobs \ {j}, pc[i] \in InTurn
        PROVE  Mem(i)' = Mem(i)
    <3>1. turn[i].agent \in Agents
      BY <2>2, InHand DEF Working, Turning
    <3> QED
      BY <1>r, <1>o, <3>1 DEF Mem
  <2> HIDE DEF IInv, TypeOK, Leaves, Goes
  <2> QED
    BY <1>o, <2>1, <2>2, OthersEquipped
<1>8. LocksKnown'
  BY <1>r, <1>o DEF LocksKnown, TypesOfJobs, Unlocked, NoTurn
<1>9. OverlapNeedsRelease'
  BY <1>r DEF OverlapNeedsRelease, TypesOfJobs, ghosts
<1> QED
  BY <1>1, <1>2, <1>3, <1>4, <1>5, <1>6, <1>7, <1>8, <1>9

LEMMA FinishesKeeps ==
    ASSUME IInv, NEW j \in Jobs, Finishes(j)
    PROVE  IInv'
<1> USE DEF IInv, TypeOK, Finishes, Goes
<1>1. TypesOfRows'
  BY DEF TypesOfRows, live, ghosts
<1>2. TypesOfAgents'
  BY DEF TypesOfAgents, agent
<1>3. TypesOfJobs'
  BY DEF TypesOfJobs, Places, InTurn, jobs, ghosts
<1>4. TypesOfControl'
  BY DEF TypesOfControl, queue, control, bounds
<1>5. LocksExclude'
  BY DEF LocksExclude, TypesOfJobs, Running
<1>6. TurnsExclude'
  BY DEF TurnsExclude, TypesOfJobs, InTurn
<1>7. Equipped'
  BY DEF Equipped, EquippedJob, TypesOfJobs, TypesOfAgents, Agentless, Working, Turning,
     InTurn, Unlocked, Mem, agent
<1>8. LocksKnown'
  BY DEF LocksKnown, TypesOfJobs, Unlocked
<1>9. OverlapNeedsRelease'
  BY DEF OverlapNeedsRelease, ghosts
<1> QED
  BY <1>1, <1>2, <1>3, <1>4, <1>5, <1>6, <1>7, <1>8, <1>9

-----------------------------------------------------------------------------
(* The other actors. *)

\* What leaves the jobs and the agents alone needs no more than its own types.
LEMMA QuietKeeps ==
    ASSUME IInv, UNCHANGED <<jobs, resident, agents, overlapped>>,
           active' \in BOOLEAN, closePending' \in BOOLEAN, TypesOfRows', TypesOfControl'
    PROVE  IInv'
<1>1. TypesOfAgents' /\ TypesOfJobs'
  BY DEF IInv, TypeOK, TypesOfAgents, TypesOfJobs, jobs
<1>2. LocksExclude' /\ TurnsExclude'
  BY DEF IInv, TypeOK, LocksExclude, TurnsExclude, Running, jobs
<1>3. Equipped' /\ LocksKnown' /\ OverlapNeedsRelease'
  BY DEF IInv, Equipped, EquippedJob, LocksKnown, OverlapNeedsRelease, Mem, jobs
<1> QED
  BY <1>1, <1>2, <1>3 DEF IInv, TypeOK

\* A release by Close or by the sweep takes the lock and the agent out of their
\* maps, under any job.
LEMMA ReleaseKeeps ==
    ASSUME IInv, NEW detached \in BOOLEAN, Release(Jobs, detached),
           UNCHANGED <<pc, turn, overlapped>>,
           active' \in BOOLEAN, closePending' \in BOOLEAN, TypesOfRows', TypesOfControl'
    PROVE  IInv'
<1>1. /\ resident' \in {0, resident} /\ lock' \in {lock, lock + 1}
      /\ agents' \in [Agents -> AgentState]
      /\ \A i \in Jobs : turn[i].agent \in Agents =>
             agents'[turn[i].agent].mem = agents[turn[i].agent].mem
  BY Released
<1>2. TypesOfAgents' /\ TypesOfJobs'
  BY <1>1 DEF IInv, TypeOK, TypesOfAgents, TypesOfJobs
<1>3. LocksExclude' /\ TurnsExclude'
  BY DEF IInv, TypeOK, LocksExclude, TurnsExclude, Running
<1>4. LocksKnown' /\ OverlapNeedsRelease'
  BY <1>1 DEF IInv, TypeOK, TypesOfJobs, LocksKnown, OverlapNeedsRelease
<1>5. ASSUME NEW i \in Jobs
      PROVE  EquippedJob(i)'
  <2>1. pc[i] \in Working => Mem(i)' = Mem(i)
    BY <1>1, InHand DEF Mem
  <2>2. EquippedJob(i)
    BY DEF IInv, Equipped
  <2> QED
    BY <2>1, <2>2 DEF EquippedJob, Working, Turning, InTurn
<1>6. Equipped'
  BY <1>5 DEF Equipped
<1> QED
  BY <1>2, <1>3, <1>4, <1>6 DEF IInv, TypeOK

LEMMA WriterKeeps ==
    ASSUME IInv, Takes \/ Writes
    PROVE  IInv'
<1>1. TypesOfRows'
  <2>1. CASE Takes
    BY <2>1, EmptySeqTyped DEF IInv, TypeOK, TypesOfRows, Takes, ghosts
  <2>2. CASE Writes
    BY <2>2, EmptySeqTyped DEF IInv, TypeOK, TypesOfRows, Writes, ghosts
  <2> QED
    BY <2>1, <2>2
<1>2. TypesOfControl' /\ active' \in BOOLEAN /\ closePending' \in BOOLEAN
      /\ UNCHANGED <<jobs, resident, agents, overlapped>>
  BY DEF IInv, TypeOK, TypesOfControl, TypesOfAgents, Takes, Writes, agent, queue, control,
     bounds, ghosts
<1> QED
  BY <1>1, <1>2, QuietKeeps

\* RemoveAt, for an index inside the sequence.
LEMMA RemovalTyped ==
    ASSUME NEW s \in Seq(Messages), NEW i \in 1..Len(s)
    PROVE  RemoveAt(s, i) \in Seq(Messages)
<1>1. SubSeq(s, 1, i - 1) \in Seq(Messages) /\ SubSeq(s, i + 1, Len(s)) \in Seq(Messages)
  OBVIOUS
<1> QED
  BY <1>1 DEF RemoveAt

LEMMA LastTyped ==
    ASSUME NEW s \in Seq(Messages), NEW q
    PROVE  SelectLastInSeq(s, LAMBDA m : m = q) \in 0..Len(s)
<1> DEFINE I == {i \in 1..Len(s) : s[i] = q}
<1>1. CASE I # {}
  <2>1. I \in SUBSET (1..Len(s)) /\ Len(s) \in Nat /\ 1 \in Nat
    OBVIOUS
  <2> HIDE DEF I
  <2>2. Max(I) \in I
    BY <1>1, <2>1, MaxOfInterval
  <2>3. Max(I) \in 1..Len(s)
    BY <2>1, <2>2
  <2>4. SelectLastInSeq(s, LAMBDA m : m = q) = Max(I)
    BY <1>1 DEF SelectLastInSeq, I
  <2> QED
    BY <2>3, <2>4
<1>2. CASE I = {}
  BY <1>2 DEF SelectLastInSeq
<1> QED
  BY <1>1, <1>2

LEMMA RequestKeeps ==
    ASSUME IInv, NEW q \in Queued, RequestStep(q) \/ PersistQueuedFails(q)
    PROVE  IInv'
<1> USE DEF IInv, TypeOK, Moves
<1>0. q \in Messages
  BY DEF Messages
<1>1. TypesOfRows'
  <2>1. CASE Reserves(q)
    BY <1>0, <2>1 DEF TypesOfRows, Reserves, live, ghosts
  <2>2. CASE Refused(q)
    BY <2>2 DEF TypesOfRows, Refused, live, ghosts
  <2>3. CASE PersistsQueued(q)
    <3>1. UserRow(q, NextUserSeq(disk)) \in Row
      BY <1>0, UserRowTyped DEF TypesOfRows
    <3> QED
      BY <2>3, <3>1 DEF TypesOfRows, PersistsQueued, live, ghosts
  <2>4. CASE PersistQueuedFails(q)
    <3>1. pending' \in Seq(Messages)
      <4> DEFINE i == SelectLastInSeq(pending, LAMBDA m : m = q)
      <4>1. i \in 0..Len(pending) /\ pending \in Seq(Messages)
        BY LastTyped DEF TypesOfRows, SelectLastInSeq
      <4>2. pending' = IF i = 0 THEN pending ELSE RemoveAt(pending, i)
        BY <2>4 DEF PersistQueuedFails
      <4> HIDE DEF i
      <4>3. i # 0 => i \in 1..Len(pending)
        BY <4>1
      <4> QED
        BY <4>1, <4>2, <4>3, RemovalTyped
    <3> QED
      BY <2>4, <3>1 DEF TypesOfRows, PersistQueuedFails, live, ghosts
  <2>5. CASE Schedules(q)
    BY <1>0, <2>5 DEF TypesOfRows, Schedules, live
  <2> QED
    BY <2>1, <2>2, <2>3, <2>4, <2>5 DEF RequestStep
<1>2. TypesOfControl'
  <2>1. CASE Reserves(q) \/ Refused(q) \/ PersistsQueued(q)
    BY <2>1 DEF TypesOfControl, Reserves, Refused, PersistsQueued, control, bounds
  <2>2. CASE PersistQueuedFails(q)
    <3>1. faults' \in 0..MaxFaults
      BY <2>2, CapsAssumption DEF TypesOfControl, PersistQueuedFails
    <3> QED
      BY <2>2, <3>1 DEF TypesOfControl, PersistQueuedFails, control
  <2>3. CASE Schedules(q)
    BY <2>3 DEF TypesOfControl, Schedules, control, bounds
  <2> QED
    BY <2>1, <2>2, <2>3 DEF RequestStep
<1>3. active' \in BOOLEAN /\ closePending' \in BOOLEAN
      /\ UNCHANGED <<jobs, resident, agents, overlapped>>
  BY DEF TypesOfAgents, RequestStep, Reserves, Refused, PersistsQueued, PersistQueuedFails,
         Schedules, agent, ghosts
<1> HIDE DEF IInv, TypeOK
<1> QED
  BY <1>1, <1>2, <1>3, QuietKeeps

\* The drainer's dispatch is the only step of it that moves a job: its own,
\* which is at rest.
LEMMA DrainerKeeps ==
    ASSUME IInv, DrainerStep
    PROVE  IInv'
<1>1. TypesOfRows'
  BY DEF IInv, TypeOK, TypesOfRows, DrainerStep, Looks, DispatchesDrain, Judges, Retires,
     live, ghosts
<1>2. TypesOfControl'
  <2>1. Len(pending) \in Nat
    BY DEF IInv, TypeOK, TypesOfRows
  <2>2. drainer' \in {"off", "looking", "dispatching", "waiting", "retiring"}
    BY DEF IInv, TypeOK, TypesOfControl, DrainerStep, Looks, DispatchesDrain, Judges, Retires
  <2>3. before' \in Nat
    BY <2>1 DEF IInv, TypeOK, TypesOfControl, DrainerStep, Looks, DispatchesDrain, Judges, Retires
  <2>5. kick \in BOOLEAN
    BY DEF IInv, TypeOK, TypesOfControl
  <2>6. kick' = kick \/ kick' = FALSE
    BY DEF DrainerStep, Looks, DispatchesDrain, Judges, Retires
  <2>4. UNCHANGED <<request, control, bounds>>
    BY DEF DrainerStep, Looks, DispatchesDrain, Judges, Retires
  <2> QED
    BY <2>2, <2>3, <2>4, <2>5, <2>6 DEF IInv, TypeOK, TypesOfControl, control, bounds
<1>3. active' \in BOOLEAN /\ closePending' \in BOOLEAN
      /\ UNCHANGED <<turn, lock, resident, agents, overlapped>>
  BY DEF IInv, TypeOK, TypesOfAgents, DrainerStep, Looks, DispatchesDrain, Judges, Retires,
         agent, jobs, ghosts
<1>4. CASE pc' = pc
  BY <1>1, <1>2, <1>3, <1>4, QuietKeeps DEF jobs
<1>5. CASE pc' # pc
  <2>1. /\ \A j \in Jobs : pc[j] \in {"new", "done"}
        /\ pc' = [pc EXCEPT ![Drain] = "dispatched"]
    BY <1>5 DEF DrainerStep, Looks, DispatchesDrain, Judges, Retires, InFlight, jobs
  <2>2. \A j \in Jobs : /\ pc'[j] \in {"new", "done", "dispatched"}
                        /\ turn[j].lock = 0 /\ turn[j].agent = 0
    BY <2>1 DEF IInv, TypeOK, TypesOfJobs, Equipped, EquippedJob, LocksKnown, Agentless, Unlocked
  <2>3. TypesOfJobs'
    BY <1>3, <2>1 DEF IInv, TypeOK, TypesOfJobs, Places
  <2>4. TypesOfAgents'
    BY <1>3 DEF IInv, TypeOK, TypesOfAgents
  <2>5. LocksExclude' /\ TurnsExclude'
    BY <2>2 DEF LocksExclude, TurnsExclude, Running, InTurn
  <2>6. Equipped' /\ LocksKnown'
    BY <1>3, <2>2 DEF Equipped, EquippedJob, LocksKnown, Agentless, Unlocked, Working,
       Turning, InTurn
  <2>7. OverlapNeedsRelease'
    BY <1>3 DEF IInv, OverlapNeedsRelease
  <2> QED
    BY <1>1, <1>2, <2>3, <2>4, <2>5, <2>6, <2>7 DEF IInv, TypeOK
<1> QED
  BY <1>4, <1>5

LEMMA StopReadsKeeps ==
    ASSUME IInv, NEW closing \in BOOLEAN, StopReads(closing)
    PROVE  IInv'
<1>1. TypesOfRows'
  BY DEF IInv, TypeOK, TypesOfRows, StopReads, live, ghosts
<1>2. TypesOfControl'
  <2>1. stops' \in 0..MaxStops
    BY CapsAssumption DEF IInv, TypeOK, TypesOfControl, StopReads
  <2> QED
    BY <2>1 DEF IInv, TypeOK, TypesOfControl, TypesOfAgents, StopReads, queue
<1>3. active' \in BOOLEAN /\ closePending' \in BOOLEAN
      /\ UNCHANGED <<jobs, resident, agents, overlapped>>
  BY DEF IInv, TypeOK, TypesOfAgents, StopReads, agent, ghosts
<1> QED
  BY <1>1, <1>2, <1>3, QuietKeeps

LEMMA EvictScansKeeps ==
    ASSUME IInv, EvictScans
    PROVE  IInv'
<1>1. TypesOfRows'
  BY DEF IInv, TypeOK, TypesOfRows, EvictScans, live, ghosts
<1>2. TypesOfControl'
  <2>1. evicts' \in 0..MaxEvicts
    BY CapsAssumption DEF IInv, TypeOK, TypesOfControl, EvictScans
  <2> QED
    BY <2>1 DEF IInv, TypeOK, TypesOfControl, TypesOfAgents, EvictScans, queue
<1>3. active' \in BOOLEAN /\ closePending' \in BOOLEAN
      /\ UNCHANGED <<jobs, resident, agents, overlapped>>
  BY DEF IInv, TypeOK, TypesOfAgents, EvictScans, agent, ghosts
<1> QED
  BY <1>1, <1>2, <1>3, QuietKeeps

LEMMA ControlKeeps ==
    ASSUME IInv, ControlStep
    PROVE  IInv'
<1>1. CASE StopRecords \/ CloseMarks \/ EvictChecks
  <2>1. TypesOfRows'
    BY <1>1 DEF IInv, TypeOK, TypesOfRows, StopRecords, CloseMarks, EvictChecks, live, ghosts
  <2>2. TypesOfControl'
    BY <1>1 DEF IInv, TypeOK, TypesOfControl, StopRecords, CloseMarks, EvictChecks, queue,
       bounds, InFlight
  <2>3. active' \in BOOLEAN /\ closePending' \in BOOLEAN
        /\ UNCHANGED <<jobs, resident, agents, overlapped>>
    BY <1>1 DEF IInv, TypeOK, TypesOfAgents, StopRecords, CloseMarks, EvictChecks, agent, ghosts
  <2> QED
    BY <2>1, <2>2, <2>3, QuietKeeps
<1>2. CASE StopCancels
  <2>1. TypesOfRows' /\ TypesOfControl'
    BY <1>2 DEF IInv, TypeOK, TypesOfRows, TypesOfControl, StopCancels, live, queue, bounds,
       ghosts
  <2>2. /\ resident' = resident /\ active' = active /\ closePending' = closePending
        /\ pc' = pc /\ turn' = turn /\ lock' = lock /\ overlapped' = overlapped
    BY <1>2 DEF StopCancels, jobs, ghosts
  <2>3. agents \in [Agents -> AgentState]
    BY DEF IInv, TypeOK, TypesOfAgents
  <2>4. ASSUME NEW a \in Agents
        PROVE  agents'[a] \in AgentState /\ agents'[a].mem = agents[a].mem
    BY <1>2, <2>3 DEF StopCancels, AgentState
  <2>5. agents' = [a \in Agents |-> agents'[a]]
    BY <1>2 DEF StopCancels
  <2>6. TypesOfAgents' /\ TypesOfJobs'
    BY <2>2, <2>4, <2>5 DEF IInv, TypeOK, TypesOfAgents, TypesOfJobs
  <2>7. LocksExclude' /\ TurnsExclude' /\ LocksKnown' /\ OverlapNeedsRelease'
    BY <2>2 DEF IInv, TypeOK, LocksExclude, TurnsExclude, LocksKnown, OverlapNeedsRelease, Running
  <2>8. ASSUME NEW i \in Jobs
        PROVE  EquippedJob(i)'
    <3>1. pc[i] \in Working => Mem(i)' = Mem(i)
      BY <2>2, <2>4, InHand DEF Mem
    <3>2. EquippedJob(i)
      BY DEF IInv, Equipped
    <3> QED
      BY <2>2, <3>1, <3>2 DEF EquippedJob, Working, Turning, InTurn
  <2> QED
    BY <2>1, <2>6, <2>7, <2>8 DEF IInv, TypeOK, Equipped
<1>3. CASE StopEnds \/ EvictDetaches
  <2>1. TypesOfRows'
    BY <1>3 DEF IInv, TypeOK, TypesOfRows, StopEnds, EvictDetaches, live, ghosts
  <2>2. TypesOfControl'
    <3>1. CASE StopEnds
      <4>1. stopper' \in [at : {"idle", "read", "cancel", "interrupted", "mark"},
                          active : BOOLEAN, closing : BOOLEAN]
        BY <3>1 DEF IInv, TypeOK, TypesOfControl, StopEnds
      <4>2. UNCHANGED <<queue, stopFlag, evictor, bounds>>
        BY <3>1 DEF StopEnds
      <4> QED
        BY <4>1, <4>2 DEF IInv, TypeOK, TypesOfControl, queue, bounds
    <3>2. CASE EvictDetaches
      <4>1. evictor' = [at |-> "idle", agent |-> 0] /\ UNCHANGED <<queue, stopFlag, stopper, bounds>>
        BY <3>2 DEF EvictDetaches
      <4> QED
        BY <4>1 DEF IInv, TypeOK, TypesOfControl, queue, bounds
    <3> QED
      BY <1>3, <3>1, <3>2
  <2>3. active' \in BOOLEAN /\ closePending' \in BOOLEAN /\ UNCHANGED <<pc, turn, overlapped>>
    BY <1>3 DEF IInv, TypeOK, TypesOfAgents, StopEnds, EvictDetaches, ghosts
  <2>4. \E detached \in BOOLEAN : Release(Jobs, detached)
    <3>1. CASE StopEnds
      <4>1. Release(Jobs, stopper.closing /\ resident # 0 /\ ~active)
        BY <3>1 DEF StopEnds
      <4>2. (stopper.closing /\ resident # 0 /\ ~active) \in BOOLEAN
        OBVIOUS
      <4> QED
        BY <4>1, <4>2
    <3>2. CASE EvictDetaches
      <4>1. Release(Jobs, resident = evictor.agent) /\ (resident = evictor.agent) \in BOOLEAN
        BY <3>2 DEF EvictDetaches
      <4> QED
        BY <4>1
    <3> QED
      BY <1>3, <3>1, <3>2
  <2> QED
    BY <2>1, <2>2, <2>3, <2>4, ReleaseKeeps
<1> QED
  BY <1>1, <1>2, <1>3 DEF ControlStep

-----------------------------------------------------------------------------
(* The theorems. *)

LEMMA InitInv == Init => IInv
<1> SUFFICES ASSUME Init PROVE IInv
  OBVIOUS
<1> USE DEF Init
<1>1. TypesOfRows
  BY EmptySeqTyped DEF TypesOfRows
<1>2. TypesOfAgents
  BY EmptySeqTyped DEF TypesOfAgents, NoAgent, AgentState
<1>3. TypesOfJobs
  <2>1. pc \in [Jobs -> Places]
    BY DEF Places
  <2>2. turn \in [Jobs -> TurnState]
    BY NoTurnTyped
  <2>3. lock \in Nat \ {0}
    OBVIOUS
  <2>4. overlapped \in BOOLEAN
    OBVIOUS
  <2> QED
    BY <2>1, <2>2, <2>3, <2>4 DEF TypesOfJobs
<1>4. TypesOfControl
  <2>1. /\ request \in [Queued -> {"new", "persisting", "scheduling", "accepted", "refused", "failed"}]
        /\ drainer = "off" /\ kick = FALSE /\ stopFlag = FALSE
    OBVIOUS
  <2>2. before \in Nat /\ stops \in 0..MaxStops /\ evicts \in 0..MaxEvicts /\ faults \in 0..MaxFaults
    BY CapsAssumption
  <2>3. stopper \in [at : {"idle", "read", "cancel", "interrupted", "mark"},
                     active : BOOLEAN, closing : BOOLEAN]
    OBVIOUS
  <2>4. evictor \in [at : {"idle", "scanned", "checked"}, agent : Agents \cup {0}]
    OBVIOUS
  <2> HIDE DEF Init
  <2> QED
    BY <2>1, <2>2, <2>3, <2>4 DEF TypesOfControl
<1>5. LocksExclude /\ TurnsExclude
  BY DEF LocksExclude, TurnsExclude, Running, InTurn
<1>6. Equipped /\ LocksKnown
  BY DEF Equipped, EquippedJob, LocksKnown, Agentless, Unlocked, Working, Turning, InTurn, NoTurn
<1>7. OverlapNeedsRelease
  BY DEF OverlapNeedsRelease
<1> QED
  BY <1>1, <1>2, <1>3, <1>4, <1>5, <1>6, <1>7 DEF IInv, TypeOK

LEMMA JobKeeps ==
    ASSUME IInv, NEW j \in Jobs, Dispatch(j) \/ JobStep(j) \/ JobFault(j)
    PROVE  IInv'
<1>1. CASE Dispatch(j) \/ Fetches(j) \/ Locks(j) \/ Persists(j) \/ Pushes(j) \/ Starts(j)
           \/ Loads(j) \/ Builds(j) \/ ChecksCancel(j)
  BY <1>1, DispatchKeeps, FetchesKeeps, LocksKeeps, PersistsKeeps, PushesKeeps, StartsKeeps,
     LoadsKeeps, BuildsKeeps, ChecksCancelKeeps
<1>2. CASE StopsDraining(j) \/ Picks(j) \/ Begins(j) \/ Resets(j) \/ Replies(j) \/ Returns(j)
  BY <1>2, StopsDrainingKeeps, PicksKeeps, BeginsKeeps, ResetsKeeps, RepliesKeeps, ReturnsKeeps
<1>3. CASE Saves(j) \/ Merges(j) \/ SavesMerged(j) \/ Resyncs(j)
           \/ Ends(j) \/ Shifts(j) \/ Leaves(j) \/ Finishes(j)
  BY <1>3, SavesKeeps, MergesKeeps, SavesMergedKeeps, ResyncsKeeps, EndsKeeps, ShiftsKeeps,
     LeavesKeeps, FinishesKeeps
<1>4. CASE JobFault(j)
  BY <1>4, PersistFailsKeeps, BootstrapFailsKeeps, StepFailsKeeps, SaveFailsKeeps DEF JobFault
<1> QED
  BY <1>1, <1>2, <1>3, <1>4 DEF JobStep

LEMMA StepKeeps == IInv /\ [Next]_vars => IInv'
<1> SUFFICES ASSUME IInv, [Next]_vars PROVE IInv'
  OBVIOUS
<1>1. ASSUME NEW j \in Jobs, Dispatch(j) \/ JobStep(j) \/ JobFault(j)
      PROVE  IInv'
  BY <1>1, JobKeeps
<1>2. CASE Takes \/ Writes
  BY <1>2, WriterKeeps
<1>3. ASSUME NEW q \in Queued, RequestStep(q) \/ PersistQueuedFails(q)
      PROVE  IInv'
  BY <1>3, RequestKeeps
<1>4. CASE DrainerStep
  BY <1>4, DrainerKeeps
<1>5. ASSUME NEW closing \in BOOLEAN, StopReads(closing)
      PROVE  IInv'
  BY <1>5, StopReadsKeeps
<1>6. CASE EvictScans
  BY <1>6, EvictScansKeeps
<1>7. CASE ControlStep
  BY <1>7, ControlKeeps
<1>8. CASE UNCHANGED vars
  <2>1. TypesOfRows' /\ TypesOfControl' /\ active' \in BOOLEAN /\ closePending' \in BOOLEAN
        /\ UNCHANGED <<jobs, resident, agents, overlapped>>
    BY <1>8 DEF IInv, TypeOK, TypesOfRows, TypesOfControl, TypesOfAgents, vars, agent, live, jobs,
                queue, control, bounds, ghosts
  <2> QED
    BY <2>1, QuietKeeps
<1> QED
  BY <1>1, <1>2, <1>3, <1>4, <1>5, <1>6, <1>7, <1>8 DEF Next

\* In every reachable state what IInv says holds.
THEOREM Inductive == Spec => []IInv
BY InitInv, StepKeeps, PTL DEF Spec

\* Every variable stays in its domain; a turn lock has one holder, and so has
\* the mutex of an agent's transcript.
THEOREM TypeCorrect == Spec => []TypeOK
<1>1. IInv => TypeOK
  BY DEF IInv
<1> QED
  BY Inductive, <1>1, PTL

\* Two jobs run at once only after a release took a lock in use from the map.
THEOREM OverlapAfterRelease == Spec => []OverlapNeedsRelease
<1>1. IInv => OverlapNeedsRelease
  BY DEF IInv
<1> QED
  BY Inductive, <1>1, PTL
=============================================================================
