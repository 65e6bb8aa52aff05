------------------------- MODULE SessionTurnsQueue --------------------------
(***************************************************************************)
(* Proofs about the stored rows and the pending queue of SessionTurns: no  *)
(* row is overwritten, an acknowledged message is stored, a transcript     *)
(* that was saved is in line with the stored rows; while jobs do not       *)
(* overlap, the queue hands out each message once and forgets none.        *)
(***************************************************************************)
EXTENDS SessionTurnsProofs

-----------------------------------------------------------------------------
(* The stored rows only grow. *)

\* Five steps write rows.
LEMMA RowWriters ==
    ASSUME [Next]_vars
    PROVE  \/ disk' = disk
           \/ \E j \in Jobs : Persists(j) \/ Saves(j) \/ SavesMerged(j)
           \/ Writes
           \/ \E q \in Queued : PersistsQueued(q)
<1>1. ASSUME NEW j \in Jobs, Dispatch(j) \/ JobStep(j) \/ JobFault(j)
      PROVE  disk' = disk \/ Persists(j) \/ Saves(j) \/ SavesMerged(j)
  BY <1>1 DEF JobStep, JobFault, Dispatch, Fetches, Locks, PersistFails, Pushes, Starts, Loads,
         Builds, BootstrapFails, ChecksCancel, StopsDraining, Picks, Begins, Resets, Replies,
         Returns, StepFails, SaveFails, Merges, Resyncs, Ends, Shifts, Leaves, Finishes
<1>2. ASSUME NEW q \in Queued, RequestStep(q) \/ PersistQueuedFails(q)
      PROVE  disk' = disk \/ PersistsQueued(q)
  BY <1>2 DEF RequestStep, Reserves, Refused, Schedules, PersistQueuedFails
<1>3. CASE DrainerStep
  BY <1>3 DEF DrainerStep, Looks, DispatchesDrain, Judges, Retires
<1>4. CASE ControlStep
  BY <1>4 DEF ControlStep, StopRecords, StopCancels, StopEnds, CloseMarks, EvictChecks,
     EvictDetaches
<1>5. ASSUME NEW closing \in BOOLEAN, StopReads(closing)
      PROVE  disk' = disk
  BY <1>5 DEF StopReads
<1>6. CASE Takes \/ EvictScans \/ UNCHANGED vars
  BY <1>6 DEF Takes, EvictScans, vars
<1> QED
  BY <1>1, <1>2, <1>3, <1>4, <1>5, <1>6 DEF Next

LEMMA DiskGrows ==
    ASSUME IInv, [Next]_vars
    PROVE  IsPrefix(disk, disk')
<1>1. disk \in Seq(Row)
  BY DEF IInv, TypeOK, TypesOfRows
<1>2. CASE disk' = disk
  BY <1>1, <1>2, PrefixOfItself
<1>3. ASSUME NEW j \in Jobs, Persists(j)
      PROVE  IsPrefix(disk, disk')
  <2>1. UserRow(j, NextUserSeq(disk)) \in Row
    BY <1>1, <1>3, UserRowTyped DEF Persists, Goes, IInv, Equipped, EquippedJob, Messages
  <2> QED
    BY <1>1, <1>3, <2>1, PrefixOfAppend DEF Persists
<1>4. ASSUME NEW j \in Jobs, Saves(j) \/ SavesMerged(j)
      PROVE  IsPrefix(disk, disk')
  BY <1>1, <1>4, PrefixOfItself DEF Saves, SavesMerged, Storable
<1>5. CASE Writes
  BY <1>1, <1>5, PrefixOfItself DEF Writes, Storable
<1>6. ASSUME NEW q \in Queued, PersistsQueued(q)
      PROVE  IsPrefix(disk, disk')
  <2>1. UserRow(q, NextUserSeq(disk)) \in Row
    BY <1>1, UserRowTyped DEF Messages
  <2> QED
    BY <1>1, <1>6, <2>1, PrefixOfAppend DEF PersistsQueued
<1> QED
  BY <1>2, <1>3, <1>4, <1>5, <1>6, RowWriters

\* A row, once stored, stays where it is, whichever jobs, requests, snapshots
\* and merges write at once.
THEOREM RowsStay == Spec => NothingOverwritten
<1>1. IInv /\ [Next]_vars => [IsPrefix(disk, disk')]_disk
  BY DiskGrows
<1> QED
  BY <1>1, Inductive, PTL DEF Spec, NothingOverwritten

-----------------------------------------------------------------------------
(* What was acknowledged is stored. *)

\* A message is acknowledged after its row was written.
Persisted ==
    /\ AckedIsStored
    /\ \A j \in Sends : pc[j] = "pushing" => CopiesOf(j) # {}
    /\ \A q \in Queued : request[q] = "scheduling" => CopiesOf(q) # {}

LEMMA CopiesStay ==
    ASSUME IInv, IInv', IsPrefix(disk, disk'), NEW m
    PROVE  CopiesOf(m) \subseteq CopiesOf(m)'
<1>1. disk \in Seq(Row) /\ disk' \in Seq(Row)
  BY DEF IInv, TypeOK, TypesOfRows
<1>2. Len(disk) <= Len(disk') /\ \A i \in 1..Len(disk) : disk[i] = disk'[i]
  BY <1>1, PrefixAgrees
<1> QED
  BY <1>1, <1>2 DEF CopiesOf

LEMMA LastIsACopy ==
    ASSUME IInv, NEW m \in Messages, disk' = Append(disk, UserRow(m, NextUserSeq(disk)))
    PROVE  CopiesOf(m)' # {}
<1>1. disk \in Seq(Row) /\ UserRow(m, NextUserSeq(disk)) \in Row
  BY UserRowTyped DEF IInv, TypeOK, TypesOfRows
<1>2. Len(disk) + 1 \in DOMAIN disk' /\ disk'[Len(disk) + 1] = UserRow(m, NextUserSeq(disk))
  BY <1>1
<1> QED
  BY <1>2 DEF CopiesOf, UserRow

\* Where a job's step takes it.
LEMMA Moved ==
    ASSUME IInv, NEW j \in Jobs, Dispatch(j) \/ JobStep(j) \/ JobFault(j), ~Persists(j)
    PROVE  pc' = pc \/ \E to \in Places \ {"pushing"} : pc' = [pc EXCEPT ![j] = to]
<1> DEFINE To(to) == to \in Places \ {"pushing"} /\ pc' = [pc EXCEPT ![j] = to]
<1>1. CASE Replies(j)
  BY <1>1 DEF Replies
<1>2. CASE Dispatch(j)
  <2>1. To("dispatched")
    BY <1>2 DEF Dispatch, Goes, Places, InTurn
  <2> QED
    BY <2>1
<1>3. CASE Fetches(j)
  <2>1. To("waiting")
    BY <1>3 DEF Fetches, Goes, Places, InTurn
  <2> QED
    BY <2>1
<1>4. CASE Locks(j)
  <2>1. To("starting") \/ To("persisting")
    BY <1>4 DEF Locks, Goes, Places, InTurn
  <2> QED
    BY <2>1
<1>5. CASE PersistFails(j)
  <2>1. To("leaving")
    BY <1>5 DEF PersistFails, Goes, Places, InTurn
  <2> QED
    BY <2>1
<1>6. CASE Pushes(j)
  <2>1. To("starting")
    BY <1>6 DEF Pushes, Goes, Places, InTurn
  <2> QED
    BY <2>1
<1>7. CASE Starts(j)
  <2>1. To("leaving") \/ To("ready") \/ To("loading")
    BY <1>7 DEF Starts, Goes, Places, InTurn
  <2> QED
    BY <2>1
<1>8. CASE Loads(j)
  <2>1. To("building")
    BY <1>8 DEF Loads, Goes, Places, InTurn
  <2> QED
    BY <2>1
<1>9. CASE Builds(j)
  <2>1. To("built")
    BY <1>9 DEF Builds, Goes, Places, InTurn
  <2> QED
    BY <2>1
<1>10. CASE BootstrapFails(j)
  <2>1. To("leaving")
    BY <1>10 DEF BootstrapFails, Goes, Places, InTurn
  <2> QED
    BY <2>1
<1>11. CASE ChecksCancel(j)
  <2>1. To("leaving") \/ To("ready") \/ To("draining")
    BY <1>11 DEF ChecksCancel, Goes, Places, InTurn
  <2> QED
    BY <2>1
<1>12. CASE StopsDraining(j)
  <2>1. To("leaving")
    BY <1>12 DEF StopsDraining, Goes, Places, InTurn
  <2> QED
    BY <2>1
<1>13. CASE Picks(j)
  <2>1. To("picked")
    BY <1>13 DEF Picks, Goes, Places, InTurn
  <2> QED
    BY <2>1
<1>14. CASE Begins(j)
  <2>1. To("begun")
    BY <1>14 DEF Begins, Goes, Places, InTurn
  <2> QED
    BY <2>1
<1>15. CASE Resets(j)
  <2>1. To("stepping")
    BY <1>15 DEF Resets, Goes, Places, InTurn
  <2> QED
    BY <2>1
<1>16. CASE Returns(j)
  <2>1. To("saving")
    BY <1>16 DEF Returns, Goes, Places, InTurn
  <2> QED
    BY <2>1
<1>17. CASE StepFails(j)
  <2>1. To("saving")
    BY <1>17 DEF StepFails, Goes, Places, InTurn
  <2> QED
    BY <2>1
<1>18. CASE Saves(j)
  <2>1. To("ending") \/ To("merging")
    BY <1>18 DEF Saves, Goes, Places, InTurn
  <2> QED
    BY <2>1
<1>19. CASE SaveFails(j)
  <2>1. To("ending")
    BY <1>19 DEF SaveFails, Goes, Places, InTurn
  <2> QED
    BY <2>1
<1>20. CASE Merges(j)
  <2>1. To("merged") \/ To("resyncing")
    BY <1>20 DEF Merges, Goes, Places, InTurn
  <2> QED
    BY <2>1
<1>21. CASE SavesMerged(j)
  <2>1. To("ending") \/ To("merging")
    BY <1>21 DEF SavesMerged, Goes, Places, InTurn
  <2> QED
    BY <2>1
<1>22. CASE Resyncs(j)
  <2>1. To("ending")
    BY <1>22 DEF Resyncs, Goes, Places, InTurn
  <2> QED
    BY <2>1
<1>23. CASE Ends(j)
  <2>1. To("shifting")
    BY <1>23 DEF Ends, Goes, Places, InTurn
  <2> QED
    BY <2>1
<1>24. CASE Shifts(j)
  <2>1. To("leaving") \/ To("draining")
    BY <1>24 DEF Shifts, Goes, Places, InTurn
  <2> QED
    BY <2>1
<1>25. CASE Leaves(j)
  <2>1. To("finishing")
    BY <1>25 DEF Leaves, Goes, Places, InTurn
  <2> QED
    BY <2>1
<1>26. CASE Finishes(j)
  <2>1. To("new") \/ To("done")
    BY <1>26 DEF Finishes, Goes, Places, InTurn
  <2> QED
    BY <2>1
<1> QED
  BY <1>1, <1>2, <1>3, <1>4, <1>5, <1>6, <1>7, <1>8, <1>9, <1>10, <1>11, <1>12, <1>13, <1>14,
         <1>15, <1>16, <1>17, <1>18, <1>19, <1>20, <1>21, <1>22, <1>23, <1>24, <1>25, <1>26 DEF JobStep, JobFault

\* Who acknowledges, and what comes before it.
LEMMA AckSteps ==
    ASSUME IInv, [Next]_vars
    PROVE  /\ \A m \in acked' : \/ m \in acked
                                \/ m \in Sends /\ pc[m] = "pushing"
                                \/ m \in Queued /\ request[m] = "scheduling"
           /\ \A j \in Sends : pc'[j] = "pushing" => pc[j] = "pushing" \/ Persists(j)
           /\ \A q \in Queued : request'[q] = "scheduling" =>
                                    request[q] = "scheduling" \/ PersistsQueued(q)
<1> DEFINE Acks == \A m \in acked' : \/ m \in acked
                                     \/ m \in Sends /\ pc[m] = "pushing"
                                     \/ m \in Queued /\ request[m] = "scheduling"
           Push == \A j \in Sends : pc'[j] = "pushing" => pc[j] = "pushing" \/ Persists(j)
           Sched == \A q \in Queued : request'[q] = "scheduling" =>
                                          request[q] = "scheduling" \/ PersistsQueued(q)
<1>0. /\ pc \in [Jobs -> Places] /\ Sends \subseteq Jobs
      /\ request \in [Queued -> {"new", "persisting", "scheduling", "accepted", "refused", "failed"}]
  BY DEF IInv, TypeOK, TypesOfJobs, TypesOfControl, Jobs
<1>1. ASSUME NEW j \in Jobs, Dispatch(j) \/ JobStep(j) \/ JobFault(j)
      PROVE  Acks /\ Push /\ Sched
  <2>1. CASE Pushes(j)
    <3>1. j \in Sends
      BY <2>1 DEF IInv, Equipped, EquippedJob, Pushes, Goes
    <3> QED
      BY <1>0, <2>1, <3>1 DEF Pushes, Goes, queue
  <2>2. CASE ~Pushes(j)
    <3>1. acked' = acked /\ request' = request
      BY <1>1, <2>2 DEF JobStep, JobFault, Dispatch, Fetches, Locks, Persists, PersistFails,
             Starts, Loads, Builds, BootstrapFails, ChecksCancel, StopsDraining, Picks, Begins,
             Resets, Replies, Returns, StepFails, Saves, SaveFails, Merges, SavesMerged,
             Resyncs, Ends, Shifts, Leaves, Finishes, ghosts, queue
    <3>2. CASE Persists(j)
      BY <1>0, <3>1, <3>2 DEF Persists, Goes
    <3>3. CASE ~Persists(j)
      <4>1. pc' = pc \/ \E to \in Places \ {"pushing"} : pc' = [pc EXCEPT ![j] = to]
        BY <1>1, <2>2, <3>3, Moved
      <4> QED
        BY <1>0, <3>1, <4>1
    <3> QED
      BY <3>2, <3>3
  <2> QED
    BY <2>1, <2>2
<1>2. ASSUME NEW q \in Queued, RequestStep(q) \/ PersistQueuedFails(q)
      PROVE  Acks /\ Push /\ Sched
  <2>1. pc' = pc
    BY <1>2 DEF RequestStep, Reserves, Refused, PersistsQueued, Schedules, PersistQueuedFails,
       jobs
  <2>2. CASE Schedules(q)
    BY <1>0, <2>1, <2>2 DEF Schedules, Moves
  <2>3. CASE PersistsQueued(q)
    BY <1>0, <2>1, <2>3 DEF PersistsQueued, Moves, ghosts
  <2>4. CASE Reserves(q) \/ Refused(q) \/ PersistQueuedFails(q)
    BY <1>0, <2>1, <2>4 DEF Reserves, Refused, PersistQueuedFails, Moves, ghosts
  <2> QED
    BY <1>2, <2>2, <2>3, <2>4 DEF RequestStep
<1>3. CASE DrainerStep
  <2>1. acked' = acked /\ request' = request
    BY <1>3 DEF DrainerStep, Looks, DispatchesDrain, Judges, Retires, ghosts
  <2>2. pc' = pc \/ pc' = [pc EXCEPT ![Drain] = "dispatched"]
    BY <1>3 DEF DrainerStep, Looks, DispatchesDrain, Judges, Retires, jobs
  <2> QED
    BY <1>0, <2>1, <2>2
<1>4. CASE Takes \/ Writes \/ EvictScans \/ ControlStep \/ UNCHANGED vars \/ \E c \in BOOLEAN : StopReads(c)
  <2>1. pc' = pc /\ acked' = acked /\ request' = request
    BY <1>4 DEF Takes, Writes, EvictScans, ControlStep, StopReads, StopRecords, StopCancels,
       StopEnds,
                CloseMarks, EvictChecks, EvictDetaches, jobs, queue, ghosts, vars
  <2> QED
    BY <2>1
<1> QED
  BY <1>1, <1>2, <1>3, <1>4 DEF Next

LEMMA PersistedKeeps ==
    ASSUME IInv, IInv', Persisted, [Next]_vars
    PROVE  Persisted'
<1>1. \A m : CopiesOf(m) # {} => CopiesOf(m)' # {}
  BY DiskGrows, CopiesStay
<1>2. ASSUME NEW j \in Sends, Persists(j)
      PROVE  CopiesOf(j)' # {}
  BY <1>2, LastIsACopy DEF Persists, Messages
<1>3. ASSUME NEW q \in Queued, PersistsQueued(q)
      PROVE  CopiesOf(q)' # {}
  BY <1>3, LastIsACopy DEF PersistsQueued, Messages
<1>4. AckedIsStored'
  BY <1>1, AckSteps DEF Persisted, AckedIsStored
<1> QED
  BY <1>1, <1>2, <1>3, <1>4, AckSteps DEF Persisted

LEMMA PersistedInductive == Spec => []Persisted
<1>1. Init => Persisted
  BY DEF Init, Persisted, AckedIsStored, Jobs
<1>2. IInv /\ IInv' /\ Persisted /\ [Next]_vars => Persisted'
  BY PersistedKeeps
<1> QED
  BY <1>1, <1>2, Inductive, PTL DEF Spec

\* A message whose sender got its 202 is stored, whatever fails afterwards.
THEOREM AckedStays == Spec => []AckedIsStored
<1>1. Persisted => AckedIsStored
  BY DEF Persisted
<1> QED
  BY <1>1, PersistedInductive, PTL

-----------------------------------------------------------------------------
(* Transcripts and the stored rows. *)

InSave == InTurn \ {"ending"}

SavedIsStored == \A a \in Agents : agents[a].saved => IsPrefix(agents[a].mem, disk)

\* While its turn is running and has not been saved, a transcript is not said
\* to be; what a bootstrap has read is in line with the stored rows.
JobAligned(j) ==
    /\ pc[j] \in InSave => ~agents[turn[j].agent].saved
    /\ pc[j] = "building" => IsPrefix(turn[j].found, disk)

RowsInv == SavedIsStored /\ \A j \in Jobs : JobAligned(j)

LEMMA StillPrefix ==
    ASSUME IInv, IInv', IsPrefix(disk, disk'), NEW s \in Seq(Row), IsPrefix(s, disk)
    PROVE  IsPrefix(s, disk')
BY PrefixOfPrefix DEF IInv, TypeOK, TypesOfRows

\* An agent that keeps its transcript stays in line, and so does a job that
\* stays where it is or is not in a turn.
LEMMA SavedStays ==
    ASSUME IInv, IInv', RowsInv, IsPrefix(disk, disk'),
           \A a \in Agents : agents'[a].saved =>
               \/ agents[a].saved /\ agents'[a].mem = agents[a].mem
               \/ IsPrefix(agents'[a].mem, disk')
    PROVE  SavedIsStored'
<1>1. ASSUME NEW a \in Agents, agents[a].saved
      PROVE  IsPrefix(agents[a].mem, disk')
  <2>1. agents[a].mem \in Seq(Row) /\ IsPrefix(agents[a].mem, disk)
    BY <1>1 DEF IInv, TypeOK, TypesOfAgents, AgentState, RowsInv, SavedIsStored
  <2> QED
    BY <2>1, StillPrefix
<1> QED
  BY <1>1 DEF SavedIsStored

LEMMA JobStays ==
    ASSUME IInv, IInv', RowsInv, IsPrefix(disk, disk'), NEW j \in Jobs, turn'[j] = turn[j], pc'[j] = pc[j],
           pc[j] \in InSave => agents'[turn[j].agent].saved = agents[turn[j].agent].saved
    PROVE  JobAligned(j)'
<1>1. pc[j] = "building" => IsPrefix(turn[j].found, disk')
  BY InHand, StillPrefix DEF RowsInv, JobAligned, TurnState
<1> QED
  BY <1>1 DEF RowsInv, JobAligned

\* A step that no agent notices: nobody begins a turn in it.
LEMMA AgentsKept ==
    ASSUME IInv, IInv', RowsInv, IsPrefix(disk, disk'), agents' = agents, NEW j \in Jobs,
           \A i \in Jobs \ {j} : turn'[i] = turn[i] /\ pc'[i] = pc[i],
           pc'[j] \in InSave => pc[j] \in InSave /\ turn'[j].agent = turn[j].agent,
           pc'[j] = "building" => IsPrefix(turn'[j].found, disk')
    PROVE  RowsInv'
<1>1. SavedIsStored'
  BY SavedStays
<1>2. \A i \in Jobs \ {j} : JobAligned(i)'
  BY JobStays
<1>3. JobAligned(j)'
  BY DEF RowsInv, JobAligned
<1> QED
  BY <1>1, <1>2, <1>3 DEF RowsInv

\* A step of a job on its own agent, which no other turn uses.
LEMMA OwnAgent ==
    ASSUME IInv, IInv', RowsInv, IsPrefix(disk, disk'), NEW j \in Jobs,
           \A a \in Agents \ {turn[j].agent} : agents'[a] = agents[a],
           \A i \in Jobs \ {j} : /\ turn'[i] = turn[i] /\ pc'[i] = pc[i]
                                 /\ pc[i] \in InSave => turn[i].agent # turn[j].agent,
           agents'[turn[j].agent].saved =>
               \/ /\ agents[turn[j].agent].saved
                  /\ agents'[turn[j].agent].mem = agents[turn[j].agent].mem
               \/ IsPrefix(agents'[turn[j].agent].mem, disk'),
           JobAligned(j)'
    PROVE  RowsInv'
<1>1. SavedIsStored'
  BY SavedStays
<1>2. ASSUME NEW i \in Jobs \ {j}
      PROVE  JobAligned(i)'
  <2>1. ASSUME pc[i] \in InSave
        PROVE  agents'[turn[i].agent].saved = agents[turn[i].agent].saved
    <3>1. turn[i].agent \in Agents
      BY <2>1, InHand DEF InSave, Working, Turning
    <3> QED
      BY <2>1, <3>1
  <2> QED
    BY <2>1, JobStays
<1> QED
  BY <1>1, <1>2 DEF RowsInv

\* Steps outside the jobs that release or cancel an agent leave its transcript.
LEMMA JobsKept ==
    ASSUME IInv, IInv', RowsInv, IsPrefix(disk, disk'), turn' = turn, pc' = pc,
           \A a \in Agents : \/ agents'[a].saved = agents[a].saved /\ agents'[a].mem = agents[a].mem
                             \/ agents'[a] = NoAgent /\ \A i \in Jobs : turn[i].agent # a
    PROVE  RowsInv'
<1>1. SavedIsStored'
  <2>1. IsPrefix(<<>>, disk')
    BY EmptyIsPrefix DEF IInv, TypeOK, TypesOfRows
  <2> QED
    BY <2>1, SavedStays DEF NoAgent
<1>2. ASSUME NEW i \in Jobs
      PROVE  JobAligned(i)'
  <2>1. pc[i] \in InSave => turn[i].agent \in Agents
    BY InHand DEF InSave, Working, Turning
  <2> QED
    BY <2>1, JobStays
<1> QED
  BY <1>1, <1>2 DEF RowsInv

LEMMA QuietJobAligned ==
    ASSUME IInv, IInv', RowsInv, IsPrefix(disk, disk'), NEW j \in Jobs,
           \/ Dispatch(j) \/ Fetches(j) \/ Locks(j) \/ Persists(j) \/ PersistFails(j)
           \/ Pushes(j) \/ Starts(j) \/ BootstrapFails(j) \/ StopsDraining(j) \/ Picks(j)
           \/ Replies(j) \/ SaveFails(j) \/ Merges(j) \/ Ends(j) \/ Shifts(j) \/ Finishes(j)
           \/ Loads(j)
    PROVE  RowsInv'
<1>0. turn \in [Jobs -> TurnState] /\ pc \in [Jobs -> Places] /\ disk \in Seq(Row)
  BY DEF IInv, TypeOK, TypesOfJobs, TypesOfRows
<1> DEFINE Quiet == /\ agents' = agents
                    /\ \A i \in Jobs \ {j} : turn'[i] = turn[i] /\ pc'[i] = pc[i]
                    /\ pc'[j] \in InSave => pc[j] \in InSave /\ turn'[j].agent = turn[j].agent
                    /\ pc'[j] = "building" => IsPrefix(turn'[j].found, disk')
<1> SUFFICES Quiet
  BY AgentsKept
<1>1. CASE Dispatch(j)
  BY <1>0, <1>1 DEF Dispatch, Goes, InSave, InTurn, TurnState, agent, jobs
<1>2. CASE Fetches(j)
  BY <1>0, <1>2 DEF Fetches, Goes, InSave, InTurn, TurnState, agent, jobs
<1>3. CASE Locks(j)
  BY <1>0, <1>3 DEF Locks, Goes, InSave, InTurn, TurnState, agent, jobs
<1>4. CASE Persists(j)
  BY <1>0, <1>4 DEF Persists, Goes, InSave, InTurn, TurnState, agent, jobs
<1>5. CASE PersistFails(j)
  BY <1>0, <1>5 DEF PersistFails, Goes, InSave, InTurn, TurnState, agent, jobs
<1>6. CASE Pushes(j)
  BY <1>0, <1>6 DEF Pushes, Goes, InSave, InTurn, TurnState, agent, jobs
<1>7. CASE Starts(j)
  BY <1>0, <1>7 DEF Starts, Goes, InSave, InTurn, TurnState, agent, jobs
<1>8. CASE BootstrapFails(j)
  BY <1>0, <1>8 DEF BootstrapFails, Goes, InSave, InTurn, TurnState, agent, jobs
<1>9. CASE StopsDraining(j)
  BY <1>0, <1>9 DEF StopsDraining, Goes, InSave, InTurn, TurnState, agent, jobs
<1>10. CASE Picks(j)
  BY <1>0, <1>10 DEF Picks, Goes, InSave, InTurn, TurnState, agent, jobs
<1>11. CASE Replies(j)
  BY <1>0, <1>11 DEF Replies, Goes, InSave, InTurn, TurnState, agent, jobs
<1>12. CASE SaveFails(j)
  BY <1>0, <1>12 DEF SaveFails, Goes, InSave, InTurn, TurnState, agent, jobs
<1>13. CASE Merges(j)
  BY <1>0, <1>13 DEF Merges, Goes, InSave, InTurn, TurnState, agent, jobs
<1>14. CASE Ends(j)
  BY <1>0, <1>14 DEF Ends, Goes, InSave, InTurn, TurnState, agent, jobs
<1>15. CASE Shifts(j)
  BY <1>0, <1>15 DEF Shifts, Goes, InSave, InTurn, TurnState, agent, jobs, Keeps
<1>16. CASE Finishes(j)
  BY <1>0, <1>16 DEF Finishes, Goes, InSave, InTurn, TurnState, agent, jobs
<1>17. CASE Loads(j)
  <2>1. turn'[j].found = disk /\ disk' = disk /\ pc'[j] = "building"
    BY <1>0, <1>17 DEF Loads, Goes, TurnState
  <2>2. IsPrefix(turn'[j].found, disk')
    BY <1>0, <2>1, PrefixOfItself
  <2> QED
    BY <1>0, <1>17, <2>1, <2>2 DEF Loads, Goes, InSave, InTurn, agent
<1> QED
  BY <1>1, <1>2, <1>3, <1>4, <1>5, <1>6, <1>7, <1>8, <1>9, <1>10, <1>11, <1>12, <1>13, <1>14,
         <1>15, <1>16, <1>17

LEMMA OwnJobAligned ==
    ASSUME IInv, IInv', RowsInv, IsPrefix(disk, disk'), NEW j \in Jobs,
           \/ ChecksCancel(j) \/ Begins(j) \/ Resets(j) \/ Returns(j) \/ StepFails(j)
           \/ Saves(j) \/ SavesMerged(j) \/ Resyncs(j)
    PROVE  RowsInv'
<1> DEFINE a == turn[j].agent
           Others == \A i \in Jobs \ {j} : /\ turn'[i] = turn[i] /\ pc'[i] = pc[i]
                                           /\ pc[i] \in InSave => turn[i].agent # a
           Own == agents'[a].saved => \/ agents[a].saved /\ agents'[a].mem = agents[a].mem
                                      \/ IsPrefix(agents'[a].mem, disk')
<1>0. /\ turn \in [Jobs -> TurnState] /\ pc \in [Jobs -> Places] /\ disk \in Seq(Row) /\ disk' \in Seq(Row)
      /\ agents \in [Agents -> AgentState] /\ agents' \in [Agents -> AgentState] /\ stopFlag \in BOOLEAN
  BY DEF IInv, TypeOK, TypesOfJobs, TypesOfRows, TypesOfAgents, TypesOfControl
<1>1. a \in Agents /\ agents[a] \in AgentState
  BY InHand DEF ChecksCancel, Begins, Resets, Returns, StepFails, Saves, SavesMerged, Resyncs,
     Goes,
                Working, Turning, InTurn
<1>2. \A b \in Agents \ {a} : agents'[b] = agents[b]
  BY <1>0, <1>1 DEF ChecksCancel, Begins, Resets, Returns, StepFails, Saves, SavesMerged, Resyncs
<1>3. \A i \in Jobs \ {j} : turn'[i] = turn[i] /\ pc'[i] = pc[i]
  BY <1>0 DEF ChecksCancel, Begins, Resets, Returns, StepFails, Saves, SavesMerged, Resyncs, Goes
<1>4. JobAligned(j) /\ (agents[a].saved => IsPrefix(agents[a].mem, disk))
  BY <1>1 DEF RowsInv, SavedIsStored
<1>5. pc[j] \in InTurn => \A i \in Jobs \ {j} : pc[i] \in InSave => turn[i].agent # a
  BY DEF IInv, TypeOK, TurnsExclude, InSave
<1>6. ASSUME Own, JobAligned(j)', pc[j] \in InTurn
      PROVE  RowsInv'
  BY <1>1, <1>2, <1>3, <1>5, <1>6, OwnAgent
<1>7. CASE ChecksCancel(j)
  <2>1. agents'[a].saved = agents[a].saved /\ agents'[a].mem = agents[a].mem
    BY <1>0, <1>1, <1>7 DEF ChecksCancel, AgentState
  <2>2. \A b \in Agents : agents'[b].saved = agents[b].saved /\ agents'[b].mem = agents[b].mem
    BY <1>2, <2>1
  <2>3. pc'[j] \notin InSave \cup {"building"}
    BY <1>0, <1>7 DEF ChecksCancel, Goes, InSave, InTurn
  <2>4. JobAligned(j)'
    BY <2>3 DEF JobAligned
  <2>5. ASSUME NEW i \in Jobs \ {j}
        PROVE  JobAligned(i)'
    <3>1. pc[i] \in InSave => turn[i].agent \in Agents
      BY InHand DEF InSave, Working, Turning
    <3> QED
      BY <1>3, <2>2, <3>1, JobStays
  <2>6. SavedIsStored'
    BY <2>2, SavedStays
  <2> QED
    BY <2>4, <2>5, <2>6 DEF RowsInv
<1>8. CASE Begins(j)
  <2>1. /\ \A i \in Jobs : ~ (pc[i] \in InTurn /\ turn[i].agent = a)
        /\ agents' = [agents EXCEPT ![a] = [[agents[a] EXCEPT
                        !.mem = Append(agents[a].mem, UserRow(turn[j].msg, NextUserSeq(agents[a].mem)))]
                          EXCEPT !.saved = FALSE]]
    BY <1>0, <1>1, <1>8 DEF Begins
  <2>2. ~agents'[a].saved /\ turn'[j].agent = a /\ pc'[j] = "begun"
    <3>1. ~agents'[a].saved
      BY <1>0, <1>1, <2>1 DEF AgentState
    <3>2. turn'[j].agent = a
      BY <1>0, <1>8 DEF Begins, TurnState
    <3>3. pc'[j] = "begun"
      BY <1>0, <1>8 DEF Begins, Goes
    <3> QED
      BY <3>1, <3>2, <3>3
  <2>3. JobAligned(j)'
    BY <2>2 DEF JobAligned
  <2>4. \A i \in Jobs \ {j} : pc[i] \in InSave => turn[i].agent # a
    BY <2>1 DEF InSave
  <2> QED
    BY <1>1, <1>2, <1>3, <2>2, <2>3, <2>4, OwnAgent
<1>9. CASE Resets(j) \/ Returns(j) \/ StepFails(j)
  <2>1. pc[j] \in InSave /\ ~agents[a].saved
    BY <1>4, <1>9 DEF Resets, Returns, StepFails, Goes, JobAligned, InSave, InTurn
  <2>2. agents'[a].saved = agents[a].saved
    <3>1. CASE Resets(j)
      BY <1>0, <1>1, <3>1 DEF Resets, AgentState
    <3>2. CASE Returns(j)
      BY <1>0, <1>1, <3>2 DEF Returns, AgentState
    <3>3. CASE StepFails(j)
      BY <1>0, <1>1, <3>3 DEF StepFails, AgentState
    <3> QED
      BY <1>9, <3>1, <3>2, <3>3
  <2>3. turn'[j].agent = a /\ pc'[j] \in {"stepping", "saving"}
    BY <1>0, <1>9 DEF Resets, Returns, StepFails, Goes, TurnState
  <2>4. JobAligned(j)'
    BY <2>1, <2>2, <2>3 DEF JobAligned
  <2> QED
    BY <1>6, <2>1, <2>2, <2>4 DEF InSave
<1>10. CASE Saves(j)
  <2>1. pc[j] = "saving" /\ turn' = turn
    BY <1>10 DEF Saves, Goes
  <2>2. agents'[a].mem = agents[a].mem /\ (agents'[a].saved <=> Storable(Mem(j)))
    BY <1>0, <1>1, <1>10 DEF Saves, AgentState
  <2>3. Storable(Mem(j)) => disk' = agents[a].mem /\ pc'[j] = "ending"
    BY <1>0, <1>10 DEF Saves, Goes, Mem
  <2>4. ~Storable(Mem(j)) => pc'[j] = "merging"
    BY <1>0, <1>10 DEF Saves, Goes
  <2>5. Own
    BY <1>0, <2>2, <2>3, PrefixOfItself
  <2>6. JobAligned(j)'
    BY <2>1, <2>2, <2>3, <2>4 DEF JobAligned, InSave
  <2> QED
    BY <1>6, <2>1, <2>5, <2>6 DEF InTurn
<1>11. CASE SavesMerged(j)
  <2> DEFINE rows == MergeAppend(turn[j].found, Mem(j), turn[j].base)
  <2>1. pc[j] = "merged" /\ turn'[j].agent = a
    BY <1>0, <1>11 DEF SavesMerged, Goes, TurnState
  <2>2. agents'[a].saved <=> Storable(rows)
    BY <1>0, <1>1, <1>11 DEF SavesMerged, AgentState
  <2>3. Storable(rows) => disk' = rows /\ agents'[a].mem = rows /\ pc'[j] = "ending"
    BY <1>0, <1>1, <1>11 DEF SavesMerged, Goes, AgentState
  <2>4. ~Storable(rows) => pc'[j] = "merging"
    BY <1>0, <1>11 DEF SavesMerged, Goes
  <2> HIDE DEF rows
  <2>5. Own
    BY <1>0, <2>2, <2>3, PrefixOfItself
  <2>6. JobAligned(j)'
    BY <2>1, <2>2, <2>3, <2>4 DEF JobAligned, InSave
  <2> QED
    BY <1>6, <2>1, <2>5, <2>6 DEF InTurn
<1>12. CASE Resyncs(j)
  <2>1. pc[j] = "resyncing" /\ pc'[j] = "ending"
    BY <1>0, <1>12 DEF Resyncs, Goes
  <2>2. agents'[a].mem = disk /\ disk' = disk
    BY <1>0, <1>1, <1>12 DEF Resyncs, AgentState
  <2>3. Own
    BY <1>0, <2>2, PrefixOfItself
  <2>4. JobAligned(j)'
    BY <2>1 DEF JobAligned, InSave
  <2> QED
    BY <1>6, <2>1, <2>3, <2>4 DEF InTurn
<1> QED
  BY <1>7, <1>8, <1>9, <1>10, <1>11, <1>12

\* A prefix that is cut at its end is a prefix.
LEMMA CutPrefix ==
    ASSUME NEW s \in Seq(Row), NEW t \in Seq(Row), IsPrefix(s, t), NEW n \in 0..Len(s)
    PROVE  IsPrefix(SubSeq(s, 1, n), t)
<1> DEFINE cut == SubSeq(s, 1, n)
<1>1. cut \in Seq(Row) /\ Len(cut) = n /\ \A i \in 1..n : cut[i] = s[i]
  OBVIOUS
<1>2. Len(s) <= Len(t) /\ \A i \in 1..Len(s) : s[i] = t[i]
  BY PrefixAgrees
<1> HIDE DEF cut
<1>3. Len(cut) <= Len(t) /\ \A i \in 1..Len(cut) : cut[i] = t[i]
  BY <1>1, <1>2
<1>4. IsPrefix(cut, t)
  BY <1>1, <1>3, PrefixAgrees
<1> QED
  BY <1>4 DEF cut

\* The agent that is built is one that no job has.
LEMMA BuildsAligned ==
    ASSUME IInv, IInv', RowsInv, NEW j \in Jobs, Builds(j)
    PROVE  RowsInv'
<1> DEFINE found == turn[j].found
           fresh == CHOOSE a \in Agents :
                      a \notin {resident, evictor.agent} \cup {turn[i].agent : i \in Jobs}
           kept == SubSeq(found, 1, Len(found) - StripLen(found, pending))
<1>0. /\ turn \in [Jobs -> TurnState] /\ pc \in [Jobs -> Places] /\ disk \in Seq(Row)
      /\ pending \in Seq(Messages) /\ agents \in [Agents -> AgentState]
  BY DEF IInv, TypeOK, TypesOfJobs, TypesOfRows, TypesOfAgents
<1>1. disk' = disk /\ pc[j] = "building" /\ pc'[j] = "built"
      /\ \A i \in Jobs \ {j} : turn'[i] = turn[i] /\ pc'[i] = pc[i]
  BY <1>0 DEF Builds, Goes
<1>2. IsPrefix(disk, disk')
  BY <1>0, <1>1, PrefixOfItself
<1>3. JobAligned(j)'
  BY <1>1 DEF JobAligned, InSave, InTurn
<1>4. CASE resident # 0
  <2>1. agents' = agents
    BY <1>4 DEF Builds
  <2> QED
    BY <1>1, <1>2, <2>1, AgentsKept DEF InSave, InTurn
<1>5. CASE resident = 0
  <2>1. fresh \in Agents /\ \A i \in Jobs : turn[i].agent # fresh
    BY <1>1, <1>5, FreshAgent
  <2>2. agents' = [agents EXCEPT ![fresh] = [agents[fresh] EXCEPT !.mem = kept]]
    BY <1>5 DEF Builds
  <2>3. IsPrefix(kept, disk')
    <3>1. found \in Seq(Row) /\ IsPrefix(found, disk)
      BY <1>0, <1>1 DEF TurnState, RowsInv, JobAligned
    <3>2. StripLen(found, pending) \in 0..Len(found)
      BY <1>0, <3>1, StripLenTyped
    <3>3. Len(found) - StripLen(found, pending) \in 0..Len(found)
      BY <3>1, <3>2
    <3> QED
      BY <1>0, <1>1, <3>1, <3>3, CutPrefix
  <2> HIDE DEF fresh, kept
  <2>4. agents'[fresh].mem = kept /\ \A a \in Agents \ {fresh} : agents'[a] = agents[a]
    BY <1>0, <2>1, <2>2 DEF AgentState
  <2>5. SavedIsStored'
    BY <1>2, <2>3, <2>4, SavedStays
  <2>6. ASSUME NEW i \in Jobs \ {j}
        PROVE  JobAligned(i)'
    <3>1. pc[i] \in InSave => turn[i].agent \in Agents
      BY InHand DEF InSave, Working, Turning
    <3> QED
      BY <1>1, <1>2, <2>1, <2>4, <3>1, JobStays
  <2> QED
    BY <1>3, <2>5, <2>6 DEF RowsInv
<1> QED
  BY <1>4, <1>5

\* An agent that is released keeps its transcript as long as a job has it.
LEMMA ReleasedRows ==
    ASSUME IInv, NEW js \in SUBSET Jobs, NEW detached \in BOOLEAN, Release(js, detached),
           NEW a \in Agents
    PROVE  \/ agents'[a].saved = agents[a].saved /\ agents'[a].mem = agents[a].mem
           \/ agents'[a] = NoAgent /\ \A i \in js : turn[i].agent # a
<1>1. agents[a] \in AgentState
  BY DEF IInv, TypeOK, TypesOfAgents
<1>2. agents'[a] = IF \E i \in js : turn[i].agent = a
                   THEN [agents[a] EXCEPT !.stopped = @ \/ (detached /\ a = resident)]
                   ELSE IF a = resident /\ ~detached THEN agents[a] ELSE NoAgent
  BY DEF Release
<1> QED
  BY <1>1, <1>2 DEF AgentState

LEMMA LeavesAligned ==
    ASSUME IInv, IInv', RowsInv, NEW j \in Jobs, Leaves(j)
    PROVE  RowsInv'
<1>0. /\ turn \in [Jobs -> TurnState] /\ pc \in [Jobs -> Places] /\ disk \in Seq(Row)
  BY DEF IInv, TypeOK, TypesOfJobs, TypesOfRows
<1>1. /\ disk' = disk /\ pc'[j] = "finishing"
      /\ \A i \in Jobs \ {j} : turn'[i] = turn[i] /\ pc'[i] = pc[i]
  BY <1>0 DEF Leaves, Goes
<1>2. IsPrefix(disk, disk') /\ IsPrefix(<<>>, disk')
  BY <1>0, <1>1, PrefixOfItself, EmptyIsPrefix
<1>3. ASSUME NEW a \in Agents
      PROVE  \/ agents'[a].saved = agents[a].saved /\ agents'[a].mem = agents[a].mem
             \/ agents'[a] = NoAgent /\ \A i \in Jobs \ {j} : turn[i].agent # a
  <2>1. Release(Jobs \ {j}, closePending /\ resident # 0 /\ ~active)
        /\ (closePending /\ resident # 0 /\ ~active) \in BOOLEAN
    BY DEF Leaves
  <2> QED
    BY <2>1, ReleasedRows
<1>4. SavedIsStored'
  BY <1>2, <1>3, SavedStays DEF NoAgent
<1>5. JobAligned(j)'
  BY <1>1 DEF JobAligned, InSave, InTurn
<1>6. ASSUME NEW i \in Jobs \ {j}
      PROVE  JobAligned(i)'
  <2>1. pc[i] \in InSave => turn[i].agent \in Agents
    BY InHand DEF InSave, Working, Turning
  <2> QED
    BY <1>1, <1>2, <1>3, <2>1, JobStays
<1> QED
  BY <1>4, <1>5, <1>6 DEF RowsInv

LEMMA OthersAligned ==
    ASSUME IInv, IInv', RowsInv, IsPrefix(disk, disk'),
           \/ Takes \/ Writes \/ EvictScans \/ ControlStep \/ UNCHANGED vars
           \/ \E q \in Queued : RequestStep(q) \/ PersistQueuedFails(q)
           \/ \E closing \in BOOLEAN : StopReads(closing)
    PROVE  RowsInv'
<1>1. pc' = pc /\ turn' = turn
  BY DEF Takes, Writes, EvictScans, ControlStep, StopReads, StopRecords, StopCancels, StopEnds,
         CloseMarks, EvictChecks, EvictDetaches, RequestStep, Reserves, Refused, PersistsQueued,
         Schedules, PersistQueuedFails, jobs, vars
<1>2. CASE agents' = agents
  BY <1>1, <1>2, JobsKept
<1>3. CASE StopCancels
  <2>1. agents \in [Agents -> AgentState]
    BY DEF IInv, TypeOK, TypesOfAgents
  <2>2. \A a \in Agents : agents'[a].saved = agents[a].saved /\ agents'[a].mem = agents[a].mem
    BY <1>3, <2>1 DEF StopCancels, AgentState
  <2> QED
    BY <1>1, <2>2, JobsKept
<1>4. CASE StopEnds \/ EvictDetaches
  <2>1. PICK detached \in BOOLEAN : Release(Jobs, detached)
    <3>1. CASE StopEnds
      <4>1. Release(Jobs, stopper.closing /\ resident # 0 /\ ~active)
            /\ (stopper.closing /\ resident # 0 /\ ~active) \in BOOLEAN
        BY <3>1 DEF StopEnds
      <4> QED
        BY <4>1
    <3>2. CASE EvictDetaches
      <4>1. Release(Jobs, resident = evictor.agent) /\ (resident = evictor.agent) \in BOOLEAN
        BY <3>2 DEF EvictDetaches
      <4> QED
        BY <4>1
    <3> QED
      BY <1>4, <3>1, <3>2
  <2>2. \A a \in Agents : \/ agents'[a].saved = agents[a].saved /\ agents'[a].mem = agents[a].mem
                          \/ agents'[a] = NoAgent /\ \A i \in Jobs : turn[i].agent # a
    BY <2>1, ReleasedRows
  <2> QED
    BY <1>1, <2>2, JobsKept
<1>5. agents' = agents \/ StopCancels \/ StopEnds \/ EvictDetaches
  BY DEF Takes, Writes, EvictScans, ControlStep, StopReads, StopRecords, CloseMarks, EvictChecks,
         RequestStep, Reserves, Refused, PersistsQueued, Schedules, PersistQueuedFails, agent, vars
<1> QED
  BY <1>2, <1>3, <1>4, <1>5

LEMMA DrainerAligned ==
    ASSUME IInv, IInv', RowsInv, IsPrefix(disk, disk'), DrainerStep
    PROVE  RowsInv'
<1>1. turn' = turn /\ agents' = agents /\ (pc' = pc \/ pc' = [pc EXCEPT ![Drain] = "dispatched"])
  BY DEF DrainerStep, Looks, DispatchesDrain, Judges, Retires, jobs, agent
<1>2. Drain \in Jobs /\ pc \in [Jobs -> Places]
  BY DEF Jobs, IInv, TypeOK, TypesOfJobs
<1>3. CASE pc' = pc
  BY <1>1, <1>3, JobsKept
<1>4. CASE pc' = [pc EXCEPT ![Drain] = "dispatched"]
  BY <1>1, <1>2, <1>4, AgentsKept DEF InSave, InTurn
<1> QED
  BY <1>1, <1>3, <1>4

LEMMA RowsKeep ==
    ASSUME IInv, IInv', RowsInv, [Next]_vars
    PROVE  RowsInv'
<1>1. IsPrefix(disk, disk')
  BY DiskGrows
<1>2. ASSUME NEW j \in Jobs, Dispatch(j) \/ JobStep(j) \/ JobFault(j)
      PROVE  RowsInv'
  BY <1>1, <1>2, QuietJobAligned, OwnJobAligned, BuildsAligned, LeavesAligned DEF JobStep,
     JobFault
<1> QED
  BY <1>1, <1>2, OthersAligned, DrainerAligned DEF Next

LEMMA RowsInductive == Spec => []RowsInv
<1>1. Init => RowsInv
  <2> SUFFICES ASSUME Init PROVE RowsInv
    OBVIOUS
  <2>1. IsPrefix(<<>>, disk)
    BY EmptyIsPrefix, EmptySeqTyped DEF Init
  <2> QED
    BY <2>1 DEF Init, RowsInv, SavedIsStored, JobAligned, NoAgent, InSave, InTurn
<1>2. IInv /\ IInv' /\ RowsInv /\ [Next]_vars => RowsInv'
  BY RowsKeep
<1> QED
  BY <1>1, <1>2, Inductive, PTL DEF Spec

\* A transcript that was rebuilt, saved or converged is a prefix of the stored
\* rows until its next turn begins.
THEOREM SavedStaysAligned == Spec => []Aligned
<1>1. RowsInv => Aligned
  BY DEF RowsInv, SavedIsStored, Aligned
<1> QED
  BY <1>1, RowsInductive, PTL

-----------------------------------------------------------------------------
(* The queue: the inductive invariant. *)

Turned(m) == \E i \in DOMAIN turned : turned[i] = m
Waits(m) == \E i \in DOMAIN pending : pending[i] = m

\* The places of a job that has not pushed its message.
Unpushed == {"new", "dispatched", "waiting", "persisting", "pushing"}
Unsent(m) == \/ m \in Sends /\ pc[m] \in Unpushed
             \/ m \in Queued /\ request[m] = "new"

\* The places of a job whose message was turned and is still in the queue.
Served == InTurn \cup {"shifting"}

\* A message enters the queue once.
EntersOnce ==
    /\ \A m \in Messages : Unsent(m) => ~Waits(m) /\ ~Turned(m)
    /\ \A j \in Jobs : pc[j] = "picked" => ~Unsent(turn[j].msg)
    /\ \A i, k \in DOMAIN pending : pending[i] = pending[k] => i = k

OneRuns == \A i, j \in Running : i = j

\* A message that was picked is turned once, and that one is at the front.
HandsOut ==
    /\ \A i, k \in DOMAIN turned : turned[i] = turned[k] => i = k
    /\ \A j \in Jobs : pc[j] = "picked" =>
           /\ ~Turned(turn[j].msg)
           /\ \A k \in DOMAIN pending : pending[k] = turn[j].msg => k = 1
    /\ \A k \in DOMAIN pending : Turned(pending[k]) =>
           k = 1 /\ \E j \in Jobs : pc[j] \in Served

\* While nothing fails, the front of the queue is the message being turned.
FrontIsTurned ==
    /\ \A j \in Jobs : pc[j] \in Served \cup {"picked"} =>
           /\ pending # <<>> /\ pending[1] = turn[j].msg
           /\ pc[j] \in Served => Turned(turn[j].msg)
    /\ \A m \in acked : Waits(m) \/ Turned(m)
    /\ \A q \in Queued : request[q] \in {"persisting", "scheduling"} => Waits(q) \/ Turned(q)

QInv ==
    /\ EntersOnce
    /\ overlapped \/ (OneRuns /\ HandsOut)
    /\ overlapped \/ faults > 0 \/ FrontIsTurned

-----------------------------------------------------------------------------
(* Steps that leave the queue alone. *)

LEMMA Typed ==
    ASSUME IInv
    PROVE  /\ turn \in [Jobs -> TurnState] /\ pc \in [Jobs -> Places]
           /\ pending \in Seq(Messages) /\ turned \in Seq(Messages) /\ acked \subseteq Messages
           /\ request \in [Queued -> {"new", "persisting", "scheduling", "accepted", "refused", "failed"}]
           /\ faults \in Nat /\ Sends \subseteq Jobs /\ Drain \in Jobs /\ Drain \notin Messages
           /\ Running \subseteq Jobs
<1>1. faults \in Nat
  BY CapsAssumption DEF IInv, TypeOK, TypesOfControl
<1> QED
  BY <1>1, MessagesAssumption DEF IInv, TypeOK, TypesOfJobs, TypesOfRows, TypesOfControl,
     Jobs, Messages,
                              Running

LEMMA Quiet ==
    ASSUME IInv, IInv', QInv, pending' = pending, turned' = turned,
           \A m \in acked' : m \in acked \/ (m \in Queued /\ request[m] = "scheduling"),
           \A q \in Queued : /\ request'[q] = "new" => request[q] = "new"
                             /\ request'[q] \in {"persisting", "scheduling"} =>
                                    request[q] \in {"persisting", "scheduling"},
           overlapped => overlapped', ~overlapped' => OneRuns', faults > 0 => faults' > 0,
           \A j \in Jobs : /\ j \in Sends /\ pc'[j] \in Unpushed => pc[j] \in Unpushed
                           /\ pc'[j] = "picked" => pc[j] = "picked" /\ turn'[j].msg = turn[j].msg
                           /\ pc'[j] \in Served <=> pc[j] \in Served
                           /\ pc'[j] \in Served => turn'[j].msg = turn[j].msg
    PROVE  QInv'
<1>1. \A m \in Messages \cup {None} : Unsent(m)' => Unsent(m)
  BY Typed DEF Unsent
<1>2. \A m : (Waits(m)' <=> Waits(m)) /\ (Turned(m)' <=> Turned(m))
  BY DEF Waits, Turned
<1>3. EntersOnce'
  BY <1>1, <1>2, Typed DEF QInv, EntersOnce, TurnState
<1>4. HandsOut => HandsOut'
  BY <1>2 DEF HandsOut
<1>5. FrontIsTurned => FrontIsTurned'
  BY <1>2 DEF FrontIsTurned
<1> QED
  BY <1>3, <1>4, <1>5, Typed DEF QInv

LEMMA QuietJob ==
    ASSUME IInv, IInv', QInv, NEW j \in Jobs, pending' = pending, turned' = turned, acked' = acked,
           request' = request, overlapped' = overlapped, faults' = faults \/ faults' = faults + 1,
           \A i \in Jobs \ {j} : pc'[i] = pc[i] /\ turn'[i] = turn[i],
           j \in Running' => j \in Running,
           j \in Sends /\ pc'[j] \in Unpushed => pc[j] \in Unpushed,
           pc'[j] # "picked",
           pc'[j] \in Served <=> pc[j] \in Served,
           pc'[j] \in Served => turn'[j].msg = turn[j].msg
    PROVE  QInv'
<1>1. Running' \subseteq Running
  BY DEF Running
<1>2. ~overlapped' => OneRuns'
  BY <1>1 DEF QInv, OneRuns
<1>3. faults > 0 => faults' > 0
  BY Typed
<1> QED
  BY <1>2, <1>3, Quiet

LEMMA QuietJobs ==
    ASSUME IInv, IInv', QInv, NEW j \in Jobs,
           \/ Dispatch(j) \/ Fetches(j) \/ Persists(j) \/ PersistFails(j) \/ Starts(j)
           \/ Loads(j) \/ Builds(j) \/ BootstrapFails(j) \/ ChecksCancel(j) \/ StopsDraining(j)
           \/ Resets(j) \/ Replies(j) \/ Returns(j) \/ StepFails(j) \/ Saves(j) \/ SaveFails(j)
           \/ Merges(j) \/ SavesMerged(j) \/ Resyncs(j) \/ Ends(j) \/ Leaves(j) \/ Finishes(j)
    PROVE  QInv'
<1> DEFINE Calm == /\ pending' = pending /\ turned' = turned /\ acked' = acked
                   /\ request' = request /\ overlapped' = overlapped
                   /\ faults' = faults \/ faults' = faults + 1
                   /\ \A i \in Jobs \ {j} : pc'[i] = pc[i] /\ turn'[i] = turn[i]
           Still == /\ j \in Running' => j \in Running
                    /\ j \in Sends /\ pc'[j] \in Unpushed => pc[j] \in Unpushed
                    /\ pc'[j] # "picked"
                    /\ pc'[j] \in Served <=> pc[j] \in Served
                    /\ pc'[j] \in Served => turn'[j].msg = turn[j].msg
<1>0. turn \in [Jobs -> TurnState] /\ pc \in [Jobs -> Places]
  BY Typed
<1> SUFFICES Calm /\ Still
  BY QuietJob
<1>1. CASE Dispatch(j)
  <2>1. Calm
    BY <1>0, <1>1 DEF Dispatch, Goes, jobs, queue, bounds, ghosts
  <2>2. Still
    BY <1>0, <1>1 DEF Dispatch, Goes, Running, Unpushed, Served, InTurn, TurnState
  <2> QED
    BY <2>1, <2>2
<1>2. CASE Fetches(j)
  <2>1. Calm
    BY <1>0, <1>2 DEF Fetches, Goes, jobs, queue, bounds, ghosts
  <2>2. Still
    BY <1>0, <1>2 DEF Fetches, Goes, Running, Unpushed, Served, InTurn, TurnState
  <2> QED
    BY <2>1, <2>2
<1>3. CASE Persists(j)
  <2>1. Calm
    BY <1>0, <1>3 DEF Persists, Goes, jobs, queue, bounds, ghosts
  <2>2. Still
    BY <1>0, <1>3 DEF Persists, Goes, Running, Unpushed, Served, InTurn, TurnState
  <2> QED
    BY <2>1, <2>2
<1>4. CASE PersistFails(j)
  <2>1. Calm
    BY <1>0, <1>4 DEF PersistFails, Goes, jobs, queue, bounds, ghosts
  <2>2. Still
    BY <1>0, <1>4 DEF PersistFails, Goes, Running, Unpushed, Served, InTurn, TurnState
  <2> QED
    BY <2>1, <2>2
<1>5. CASE Starts(j)
  <2>1. Calm
    BY <1>0, <1>5 DEF Starts, Goes, jobs, queue, bounds, ghosts
  <2>2. Still
    BY <1>0, <1>5 DEF Starts, Goes, Running, Unpushed, Served, InTurn, TurnState
  <2> QED
    BY <2>1, <2>2
<1>6. CASE Loads(j)
  <2>1. Calm
    BY <1>0, <1>6 DEF Loads, Goes, jobs, queue, bounds, ghosts
  <2>2. Still
    BY <1>0, <1>6 DEF Loads, Goes, Running, Unpushed, Served, InTurn, TurnState
  <2> QED
    BY <2>1, <2>2
<1>7. CASE Builds(j)
  <2>1. Calm
    BY <1>0, <1>7 DEF Builds, Goes, jobs, queue, bounds, ghosts
  <2>2. Still
    BY <1>0, <1>7 DEF Builds, Goes, Running, Unpushed, Served, InTurn, TurnState
  <2> QED
    BY <2>1, <2>2
<1>8. CASE BootstrapFails(j)
  <2>1. Calm
    BY <1>0, <1>8 DEF BootstrapFails, Goes, jobs, queue, bounds, ghosts
  <2>2. Still
    BY <1>0, <1>8 DEF BootstrapFails, Goes, Running, Unpushed, Served, InTurn, TurnState
  <2> QED
    BY <2>1, <2>2
<1>9. CASE ChecksCancel(j)
  <2>1. Calm
    BY <1>0, <1>9 DEF ChecksCancel, Goes, jobs, queue, bounds, ghosts
  <2>2. Still
    BY <1>0, <1>9 DEF ChecksCancel, Goes, Running, Unpushed, Served, InTurn, TurnState
  <2> QED
    BY <2>1, <2>2
<1>10. CASE StopsDraining(j)
  <2>1. Calm
    BY <1>0, <1>10 DEF StopsDraining, Goes, jobs, queue, bounds, ghosts
  <2>2. Still
    BY <1>0, <1>10 DEF StopsDraining, Goes, Running, Unpushed, Served, InTurn, TurnState
  <2> QED
    BY <2>1, <2>2
<1>11. CASE Resets(j)
  <2>1. Calm
    BY <1>0, <1>11 DEF Resets, Goes, jobs, queue, bounds, ghosts
  <2>2. Still
    BY <1>0, <1>11 DEF Resets, Goes, Running, Unpushed, Served, InTurn, TurnState
  <2> QED
    BY <2>1, <2>2
<1>12. CASE Replies(j)
  <2>1. Calm
    BY <1>0, <1>12 DEF Replies, Goes, jobs, queue, bounds, ghosts
  <2>2. Still
    BY <1>0, <1>12 DEF Replies, Goes, Running, Unpushed, Served, InTurn, TurnState
  <2> QED
    BY <2>1, <2>2
<1>13. CASE Returns(j)
  <2>1. Calm
    BY <1>0, <1>13 DEF Returns, Goes, jobs, queue, bounds, ghosts
  <2>2. Still
    BY <1>0, <1>13 DEF Returns, Goes, Running, Unpushed, Served, InTurn, TurnState
  <2> QED
    BY <2>1, <2>2
<1>14. CASE StepFails(j)
  <2>1. Calm
    BY <1>0, <1>14 DEF StepFails, Goes, jobs, queue, bounds, ghosts
  <2>2. Still
    BY <1>0, <1>14 DEF StepFails, Goes, Running, Unpushed, Served, InTurn, TurnState
  <2> QED
    BY <2>1, <2>2
<1>15. CASE Saves(j)
  <2>1. Calm
    BY <1>0, <1>15 DEF Saves, Goes, jobs, queue, bounds, ghosts
  <2>2. Still
    BY <1>0, <1>15 DEF Saves, Goes, Running, Unpushed, Served, InTurn, TurnState
  <2> QED
    BY <2>1, <2>2
<1>16. CASE SaveFails(j)
  <2>1. Calm
    BY <1>0, <1>16 DEF SaveFails, Goes, jobs, queue, bounds, ghosts
  <2>2. Still
    BY <1>0, <1>16 DEF SaveFails, Goes, Running, Unpushed, Served, InTurn, TurnState
  <2> QED
    BY <2>1, <2>2
<1>17. CASE Merges(j)
  <2>1. Calm
    BY <1>0, <1>17 DEF Merges, Goes, jobs, queue, bounds, ghosts
  <2>2. Still
    BY <1>0, <1>17 DEF Merges, Goes, Running, Unpushed, Served, InTurn, TurnState
  <2> QED
    BY <2>1, <2>2
<1>18. CASE SavesMerged(j)
  <2>1. Calm
    BY <1>0, <1>18 DEF SavesMerged, Goes, jobs, queue, bounds, ghosts
  <2>2. Still
    BY <1>0, <1>18 DEF SavesMerged, Goes, Running, Unpushed, Served, InTurn, TurnState
  <2> QED
    BY <2>1, <2>2
<1>19. CASE Resyncs(j)
  <2>1. Calm
    BY <1>0, <1>19 DEF Resyncs, Goes, jobs, queue, bounds, ghosts
  <2>2. Still
    BY <1>0, <1>19 DEF Resyncs, Goes, Running, Unpushed, Served, InTurn, TurnState
  <2> QED
    BY <2>1, <2>2
<1>20. CASE Ends(j)
  <2>1. Calm
    BY <1>0, <1>20 DEF Ends, Goes, jobs, queue, bounds, ghosts
  <2>2. Still
    BY <1>0, <1>20 DEF Ends, Goes, Running, Unpushed, Served, InTurn, TurnState
  <2> QED
    BY <2>1, <2>2
<1>21. CASE Leaves(j)
  <2>1. Calm
    BY <1>0, <1>21 DEF Leaves, Goes, jobs, queue, bounds, ghosts
  <2>2. Still
    BY <1>0, <1>21 DEF Leaves, Goes, Running, Unpushed, Served, InTurn, TurnState
  <2> QED
    BY <2>1, <2>2
<1>22. CASE Finishes(j)
  <2>1. Calm
    BY <1>0, <1>22 DEF Finishes, Goes, jobs, queue, bounds, ghosts
  <2>2. Still
    BY <1>0, <1>22, MessagesAssumption DEF Finishes, Goes, Running, Unpushed, Served, InTurn,
       TurnState
  <2> QED
    BY <2>1, <2>2
<1> QED
  BY <1>1, <1>2, <1>3, <1>4, <1>5, <1>6, <1>7, <1>8, <1>9, <1>10, <1>11, <1>12, <1>13, <1>14,
         <1>15, <1>16, <1>17, <1>18, <1>19, <1>20, <1>21, <1>22

\* A job gets its lock: it may be the second one to run, and then jobs overlap.
LEMMA LocksQueue ==
    ASSUME IInv, IInv', QInv, NEW j \in Jobs, Locks(j)
    PROVE  QInv'
<1>0. turn \in [Jobs -> TurnState] /\ pc \in [Jobs -> Places]
  BY Typed
<1>1. /\ pending' = pending /\ turned' = turned /\ acked' = acked /\ request' = request
      /\ faults' = faults /\ turn' = turn /\ pc[j] = "waiting"
      /\ pc' = [pc EXCEPT ![j] = IF j = Drain THEN "starting" ELSE "persisting"]
      /\ overlapped' = (overlapped \/ Running # {})
  BY DEF Locks, Goes, queue, bounds
<1>2. ~overlapped' => OneRuns'
  BY <1>0, <1>1 DEF OneRuns, Running
<1>3. \A i \in Jobs : /\ i \in Sends /\ pc'[i] \in Unpushed => pc[i] \in Unpushed
                      /\ pc'[i] = "picked" => pc[i] = "picked"
                      /\ pc'[i] \in Served <=> pc[i] \in Served
  BY <1>0, <1>1 DEF Unpushed, Served, InTurn
<1> QED
  BY <1>1, <1>2, <1>3, Quiet

-----------------------------------------------------------------------------
(* Steps on the queue. *)

\* A message enters at the end.
LEMMA Enters ==
    ASSUME IInv, IInv', QInv, NEW m \in Messages, Unsent(m), pending' = Append(pending, m),
           turned' = turned, acked' \subseteq acked \cup {m},
           \A x \in Messages \cup {None} : Unsent(x)' => Unsent(x) /\ x # m,
           \A q \in Queued : request'[q] \in {"persisting", "scheduling"} =>
                                 request[q] \in {"persisting", "scheduling"} \/ q = m,
           overlapped' = overlapped, faults' = faults,
           \A j \in Jobs : /\ pc'[j] = "picked" => pc[j] = "picked" /\ turn'[j].msg = turn[j].msg
                           /\ pc'[j] \in Served <=> pc[j] \in Served
                           /\ pc'[j] \in Served => turn'[j].msg = turn[j].msg
                           /\ j \in Running' => j \in Running
    PROVE  QInv'
<1>0. pending \in Seq(Messages) /\ \A j \in Jobs : turn'[j].msg \in Messages \cup {None}
  <2>1. turn' \in [Jobs -> TurnState]
    BY DEF IInv, TypeOK, TypesOfJobs
  <2> QED
    BY <2>1, Typed DEF TurnState
<1>1. ~Waits(m) /\ ~Turned(m)
  BY DEF QInv, EntersOnce
<1>2. /\ DOMAIN pending' = 1 .. Len(pending) + 1 /\ DOMAIN pending = 1 .. Len(pending) /\ Len(pending) \in Nat
      /\ pending'[Len(pending) + 1] = m /\ \A k \in DOMAIN pending : pending'[k] = pending[k]
  BY <1>0
<1>3. \A x : (Turned(x)' <=> Turned(x)) /\ (Waits(x)' <=> Waits(x) \/ x = m)
  BY <1>2 DEF Waits, Turned
<1>4. EntersOnce'
  <2>1. \A x \in Messages : Unsent(x)' => ~Waits(x)' /\ ~Turned(x)'
    BY <1>3 DEF QInv, EntersOnce
  <2>2. \A j \in Jobs : pc'[j] = "picked" => ~Unsent(turn[j].msg)'
    BY <1>0 DEF QInv, EntersOnce, Unsent
  <2>3. \A i, k \in DOMAIN pending' : pending'[i] = pending'[k] => i = k
    BY <1>1, <1>2 DEF QInv, EntersOnce, Waits
  <2> QED
    BY <2>1, <2>2, <2>3 DEF EntersOnce
<1>5. OneRuns => OneRuns'
  <2>1. Running' \subseteq Running
    BY DEF Running
  <2> QED
    BY <2>1 DEF OneRuns
<1>6. HandsOut => HandsOut'
  <2> SUFFICES ASSUME HandsOut PROVE HandsOut'
    OBVIOUS
  <2>1. \A j \in Jobs : pc'[j] = "picked" => ~Turned(turn[j].msg)'
    BY <1>3 DEF HandsOut, Turned
  <2>2. ASSUME NEW j \in Jobs, pc'[j] = "picked", NEW k \in DOMAIN pending', pending'[k] = turn'[j].msg
        PROVE  k = 1
    <3>1. turn'[j].msg # m
      BY <2>2 DEF QInv, EntersOnce
    <3> QED
      BY <1>2, <2>2, <3>1 DEF HandsOut
  <2>3. ASSUME NEW k \in DOMAIN pending', Turned(pending[k])'
        PROVE  k = 1 /\ \E j \in Jobs : pc'[j] \in Served
    <3>1. k \in DOMAIN pending /\ Turned(pending[k])
      BY <1>1, <1>2, <1>3, <2>3 DEF Turned
    <3> QED
      BY <3>1 DEF HandsOut
  <2> QED
    BY <2>1, <2>2, <2>3 DEF HandsOut
<1>7. FrontIsTurned => FrontIsTurned'
  <2> SUFFICES ASSUME FrontIsTurned PROVE FrontIsTurned'
    OBVIOUS
  <2>1. ASSUME NEW j \in Jobs, pc'[j] \in Served \cup {"picked"}
        PROVE  /\ pending' # <<>> /\ pending'[1] = turn'[j].msg
               /\ pc'[j] \in Served => Turned(turn[j].msg)'
    <3>1. pending # <<>> /\ pending[1] = turn[j].msg /\ turn'[j].msg = turn[j].msg
          /\ (pc'[j] \in Served => Turned(turn[j].msg))
      BY <2>1 DEF FrontIsTurned
    <3>2. 1 \in DOMAIN pending /\ pending' # <<>>
      BY <1>0, <1>2, <3>1
    <3> QED
      BY <1>2, <1>3, <3>1, <3>2 DEF Turned
  <2>2. \A x \in acked' : Waits(x)' \/ Turned(x)'
    BY <1>3 DEF FrontIsTurned
  <2>3. \A q \in Queued : request'[q] \in {"persisting", "scheduling"} => Waits(q)' \/ Turned(q)'
    BY <1>3 DEF FrontIsTurned
  <2> QED
    BY <2>1, <2>2, <2>3 DEF FrontIsTurned
<1> QED
  BY <1>4, <1>5, <1>6, <1>7 DEF QInv

LEMMA PushesQueue ==
    ASSUME IInv, IInv', QInv, NEW j \in Jobs, Pushes(j)
    PROVE  QInv'
<1>0. turn \in [Jobs -> TurnState] /\ pc \in [Jobs -> Places] /\ j \in Sends /\ j \in Messages
  BY Typed DEF Pushes, Goes, IInv, Equipped, EquippedJob, Messages
<1>1. /\ pc[j] = "pushing" /\ pc' = [pc EXCEPT ![j] = "starting"] /\ turn' = turn
      /\ pending' = Append(pending, j) /\ acked' = acked \cup {j} /\ turned' = turned
      /\ request' = request /\ overlapped' = overlapped /\ faults' = faults
  BY DEF Pushes, Goes, queue, bounds
<1>2. Unsent(j)
  BY <1>0, <1>1 DEF Unsent, Unpushed
<1>3. \A x \in Messages \cup {None} : Unsent(x)' => Unsent(x) /\ x # j
  BY <1>0, <1>1, MessagesAssumption, Typed DEF Unsent, Unpushed
<1>4. \A i \in Jobs : /\ pc'[i] = "picked" => pc[i] = "picked"
                      /\ pc'[i] \in Served <=> pc[i] \in Served
                      /\ i \in Running' => i \in Running
  BY <1>0, <1>1 DEF Served, InTurn, Running
<1> QED
  BY <1>0, <1>1, <1>2, <1>3, <1>4, Enters

LEMMA ReservesQueue ==
    ASSUME IInv, IInv', QInv, NEW q \in Queued, Reserves(q)
    PROVE  QInv'
<1>0. request \in [Queued -> {"new", "persisting", "scheduling", "accepted", "refused", "failed"}]
      /\ q \in Messages
  BY Typed DEF Messages
<1>1. /\ pc' = pc /\ turn' = turn /\ pending' = Append(pending, q) /\ acked' = acked
      /\ request[q] = "new" /\ request' = [request EXCEPT ![q] = "persisting"]
      /\ turned' = turned /\ overlapped' = overlapped /\ faults' = faults
  BY DEF Reserves, Moves, jobs, bounds, ghosts
<1>2. Unsent(q)
  BY <1>1 DEF Unsent
<1>3. \A x \in Messages \cup {None} : Unsent(x)' => Unsent(x) /\ x # q
  BY <1>0, <1>1, MessagesAssumption DEF Unsent
<1>4. \A p \in Queued : request'[p] \in {"persisting", "scheduling"} =>
                            request[p] \in {"persisting", "scheduling"} \/ p = q
  BY <1>0, <1>1
<1>5. Running' = Running
  BY <1>1 DEF Running
<1> QED
  BY <1>0, <1>1, <1>2, <1>3, <1>4, <1>5, Enters

LEMMA PicksQueue ==
    ASSUME IInv, IInv', QInv, NEW j \in Jobs, Picks(j)
    PROVE  QInv'
<1>0. turn \in [Jobs -> TurnState] /\ pc \in [Jobs -> Places] /\ pending \in Seq(Messages)
  BY Typed
<1>1. /\ pc[j] = "draining" /\ pending # <<>> /\ turn'[j].msg = pending[1] /\ pc'[j] = "picked"
      /\ \A i \in Jobs \ {j} : pc'[i] = pc[i] /\ turn'[i] = turn[i]
  BY <1>0 DEF Picks, Goes, TurnState
<1>2. /\ pending' = pending /\ turned' = turned /\ acked' = acked /\ request' = request
      /\ overlapped' = overlapped /\ faults' = faults
  BY DEF Picks, queue, bounds, ghosts
<1>3. 1 \in DOMAIN pending /\ pending[1] \in Messages
  BY <1>0, <1>1
<1>4. \A m : /\ Waits(m)' <=> Waits(m)
             /\ Turned(m)' <=> Turned(m)
             /\ Unsent(m)' => Unsent(m)
  BY <1>1, <1>2, Typed DEF Waits, Turned, Unsent, Unpushed
<1>5. EntersOnce'
  <2>1. ~Unsent(pending[1])
    BY <1>3 DEF QInv, EntersOnce, Waits
  <2> QED
    BY <1>1, <1>2, <1>4, <2>1 DEF QInv, EntersOnce
<1>6. OneRuns => OneRuns'
  <2>1. Running' \subseteq Running
    BY <1>1 DEF Running
  <2> QED
    BY <2>1 DEF OneRuns
<1>7. ASSUME OneRuns
      PROVE  \A i \in Jobs : i # j => pc[i] \notin Served \cup {"picked"}
  BY <1>1, <1>7 DEF OneRuns, Running, Served, InTurn
<1>8. OneRuns /\ HandsOut => HandsOut'
  <2> SUFFICES ASSUME OneRuns, HandsOut PROVE HandsOut'
    OBVIOUS
  <2>1. \A k \in DOMAIN pending : ~Turned(pending[k])
    BY <1>1, <1>7 DEF HandsOut, Served, InTurn
  <2>2. \A k \in DOMAIN pending : pending[k] = pending[1] => k = 1
    BY <1>3 DEF QInv, EntersOnce
  <2> QED
    BY <1>1, <1>2, <1>3, <1>4, <1>7, <2>1, <2>2 DEF HandsOut
<1>9. FrontIsTurned => FrontIsTurned'
  <2>1. "picked" \notin Served
    BY DEF Served, InTurn
  <2> QED
    BY <1>1, <1>2, <1>4, <2>1 DEF FrontIsTurned
<1> QED
  BY <1>2, <1>5, <1>6, <1>8, <1>9 DEF QInv

LEMMA BeginsQueue ==
    ASSUME IInv, IInv', QInv, NEW j \in Jobs, Begins(j)
    PROVE  QInv'
<1> DEFINE m == turn[j].msg
<1>0. /\ turn \in [Jobs -> TurnState] /\ pc \in [Jobs -> Places] /\ pending \in Seq(Messages)
      /\ turned \in Seq(Messages)
  BY Typed
<1>1. /\ pc[j] = "picked" /\ pc'[j] = "begun" /\ turn'[j].msg = m
      /\ \A i \in Jobs \ {j} : pc'[i] = pc[i] /\ turn'[i] = turn[i]
  BY <1>0 DEF Begins, Goes, TurnState
<1>2. /\ pending' = pending /\ turned' = Append(turned, m) /\ acked' = acked /\ request' = request
      /\ overlapped' = overlapped /\ faults' = faults
  BY DEF Begins, queue, bounds
<1>3. m \in Messages
  BY <1>1, InHand DEF Turning
<1>4. /\ DOMAIN turned' = 1 .. Len(turned) + 1 /\ DOMAIN turned = 1 .. Len(turned) /\ Len(turned) \in Nat
      /\ turned'[Len(turned) + 1] = m /\ \A k \in DOMAIN turned : turned'[k] = turned[k]
  BY <1>0, <1>2, <1>3
<1>5. \A x : /\ Waits(x)' <=> Waits(x)
             /\ Turned(x)' <=> Turned(x) \/ x = m
             /\ Unsent(x)' => Unsent(x)
  <2> HIDE DEF m
  <2>1. \A x : Waits(x)' <=> Waits(x)
    BY <1>2 DEF Waits
  <2>2. \A x : Turned(x)' <=> Turned(x) \/ x = m
    <3>1. DOMAIN turned' = DOMAIN turned \cup {Len(turned) + 1}
      BY <1>4
    <3> QED
      BY <1>4, <3>1 DEF Turned
  <2>3. \A x \in Jobs : pc'[x] \in Unpushed => pc[x] \in Unpushed
    BY <1>1 DEF Unpushed
  <2>4. \A x : Unsent(x)' => Unsent(x)
    BY <1>2, <2>3, Typed DEF Unsent
  <2> QED
    BY <2>1, <2>2, <2>4
<1>6. EntersOnce'
  <2>1. ~Unsent(m)
    BY <1>1 DEF QInv, EntersOnce
  <2> QED
    BY <1>1, <1>2, <1>5, <2>1 DEF QInv, EntersOnce
<1>7. OneRuns => OneRuns'
  <2>1. Running' \subseteq Running
    BY <1>1 DEF Running
  <2> QED
    BY <2>1 DEF OneRuns
<1>8. ASSUME OneRuns
      PROVE  \A i \in Jobs : i # j => pc[i] \notin Served \cup {"picked"}
  BY <1>1, <1>8 DEF OneRuns, Running, Served, InTurn
<1>9. pc'[j] \in Served
  BY <1>1 DEF Served, InTurn
<1>10. OneRuns /\ HandsOut => HandsOut'
  <2> SUFFICES ASSUME OneRuns, HandsOut PROVE HandsOut'
    OBVIOUS
  <2>1. ~Turned(m) /\ \A k \in DOMAIN pending : pending[k] = m => k = 1
    BY <1>1 DEF HandsOut
  <2>2. \A i, k \in DOMAIN turned' : turned'[i] = turned'[k] => i = k
    BY <1>4, <2>1 DEF HandsOut, Turned
  <2>3. \A i \in Jobs : pc'[i] # "picked"
    BY <1>1, <1>8
  <2>4. \A k \in DOMAIN pending' : Turned(pending[k])' => k = 1
    BY <1>2, <1>5, <2>1 DEF HandsOut, Turned
  <2> QED
    BY <1>9, <2>2, <2>3, <2>4 DEF HandsOut
<1>11. FrontIsTurned => FrontIsTurned'
  BY <1>1, <1>2, <1>5 DEF FrontIsTurned
<1> QED
  BY <1>2, <1>6, <1>7, <1>10, <1>11 DEF QInv

LEMMA ShiftsQueue ==
    ASSUME IInv, IInv', QInv, NEW j \in Jobs, Shifts(j)
    PROVE  QInv'
<1>0. /\ turn \in [Jobs -> TurnState] /\ pc \in [Jobs -> Places] /\ pending \in Seq(Messages)
  BY Typed
<1>1. /\ pc[j] = "shifting" /\ pc'[j] \in {"leaving", "draining"}
      /\ \A i \in Jobs \ {j} : pc'[i] = pc[i] /\ turn'[i] = turn[i]
  BY <1>0 DEF Shifts, Goes
<1>2. /\ pending' = (IF pending = <<>> THEN <<>> ELSE Tail(pending)) /\ turned' = turned
      /\ acked' = acked /\ request' = request /\ overlapped' = overlapped /\ faults' = faults
  BY DEF Shifts, queue, bounds, ghosts
<1>3. /\ \A k \in DOMAIN pending' : k + 1 \in DOMAIN pending /\ k # 0 /\ k \in Nat /\ pending'[k] = pending[k + 1]
      /\ pending # <<>> => \A k \in DOMAIN pending : k # 1 => k - 1 \in DOMAIN pending' /\ pending'[k - 1] = pending[k]
  BY <1>0, <1>2
<1>4. \A x : /\ Waits(x)' => Waits(x)
             /\ Turned(x)' <=> Turned(x)
             /\ Unsent(x)' => Unsent(x)
  BY <1>1, <1>2, <1>3, Typed DEF Waits, Turned, Unsent, Unpushed
<1>5. EntersOnce'
  <2>1. \A x \in Messages : Unsent(x)' => ~Waits(x)' /\ ~Turned(x)'
    BY <1>4 DEF QInv, EntersOnce
  <2>2. \A i \in Jobs : pc'[i] = "picked" => ~Unsent(turn[i].msg)'
    BY <1>1, <1>4 DEF QInv, EntersOnce, Unsent
  <2>3. \A i, k \in DOMAIN pending' : pending'[i] = pending'[k] => i = k
    BY <1>3 DEF QInv, EntersOnce
  <2> QED
    BY <2>1, <2>2, <2>3 DEF EntersOnce
<1>6. OneRuns => OneRuns'
  <2>1. Running' \subseteq Running
    BY <1>1 DEF Running
  <2> QED
    BY <2>1 DEF OneRuns
<1>7. ASSUME OneRuns
      PROVE  \A i \in Jobs : pc'[i] \notin Served \cup {"picked"}
  BY <1>1, <1>7 DEF OneRuns, Running, Served, InTurn
<1>8. OneRuns /\ HandsOut => HandsOut'
  <2> SUFFICES ASSUME OneRuns, HandsOut PROVE HandsOut'
    OBVIOUS
  <2>1. ASSUME NEW k \in DOMAIN pending'
        PROVE  ~Turned(pending[k])'
    <3>1. k + 1 \in DOMAIN pending /\ k + 1 # 1 /\ pending'[k] = pending[k + 1]
      BY <1>3
    <3>2. ~Turned(pending[k + 1])
      BY <3>1 DEF HandsOut
    <3> QED
      BY <1>2, <3>1, <3>2 DEF Turned
  <2> QED
    BY <1>2, <1>7, <2>1 DEF HandsOut
<1>9. OneRuns /\ FrontIsTurned => FrontIsTurned'
  <2> SUFFICES ASSUME OneRuns, FrontIsTurned PROVE FrontIsTurned'
    OBVIOUS
  <2>1. pending # <<>> /\ Turned(pending[1])
    BY <1>1 DEF FrontIsTurned, Served
  <2>2. \A x : Waits(x) => Waits(x)' \/ Turned(x)'
    BY <1>3, <1>4, <2>1 DEF Waits
  <2> QED
    BY <1>2, <1>4, <1>7, <2>2 DEF FrontIsTurned
<1> QED
  BY <1>2, <1>5, <1>6, <1>8, <1>9 DEF QInv

\* What RemoveAt keeps, and where.
LEMMA Removal ==
    ASSUME NEW s \in Seq(Messages), NEW i \in 1..Len(s)
    PROVE  \A k \in DOMAIN RemoveAt(s, i) :
               /\ k \in Nat /\ k # 0
               /\ k < i => k \in DOMAIN s /\ RemoveAt(s, i)[k] = s[k]
               /\ k >= i => k + 1 \in DOMAIN s /\ RemoveAt(s, i)[k] = s[k + 1]
<1> DEFINE a == SubSeq(s, 1, i - 1)
           b == SubSeq(s, i + 1, Len(s))
<1>1. /\ a \in Seq(Messages) /\ Len(a) = i - 1 /\ \A k \in 1 .. i - 1 : a[k] = s[k]
      /\ b \in Seq(Messages) /\ Len(b) = Len(s) - i /\ \A k \in 1 .. Len(s) - i : b[k] = s[i + k]
  OBVIOUS
<1> HIDE DEF a, b
<1>2. DOMAIN (a \o b) = 1 .. Len(s) - 1
  BY <1>1
<1>3. \A k \in 1 .. Len(s) - 1 : (a \o b)[k] = IF k < i THEN a[k] ELSE b[k - (i - 1)]
  BY <1>1
<1>4. RemoveAt(s, i) = a \o b
  BY DEF RemoveAt, a, b
<1>5. ASSUME NEW k \in 1 .. Len(s) - 1
      PROVE  /\ k < i => k \in DOMAIN s /\ (a \o b)[k] = s[k]
             /\ k >= i => k + 1 \in DOMAIN s /\ (a \o b)[k] = s[k + 1]
  <2>1. CASE k < i
    BY <1>1, <1>3, <2>1
  <2>2. CASE k >= i
    <3>1. k - (i - 1) \in 1 .. Len(s) - i /\ i + (k - (i - 1)) = k + 1
      BY <2>2
    <3>2. b[k - (i - 1)] = s[i + (k - (i - 1))]
      BY <1>1, <3>1
    <3>3. k + 1 \in DOMAIN s /\ ~ (k < i)
      BY <2>2
    <3>4. (a \o b)[k] = IF k < i THEN a[k] ELSE b[k - (i - 1)]
      BY <1>3
    <3> QED
      BY <3>1, <3>2, <3>3, <3>4
  <2> QED
    BY <2>1, <2>2
<1> DEFINE c == a \o b
<1>6. DOMAIN c = 1 .. Len(s) - 1 /\ RemoveAt(s, i) = c
  BY <1>2, <1>4
<1>7. \A k \in 1 .. Len(s) - 1 : /\ k < i => k \in DOMAIN s /\ c[k] = s[k]
                                 /\ k >= i => k + 1 \in DOMAIN s /\ c[k] = s[k + 1]
  BY <1>5
<1> HIDE DEF c
<1> QED
  BY <1>6, <1>7

\* A failed request takes its own message out, wherever it stands: what remains
\* keeps its order, and nothing is promised of the front any more.
LEMMA RemovesQueue ==
    ASSUME IInv, IInv', QInv, NEW q \in Queued, PersistQueuedFails(q)
    PROVE  QInv'
<1> DEFINE at == SelectLastInSeq(pending, LAMBDA m : m = q)
<1>0. /\ turn \in [Jobs -> TurnState] /\ pc \in [Jobs -> Places] /\ pending \in Seq(Messages)
      /\ request \in [Queued -> {"new", "persisting", "scheduling", "accepted", "refused", "failed"}]
      /\ faults \in Nat
  BY Typed
<1>1. at \in 0..Len(pending)
  BY <1>0, LastTyped DEF SelectLastInSeq
<1>2. /\ pending' = IF at = 0 THEN pending ELSE RemoveAt(pending, at)
      /\ pc' = pc /\ turn' = turn /\ turned' = turned /\ overlapped' = overlapped /\ faults' = faults + 1
      /\ request' = [request EXCEPT ![q] = "failed"]
  BY DEF PersistQueuedFails, Moves, jobs, ghosts
<1> HIDE DEF at
<1>3. \E old \in [DOMAIN pending' -> DOMAIN pending] :
        /\ \A k \in DOMAIN pending' : pending'[k] = pending[old[k]] /\ (old[k] = 1 => k = 1)
        /\ \A i, k \in DOMAIN pending' : old[i] = old[k] => i = k
  <2>1. CASE at = 0
    <3> DEFINE f == [k \in DOMAIN pending' |-> k]
    <3>1. f \in [DOMAIN pending' -> DOMAIN pending] /\ pending' = pending
      BY <1>2, <2>1
    <3> QED
      BY <3>1
  <2>2. CASE at # 0
    <3> DEFINE f == [k \in DOMAIN pending' |-> IF k < at THEN k ELSE k + 1]
    <3>1. at \in 1..Len(pending) /\ pending' = RemoveAt(pending, at)
      BY <1>1, <1>2, <2>2
    <3>2. \A k \in DOMAIN pending' : /\ k \in Nat /\ k # 0
                                     /\ k < at => k \in DOMAIN pending /\ pending'[k] = pending[k]
                                     /\ k >= at => k + 1 \in DOMAIN pending /\ pending'[k] = pending[k + 1]
      BY <1>0, <3>1, Removal
    <3>3. f \in [DOMAIN pending' -> DOMAIN pending]
      BY <3>1, <3>2
    <3>4. \A k \in DOMAIN pending' : pending'[k] = pending[f[k]] /\ (f[k] = 1 => k = 1)
      BY <3>1, <3>2
    <3>5. \A i, k \in DOMAIN pending' : f[i] = f[k] => i = k
      BY <3>1, <3>2
    <3> QED
      BY <3>3, <3>4, <3>5
  <2> QED
    BY <2>1, <2>2
<1>4. PICK old \in [DOMAIN pending' -> DOMAIN pending] :
        /\ \A k \in DOMAIN pending' : pending'[k] = pending[old[k]] /\ (old[k] = 1 => k = 1)
        /\ \A i, k \in DOMAIN pending' : old[i] = old[k] => i = k
  BY <1>3
<1>5. \A x : /\ Waits(x)' => Waits(x)
             /\ Turned(x)' <=> Turned(x)
             /\ Unsent(x)' => Unsent(x)
  BY <1>0, <1>2, <1>4 DEF Waits, Turned, Unsent
<1>6. EntersOnce'
  <2>1. \A i, k \in DOMAIN pending' : pending'[i] = pending'[k] => i = k
    BY <1>4 DEF QInv, EntersOnce
  <2> QED
    BY <1>2, <1>5, <2>1 DEF QInv, EntersOnce
<1>7. OneRuns => OneRuns'
  BY <1>2 DEF OneRuns, Running
<1>8. HandsOut => HandsOut'
  <2> SUFFICES ASSUME HandsOut PROVE HandsOut'
    OBVIOUS
  <2>1. \A j \in Jobs : pc'[j] = "picked" => \A k \in DOMAIN pending' : pending'[k] = turn'[j].msg => k = 1
    BY <1>2, <1>4 DEF HandsOut
  <2>2. \A k \in DOMAIN pending' : Turned(pending[k])' => k = 1 /\ \E j \in Jobs : pc'[j] \in Served
    BY <1>2, <1>4, <1>5 DEF HandsOut, Turned
  <2> QED
    BY <1>2, <1>5, <2>1, <2>2 DEF HandsOut
<1>9. faults' > 0
  BY <1>0, <1>2
<1> QED
  BY <1>2, <1>6, <1>7, <1>8, <1>9 DEF QInv

-----------------------------------------------------------------------------
(* The other steps, and the theorems. *)

LEMMA OthersQueue ==
    ASSUME IInv, IInv', QInv,
           \/ Takes \/ Writes \/ EvictScans \/ ControlStep \/ DrainerStep \/ UNCHANGED vars
           \/ \E q \in Queued : Refused(q) \/ PersistsQueued(q) \/ Schedules(q)
           \/ \E closing \in BOOLEAN : StopReads(closing)
    PROVE  QInv'
<1>0. /\ pc \in [Jobs -> Places] /\ Drain \in Jobs /\ Drain \notin Sends
      /\ request \in [Queued -> {"new", "persisting", "scheduling", "accepted", "refused", "failed"}]
  BY Typed DEF Messages
<1>1. /\ pending' = pending /\ turned' = turned /\ turn' = turn /\ overlapped' = overlapped /\ faults' = faults
  BY DEF Takes, Writes, EvictScans, ControlStep, StopReads, StopRecords, StopCancels, StopEnds,
         CloseMarks, EvictChecks, EvictDetaches, DrainerStep, Looks, DispatchesDrain, Judges, Retires,
         Refused, PersistsQueued, Schedules, jobs, bounds, ghosts, vars
<1>2. pc' = pc \/ (pc' = [pc EXCEPT ![Drain] = "dispatched"] /\ pc[Drain] \in {"new", "done"})
  <2>1. CASE DispatchesDrain
    BY <1>0, <2>1 DEF DispatchesDrain, InFlight
  <2>2. CASE ~DispatchesDrain
    BY <2>2 DEF Takes, Writes, EvictScans, ControlStep, StopReads, StopRecords, StopCancels,
       StopEnds,
                CloseMarks, EvictChecks, EvictDetaches, DrainerStep, Looks, Judges, Retires,
                Refused, PersistsQueued, Schedules, jobs, vars
  <2> QED
    BY <2>1, <2>2
<1>3. \A i \in Jobs : /\ i \in Sends /\ pc'[i] \in Unpushed => pc[i] \in Unpushed
                      /\ pc'[i] = "picked" => pc[i] = "picked"
                      /\ pc'[i] \in Served <=> pc[i] \in Served
                      /\ i \in Running' => i \in Running
  BY <1>0, <1>2 DEF Served, InTurn, Running
<1>4. ~overlapped' => OneRuns'
  <2>1. Running' \subseteq Running
    BY <1>3 DEF Running
  <2> QED
    BY <1>1, <2>1 DEF QInv, OneRuns
<1>5. CASE request' = request /\ acked' = acked
  BY <1>1, <1>3, <1>4, <1>5, Quiet
<1>6. ASSUME NEW q \in Queued, Refused(q) \/ PersistsQueued(q) \/ Schedules(q)
      PROVE  QInv'
  <2>1. \A m \in acked' : m \in acked \/ (m \in Queued /\ request[m] = "scheduling")
    BY <1>6 DEF Refused, PersistsQueued, Schedules, Moves, ghosts
  <2>2. \A p \in Queued : /\ request'[p] = "new" => request[p] = "new"
                          /\ request'[p] \in {"persisting", "scheduling"} =>
                                 request[p] \in {"persisting", "scheduling"}
    BY <1>0, <1>6 DEF Refused, PersistsQueued, Schedules, Moves
  <2> QED
    BY <1>1, <1>3, <1>4, <2>1, <2>2, Quiet
<1>7. \/ request' = request /\ acked' = acked
      \/ \E q \in Queued : Refused(q) \/ PersistsQueued(q) \/ Schedules(q)
  BY DEF Takes, Writes, EvictScans, ControlStep, StopReads, StopRecords, StopCancels, StopEnds,
         CloseMarks, EvictChecks, EvictDetaches, DrainerStep, Looks, DispatchesDrain, Judges, Retires,
         queue, ghosts, vars
<1> QED
  BY <1>5, <1>6, <1>7

LEMMA QueueKeeps ==
    ASSUME IInv, IInv', QInv, [Next]_vars
    PROVE  QInv'
<1>1. ASSUME NEW j \in Jobs, Dispatch(j) \/ JobStep(j) \/ JobFault(j)
      PROVE  QInv'
  BY <1>1, QuietJobs, LocksQueue, PushesQueue, PicksQueue, BeginsQueue, ShiftsQueue DEF
     JobStep, JobFault
<1>2. ASSUME NEW q \in Queued, RequestStep(q) \/ PersistQueuedFails(q)
      PROVE  QInv'
  BY <1>2, ReservesQueue, RemovesQueue, OthersQueue DEF RequestStep
<1> QED
  BY <1>1, <1>2, OthersQueue DEF Next

LEMMA InitQueue == Init => QInv
<1> SUFFICES ASSUME Init PROVE QInv
  OBVIOUS
<1>1. /\ DOMAIN pending = {} /\ DOMAIN turned = {} /\ acked = {}
      /\ \A j \in Jobs : pc[j] = "new"
      /\ \A q \in Queued : request[q] = "new"
  BY DEF Init
<1>2. EntersOnce /\ OneRuns /\ HandsOut
  BY <1>1 DEF EntersOnce, OneRuns, HandsOut, Waits, Turned, Running
<1>3. FrontIsTurned
  <2>1. \A j \in Jobs : pc[j] \notin Served \cup {"picked"}
    BY <1>1 DEF Served, InTurn
  <2>2. \A q \in Queued : request[q] \notin {"persisting", "scheduling"}
    BY <1>1
  <2> QED
    BY <1>1, <2>1, <2>2 DEF FrontIsTurned
<1> QED
  BY <1>2, <1>3 DEF QInv

LEMMA QueueInductive == Spec => []QInv
<1>1. IInv /\ IInv' /\ QInv /\ [Next]_vars => QInv'
  BY QueueKeeps
<1> QED
  BY <1>1, InitQueue, Inductive, PTL DEF Spec

\* While jobs do not overlap, no message is turned twice, and one that was
\* turned leaves the queue before the next is picked.
THEOREM EachTurnedOnce == Spec => []TurnedOnce
<1>1. QInv => TurnedOnce
  BY DEF QInv, HandsOut, TurnedOnce, Turned, Served
<1> QED
  BY <1>1, QueueInductive, PTL

\* While jobs do not overlap and nothing fails, an acknowledged message waits or
\* was turned.
THEOREM NoneForgotten == Spec => []NothingForgotten
<1>1. QInv => NothingForgotten
  BY DEF QInv, FrontIsTurned, NothingForgotten, Waits, Turned
<1> QED
  BY <1>1, QueueInductive, PTL
-----------------------------------------------------------------------------
(* The active flag, by which Stop, Close and the sweep judge. *)

InATurn == \E j \in Jobs : pc[j] \in InTurn

\* The flag is up only while a turn runs; until jobs overlap, it is up whenever
\* one does (runTurn sets it after as.mu.Lock and clears it in its defer).
FlagTellsTurn ==
  /\ active => InATurn
  /\ overlapped \/ (InATurn => active)

\* A turn that has its agent from the session keeps it there, unless jobs
\* overlap or the sweep had checked the agent before the turn began: neither
\* Close nor the close that another job deferred takes it away.
TurnsKeepTheirAgent ==
  [][\A j \in Jobs : pc[j] \in InTurn /\ turn[j].agent = resident =>
       resident' = resident \/ overlapped \/ evictor.at = "checked"]_vars

\* The steps of a job that neither begin nor end a turn.
LEMMA QuietTurn ==
    ASSUME IInv, NEW j \in Jobs, Dispatch(j) \/ JobStep(j) \/ JobFault(j), ~Begins(j), ~Ends(j)
    PROVE  /\ active' = active /\ (overlapped => overlapped')
           /\ \A i \in Jobs : pc'[i] \in InTurn <=> pc[i] \in InTurn
<1> DEFINE Quietly == /\ active' = active /\ (overlapped => overlapped')
                      /\ \A i \in Jobs \ {j} : pc'[i] = pc[i]
                      /\ pc'[j] \in InTurn <=> pc[j] \in InTurn
<1>0. pc \in [Jobs -> Places]
  BY Typed
<1> SUFFICES Quietly
  OBVIOUS
<1>1. ASSUME Dispatch(j) PROVE Quietly
  BY <1>0, <1>1 DEF Dispatch, Goes, InTurn, agent, ghosts
<1>2. ASSUME Fetches(j) PROVE Quietly
  BY <1>0, <1>2 DEF Fetches, Goes, InTurn, agent, ghosts
<1>3. ASSUME Locks(j) PROVE Quietly
  BY <1>0, <1>3 DEF Locks, Goes, InTurn, agent, ghosts
<1>4. ASSUME Persists(j) PROVE Quietly
  BY <1>0, <1>4 DEF Persists, Goes, InTurn, agent, ghosts
<1>5. ASSUME PersistFails(j) PROVE Quietly
  BY <1>0, <1>5 DEF PersistFails, Goes, InTurn, agent, ghosts
<1>6. ASSUME Pushes(j) PROVE Quietly
  BY <1>0, <1>6 DEF Pushes, Goes, InTurn, agent, ghosts
<1>7. ASSUME Starts(j) PROVE Quietly
  BY <1>0, <1>7 DEF Starts, Goes, InTurn, agent, ghosts
<1>8. ASSUME Loads(j) PROVE Quietly
  BY <1>0, <1>8 DEF Loads, Goes, InTurn, agent, ghosts
<1>9. ASSUME Builds(j) PROVE Quietly
  BY <1>0, <1>9 DEF Builds, Goes, InTurn, agent, ghosts
<1>10. ASSUME BootstrapFails(j) PROVE Quietly
  BY <1>0, <1>10 DEF BootstrapFails, Goes, InTurn, agent, ghosts
<1>11. ASSUME ChecksCancel(j) PROVE Quietly
  BY <1>0, <1>11 DEF ChecksCancel, Goes, InTurn, agent, ghosts
<1>12. ASSUME StopsDraining(j) PROVE Quietly
  BY <1>0, <1>12 DEF StopsDraining, Goes, InTurn, agent, ghosts
<1>13. ASSUME Picks(j) PROVE Quietly
  BY <1>0, <1>13 DEF Picks, Goes, InTurn, agent, ghosts
<1>14. ASSUME Resets(j) PROVE Quietly
  BY <1>0, <1>14 DEF Resets, Goes, InTurn, agent, ghosts
<1>15. ASSUME Replies(j) PROVE Quietly
  BY <1>0, <1>15 DEF Replies, Goes, InTurn, agent, ghosts
<1>16. ASSUME Returns(j) PROVE Quietly
  BY <1>0, <1>16 DEF Returns, Goes, InTurn, agent, ghosts
<1>17. ASSUME StepFails(j) PROVE Quietly
  BY <1>0, <1>17 DEF StepFails, Goes, InTurn, agent, ghosts
<1>18. ASSUME Saves(j) PROVE Quietly
  BY <1>0, <1>18 DEF Saves, Goes, InTurn, agent, ghosts
<1>19. ASSUME SaveFails(j) PROVE Quietly
  BY <1>0, <1>19 DEF SaveFails, Goes, InTurn, agent, ghosts
<1>20. ASSUME Merges(j) PROVE Quietly
  BY <1>0, <1>20 DEF Merges, Goes, InTurn, agent, ghosts
<1>21. ASSUME SavesMerged(j) PROVE Quietly
  BY <1>0, <1>21 DEF SavesMerged, Goes, InTurn, agent, ghosts
<1>22. ASSUME Resyncs(j) PROVE Quietly
  BY <1>0, <1>22 DEF Resyncs, Goes, InTurn, agent, ghosts
<1>23. ASSUME Shifts(j) PROVE Quietly
  BY <1>0, <1>23 DEF Shifts, Goes, InTurn, agent, ghosts
<1>24. ASSUME Leaves(j) PROVE Quietly
  BY <1>0, <1>24 DEF Leaves, Goes, InTurn, agent, ghosts
<1>25. ASSUME Finishes(j) PROVE Quietly
  BY <1>0, <1>25 DEF Finishes, Goes, InTurn, agent, ghosts
<1> HIDE DEF Quietly
<1> QED
  BY <1>1, <1>2, <1>3, <1>4, <1>5, <1>6, <1>7, <1>8, <1>9, <1>10, <1>11, <1>12, <1>13, <1>14,
     <1>15, <1>16, <1>17, <1>18, <1>19, <1>20, <1>21, <1>22, <1>23, <1>24, <1>25
  DEF JobStep, JobFault

\* So do the steps of everybody else.
LEMMA OthersTurn ==
    ASSUME IInv,
           \/ Takes \/ Writes \/ EvictScans \/ ControlStep \/ DrainerStep \/ UNCHANGED vars
           \/ \E q \in Queued : RequestStep(q) \/ PersistQueuedFails(q)
           \/ \E closing \in BOOLEAN : StopReads(closing)
    PROVE  /\ active' = active /\ overlapped' = overlapped
           /\ \A i \in Jobs : pc'[i] \in InTurn <=> pc[i] \in InTurn
<1>0. pc \in [Jobs -> Places] /\ Drain \in Jobs
  BY Typed
<1>1. CASE DispatchesDrain
  <2>1. active' = active /\ overlapped' = overlapped
    BY <1>1 DEF DispatchesDrain, agent, ghosts
  <2>2. pc' = pc \/ (pc' = [pc EXCEPT ![Drain] = "dispatched"] /\ pc[Drain] \in {"new", "done"})
    BY <1>0, <1>1 DEF DispatchesDrain, InFlight
  <2> QED
    BY <1>0, <2>1, <2>2 DEF InTurn
<1>2. CASE ~DispatchesDrain
  <2>1. active' = active /\ overlapped' = overlapped /\ pc' = pc
    BY <1>2 DEF Takes, Writes, EvictScans, ControlStep, StopReads, StopRecords, StopCancels, StopEnds,
       CloseMarks, EvictChecks, EvictDetaches, DrainerStep, Looks, Judges, Retires, RequestStep, Reserves,
       Refused, PersistsQueued, Schedules, PersistQueuedFails, agent, jobs, ghosts, vars
  <2> QED
    BY <2>1
<1> QED
  BY <1>1, <1>2

LEMMA FlagKeeps ==
    ASSUME IInv, QInv, FlagTellsTurn, [Next]_vars
    PROVE  FlagTellsTurn'
<1> DEFINE Same == /\ active' = active /\ (overlapped => overlapped')
                   /\ \A i \in Jobs : pc'[i] \in InTurn <=> pc[i] \in InTurn
<1>0. pc \in [Jobs -> Places]
  BY Typed
<1>1. ASSUME Same PROVE FlagTellsTurn'
  BY <1>1 DEF FlagTellsTurn, InATurn
<1>2. ASSUME NEW j \in Jobs, Begins(j) PROVE FlagTellsTurn'
  <2>1. active' = TRUE /\ pc'[j] = "begun"
    BY <1>0, <1>2 DEF Begins, Goes
  <2> QED
    BY <2>1 DEF FlagTellsTurn, InATurn, InTurn
<1>3. ASSUME NEW j \in Jobs, Ends(j) PROVE FlagTellsTurn'
  <2>1. /\ active' = FALSE /\ overlapped' = overlapped
        /\ pc[j] = "ending" /\ pc'[j] = "shifting" /\ \A i \in Jobs \ {j} : pc'[i] = pc[i]
    BY <1>0, <1>3 DEF Ends, Goes, ghosts
  <2>2. OneRuns => \A i \in Jobs \ {j} : pc[i] \notin InTurn
    BY <2>1 DEF OneRuns, Running, InTurn
  <2>3. OneRuns => ~InATurn'
    BY <2>1, <2>2 DEF InATurn, InTurn
  <2> QED
    BY <2>1, <2>3 DEF FlagTellsTurn, QInv
<1>4. ASSUME NEW j \in Jobs, Dispatch(j) \/ JobStep(j) \/ JobFault(j), ~Begins(j), ~Ends(j)
      PROVE  Same
  BY <1>4, QuietTurn
<1>5. ASSUME \/ Takes \/ Writes \/ EvictScans \/ ControlStep \/ DrainerStep \/ UNCHANGED vars
             \/ \E q \in Queued : RequestStep(q) \/ PersistQueuedFails(q)
             \/ \E closing \in BOOLEAN : StopReads(closing)
      PROVE  Same
  BY <1>5, OthersTurn
<1> HIDE DEF Same
<1> QED
  BY <1>1, <1>2, <1>3, <1>4, <1>5 DEF Next

\* In every reachable state the flag tells whether a turn runs.
THEOREM FlagIsTrue == Spec => []FlagTellsTurn
<1>1. Init => FlagTellsTurn
  BY DEF Init, FlagTellsTurn, InATurn, InTurn
<1>2. IInv /\ QInv /\ FlagTellsTurn /\ [Next]_vars => FlagTellsTurn'
  BY FlagKeeps
<1> QED
  BY <1>1, <1>2, Inductive, QueueInductive, PTL DEF Spec

\* Who takes the resident agent away, and what each of them has looked at.
LEMMA Detachers ==
    ASSUME [Next]_vars, resident # 0
    PROVE  resident' = resident \/ ~active \/ evictor.at = "checked"
<1>1. ASSUME NEW j \in Jobs, Dispatch(j) \/ JobStep(j) \/ JobFault(j)
      PROVE  resident' = resident \/ ~active
  <2>1. CASE Builds(j)
    BY <2>1 DEF Builds
  <2>2. CASE Leaves(j)
    BY <2>2 DEF Leaves, Release
  <2>3. CASE ~Builds(j) /\ ~Leaves(j)
    BY <1>1, <2>3 DEF JobStep, JobFault, Dispatch, Fetches, Locks, Persists, PersistFails, Pushes, Starts,
       Loads, BootstrapFails, ChecksCancel, StopsDraining, Picks, Begins, Resets, Replies, Returns,
       StepFails, Saves, SaveFails, Merges, SavesMerged, Resyncs, Ends, Shifts, Finishes, agent
  <2> QED
    BY <2>1, <2>2, <2>3
<1>2. CASE ControlStep
  <2>1. CASE StopEnds
    BY <2>1 DEF StopEnds, Release
  <2>2. CASE EvictDetaches
    BY <2>2 DEF EvictDetaches
  <2>3. CASE StopRecords \/ StopCancels \/ CloseMarks \/ EvictChecks
    BY <2>3 DEF StopRecords, StopCancels, CloseMarks, EvictChecks, agent
  <2> QED
    BY <1>2, <2>1, <2>2, <2>3 DEF ControlStep
<1>3. ASSUME NEW q \in Queued, RequestStep(q) \/ PersistQueuedFails(q)
      PROVE  resident' = resident
  BY <1>3 DEF RequestStep, Reserves, Refused, PersistsQueued, Schedules, PersistQueuedFails, agent
<1>4. ASSUME \/ Takes \/ Writes \/ EvictScans \/ DrainerStep \/ UNCHANGED vars
             \/ \E closing \in BOOLEAN : StopReads(closing)
      PROVE  resident' = resident
  BY <1>4 DEF Takes, Writes, EvictScans, StopReads, DrainerStep, Looks, DispatchesDrain, Judges, Retires,
     agent, vars
<1> QED
  BY <1>1, <1>2, <1>3, <1>4 DEF Next

\* Only the sweep, whose check is older than its detaching, takes the agent of
\* a running turn from the session.
THEOREM TurnsKeepAgents == Spec => TurnsKeepTheirAgent
<1> DEFINE Kept == \A j \in Jobs : pc[j] \in InTurn /\ turn[j].agent = resident =>
                     resident' = resident \/ overlapped \/ evictor.at = "checked"
<1>1. IInv /\ FlagTellsTurn /\ [Next]_vars => Kept
  <2> SUFFICES ASSUME IInv, FlagTellsTurn, [Next]_vars, NEW j \in Jobs, pc[j] \in InTurn,
                      turn[j].agent = resident, ~overlapped
               PROVE  resident' = resident \/ evictor.at = "checked"
    OBVIOUS
  <2>1. turn[j].agent \in Agents
    BY InHand DEF Working, Turning
  <2>2. resident # 0
    BY <2>1 DEF Agents
  <2>3. active
    BY DEF FlagTellsTurn, InATurn
  <2> QED
    BY <2>2, <2>3, Detachers
<1>2. IInv /\ FlagTellsTurn /\ [Next]_vars => [Kept]_vars
  BY <1>1
<1> QED
  BY <1>2, Inductive, FlagIsTrue, PTL DEF Spec, TurnsKeepTheirAgent
=============================================================================
