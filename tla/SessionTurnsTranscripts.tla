---------------------- MODULE SessionTurnsTranscripts -----------------------
(***************************************************************************)
(* Proofs about what the turns of SessionTurns make of its messages.       *)
(*                                                                         *)
(* Replies: while jobs do not overlap, every reply is stored once, whatever *)
(* the live writer, the merges and the bootstraps do to transcripts.       *)
(*                                                                         *)
(* Order: while jobs do not overlap, posted messages are turned in the     *)
(* order of their rows.                                                    *)
(*                                                                         *)
(* Undisturbed turns: when nothing comes between the posted messages, each *)
(* is stored once, and its reply as soon as the live writer is idle.       *)
(***************************************************************************)
EXTENDS SessionTurnsQueue

-----------------------------------------------------------------------------
(* Replies: the inductive invariant. *)

\* The places of a job whose message has no row.
Unpersisted == {"new", "dispatched", "waiting", "persisting"}

\* The rows that may exist: of messages that were persisted or queued, and
\* replies to messages that were turned.
KnownRows ==
    {row \in Row : IF row.by = "user" THEN row.msg \in Sends => pc[row.msg] \notin Unpersisted
                   ELSE Turned(row.msg)}

RepliesOnce(rows) == \A i, k \in DOMAIN rows : rows[i] = rows[k] /\ rows[i].by = "agent" => i = k

\* Transcripts of known rows that hold no reply twice.
CleanSeqs(known, once) == {rows \in Seq(known) : once => RepliesOnce(rows)}
Clean == CleanSeqs(KnownRows, ~overlapped)

AllClean ==
    /\ disk \in Clean /\ slot \in Clean /\ taken \in Clean
    /\ \A a \in Agents : agents[a].mem \in Clean
    /\ \A j \in Jobs : turn[j].found \in Clean

\* A turn's transcript is its base, which ends with the message, and behind it
\* what Step produced.
Produced(j) ==
    /\ pc[j] \in InTurn => Turned(turn[j].msg)
    /\ turn[j].resp \in {<<>>, <<Reply(turn[j].msg)>>}
    /\ pc[j] \notin (InTurn \ {"begun"}) \cup {"shifting"} => turn[j].resp = <<>>
    /\ pc[j] \in {"begun", "stepping"} => Len(Mem(j)) = turn[j].base
    /\ pc[j] \in {"saving", "merging", "merged"} =>
           /\ Len(Mem(j)) = turn[j].base + Len(turn[j].resp)
           /\ turn[j].resp # <<>> => Mem(j)[turn[j].base + 1] = Reply(turn[j].msg)
    /\ pc[j] = "merged" => BaseStored(turn[j].found, Mem(j), turn[j].base)

\* The base holds no reply to the message that is being turned.
Unreplied(j) ==
    pc[j] \in InSave \ {"resyncing"} =>
        \A i \in 1..turn[j].base : Mem(j)[i] # Reply(turn[j].msg)

Kept(j) ==
    pc[j] = "ending" /\ agents[turn[j].agent].saved /\ turn[j].resp # <<>> =>
        closePending \/ Stored(Reply(turn[j].msg))

ReplyInv ==
    /\ AllClean
    /\ \A j \in Jobs : Produced(j)
    /\ overlapped \/ \A j \in Jobs : Unreplied(j) /\ Kept(j)

-----------------------------------------------------------------------------
(* What the operators return. *)

LEMMA CleanGrowsWith ==
    ASSUME NEW K \in SUBSET Row, NEW L \in SUBSET Row, K \subseteq L,
           NEW o \in BOOLEAN, NEW p \in BOOLEAN, p => o
    PROVE  CleanSeqs(K, o) \subseteq CleanSeqs(L, p)
<1>1. \A s \in Seq(K) : s \in Seq(L)
  OBVIOUS
<1> QED
  BY <1>1 DEF CleanSeqs

LEMMA EmptyIsClean ==
    ASSUME NEW K \in SUBSET Row, NEW o \in BOOLEAN
    PROVE  <<>> \in CleanSeqs(K, o)
<1>1. <<>> \in Seq(K) /\ DOMAIN <<>> = {}
  OBVIOUS
<1> QED
  BY <1>1 DEF CleanSeqs, RepliesOnce

LEMMA AppendIsClean ==
    ASSUME NEW K \in SUBSET Row, NEW o \in BOOLEAN, NEW s \in CleanSeqs(K, o), NEW row \in K,
           o /\ row.by = "agent" => \A i \in DOMAIN s : s[i] # row
    PROVE  Append(s, row) \in CleanSeqs(K, o)
<1> DEFINE t == Append(s, row)
<1>1. /\ s \in Seq(K) /\ t \in Seq(K) /\ Len(s) \in Nat
      /\ DOMAIN s = 1..Len(s) /\ DOMAIN t = 1..Len(s) + 1
      /\ t[Len(s) + 1] = row /\ \A i \in 1..Len(s) : t[i] = s[i]
  BY DEF CleanSeqs
<1>2. o => RepliesOnce(s)
  BY DEF CleanSeqs
<1> HIDE DEF t
<1>3. ASSUME o, NEW i \in DOMAIN t, NEW k \in DOMAIN t, t[i] = t[k], t[i].by = "agent"
      PROVE  i = k
  <2>1. CASE i = Len(s) + 1 /\ k # Len(s) + 1
    BY <1>1, <1>3, <2>1
  <2>2. CASE k = Len(s) + 1 /\ i # Len(s) + 1
    BY <1>1, <1>3, <2>2
  <2>3. CASE i \in DOMAIN s /\ k \in DOMAIN s
    BY <1>1, <1>2, <1>3, <2>3 DEF RepliesOnce
  <2> QED
    BY <1>1, <2>1, <2>2, <2>3
<1>4. t \in CleanSeqs(K, o)
  BY <1>1, <1>3 DEF CleanSeqs, RepliesOnce
<1> QED
  BY <1>4 DEF t

LEMMA CutIsClean ==
    ASSUME NEW K \in SUBSET Row, NEW o \in BOOLEAN, NEW s \in CleanSeqs(K, o), NEW n \in 0..Len(s)
    PROVE  SubSeq(s, 1, n) \in CleanSeqs(K, o)
<1> DEFINE t == SubSeq(s, 1, n)
<1>1. s \in Seq(K)
  BY DEF CleanSeqs
<1>2. t \in Seq(K) /\ Len(t) = n /\ \A i \in 1..n : t[i] = s[i]
  BY <1>1
<1> HIDE DEF t
<1>3. \A i \in DOMAIN t : i \in DOMAIN s /\ t[i] = s[i]
  BY <1>1, <1>2
<1>4. t \in CleanSeqs(K, o)
  BY <1>2, <1>3 DEF CleanSeqs, RepliesOnce
<1> QED
  BY <1>4 DEF t

\* A turn adds one row at most.  The merge of it with what was found is what was
\* found, with that row behind it if it is not there yet.
LEMMA MergeIs ==
    ASSUME NEW stored \in Seq(Row), NEW ours \in Seq(Row), NEW base \in Nat,
           BaseStored(stored, ours, base), Len(ours) \in {base, base + 1}
    PROVE  MergeAppend(stored, ours, base) =
             IF Len(ours) = base \/ \E i \in base + 1 .. Len(stored) : stored[i] = ours[base + 1]
             THEN stored ELSE Append(stored, ours[base + 1])
<1> DEFINE Fits(n) == \E at \in [base + 1 .. n -> base + 1 .. Len(stored)] :
                        \A i, k \in base + 1 .. n :
                          stored[at[i]] = ours[i] /\ (i < k => at[i] < at[k])
           S == {n \in base..Len(ours) : Fits(n)}
           found == \E i \in base + 1 .. Len(stored) : stored[i] = ours[base + 1]
<1>1. Fits(base)
  <2> DEFINE at == [i \in base + 1 .. base |-> 1]
  <2>1. base + 1 .. base = {}
    OBVIOUS
  <2>2. at \in [base + 1 .. base -> base + 1 .. Len(stored)]
    BY <2>1
  <2> QED
    BY <2>1, <2>2
<1>2. base + 1 .. base + 1 = {base + 1}
  OBVIOUS
<1>3. Fits(base + 1) <=> found
  <2>1. ASSUME found PROVE Fits(base + 1)
    <3>1. PICK i \in base + 1 .. Len(stored) : stored[i] = ours[base + 1]
      BY <2>1
    <3> DEFINE at == [k \in base + 1 .. base + 1 |-> i]
    <3>2. at \in [base + 1 .. base + 1 -> base + 1 .. Len(stored)]
      OBVIOUS
    <3>3. \A x, y \in base + 1 .. base + 1 : stored[at[x]] = ours[x] /\ ~(x < y)
      BY <1>2, <3>1
    <3> HIDE DEF at
    <3> QED
      BY <3>2, <3>3
  <2>2. ASSUME Fits(base + 1) PROVE found
    <3>1. PICK at \in [base + 1 .. base + 1 -> base + 1 .. Len(stored)] :
            \A i, k \in base + 1 .. base + 1 : stored[at[i]] = ours[i]
      BY <2>2
    <3> QED
      BY <1>2, <3>1
  <2> QED
    BY <2>1, <2>2
<1>4. S \in SUBSET (base..Len(ours)) /\ S # {} /\ Len(ours) \in Nat
  <2> HIDE DEF Fits
  <2> QED
    BY <1>1
<1>5. AlreadyStored(stored, ours, base) = Max(S)
  BY DEF AlreadyStored
<1>6. Max(S) \in S /\ \A x \in S : Max(S) >= x
  <2>1. IsFiniteSet(base..Len(ours))
    BY <1>4, FS_Interval
  <2>2. IsFiniteSet(S) /\ S \in SUBSET Int
    BY <1>4, <2>1, FS_Subset
  <2> HIDE DEF S
  <2> QED
    BY <1>4, <2>2, MaxOfFinite
<1> DEFINE top == AlreadyStored(stored, ours, base)
<1>7. top \in base..Len(ours) /\ Fits(top) /\ \A x \in base..Len(ours) : Fits(x) => top >= x
  BY <1>5, <1>6
<1>8. MergeAppend(stored, ours, base) = stored \o SubSeq(ours, top + 1, Len(ours))
  BY DEF MergeAppend
<1> HIDE DEF Fits, top, S, found
<1>9. CASE top = Len(ours)
  <2>1. SubSeq(ours, top + 1, Len(ours)) = <<>>
    BY <1>9
  <2>2. Len(ours) = base \/ found
    BY <1>3, <1>7, <1>9
  <2>3. stored \o <<>> = stored
    OBVIOUS
  <2> QED
    BY <1>8, <2>1, <2>2, <2>3 DEF found
<1>10. CASE top # Len(ours)
  <2>1. top = base /\ Len(ours) = base + 1
    BY <1>7, <1>10
  <2>2. ~found
    BY <1>3, <1>7, <2>1
  <2> DEFINE rest == SubSeq(ours, base + 1, base + 1)
             row == ours[base + 1]
  <2>3. row \in Row /\ rest \in Seq(Row) /\ Len(rest) = 1 /\ rest[1] = row
    BY <2>1
  <2>4. MergeAppend(stored, ours, base) = stored \o rest
    BY <1>8, <2>1
  <2> HIDE DEF rest, row
  <2>5. rest = <<row>>
    BY <2>3
  <2>6. stored \o <<row>> = Append(stored, row)
    BY <2>3
  <2>7. MergeAppend(stored, ours, base) = Append(stored, row)
    BY <2>4, <2>5, <2>6
  <2>8. Len(ours) # base
    BY <2>1
  <2> QED
    BY <2>2, <2>7, <2>8 DEF found, row
<1> QED
  BY <1>9, <1>10

-----------------------------------------------------------------------------
(* What every step keeps. *)

\* No step takes back that a message is stored, that it was turned, or that jobs
\* overlapped.
LEMMA MessagesGoOn ==
    ASSUME IInv, NEW j \in Jobs, Dispatch(j) \/ JobStep(j) \/ JobFault(j)
    PROVE  /\ overlapped => overlapped'
           /\ turned' = turned \/ Begins(j)
           /\ j \in Sends /\ pc'[j] \in Unpersisted => pc[j] \in Unpersisted
<1> DEFINE On == /\ overlapped => overlapped'
                 /\ turned' = turned \/ Begins(j)
                 /\ j \in Sends /\ pc'[j] \in Unpersisted => pc[j] \in Unpersisted
<1>0. pc \in [Jobs -> Places] /\ Drain \notin Sends
  BY MessagesAssumption DEF IInv, TypeOK, TypesOfJobs
<1>1. CASE Dispatch(j)
  BY <1>0, <1>1 DEF Dispatch, Goes, Unpersisted, ghosts
<1>2. CASE Fetches(j)
  BY <1>0, <1>2 DEF Fetches, Goes, Unpersisted, ghosts
<1>3. CASE Locks(j)
  BY <1>0, <1>3 DEF Locks, Goes, Unpersisted, ghosts
<1>4. CASE Persists(j)
  BY <1>0, <1>4 DEF Persists, Goes, Unpersisted, ghosts
<1>5. CASE PersistFails(j)
  BY <1>0, <1>5 DEF PersistFails, Goes, Unpersisted, ghosts
<1>6. CASE Pushes(j)
  BY <1>0, <1>6 DEF Pushes, Goes, Unpersisted, ghosts
<1>7. CASE Starts(j)
  BY <1>0, <1>7 DEF Starts, Goes, Unpersisted, ghosts
<1>8. CASE Loads(j)
  BY <1>0, <1>8 DEF Loads, Goes, Unpersisted, ghosts
<1>9. CASE Builds(j)
  BY <1>0, <1>9 DEF Builds, Goes, Unpersisted, ghosts
<1>10. CASE BootstrapFails(j)
  BY <1>0, <1>10 DEF BootstrapFails, Goes, Unpersisted, ghosts
<1>11. CASE ChecksCancel(j)
  BY <1>0, <1>11 DEF ChecksCancel, Goes, Unpersisted, ghosts
<1>12. CASE StopsDraining(j)
  BY <1>0, <1>12 DEF StopsDraining, Goes, Unpersisted, ghosts
<1>13. CASE Picks(j)
  BY <1>0, <1>13 DEF Picks, Goes, Unpersisted, ghosts
<1>14. CASE Begins(j)
  BY <1>0, <1>14 DEF Begins, Goes, Unpersisted, ghosts
<1>15. CASE Resets(j)
  BY <1>0, <1>15 DEF Resets, Goes, Unpersisted, ghosts
<1>16. CASE Replies(j)
  BY <1>0, <1>16 DEF Replies, Goes, Unpersisted, ghosts
<1>17. CASE Returns(j)
  BY <1>0, <1>17 DEF Returns, Goes, Unpersisted, ghosts
<1>18. CASE StepFails(j)
  BY <1>0, <1>18 DEF StepFails, Goes, Unpersisted, ghosts
<1>19. CASE Saves(j)
  BY <1>0, <1>19 DEF Saves, Goes, Unpersisted, ghosts
<1>20. CASE SaveFails(j)
  BY <1>0, <1>20 DEF SaveFails, Goes, Unpersisted, ghosts
<1>21. CASE Merges(j)
  BY <1>0, <1>21 DEF Merges, Goes, Unpersisted, ghosts
<1>22. CASE SavesMerged(j)
  BY <1>0, <1>22 DEF SavesMerged, Goes, Unpersisted, ghosts
<1>23. CASE Resyncs(j)
  BY <1>0, <1>23 DEF Resyncs, Goes, Unpersisted, ghosts
<1>24. CASE Ends(j)
  BY <1>0, <1>24 DEF Ends, Goes, Unpersisted, ghosts
<1>25. CASE Shifts(j)
  BY <1>0, <1>25 DEF Shifts, Goes, Unpersisted, ghosts
<1>26. CASE Leaves(j)
  BY <1>0, <1>26 DEF Leaves, Goes, Unpersisted, ghosts
<1>27. CASE Finishes(j)
  BY <1>0, <1>27 DEF Finishes, Goes, Unpersisted, ghosts
<1> QED
  BY <1>1, <1>2, <1>3, <1>4, <1>5, <1>6, <1>7, <1>8, <1>9, <1>10, <1>11, <1>12,
     <1>13, <1>14, <1>15, <1>16, <1>17, <1>18, <1>19, <1>20, <1>21, <1>22, <1>23, <1>24, <1>25,
     <1>26, <1>27 DEF JobStep, JobFault

LEMMA KnownGrow ==
    ASSUME IInv, IInv', [Next]_vars
    PROVE  KnownRows \subseteq KnownRows' /\ Clean \subseteq Clean'
<1> DEFINE On == /\ overlapped => overlapped'
                 /\ \A m : Turned(m) => Turned(m)'
                 /\ \A m \in Sends : pc'[m] \in Unpersisted => pc[m] \in Unpersisted
<1>0. pc \in [Jobs -> Places] /\ Sends \subseteq Jobs /\ turned \in Seq(Messages) /\ Drain \notin Sends
      /\ overlapped \in BOOLEAN /\ overlapped' \in BOOLEAN /\ Drain \in Jobs
  BY MessagesAssumption DEF IInv, TypeOK, TypesOfJobs, TypesOfRows, Jobs
<1>1. ASSUME NEW j \in Jobs, Dispatch(j) \/ JobStep(j) \/ JobFault(j)
      PROVE  On
  <2>1. \A i \in Jobs \ {j} : pc'[i] = pc[i]
    BY <1>0, <1>1 DEF JobStep, JobFault, Dispatch, Fetches, Locks, Persists, PersistFails,
       Pushes, Starts, Loads, Builds, BootstrapFails, ChecksCancel, StopsDraining, Picks, Begins,
       Resets, Replies, Returns, StepFails, Saves, SaveFails, Merges, SavesMerged, Resyncs, Ends,
       Shifts, Leaves, Finishes, Goes, jobs
  <2>2. \A m : Turned(m) => Turned(m)'
    <3>1. CASE turned' = turned
      BY <3>1 DEF Turned
    <3>2. CASE Begins(j)
      <4>1. turned' = Append(turned, turn[j].msg)
        BY <3>2 DEF Begins
      <4>2. DOMAIN turned \subseteq DOMAIN turned' /\ \A i \in DOMAIN turned : turned'[i] = turned[i]
        BY <1>0, <4>1
      <4> QED
        BY <4>2 DEF Turned
    <3> QED
      BY <1>1, <3>1, <3>2, MessagesGoOn
  <2> QED
    BY <1>0, <1>1, <2>1, <2>2, MessagesGoOn
<1>2. ASSUME \/ Takes \/ Writes \/ EvictScans \/ ControlStep \/ DrainerStep \/ UNCHANGED vars
             \/ \E q \in Queued : RequestStep(q) \/ PersistQueuedFails(q)
             \/ \E closing \in BOOLEAN : StopReads(closing)
      PROVE  On
  <2>1. turned' = turned /\ overlapped' = overlapped
    BY <1>2 DEF Takes, Writes, EvictScans, ControlStep, StopReads, StopRecords, StopCancels, StopEnds,
         CloseMarks, EvictChecks, EvictDetaches, DrainerStep, Looks, DispatchesDrain, Judges, Retires,
         RequestStep, Reserves, Refused, PersistsQueued, Schedules, PersistQueuedFails, ghosts, vars
  <2>2. pc' = pc \/ pc' = [pc EXCEPT ![Drain] = "dispatched"]
    BY <1>2 DEF Takes, Writes, EvictScans, ControlStep, StopReads, StopRecords, StopCancels, StopEnds,
         CloseMarks, EvictChecks, EvictDetaches, DrainerStep, Looks, DispatchesDrain, Judges, Retires,
         RequestStep, Reserves, Refused, PersistsQueued, Schedules, PersistQueuedFails, jobs, vars
  <2>3. \A m \in Sends : pc'[m] = pc[m]
    BY <1>0, <2>2
  <2>4. \A m : Turned(m) => Turned(m)'
    BY <2>1 DEF Turned
  <2> QED
    BY <1>0, <2>1, <2>3, <2>4
<1> HIDE DEF On
<1>3. On
  BY <1>1, <1>2 DEF Next
<1> USE DEF On
<1>4. KnownRows \subseteq KnownRows'
  BY <1>3 DEF KnownRows
<1>5. KnownRows \in SUBSET Row /\ KnownRows' \in SUBSET Row
  BY DEF KnownRows
<1>6. (~overlapped) \in BOOLEAN /\ (~overlapped') \in BOOLEAN /\ (~overlapped' => ~overlapped)
  BY <1>0, <1>3
<1>7. CleanSeqs(KnownRows, ~overlapped) \subseteq CleanSeqs(KnownRows', ~overlapped')
  BY <1>4, <1>5, <1>6, CleanGrowsWith
<1> QED
  BY <1>4, <1>7 DEF Clean

\* A job's step leaves the other jobs' turns and their transcripts alone.
LEMMA OthersTurnOn ==
    ASSUME IInv, NEW j \in Jobs, Dispatch(j) \/ JobStep(j) \/ JobFault(j), NEW i \in Jobs \ {j}
    PROVE  /\ turn'[i] = turn[i] /\ pc'[i] = pc[i]
           /\ pc[i] \in InTurn => /\ Mem(i)' = Mem(i)
                                  /\ agents'[turn[i].agent].saved = agents[turn[i].agent].saved
<1> DEFINE a == turn[j].agent
           b == turn[i].agent
           Same(x) == agents'[x].mem = agents[x].mem /\ agents'[x].saved = agents[x].saved
<1>0. /\ turn \in [Jobs -> TurnState] /\ pc \in [Jobs -> Places]
      /\ agents \in [Agents -> AgentState] /\ stopFlag \in BOOLEAN
  BY DEF IInv, TypeOK, TypesOfJobs, TypesOfAgents, TypesOfControl
<1>1. turn'[i] = turn[i] /\ pc'[i] = pc[i]
  BY <1>0 DEF JobStep, JobFault, Dispatch, Fetches, Locks, Persists, PersistFails, Pushes, Starts, Loads,
     Builds, BootstrapFails, ChecksCancel, StopsDraining, Picks, Begins, Resets, Replies, Returns, StepFails,
     Saves, SaveFails, Merges, SavesMerged, Resyncs, Ends, Shifts, Leaves, Finishes, Goes, jobs
<1>2. SUFFICES ASSUME pc[i] \in InTurn PROVE Same(b)
  BY <1>1 DEF Mem
<1>3. b \in Agents
  BY <1>2, InHand DEF Working, Turning
<1>4. CASE agents' = agents
  BY <1>4
<1>5. CASE ChecksCancel(j) \/ Begins(j) \/ Resets(j) \/ Returns(j) \/ StepFails(j) \/ Saves(j)
           \/ SavesMerged(j) \/ Resyncs(j)
  <2>1. a \in Agents /\ agents[a] \in AgentState
    BY <1>5, InHand DEF ChecksCancel, Begins, Resets, Returns, StepFails, Saves, SavesMerged, Resyncs,
       Goes, Working, Turning, InTurn
  <2>2. CASE a # b
    <3>1. agents'[b] = agents[b]
      BY <1>0, <1>3, <1>5, <2>1, <2>2 DEF ChecksCancel, Begins, Resets, Returns, StepFails, Saves,
         SavesMerged, Resyncs
    <3> QED
      BY <3>1
  <2>3. CASE a = b
    <3>1. pc[j] \notin InTurn
      BY <1>2, <2>3 DEF IInv, TypeOK, TurnsExclude
    <3>2. ~Begins(j)
      BY <1>2, <2>3 DEF Begins
    <3>3. ChecksCancel(j)
      BY <1>5, <3>1, <3>2 DEF Resets, Returns, StepFails, Saves, SavesMerged, Resyncs, Goes, InTurn
    <3> QED
      BY <1>0, <2>1, <2>3, <3>3 DEF ChecksCancel, AgentState
  <2> QED
    BY <2>2, <2>3
<1>6. CASE Builds(j)
  <2> DEFINE fresh == CHOOSE x \in Agents :
                        x \notin {resident, evictor.agent} \cup {turn[k].agent : k \in Jobs}
             kept == SubSeq(turn[j].found, 1, Len(turn[j].found) - StripLen(turn[j].found, pending))
  <2>1. CASE resident # 0
    BY <1>6, <2>1 DEF Builds
  <2>2. CASE resident = 0
    <3>1. fresh \in Agents /\ fresh # b
      BY <1>6, <2>2, FreshAgent DEF Builds, Goes
    <3>2. agents' = [agents EXCEPT ![fresh] = [agents[fresh] EXCEPT !.mem = kept]]
      BY <1>6, <2>2 DEF Builds
    <3> HIDE DEF fresh, kept
    <3> QED
      BY <1>0, <1>3, <3>1, <3>2
  <2> QED
    BY <2>1, <2>2
<1>7. CASE Leaves(j)
  <2>1. Release(Jobs \ {j}, closePending /\ resident # 0 /\ ~active)
        /\ (closePending /\ resident # 0 /\ ~active) \in BOOLEAN
    BY <1>7 DEF Leaves
  <2> QED
    BY <1>3, <2>1, ReleasedRows
<1> QED
  BY <1>4, <1>5, <1>6, <1>7 DEF JobStep, JobFault, Dispatch, Fetches, Locks, Persists, PersistFails,
     Pushes, Starts, Loads, BootstrapFails, StopsDraining, Picks, Replies, SaveFails, Merges, Ends,
     Shifts, Finishes, agent

\* What a step must show: what becomes of the transcripts, and of its own job.
LEMMA JobReplies ==
    ASSUME IInv, IInv', QInv, QInv', ReplyInv, [Next]_vars, NEW j \in Jobs,
           Dispatch(j) \/ JobStep(j) \/ JobFault(j),
           AllClean', Produced(j)', ~overlapped' => Unreplied(j)' /\ Kept(j)'
    PROVE  ReplyInv'
<1>0. overlapped \in BOOLEAN /\ overlapped' \in BOOLEAN /\ disk \in Seq(Row) /\ disk' \in Seq(Row)
      /\ turned \in Seq(Messages)
  BY DEF IInv, TypeOK, TypesOfJobs, TypesOfRows
<1>1. ASSUME NEW i \in Jobs \ {j}
      PROVE  /\ turn'[i] = turn[i] /\ pc'[i] = pc[i]
             /\ pc[i] \in InTurn => /\ Mem(i)' = Mem(i)
                                    /\ agents'[turn[i].agent].saved = agents[turn[i].agent].saved
  BY OthersTurnOn
<1>2. \A m : Turned(m) => Turned(m)'
  <2>1. CASE turned' = turned
    BY <2>1 DEF Turned
  <2>2. CASE Begins(j)
    <3>1. turned' = Append(turned, turn[j].msg)
      BY <2>2 DEF Begins
    <3>2. DOMAIN turned \subseteq DOMAIN turned' /\ \A i \in DOMAIN turned : turned'[i] = turned[i]
      BY <1>0, <3>1
    <3> QED
      BY <3>2 DEF Turned
  <2> QED
    BY <2>1, <2>2, MessagesGoOn
<1>3. ASSUME NEW i \in Jobs \ {j}
      PROVE  Produced(i)'
  BY <1>1, <1>2 DEF ReplyInv, Produced, InTurn
<1>4. overlapped => overlapped'
  BY MessagesGoOn
<1>5. ASSUME ~overlapped', NEW i \in Jobs \ {j}
      PROVE  Unreplied(i)'
  <2>1. Unreplied(i)
    BY <1>4, <1>5 DEF ReplyInv
  <2> QED
    BY <1>1, <2>1 DEF Unreplied, InSave
<1>6. ASSUME NEW row, Stored(row)
      PROVE  Stored(row)'
  <2>1. IsPrefix(disk, disk')
    BY DiskGrows
  <2>2. Len(disk) <= Len(disk') /\ \A i \in 1..Len(disk) : disk[i] = disk'[i]
    BY <1>0, <2>1, PrefixAgrees
  <2> QED
    BY <1>0, <1>6, <2>2 DEF Stored
<1>7. ASSUME ~overlapped', NEW i \in Jobs \ {j}
      PROVE  Kept(i)'
  <2>1. Kept(i)
    BY <1>4, <1>7 DEF ReplyInv
  <2>2. SUFFICES ASSUME pc[i] = "ending" PROVE Kept(i)'
    BY <1>1 DEF Kept
  <2>3. closePending => closePending'
    <3>1. ~Leaves(j)
      <4>1. \A x, y \in Running : x = y
        BY <1>4, <1>7 DEF QInv, OneRuns
      <4>2. i \in Running /\ (Leaves(j) => j \in Running)
        BY <2>2 DEF Running, Leaves, Goes
      <4> QED
        BY <4>1, <4>2
    <3> QED
      BY <3>1 DEF JobStep, JobFault, Dispatch, Fetches, Locks, Persists, PersistFails, Pushes, Starts,
         Loads, Builds, BootstrapFails, ChecksCancel, StopsDraining, Picks, Begins, Resets, Replies,
         Returns, StepFails, Saves, SaveFails, Merges, SavesMerged, Resyncs, Ends, Shifts, Finishes, agent
  <2> QED
    BY <1>1, <1>6, <2>1, <2>2, <2>3 DEF Kept, InTurn
<1> QED
  BY <1>0, <1>3, <1>5, <1>7 DEF ReplyInv

-----------------------------------------------------------------------------
(* Steps of a job. *)

\* Transcripts that are old ones, or were shown to be clean.
LEMMA StayClean ==
    ASSUME IInv, IInv', [Next]_vars,
           disk' \in Clean \cup Clean', slot' \in Clean \cup Clean', taken' \in Clean \cup Clean',
           \A a \in Agents : agents'[a].mem \in Clean \cup Clean',
           \A j \in Jobs : turn'[j].found \in Clean \cup Clean'
    PROVE  AllClean'
BY KnownGrow DEF AllClean

LEMMA EmptyClean == ASSUME IInv PROVE <<>> \in Clean
<1>1. KnownRows \in SUBSET Row /\ (~overlapped) \in BOOLEAN
  BY DEF KnownRows
<1> QED
  BY <1>1, EmptyIsClean DEF Clean

\* Steps that touch no transcript and begin, save or end no turn.
LEMMA QuietReplies ==
    ASSUME IInv, IInv', QInv, QInv', ReplyInv, [Next]_vars, NEW j \in Jobs,
           \/ Dispatch(j) \/ Fetches(j) \/ Locks(j) \/ PersistFails(j) \/ Pushes(j) \/ Starts(j)
           \/ BootstrapFails(j) \/ StopsDraining(j) \/ Picks(j) \/ Ends(j) \/ Shifts(j) \/ Finishes(j)
    PROVE  ReplyInv'
<1> DEFINE Calm == /\ disk' = disk /\ slot' = slot /\ taken' = taken /\ agents' = agents
                   /\ \A i \in Jobs : turn'[i].found \in {turn[i].found, <<>>}
           Out == /\ pc'[j] \notin InTurn
                  /\ turn'[j].resp = turn[j].resp \/ turn'[j].resp = <<>>
                  /\ turn'[j].resp # <<>> => turn'[j].msg = turn[j].msg
                  /\ pc'[j] \notin (InTurn \ {"begun"}) \cup {"shifting"} => turn'[j].resp = <<>>
<1>0. /\ turn \in [Jobs -> TurnState] /\ pc \in [Jobs -> Places] /\ turn' \in [Jobs -> TurnState]
  BY DEF IInv, TypeOK, TypesOfJobs
<1>1. Produced(j) /\ AllClean
  BY DEF ReplyInv
<1>2. Calm /\ Out
  <2>1. CASE Dispatch(j)
    <3>1. Calm
      BY <1>0, <2>1 DEF Dispatch, Goes, TurnState, live, agent, jobs, Keeps, NoTurn
    <3>2. Out
      BY <1>0, <1>1, <2>1 DEF Dispatch, Goes, TurnState, InTurn, Produced, jobs, Keeps, NoTurn
    <3> QED
      BY <3>1, <3>2
  <2>2. CASE Fetches(j)
    <3>1. Calm
      BY <1>0, <2>2 DEF Fetches, Goes, TurnState, live, agent, jobs, Keeps, NoTurn
    <3>2. Out
      BY <1>0, <1>1, <2>2 DEF Fetches, Goes, TurnState, InTurn, Produced, jobs, Keeps, NoTurn
    <3> QED
      BY <3>1, <3>2
  <2>3. CASE Locks(j)
    <3>1. Calm
      BY <1>0, <2>3 DEF Locks, Goes, TurnState, live, agent, jobs, Keeps, NoTurn
    <3>2. Out
      BY <1>0, <1>1, <2>3 DEF Locks, Goes, TurnState, InTurn, Produced, jobs, Keeps, NoTurn
    <3> QED
      BY <3>1, <3>2
  <2>4. CASE PersistFails(j)
    <3>1. Calm
      BY <1>0, <2>4 DEF PersistFails, Goes, TurnState, live, agent, jobs, Keeps, NoTurn
    <3>2. Out
      BY <1>0, <1>1, <2>4 DEF PersistFails, Goes, TurnState, InTurn, Produced, jobs, Keeps, NoTurn
    <3> QED
      BY <3>1, <3>2
  <2>5. CASE Pushes(j)
    <3>1. Calm
      BY <1>0, <2>5 DEF Pushes, Goes, TurnState, live, agent, jobs, Keeps, NoTurn
    <3>2. Out
      BY <1>0, <1>1, <2>5 DEF Pushes, Goes, TurnState, InTurn, Produced, jobs, Keeps, NoTurn
    <3> QED
      BY <3>1, <3>2
  <2>6. CASE Starts(j)
    <3>1. Calm
      BY <1>0, <2>6 DEF Starts, Goes, TurnState, live, agent, jobs, Keeps, NoTurn
    <3>2. Out
      BY <1>0, <1>1, <2>6 DEF Starts, Goes, TurnState, InTurn, Produced, jobs, Keeps, NoTurn
    <3> QED
      BY <3>1, <3>2
  <2>7. CASE BootstrapFails(j)
    <3>1. Calm
      BY <1>0, <2>7 DEF BootstrapFails, Goes, TurnState, live, agent, jobs, Keeps, NoTurn
    <3>2. Out
      BY <1>0, <1>1, <2>7 DEF BootstrapFails, Goes, TurnState, InTurn, Produced, jobs, Keeps, NoTurn
    <3> QED
      BY <3>1, <3>2
  <2>8. CASE StopsDraining(j)
    <3>1. Calm
      BY <1>0, <2>8 DEF StopsDraining, Goes, TurnState, live, agent, jobs, Keeps, NoTurn
    <3>2. Out
      BY <1>0, <1>1, <2>8 DEF StopsDraining, Goes, TurnState, InTurn, Produced, jobs, Keeps, NoTurn
    <3> QED
      BY <3>1, <3>2
  <2>9. CASE Picks(j)
    <3>1. Calm
      BY <1>0, <2>9 DEF Picks, Goes, TurnState, live, agent, jobs, Keeps, NoTurn
    <3>2. Out
      BY <1>0, <1>1, <2>9 DEF Picks, Goes, TurnState, InTurn, Produced, jobs, Keeps, NoTurn
    <3> QED
      BY <3>1, <3>2
  <2>10. CASE Ends(j)
    <3>1. Calm
      BY <1>0, <2>10 DEF Ends, Goes, TurnState, live, agent, jobs, Keeps, NoTurn
    <3>2. Out
      BY <1>0, <1>1, <2>10 DEF Ends, Goes, TurnState, InTurn, Produced, jobs, Keeps, NoTurn
    <3> QED
      BY <3>1, <3>2
  <2>11. CASE Shifts(j)
    <3>1. Calm
      BY <1>0, <2>11 DEF Shifts, Goes, TurnState, live, agent, jobs, Keeps, NoTurn
    <3>2. Out
      BY <1>0, <1>1, <2>11 DEF Shifts, Goes, TurnState, InTurn, Produced, jobs, Keeps, NoTurn
    <3> QED
      BY <3>1, <3>2
  <2>12. CASE Finishes(j)
    <3>1. Calm
      BY <1>0, <2>12 DEF Finishes, Goes, TurnState, live, agent, jobs, Keeps, NoTurn
    <3>2. Out
      BY <1>0, <1>1, <2>12 DEF Finishes, Goes, TurnState, InTurn, Produced, jobs, Keeps, NoTurn
    <3> QED
      BY <3>1, <3>2
  <2> QED
    BY <2>1, <2>2, <2>3, <2>4, <2>5, <2>6, <2>7, <2>8, <2>9, <2>10, <2>11, <2>12
<1>3. AllClean'
  BY <1>1, <1>2, EmptyClean, StayClean DEF AllClean
<1>4. Produced(j)' /\ Unreplied(j)' /\ Kept(j)'
  BY <1>0, <1>1, <1>2 DEF Produced, Unreplied, Kept, InSave, InTurn
<1>5. Dispatch(j) \/ JobStep(j) \/ JobFault(j)
  BY DEF JobStep, JobFault
<1> QED
  BY <1>3, <1>4, <1>5, JobReplies

\* Steps around the bootstrap and the message's row.
LEMMA LoadsReplies ==
    ASSUME IInv, IInv', QInv, QInv', ReplyInv, [Next]_vars, NEW j \in Jobs, Loads(j)
    PROVE  ReplyInv'
<1>0. turn \in [Jobs -> TurnState] /\ pc \in [Jobs -> Places]
  BY DEF IInv, TypeOK, TypesOfJobs
<1>1. Produced(j) /\ AllClean /\ pc[j] = "loading"
  BY DEF ReplyInv, Loads, Goes
<1>2. /\ disk' = disk /\ slot' = slot /\ taken' = taken /\ agents' = agents
      /\ \A i \in Jobs : turn'[i].found \in {turn[i].found, disk}
      /\ turn'[j].resp = turn[j].resp /\ pc'[j] = "building"
  BY <1>0 DEF Loads, Goes, TurnState, live, agent
<1>3. AllClean'
  BY <1>1, <1>2, StayClean DEF AllClean
<1>4. Produced(j)' /\ Unreplied(j)' /\ Kept(j)'
  BY <1>1, <1>2 DEF Produced, Unreplied, Kept, InSave, InTurn
<1> QED
  BY <1>3, <1>4, JobReplies DEF JobStep

LEMMA PersistsReplies ==
    ASSUME IInv, IInv', QInv, QInv', ReplyInv, [Next]_vars, NEW j \in Jobs, Persists(j)
    PROVE  ReplyInv'
<1>0. pc \in [Jobs -> Places] /\ disk \in Seq(Row)
  BY DEF IInv, TypeOK, TypesOfJobs, TypesOfRows
<1>1. /\ Produced(j) /\ AllClean /\ pc[j] = "persisting"
      /\ pc' = [pc EXCEPT ![j] = "pushing"] /\ disk' = Append(disk, UserRow(j, NextUserSeq(disk)))
      /\ slot' = slot /\ taken' = taken /\ agents' = agents /\ turn' = turn
  BY DEF ReplyInv, Persists, Goes, live, agent
<1>2. j \in Messages
  BY <1>1 DEF IInv, Equipped, EquippedJob, Messages
<1>3. UserRow(j, NextUserSeq(disk)) \in KnownRows'
  <2>1. UserRow(j, NextUserSeq(disk)) \in Row
    BY <1>0, <1>2, UserRowTyped
  <2> QED
    BY <1>0, <1>1, <2>1 DEF KnownRows, UserRow, Unpersisted
<1>4. disk \in Clean'
  BY <1>1, KnownGrow DEF AllClean
<1>5. disk' \in Clean'
  <2>1. KnownRows' \in SUBSET Row /\ (~overlapped') \in BOOLEAN
    BY DEF KnownRows
  <2> DEFINE row == UserRow(j, NextUserSeq(disk))
  <2>2. row.by = "user" /\ row \in KnownRows'
    BY <1>3 DEF UserRow
  <2> HIDE DEF row
  <2>3. Append(disk, row) \in CleanSeqs(KnownRows', ~overlapped')
    BY <1>4, <2>1, <2>2, AppendIsClean DEF Clean
  <2> QED
    BY <1>1, <2>3 DEF Clean, row
<1>6. AllClean'
  BY <1>1, <1>5, StayClean DEF AllClean
<1>7. Produced(j)' /\ Unreplied(j)' /\ Kept(j)'
  BY <1>0, <1>1 DEF Produced, Unreplied, Kept, InSave, InTurn
<1> QED
  BY <1>6, <1>7, JobReplies DEF JobStep

LEMMA BuildsReplies ==
    ASSUME IInv, IInv', QInv, QInv', ReplyInv, [Next]_vars, NEW j \in Jobs, Builds(j)
    PROVE  ReplyInv'
<1> DEFINE found == turn[j].found
           fresh == CHOOSE a \in Agents :
                      a \notin {resident, evictor.agent} \cup {turn[i].agent : i \in Jobs}
           kept == SubSeq(found, 1, Len(found) - StripLen(found, pending))
<1>0. /\ turn \in [Jobs -> TurnState] /\ pc \in [Jobs -> Places] /\ agents \in [Agents -> AgentState]
      /\ pending \in Seq(Messages)
  BY DEF IInv, TypeOK, TypesOfJobs, TypesOfAgents, TypesOfRows
<1>1. /\ Produced(j) /\ AllClean /\ pc[j] = "building" /\ pc'[j] = "built"
      /\ disk' = disk /\ slot' = slot /\ taken' = taken /\ turn'[j].resp = turn[j].resp
      /\ \A i \in Jobs : turn'[i].found \in {turn[i].found, <<>>}
  BY <1>0 DEF ReplyInv, Builds, Goes, live, TurnState
<1>2. \A a \in Agents : agents'[a].mem \in Clean
  <2>1. CASE resident # 0
    BY <1>1, <2>1 DEF Builds, AllClean
  <2>2. CASE resident = 0
    <3>1. found \in Seq(Row) /\ found \in Clean
      BY <1>0, <1>1 DEF TurnState, AllClean
    <3>2. Len(found) - StripLen(found, pending) \in 0..Len(found)
      BY <1>0, <3>1, StripLenTyped
    <3>3. kept \in Clean
      <4> HIDE DEF found
      <4> DEFINE n == Len(found) - StripLen(found, pending)
      <4>1. n \in 0..Len(found)
        BY <3>2
      <4> HIDE DEF n
      <4>2. KnownRows \in SUBSET Row /\ (~overlapped) \in BOOLEAN
        BY DEF KnownRows
      <4>3. SubSeq(found, 1, n) \in Clean
        BY <3>1, <4>1, <4>2, CutIsClean DEF Clean
      <4> QED
        BY <4>3 DEF n
    <3>4. fresh \in Agents
      BY <1>1, <2>2, FreshAgent
    <3>5. agents' = [agents EXCEPT ![fresh] = [agents[fresh] EXCEPT !.mem = kept]]
      BY <2>2 DEF Builds
    <3> HIDE DEF fresh, kept
    <3>6. \A a \in Agents : agents'[a].mem \in {agents[a].mem, kept}
      BY <1>0, <3>4, <3>5 DEF AgentState
    <3> QED
      BY <1>1, <3>3, <3>6 DEF AllClean
  <2> QED
    BY <2>1, <2>2
<1>3. AllClean'
  BY <1>1, <1>2, EmptyClean, StayClean DEF AllClean
<1>4. Produced(j)' /\ Unreplied(j)' /\ Kept(j)'
  BY <1>1 DEF Produced, Unreplied, Kept, InSave, InTurn
<1> QED
  BY <1>3, <1>4, JobReplies DEF JobStep

\* An agent's stop channel is closed, or replaced.
LEMMA ChecksCancelReplies ==
    ASSUME IInv, IInv', QInv, QInv', ReplyInv, [Next]_vars, NEW j \in Jobs,
           ChecksCancel(j) \/ Resets(j)
    PROVE  ReplyInv'
<1> DEFINE a == turn[j].agent
<1>0. /\ turn \in [Jobs -> TurnState] /\ pc \in [Jobs -> Places] /\ agents \in [Agents -> AgentState]
      /\ a \in Agents
  BY InHand DEF IInv, TypeOK, TypesOfJobs, TypesOfAgents, ChecksCancel, Resets, Goes, Working, Turning, InTurn
<1>1. /\ Produced(j) /\ AllClean /\ (overlapped \/ Unreplied(j)) /\ overlapped' = overlapped
      /\ disk' = disk /\ slot' = slot /\ taken' = taken /\ turn' = turn /\ turned' = turned
      /\ \/ pc[j] \in {"built", "ready"} /\ pc'[j] \in {"leaving", "ready", "draining"}
         \/ pc[j] = "begun" /\ pc'[j] = "stepping"
  BY <1>0 DEF ReplyInv, ChecksCancel, Resets, Goes, live, ghosts
<1>2. \A b \in Agents : agents'[b].mem = agents[b].mem
  BY <1>0 DEF ChecksCancel, Resets, AgentState
<1>3. AllClean'
  BY <1>1, <1>2, StayClean DEF AllClean
<1>4. Mem(j)' = Mem(j)
  BY <1>0, <1>1, <1>2 DEF Mem
<1>5. Produced(j)' /\ Kept(j)' /\ (~overlapped' => Unreplied(j)')
  BY <1>0, <1>1, <1>4 DEF Produced, Unreplied, Kept, InSave, InTurn, Turned
<1> QED
  BY <1>3, <1>5, JobReplies DEF JobStep

-----------------------------------------------------------------------------
(* Steps of a turn. *)

\* The message that a turn begins with has not been turned before, so that no
\* transcript holds a reply to it.
LEMMA BeginsReplies ==
    ASSUME IInv, IInv', QInv, QInv', ReplyInv, [Next]_vars, NEW j \in Jobs, Begins(j)
    PROVE  ReplyInv'
<1> DEFINE a == turn[j].agent
           m == turn[j].msg
           mem == agents[a].mem
           row == UserRow(m, NextUserSeq(mem))
<1>0. /\ turn \in [Jobs -> TurnState] /\ pc \in [Jobs -> Places] /\ agents \in [Agents -> AgentState]
      /\ a \in Agents /\ m \in Messages /\ mem \in Seq(Row) /\ row \in Row /\ row.by = "user"
      /\ turned \in Seq(Messages) /\ overlapped \in BOOLEAN
  <2>1. a \in Agents /\ m \in Messages /\ mem \in Seq(Row)
    BY InHand DEF Begins, Goes, Working, Turning, Mem
  <2>2. row \in Row /\ row.by = "user"
    BY <2>1, UserRowTyped DEF UserRow
  <2> QED
    BY <2>1, <2>2 DEF IInv, TypeOK, TypesOfJobs, TypesOfAgents, TypesOfRows
<1>1. /\ Produced(j) /\ AllClean /\ pc[j] = "picked" /\ pc'[j] = "begun" /\ overlapped' = overlapped
      /\ disk' = disk /\ taken' = taken /\ slot' = agents'[a].mem /\ turned' = Append(turned, m)
      /\ \A i \in Jobs : turn'[i].found = turn[i].found
      /\ turn'[j].base = Len(mem) + 1 /\ turn'[j].agent = a /\ turn'[j].msg = m
      /\ turn'[j].resp = turn[j].resp
  BY <1>0 DEF ReplyInv, Begins, Goes, TurnState, Mem
<1>2. /\ agents'[a].mem = Append(mem, row)
      /\ \A b \in Agents \ {a} : agents'[b].mem = agents[b].mem
  <2>1. agents' = [agents EXCEPT ![a] = [[agents[a] EXCEPT !.mem = Append(mem, row)] EXCEPT !.saved = FALSE]]
    BY <1>0 DEF Begins
  <2> HIDE DEF row, mem
  <2> QED
    BY <1>0, <2>1 DEF AgentState
<1> HIDE DEF row
<1>3. row \in KnownRows
  <2>1. ~Unsent(m)
    BY <1>1 DEF QInv, EntersOnce
  <2> QED
    BY <1>0, <2>1 DEF KnownRows, Unsent, Unpushed, Unpersisted, row, UserRow
<1>4. mem \in Clean /\ mem \in Seq(KnownRows)
  BY <1>0, <1>1 DEF AllClean, Clean, CleanSeqs
<1>5. Append(mem, row) \in Clean
  <2>1. KnownRows \in SUBSET Row /\ (~overlapped) \in BOOLEAN
    BY DEF KnownRows
  <2> QED
    BY <1>0, <1>3, <1>4, <2>1, AppendIsClean DEF Clean
<1>6. AllClean'
  BY <1>1, <1>2, <1>5, StayClean DEF AllClean
<1>7. Mem(j)' = Append(mem, row)
  BY <1>1, <1>2 DEF Mem
<1>8. Produced(j)'
  <2>1. Len(Append(mem, row)) = Len(mem) + 1
    BY <1>0
  <2>2. turn'[j].resp = <<>>
    BY <1>1 DEF Produced, InTurn
  <2>3. Len(turned) + 1 \in DOMAIN turned' /\ turned'[Len(turned) + 1] = turn'[j].msg
    BY <1>0, <1>1
  <2> QED
    BY <1>1, <1>7, <2>1, <2>2, <2>3 DEF Produced, InTurn, Turned
<1>9. ASSUME ~overlapped PROVE Unreplied(j)'
  <2>1. ~Turned(m)
    BY <1>1, <1>9 DEF QInv, HandsOut
  <2>2. \A i \in 1..Len(mem) : mem[i] # Reply(m)
    <3>1. \A i \in 1..Len(mem) : mem[i] \in KnownRows
      BY <1>4
    <3>2. Reply(m) \notin KnownRows
      BY <2>1 DEF KnownRows, Reply
    <3> QED
      BY <3>1, <3>2
  <2>3. row # Reply(m)
    BY <1>0 DEF Reply
  <2>4. \A i \in 1 .. Len(mem) + 1 : Append(mem, row)[i] # Reply(m)
    BY <1>0, <2>2, <2>3
  <2> QED
    BY <1>1, <1>7, <2>4 DEF Unreplied
<1>10. Kept(j)'
  BY <1>1 DEF Kept
<1> QED
  BY <1>1, <1>6, <1>8, <1>9, <1>10, JobReplies DEF JobStep

LEMMA RepliesReplies ==
    ASSUME IInv, IInv', QInv, QInv', ReplyInv, [Next]_vars, NEW j \in Jobs, Replies(j)
    PROVE  ReplyInv'
<1> DEFINE m == turn[j].msg
           row == Reply(m)
<1>0. /\ turn \in [Jobs -> TurnState] /\ m \in Messages /\ row \in Row /\ Mem(j) \in Seq(Row)
      /\ turn[j].agent \in Agents /\ row.by = "agent" /\ overlapped \in BOOLEAN
  BY InHand, ReplyTyped DEF IInv, TypeOK, TypesOfJobs, Replies, Working, Turning, InTurn, Reply
<1>1. /\ Produced(j) /\ AllClean /\ (overlapped \/ Unreplied(j)) /\ overlapped' = overlapped
      /\ pc[j] = "stepping" /\ pc' = pc /\ turn[j].resp = <<>> /\ turn'[j].resp = <<row>>
      /\ disk' = disk /\ taken' = taken /\ agents' = agents /\ turned' = turned
      /\ slot' = Append(Mem(j), row)
      /\ \A i \in Jobs : turn'[i].found = turn[i].found
      /\ turn'[j].agent = turn[j].agent /\ turn'[j].msg = m /\ turn'[j].base = turn[j].base
  BY <1>0 DEF ReplyInv, Replies, agent, ghosts, TurnState
<1>2. /\ Len(Mem(j)) = turn[j].base /\ Mem(j)' = Mem(j) /\ Mem(j) \in Clean
      /\ Turned(m) /\ row \in KnownRows
  BY <1>0, <1>1 DEF Produced, Mem, AllClean, InTurn, KnownRows, Reply
<1>3. slot' \in Clean
  <2>1. ~overlapped => \A i \in DOMAIN Mem(j) : Mem(j)[i] # row
    BY <1>0, <1>1, <1>2 DEF Unreplied, InSave, InTurn
  <2>2. KnownRows \in SUBSET Row /\ (~overlapped) \in BOOLEAN
    BY DEF KnownRows
  <2> HIDE DEF row
  <2>3. Append(Mem(j), row) \in Clean
    BY <1>2, <2>1, <2>2, AppendIsClean DEF Clean
  <2> QED
    BY <1>1, <2>3
<1>4. AllClean'
  BY <1>1, <1>3, StayClean DEF AllClean
<1>5. Produced(j)' /\ Kept(j)' /\ (~overlapped' => Unreplied(j)')
  BY <1>1, <1>2 DEF Produced, Unreplied, Kept, InSave, InTurn, Turned
<1> QED
  BY <1>4, <1>5, JobReplies DEF JobStep

LEMMA ReturnsReplies ==
    ASSUME IInv, IInv', QInv, QInv', ReplyInv, [Next]_vars, NEW j \in Jobs, Returns(j) \/ StepFails(j)
    PROVE  ReplyInv'
<1> DEFINE a == turn[j].agent
           m == turn[j].msg
           mem == agents[a].mem
           resp == turn[j].resp
<1>0. /\ turn \in [Jobs -> TurnState] /\ agents \in [Agents -> AgentState] /\ pc \in [Jobs -> Places]
      /\ a \in Agents /\ m \in Messages /\ mem \in Seq(Row) /\ resp \in Seq(Row)
      /\ Reply(m) \in Row /\ overlapped \in BOOLEAN
  <2>1. a \in Agents /\ m \in Messages /\ mem \in Seq(Row)
    BY InHand DEF Returns, StepFails, Goes, Working, Turning, InTurn, Mem
  <2> QED
    BY <2>1, ReplyTyped DEF IInv, TypeOK, TypesOfJobs, TypesOfAgents, TurnState
<1>1. /\ Produced(j) /\ AllClean /\ (overlapped \/ Unreplied(j)) /\ overlapped' = overlapped
      /\ pc[j] = "stepping" /\ pc'[j] = "saving"
      /\ disk' = disk /\ taken' = taken /\ slot' = slot /\ turned' = turned
      /\ \A i \in Jobs : turn'[i].found = turn[i].found
      /\ turn'[j].agent = a /\ turn'[j].msg = m /\ turn'[j].base = turn[j].base /\ turn'[j].resp = resp
  <2>1. \E b \in BOOLEAN : turn' = [turn EXCEPT ![j].err = b]
    BY <1>0 DEF Returns, StepFails, AgentState
  <2>2. /\ \A i \in Jobs : turn'[i].found = turn[i].found
        /\ turn'[j].agent = a /\ turn'[j].msg = m /\ turn'[j].base = turn[j].base /\ turn'[j].resp = resp
    BY <1>0, <2>1 DEF TurnState
  <2>3. /\ Produced(j) /\ AllClean /\ (overlapped \/ Unreplied(j))
    BY DEF ReplyInv
  <2>4. /\ overlapped' = overlapped /\ pc[j] = "stepping" /\ pc'[j] = "saving"
        /\ disk' = disk /\ taken' = taken /\ slot' = slot /\ turned' = turned
    BY <1>0 DEF Returns, StepFails, Goes, live, ghosts
  <2> QED
    BY <2>2, <2>3, <2>4
<1>2. agents'[a].mem = mem \o resp /\ \A b \in Agents \ {a} : agents'[b].mem = agents[b].mem
  <2>1. agents' = [agents EXCEPT ![a] = [agents[a] EXCEPT !.mem = mem \o resp]]
    BY <1>0 DEF Returns, StepFails, AgentState
  <2> HIDE DEF mem, resp
  <2> QED
    BY <1>0, <2>1 DEF AgentState
<1>3. /\ Len(mem) = turn[j].base /\ Turned(m) /\ resp \in {<<>>, <<Reply(m)>>}
      /\ Reply(m) \in KnownRows /\ mem \in Clean
  BY <1>0, <1>1 DEF Produced, Mem, InTurn, AllClean, KnownRows, Reply
<1>4. mem \o resp = IF resp = <<>> THEN mem ELSE Append(mem, Reply(m))
  <2> DEFINE row == Reply(m)
  <2>1. mem \in Seq(Row) /\ row \in Row /\ resp \in {<<>>, <<row>>}
    BY <1>0, <1>3
  <2> HIDE DEF mem, resp, row
  <2>2. mem \o <<>> = mem /\ mem \o <<row>> = Append(mem, row) /\ <<row>> # <<>>
    BY <2>1
  <2> QED
    BY <2>1, <2>2 DEF row
<1>5. ~overlapped => \A i \in DOMAIN mem : mem[i] # Reply(m)
  BY <1>0, <1>1, <1>3 DEF Unreplied, InSave, InTurn, Mem
<1> HIDE DEF mem, resp
<1>6. mem \o resp \in Clean
  <2>1. KnownRows \in SUBSET Row /\ (~overlapped) \in BOOLEAN
    BY DEF KnownRows
  <2>2. Append(mem, Reply(m)) \in Clean
    BY <1>3, <1>5, <2>1, AppendIsClean DEF Clean
  <2> QED
    BY <1>3, <1>4, <2>2
<1>7. AllClean'
  BY <1>1, <1>2, <1>6, StayClean DEF AllClean
<1>8. Mem(j)' = mem \o resp
  BY <1>1, <1>2 DEF Mem
<1>9. /\ Len(mem \o resp) = Len(mem) + Len(resp)
      /\ resp # <<>> => (mem \o resp)[Len(mem) + 1] = Reply(m)
      /\ \A i \in 1..Len(mem) : (mem \o resp)[i] = mem[i]
  BY <1>0, <1>3
<1>10. Produced(j)'
  BY <1>1, <1>3, <1>8, <1>9 DEF Produced, InTurn, Turned
<1>11. Kept(j)' /\ (~overlapped' => Unreplied(j)')
  BY <1>1, <1>3, <1>5, <1>8, <1>9, <1>0 DEF Unreplied, Kept, InSave, InTurn
<1> QED
  BY <1>7, <1>10, <1>11, JobReplies DEF JobStep, JobFault

LEMMA SavesReplies ==
    ASSUME IInv, IInv', RowsInv, QInv, QInv', ReplyInv, [Next]_vars, NEW j \in Jobs,
           Saves(j) \/ SaveFails(j)
    PROVE  ReplyInv'
<1> DEFINE a == turn[j].agent
           m == turn[j].msg
<1>0. /\ turn \in [Jobs -> TurnState] /\ agents \in [Agents -> AgentState] /\ pc \in [Jobs -> Places]
      /\ a \in Agents /\ Mem(j) \in Seq(Row)
  BY InHand DEF Saves, SaveFails, Goes, Working, Turning, InTurn, IInv, TypeOK, TypesOfJobs, TypesOfAgents
<1>1. /\ Produced(j) /\ AllClean /\ (overlapped \/ Unreplied(j)) /\ overlapped' = overlapped
      /\ taken' = taken /\ slot' = slot /\ turned' = turned /\ turn' = turn
      /\ pc[j] \in {"saving", "merged"} /\ pc'[j] \in {"ending", "merging"}
      /\ pc'[j] = "merging" => pc[j] = "saving"
  BY <1>0 DEF ReplyInv, Saves, SaveFails, Goes, live, ghosts
<1>2. \A b \in Agents : agents'[b].mem = agents[b].mem
  <2>1. (\E v : agents' = [agents EXCEPT ![a].saved = v]) \/ agents' = agents
    BY DEF Saves, SaveFails, agent
  <2>2. ASSUME NEW s \in AgentState, NEW v
        PROVE  [s EXCEPT !.saved = v].mem = s.mem
    BY DEF AgentState
  <2>3. \A b \in Agents \ {a} : agents'[b] = agents[b]
    BY <1>0, <2>1
  <2>4. agents'[a].mem = agents[a].mem
    <3>1. CASE agents' = agents
      BY <3>1
    <3>2. ASSUME NEW v, agents' = [agents EXCEPT ![a].saved = v]
          PROVE  agents'[a].mem = agents[a].mem
      <4>1. agents[a] \in AgentState /\ agents'[a] = [agents[a] EXCEPT !.saved = v]
        BY <1>0, <3>2
      <4> QED
        BY <2>2, <4>1
    <3> QED
      BY <2>1, <3>1, <3>2
  <2> QED
    BY <2>3, <2>4
<1>3. Mem(j)' = Mem(j) /\ Mem(j) \in Clean
  BY <1>0, <1>1, <1>2 DEF Mem, AllClean
<1>4. disk' \in {disk, Mem(j)}
  BY DEF Saves, SaveFails
<1>5. AllClean'
  BY <1>1, <1>2, <1>3, <1>4, StayClean DEF AllClean
<1>6. Produced(j)' /\ (~overlapped' => Unreplied(j)')
  BY <1>1, <1>3 DEF Produced, Unreplied, InSave, InTurn, Turned
<1>7. Kept(j)'
  <2>1. SUFFICES ASSUME pc'[j] = "ending", agents'[a].saved, turn[j].resp # <<>>
                 PROVE  Stored(Reply(m))'
    BY <1>1 DEF Kept
  <2>2. ~agents[a].saved
    BY <1>1 DEF RowsInv, JobAligned, InSave, InTurn
  <2>3. Saves(j) /\ disk' = Mem(j) /\ pc[j] = "saving"
    BY <1>0, <2>1, <2>2 DEF Saves, SaveFails, Goes, AgentState, agent
  <2>4. turn[j].base + 1 \in DOMAIN Mem(j) /\ Mem(j)[turn[j].base + 1] = Reply(m)
    <3>1. Len(turn[j].resp) = 1 /\ turn[j].base \in Nat
      BY <1>0, <1>1, <2>1 DEF Produced, TurnState
    <3> QED
      BY <1>0, <1>1, <2>1, <2>3, <3>1 DEF Produced
  <2> QED
    BY <1>1, <2>3, <2>4 DEF Stored
<1> QED
  BY <1>5, <1>6, <1>7, JobReplies DEF JobStep, JobFault

\* What a merge finds begins with the turn's base.
LEMMA MergesReplies ==
    ASSUME IInv, IInv', QInv, QInv', ReplyInv, [Next]_vars, NEW j \in Jobs, Merges(j)
    PROVE  ReplyInv'
<1>0. turn \in [Jobs -> TurnState] /\ pc \in [Jobs -> Places]
  BY DEF IInv, TypeOK, TypesOfJobs
<1>1. /\ Produced(j) /\ AllClean /\ (overlapped \/ Unreplied(j)) /\ overlapped' = overlapped
      /\ disk' = disk /\ taken' = taken /\ slot' = slot /\ turned' = turned /\ agents' = agents
      /\ pc[j] = "merging" /\ pc'[j] \in {"merged", "resyncing"}
      /\ pc'[j] = "merged" => BaseStored(disk, Mem(j), turn[j].base) /\ turn'[j].found = disk
      /\ \A i \in Jobs : turn'[i].found \in {turn[i].found, disk, <<>>}
      /\ turn'[j].agent = turn[j].agent /\ turn'[j].msg = turn[j].msg
      /\ turn'[j].base = turn[j].base /\ turn'[j].resp = turn[j].resp
  BY <1>0 DEF ReplyInv, Merges, Goes, live, ghosts, TurnState, agent
<1>2. AllClean'
  BY <1>1, EmptyClean, StayClean DEF AllClean
<1>3. Mem(j)' = Mem(j)
  BY <1>1 DEF Mem
<1>4. Produced(j)'
  <2>1. BaseStored(turn[j].found, Mem(j), turn[j].base)' <=> BaseStored(turn'[j].found, Mem(j), turn[j].base)
    BY <1>1, <1>3 DEF BaseStored
  <2> QED
    BY <1>1, <1>3, <2>1 DEF Produced, InTurn, Turned
<1>5. Kept(j)' /\ (~overlapped' => Unreplied(j)')
  BY <1>1, <1>3 DEF Unreplied, Kept, InSave, InTurn
<1> QED
  BY <1>2, <1>4, <1>5, JobReplies DEF JobStep

\* A merge keeps the turn's reply and stores it once.
LEMMA MergedReplies ==
    ASSUME IInv, IInv', QInv, QInv', ReplyInv, [Next]_vars, NEW j \in Jobs, SavesMerged(j)
    PROVE  ReplyInv'
<1> DEFINE a == turn[j].agent
           m == turn[j].msg
           found == turn[j].found
           base == turn[j].base
           rows == MergeAppend(found, Mem(j), base)
<1>0. /\ turn \in [Jobs -> TurnState] /\ agents \in [Agents -> AgentState] /\ pc \in [Jobs -> Places]
      /\ a \in Agents /\ Mem(j) \in Seq(Row) /\ found \in Seq(Row) /\ base \in Nat
      /\ m \in Messages /\ Reply(m) \in Row /\ overlapped \in BOOLEAN /\ turn[j].resp \in Seq(Row)
  <2>1. a \in Agents /\ Mem(j) \in Seq(Row) /\ m \in Messages
    BY InHand DEF SavesMerged, Goes, Working, Turning, InTurn
  <2> QED
    BY <2>1, ReplyTyped DEF IInv, TypeOK, TypesOfJobs, TypesOfAgents, TurnState
<1>1. /\ Produced(j) /\ AllClean /\ (overlapped \/ Unreplied(j)) /\ overlapped' = overlapped
      /\ taken' = taken /\ slot' = slot /\ turned' = turned /\ pc[j] = "merged"
      /\ \A i \in Jobs : turn'[i].found \in {turn[i].found, <<>>}
      /\ turn'[j].agent = a /\ turn'[j].msg = m /\ turn'[j].base = base /\ turn'[j].resp = turn[j].resp
  BY <1>0 DEF ReplyInv, SavesMerged, Goes, live, ghosts, TurnState
<1>2. /\ BaseStored(found, Mem(j), base) /\ Turned(m) /\ turn[j].resp \in {<<>>, <<Reply(m)>>}
      /\ Len(Mem(j)) = base + Len(turn[j].resp) /\ found \in Clean
      /\ turn[j].resp # <<>> => Len(Mem(j)) = base + 1 /\ Mem(j)[base + 1] = Reply(m)
      /\ turn[j].resp = <<>> => Len(Mem(j)) = base
      /\ Reply(m) \in KnownRows
  <2>1. /\ BaseStored(found, Mem(j), base) /\ Turned(m) /\ turn[j].resp \in {<<>>, <<Reply(m)>>}
        /\ Len(Mem(j)) = base + Len(turn[j].resp)
        /\ turn[j].resp # <<>> => Mem(j)[base + 1] = Reply(m)
    BY <1>1 DEF Produced, InTurn
  <2>2. found \in Clean
    BY <1>1 DEF AllClean
  <2>3. Reply(m) \in KnownRows
    BY <1>0, <2>1 DEF KnownRows, Reply
  <2>4. Len(<<>>) = 0 /\ Len(<<Reply(m)>>) = 1 /\ base + 0 = base
    BY <1>0
  <2> HIDE DEF found, base, m
  <2> QED
    BY <2>1, <2>2, <2>3, <2>4
<1>3. Len(Mem(j)) \in {base, base + 1}
  BY <1>2
<1>4. rows = IF Len(Mem(j)) = base \/ \E i \in base + 1 .. Len(found) : found[i] = Mem(j)[base + 1]
             THEN found ELSE Append(found, Mem(j)[base + 1])
  <2> HIDE DEF found, base
  <2> QED
    BY <1>0, <1>2, <1>3, MergeIs
<1>5. \/ /\ rows = found
         /\ turn[j].resp # <<>> => \E i \in DOMAIN found : found[i] = Reply(m)
      \/ /\ rows = Append(found, Reply(m)) /\ turn[j].resp # <<>>
         /\ \A i \in base + 1 .. Len(found) : found[i] # Reply(m)
  <2> HIDE DEF rows
  <2>1. CASE turn[j].resp = <<>>
    BY <1>2, <1>4, <2>1
  <2>2. CASE turn[j].resp # <<>> /\ \E i \in base + 1 .. Len(found) : found[i] = Reply(m)
    BY <1>0, <1>2, <1>4, <2>2
  <2>3. CASE turn[j].resp # <<>> /\ ~\E i \in base + 1 .. Len(found) : found[i] = Reply(m)
    BY <1>0, <1>2, <1>4, <2>3
  <2> QED
    BY <2>1, <2>2, <2>3
<1>6. ASSUME ~overlapped, \A i \in base + 1 .. Len(found) : found[i] # Reply(m)
      PROVE  \A i \in DOMAIN found : found[i] # Reply(m)
  <2>1. \A i \in 1..base : Mem(j)[i] # Reply(m)
    BY <1>1, <1>6 DEF Unreplied, InSave, InTurn
  <2>2. \A i \in 1..base : i <= Len(found) /\ found[i] = Mem(j)[i]
    <3>1. base <= Len(found) /\ base <= Len(Mem(j)) /\ SubSeq(found, 1, base) = SubSeq(Mem(j), 1, base)
      BY <1>0, <1>2, <1>3 DEF BaseStored
    <3> DEFINE mem == Mem(j)
    <3>2. base <= Len(found) /\ base <= Len(mem) /\ SubSeq(found, 1, base) = SubSeq(mem, 1, base)
          /\ found \in Seq(Row) /\ mem \in Seq(Row) /\ base \in Nat
      BY <1>0, <3>1
    <3> HIDE DEF found, base, mem
    <3>3. \A i \in 1..base : SubSeq(found, 1, base)[i] = found[i]
      BY <3>2
    <3>4. \A i \in 1..base : SubSeq(mem, 1, base)[i] = mem[i]
      BY <3>2
    <3>5. \A i \in 1..base : i <= Len(found) /\ found[i] = mem[i]
      BY <3>2, <3>3, <3>4
    <3> QED
      BY <3>5 DEF mem
  <2>3. found \in Seq(Row) /\ base \in Nat
    BY <1>0
  <2> HIDE DEF found, base
  <2> QED
    BY <1>6, <2>1, <2>2, <2>3
<1> HIDE DEF rows, found, base
<1>7. rows \in Clean
  <2>1. KnownRows \in SUBSET Row /\ (~overlapped) \in BOOLEAN
    BY DEF KnownRows
  <2>2. CASE rows = Append(found, Reply(m)) /\ \A i \in base + 1 .. Len(found) : found[i] # Reply(m)
    <3>1. Append(found, Reply(m)) \in Clean
      BY <1>2, <1>6, <2>1, <2>2, AppendIsClean DEF Clean
    <3> QED
      BY <2>2, <3>1
  <2> QED
    BY <1>2, <1>5, <2>2
<1>8. \A b \in Agents : agents'[b].mem \in {agents[b].mem, rows}
  BY <1>0 DEF SavesMerged, rows, found, base, AgentState
<1>9. /\ disk' = IF Storable(rows) THEN rows ELSE disk
      /\ pc'[j] = IF Storable(rows) THEN "ending" ELSE "merging"
      /\ ~Storable(rows) => agents'[a].mem = agents[a].mem
  BY <1>0 DEF SavesMerged, rows, found, base, AgentState, Goes
<1>10. AllClean'
  BY <1>1, <1>7, <1>8, <1>9, EmptyClean, StayClean DEF AllClean
<1>11. CASE Storable(rows)
  <2>1. pc'[j] = "ending" /\ disk' = rows
    BY <1>9, <1>11
  <2>2. Produced(j)' /\ Unreplied(j)'
    BY <1>1, <1>2, <2>1 DEF Produced, Unreplied, InSave, InTurn, Turned
  <2>3. turn[j].resp # <<>> => \E i \in DOMAIN rows : rows[i] = Reply(m)
    <3>1. CASE rows = Append(found, Reply(m))
      <4>1. Len(found) + 1 \in DOMAIN Append(found, Reply(m))
            /\ Append(found, Reply(m))[Len(found) + 1] = Reply(m)
        BY <1>0
      <4> QED
        BY <3>1, <4>1
    <3> QED
      BY <1>5, <3>1
  <2>4. Kept(j)'
    BY <1>1, <2>1, <2>3 DEF Kept, Stored
  <2> QED
    BY <1>10, <2>2, <2>4, JobReplies DEF JobStep
<1>12. CASE ~Storable(rows)
  <2>1. pc'[j] = "merging" /\ Mem(j)' = Mem(j)
    BY <1>1, <1>9, <1>12 DEF Mem
  <2>2. Produced(j)' /\ Kept(j)' /\ (~overlapped' => Unreplied(j)')
    BY <1>1, <2>1 DEF Produced, Unreplied, Kept, InSave, InTurn, Turned, base
  <2> QED
    BY <1>10, <2>2, JobReplies DEF JobStep
<1> QED
  BY <1>11, <1>12

\* A turn whose base has diverged drops its reply, and marks its agent.
LEMMA ResyncsReplies ==
    ASSUME IInv, IInv', QInv, QInv', ReplyInv, [Next]_vars, NEW j \in Jobs, Resyncs(j)
    PROVE  ReplyInv'
<1> DEFINE a == turn[j].agent
<1>0. agents \in [Agents -> AgentState] /\ pc \in [Jobs -> Places] /\ a \in Agents
  BY InHand DEF IInv, TypeOK, TypesOfAgents, TypesOfJobs, Resyncs, Goes, Working, Turning, InTurn
<1>1. /\ Produced(j) /\ AllClean /\ pc[j] = "resyncing" /\ pc'[j] = "ending" /\ closePending'
      /\ disk' = disk /\ taken' = taken /\ slot' = slot /\ turned' = turned /\ turn' = turn
  BY <1>0 DEF ReplyInv, Resyncs, Goes, live, ghosts
<1>2. \A b \in Agents : agents'[b].mem \in {agents[b].mem, disk}
  BY <1>0 DEF Resyncs, AgentState
<1>3. AllClean'
  BY <1>1, <1>2, StayClean DEF AllClean
<1>4. Produced(j)' /\ Unreplied(j)' /\ Kept(j)'
  BY <1>1 DEF Produced, Unreplied, Kept, InSave, InTurn, Turned
<1> QED
  BY <1>3, <1>4, JobReplies DEF JobStep

LEMMA LeavesReplies ==
    ASSUME IInv, IInv', QInv, QInv', ReplyInv, [Next]_vars, NEW j \in Jobs, Leaves(j)
    PROVE  ReplyInv'
<1>0. turn \in [Jobs -> TurnState] /\ pc \in [Jobs -> Places]
  BY DEF IInv, TypeOK, TypesOfJobs
<1>1. /\ AllClean /\ pc'[j] = "finishing" /\ turn'[j] = NoTurn
      /\ disk' = disk /\ taken' = taken /\ slot' = slot
      /\ \A i \in Jobs \ {j} : turn'[i] = turn[i]
  BY <1>0 DEF ReplyInv, Leaves, Goes, live
<1>2. ASSUME NEW a \in Agents
      PROVE  agents'[a].mem \in {agents[a].mem, <<>>}
  <2>1. Release(Jobs \ {j}, closePending /\ resident # 0 /\ ~active)
        /\ (closePending /\ resident # 0 /\ ~active) \in BOOLEAN
    BY DEF Leaves
  <2>2. agents'[a].mem = agents[a].mem \/ agents'[a] = NoAgent
    BY <2>1, ReleasedRows
  <2> QED
    BY <2>2 DEF NoAgent
<1>3. \A i \in Jobs : turn'[i].found \in {turn[i].found, <<>>}
  BY <1>1 DEF NoTurn
<1>4. AllClean'
  BY <1>1, <1>2, <1>3, EmptyClean, StayClean DEF AllClean
<1>5. Produced(j)' /\ Unreplied(j)' /\ Kept(j)'
  BY <1>1 DEF Produced, Unreplied, Kept, InSave, InTurn, NoTurn
<1> QED
  BY <1>4, <1>5, JobReplies DEF JobStep

-----------------------------------------------------------------------------
(* Steps outside the jobs. *)

\* What they do to transcripts, jobs and agents.
LEMMA OthersMove ==
    ASSUME IInv,
           \/ Takes \/ Writes \/ EvictScans \/ ControlStep \/ DrainerStep \/ UNCHANGED vars
           \/ \E q \in Queued : RequestStep(q) \/ PersistQueuedFails(q)
           \/ \E closing \in BOOLEAN : StopReads(closing)
    PROVE  /\ turn' = turn /\ turned' = turned /\ overlapped' = overlapped
           /\ closePending => closePending'
           /\ pc' = pc \/ (pc' = [pc EXCEPT ![Drain] = "dispatched"] /\ pc[Drain] \in {"new", "done"})
           /\ \A a \in Agents :
                \/ agents'[a].saved = agents[a].saved /\ agents'[a].mem = agents[a].mem
                \/ agents'[a] = NoAgent /\ \A i \in Jobs : turn[i].agent # a
           /\ slot' \in {slot, <<>>} /\ taken' \in {slot, taken, <<>>}
           /\ \/ disk' \in {disk, taken}
              \/ \E q \in Queued : disk' = Append(disk, UserRow(q, NextUserSeq(disk)))
<1>1. /\ turn' = turn /\ turned' = turned /\ overlapped' = overlapped
      /\ closePending => closePending'
      /\ slot' \in {slot, <<>>} /\ taken' \in {slot, taken, <<>>}
      /\ \/ disk' \in {disk, taken}
         \/ \E q \in Queued : disk' = Append(disk, UserRow(q, NextUserSeq(disk)))
  <2>1. turn' = turn /\ turned' = turned /\ overlapped' = overlapped
    BY DEF Takes, Writes, EvictScans, ControlStep, StopReads, StopRecords, StopCancels, StopEnds,
         CloseMarks, EvictChecks, EvictDetaches, DrainerStep, Looks, DispatchesDrain, Judges, Retires,
         RequestStep, Reserves, Refused, PersistsQueued, Schedules, PersistQueuedFails,
         jobs, ghosts, vars
  <2>5. closePending' = closePending \/ CloseMarks
    BY DEF Takes, Writes, EvictScans, ControlStep, StopReads, StopRecords, StopCancels, StopEnds,
         EvictChecks, EvictDetaches, DrainerStep, Looks, DispatchesDrain, Judges, Retires,
         RequestStep, Reserves, Refused, PersistsQueued, Schedules, PersistQueuedFails, agent, vars
  <2>6. closePending => closePending'
    BY <2>5 DEF CloseMarks
  <2>2. slot' \in {slot, <<>>} /\ taken' \in {slot, taken, <<>>}
    BY DEF Takes, Writes, EvictScans, ControlStep, StopReads, StopRecords, StopCancels, StopEnds,
         CloseMarks, EvictChecks, EvictDetaches, DrainerStep, Looks, DispatchesDrain, Judges, Retires,
         RequestStep, Reserves, Refused, PersistsQueued, Schedules, PersistQueuedFails, live, vars
  <2>3. disk' = disk \/ Writes \/ \E q \in Queued : PersistsQueued(q)
    BY DEF Takes, EvictScans, ControlStep, StopReads, StopRecords, StopCancels, StopEnds,
         CloseMarks, EvictChecks, EvictDetaches, DrainerStep, Looks, DispatchesDrain, Judges, Retires,
         RequestStep, Reserves, Refused, Schedules, PersistQueuedFails, vars
  <2>4. \/ disk' \in {disk, taken}
        \/ \E q \in Queued : disk' = Append(disk, UserRow(q, NextUserSeq(disk)))
    BY <2>3 DEF Writes, PersistsQueued
  <2> QED
    BY <2>1, <2>2, <2>4, <2>6
<1>2. pc' = pc \/ (pc' = [pc EXCEPT ![Drain] = "dispatched"] /\ pc[Drain] \in {"new", "done"})
  <2>1. CASE DispatchesDrain
    BY <2>1 DEF DispatchesDrain, InFlight, Jobs
  <2>2. CASE ~DispatchesDrain
    BY <2>2 DEF Takes, Writes, EvictScans, ControlStep, StopReads, StopRecords, StopCancels,
       StopEnds, CloseMarks, EvictChecks, EvictDetaches, DrainerStep, Looks, Judges, Retires,
       RequestStep, Reserves, Refused, PersistsQueued, Schedules, PersistQueuedFails, jobs, vars
  <2> QED
    BY <2>1, <2>2
<1> DEFINE Unmoved == \A a \in Agents :
                        \/ agents'[a].saved = agents[a].saved /\ agents'[a].mem = agents[a].mem
                        \/ agents'[a] = NoAgent /\ \A i \in Jobs : turn[i].agent # a
<1>3. ASSUME agents' = agents PROVE Unmoved
  BY <1>3
<1>4. ASSUME StopCancels PROVE Unmoved
  <2>1. agents \in [Agents -> AgentState]
    BY DEF IInv, TypeOK, TypesOfAgents
  <2> QED
    BY <1>4, <2>1 DEF StopCancels, AgentState
<1>5. ASSUME StopEnds \/ EvictDetaches PROVE Unmoved
  <2>1. PICK detached \in BOOLEAN : Release(Jobs, detached)
    <3>1. ASSUME StopEnds PROVE \E detached \in BOOLEAN : Release(Jobs, detached)
      <4>1. Release(Jobs, stopper.closing /\ resident # 0 /\ ~active)
            /\ (stopper.closing /\ resident # 0 /\ ~active) \in BOOLEAN
        BY <3>1 DEF StopEnds
      <4> QED
        BY <4>1
    <3>2. ASSUME EvictDetaches PROVE \E detached \in BOOLEAN : Release(Jobs, detached)
      <4>1. Release(Jobs, resident = evictor.agent) /\ (resident = evictor.agent) \in BOOLEAN
        BY <3>2 DEF EvictDetaches
      <4> QED
        BY <4>1
    <3> QED
      BY <1>5, <3>1, <3>2
  <2> QED
    BY <2>1, ReleasedRows
<1>6. agents' = agents \/ StopCancels \/ StopEnds \/ EvictDetaches
  BY DEF Takes, Writes, EvictScans, ControlStep, StopReads, StopRecords, CloseMarks, EvictChecks,
         DrainerStep, Looks, DispatchesDrain, Judges, Retires,
         RequestStep, Reserves, Refused, PersistsQueued, Schedules, PersistQueuedFails, agent, vars
<1>7. Unmoved
  <2> HIDE DEF Unmoved
  <2> QED
    BY <1>3, <1>4, <1>5, <1>6
<1> QED
  BY <1>1, <1>2, <1>7

LEMMA OthersReplies ==
    ASSUME IInv, IInv', ReplyInv, [Next]_vars,
           \/ Takes \/ Writes \/ EvictScans \/ ControlStep \/ DrainerStep \/ UNCHANGED vars
           \/ \E q \in Queued : RequestStep(q) \/ PersistQueuedFails(q)
           \/ \E closing \in BOOLEAN : StopReads(closing)
    PROVE  ReplyInv'
<1>0. /\ disk \in Seq(Row) /\ disk' \in Seq(Row) /\ pc \in [Jobs -> Places] /\ overlapped \in BOOLEAN
      /\ Sends \cap Queued = {}
  BY MessagesAssumption DEF IInv, TypeOK, TypesOfRows, TypesOfJobs
<1>1. /\ turn' = turn /\ turned' = turned /\ overlapped' = overlapped
      /\ closePending => closePending'
      /\ pc' = pc \/ (pc' = [pc EXCEPT ![Drain] = "dispatched"] /\ pc[Drain] \in {"new", "done"})
      /\ \A a \in Agents :
           \/ agents'[a].saved = agents[a].saved /\ agents'[a].mem = agents[a].mem
           \/ agents'[a] = NoAgent /\ \A i \in Jobs : turn[i].agent # a
      /\ slot' \in {slot, <<>>} /\ taken' \in {slot, taken, <<>>}
      /\ \/ disk' \in {disk, taken}
         \/ \E q \in Queued : disk' = Append(disk, UserRow(q, NextUserSeq(disk)))
  BY OthersMove
<1>2. AllClean
  BY DEF ReplyInv
<1>3. disk' \in Clean \cup Clean'
  <2>1. ASSUME NEW q \in Queued PROVE Append(disk, UserRow(q, NextUserSeq(disk))) \in Clean
    <3> DEFINE row == UserRow(q, NextUserSeq(disk))
    <3>1. row \in Row /\ row.by = "user" /\ row.msg = q
      BY <1>0, UserRowTyped DEF UserRow, Messages
    <3> HIDE DEF row
    <3>2. row \in KnownRows
      BY <1>0, <3>1 DEF KnownRows
    <3>3. KnownRows \in SUBSET Row /\ (~overlapped) \in BOOLEAN
      BY DEF KnownRows
    <3>4. Append(disk, row) \in CleanSeqs(KnownRows, ~overlapped)
      BY <1>2, <3>1, <3>2, <3>3, AppendIsClean DEF AllClean, Clean
    <3> QED
      BY <3>4 DEF row, Clean
  <2> QED
    BY <1>1, <1>2, <2>1 DEF AllClean
<1>4. AllClean'
  BY <1>1, <1>2, <1>3, EmptyClean, StayClean DEF AllClean, NoAgent
<1>5. ASSUME NEW j \in Jobs
      PROVE  /\ pc'[j] # pc[j] => /\ pc[j] \notin InTurn \cup {"shifting"}
                                  /\ pc'[j] \notin InTurn \cup {"shifting"}
             /\ pc[j] \in InTurn => Mem(j)' = Mem(j)
             /\ pc[j] \in InTurn => agents'[turn[j].agent].saved = agents[turn[j].agent].saved
  <2>1. pc'[j] # pc[j] => pc[j] \notin InTurn \cup {"shifting"} /\ pc'[j] \notin InTurn \cup {"shifting"}
    BY <1>0, <1>1 DEF InTurn
  <2>2. pc[j] \in InTurn => turn[j].agent \in Agents
    BY InHand DEF Working, Turning
  <2> QED
    BY <1>1, <2>1, <2>2 DEF Mem
<1>6. ASSUME NEW j \in Jobs PROVE Produced(j)'
  <2>1. Produced(j)
    BY DEF ReplyInv
  <2>2. CASE pc'[j] = pc[j]
    BY <1>1, <1>5, <2>1, <2>2 DEF Produced, InTurn, Turned
  <2>3. CASE pc'[j] # pc[j]
    <3>1. turn'[j].resp = <<>>
      BY <1>1, <1>5, <2>1, <2>3 DEF Produced
    <3> QED
      BY <1>5, <2>3, <3>1 DEF Produced, InTurn
  <2> QED
    BY <2>2, <2>3
<1>7. ASSUME NEW row, Stored(row) PROVE Stored(row)'
  <2>1. IsPrefix(disk, disk')
    BY DiskGrows
  <2>2. Len(disk) <= Len(disk') /\ \A i \in 1..Len(disk) : disk[i] = disk'[i]
    BY <1>0, <2>1, PrefixAgrees
  <2> QED
    BY <1>0, <1>7, <2>2 DEF Stored
<1>8. ASSUME ~overlapped, NEW j \in Jobs PROVE Unreplied(j)' /\ Kept(j)'
  <2>1. Unreplied(j) /\ Kept(j)
    BY <1>8 DEF ReplyInv
  <2>2. CASE pc'[j] = pc[j]
    <3>1. Unreplied(j)'
      BY <1>1, <1>5, <2>1, <2>2 DEF Unreplied, InSave
    <3>2. Kept(j)'
      BY <1>1, <1>5, <1>7, <2>1, <2>2 DEF Kept, InTurn
    <3> QED
      BY <3>1, <3>2
  <2>3. CASE pc'[j] # pc[j]
    BY <1>5, <2>3 DEF Unreplied, Kept, InSave, InTurn
  <2> QED
    BY <2>2, <2>3
<1> QED
  BY <1>0, <1>1, <1>4, <1>6, <1>8 DEF ReplyInv

LEMMA RepliesKeep ==
    ASSUME IInv, IInv', RowsInv, QInv, QInv', ReplyInv, [Next]_vars
    PROVE  ReplyInv'
<1>1. ASSUME NEW j \in Jobs, Dispatch(j) \/ JobStep(j) \/ JobFault(j)
      PROVE  ReplyInv'
  BY <1>1, QuietReplies, LoadsReplies, PersistsReplies, BuildsReplies, ChecksCancelReplies,
     BeginsReplies, RepliesReplies, ReturnsReplies, SavesReplies, MergesReplies, MergedReplies,
     ResyncsReplies, LeavesReplies DEF JobStep, JobFault
<1> QED
  BY <1>1, OthersReplies DEF Next

LEMMA InitReplies == Init => ReplyInv
<1> SUFFICES ASSUME Init PROVE ReplyInv
  OBVIOUS
<1>1. <<>> \in Clean
  <2>1. KnownRows \in SUBSET Row /\ (~overlapped) \in BOOLEAN
    BY DEF KnownRows
  <2> QED
    BY <2>1, EmptyIsClean DEF Clean
<1>2. AllClean
  BY <1>1 DEF Init, AllClean, NoAgent, NoTurn
<1>3. \A j \in Jobs : Produced(j) /\ Unreplied(j) /\ Kept(j)
  BY DEF Init, Produced, Unreplied, Kept, InSave, InTurn, NoTurn
<1> QED
  BY <1>2, <1>3 DEF ReplyInv

LEMMA RepliesInductive == Spec => []ReplyInv
<1>1. IInv /\ IInv' /\ RowsInv /\ QInv /\ QInv' /\ ReplyInv /\ [Next]_vars => ReplyInv'
  BY RepliesKeep
<1> QED
  BY <1>1, InitReplies, Inductive, RowsInductive, QueueInductive, PTL DEF Spec

\* While jobs do not overlap, the merge of a turn's transcript with another
\* writer's rows neither loses the turn's reply nor doubles it.
THEOREM RepliesStayOnce == Spec => []RepliesAreKeptOnce
<1>1. IInv /\ ReplyInv => RepliesAreKeptOnce
  <2> SUFFICES ASSUME IInv, ReplyInv, ~overlapped PROVE TurnsAreKept /\ ReplyStoredOnce
    BY DEF RepliesAreKeptOnce
  <2>1. TurnsAreKept
    BY DEF ReplyInv, Kept, TurnsAreKept
  <2>2. RepliesOnce(disk)
    BY DEF ReplyInv, AllClean, Clean, CleanSeqs
  <2>3. ASSUME NEW m \in Messages
        PROVE  Cardinality({i \in DOMAIN disk : disk[i] = Reply(m)}) <= 1
    <3> DEFINE S == {i \in DOMAIN disk : disk[i] = Reply(m)}
    <3>1. \A i, k \in S : i = k
      BY <2>2 DEF RepliesOnce, Reply
    <3> HIDE DEF S
    <3>2. CASE S = {}
      <4>1. Cardinality(S) = 0
        BY <3>2, FS_EmptySet
      <4> QED
        BY <4>1 DEF S
    <3>3. ASSUME NEW i \in S PROVE Cardinality(S) <= 1
      <4>1. S = {i}
        BY <3>1, <3>3
      <4>2. Cardinality(S) = 1
        BY <4>1, FS_Singleton
      <4> QED
        BY <4>2
    <3>4. Cardinality(S) <= 1
      BY <3>2, <3>3, FS_EmptySet
    <3> QED
      BY <3>4 DEF S
  <2> QED
    BY <2>1, <2>3 DEF ReplyStoredOnce
<1> QED
  BY <1>1, Inductive, RepliesInductive, PTL

-----------------------------------------------------------------------------
(* Order: the inductive invariant. *)

Picked(m) == \E j \in Jobs : pc[j] = "picked" /\ turn[j].msg = m
Pushing(m) == pc[m] = "pushing"
Entered(m) == Waits(m) \/ Turned(m) \/ Picked(m)

TurnedBefore(m, n) == \E i, k \in DOMAIN turned : i < k /\ turned[i] = m /\ turned[k] = n
WaitsBefore(m, n) == \E i, k \in DOMAIN pending : i < k /\ pending[i] = m /\ pending[k] = n

\* A message comes before another one when it was turned, picked or queued
\* before it: what is turned comes before what is picked, that before what
\* waits, and that before the message that is about to be pushed.
Precedes(m, n) ==
    \/ TurnedBefore(m, n) \/ WaitsBefore(m, n)
    \/ m # n /\ Turned(m) /\ (Picked(n) \/ Waits(n))
    \/ m # n /\ Picked(m) /\ Waits(n)
    \/ Entered(m) /\ Pushing(n)

OrderInv ==
    /\ \A m \in Sends : Entered(m) => CopiesOf(m) # {}
    /\ overlapped \/ \A m, n \in Sends : Precedes(m, n) => RowBefore(m, n)

-----------------------------------------------------------------------------
(* Steps that keep the order. *)

\* Rows stay where they are, and later ones come behind them.
LEMMA RowsInOrderStay ==
    ASSUME IInv, IInv', [Next]_vars, NEW m, NEW n, RowBefore(m, n)
    PROVE  RowBefore(m, n)'
<1>1. disk \in Seq(Row) /\ disk' \in Seq(Row) /\ IsPrefix(disk, disk')
  BY DiskGrows DEF IInv, TypeOK, TypesOfRows
<1>2. Len(disk) <= Len(disk') /\ \A i \in 1..Len(disk) : disk[i] = disk'[i]
  BY <1>1, PrefixAgrees
<1>3. PICK a \in CopiesOf(m) : \A b \in CopiesOf(n) : a < b
  BY DEF RowBefore
<1>4. a \in CopiesOf(m)' /\ a \in 1..Len(disk)
  BY <1>1, <1>2 DEF CopiesOf
<1>5. ASSUME NEW b \in CopiesOf(n)' PROVE a < b
  <2>1. b \in 1..Len(disk') /\ Len(disk) \in Nat
    BY <1>1 DEF CopiesOf
  <2>2. CASE b <= Len(disk)
    <3>1. b \in CopiesOf(n)
      BY <1>1, <1>2, <2>1, <2>2 DEF CopiesOf
    <3> QED
      BY <1>3, <3>1
  <2>3. CASE b > Len(disk)
    BY <1>4, <2>1, <2>3
  <2> QED
    BY <2>1, <2>2, <2>3
<1> QED
  BY <1>4, <1>5 DEF RowBefore

\* A step keeps the order if no message comes before another one that did not,
\* but for what it shows itself.
LEMMA OrderStays ==
    ASSUME IInv, IInv', [Next]_vars, OrderInv, overlapped => overlapped',
           \A m \in Sends : Entered(m)' => Entered(m) \/ CopiesOf(m)' # {},
           ~overlapped' => \A m, n \in Sends : Precedes(m, n)' => Precedes(m, n) \/ RowBefore(m, n)'
    PROVE  OrderInv'
<1>1. IsPrefix(disk, disk')
  BY DiskGrows
<1>2. \A m \in Sends : Entered(m)' => CopiesOf(m)' # {}
  BY <1>1, CopiesStay DEF OrderInv
<1>3. ~overlapped' => \A m, n \in Sends : Precedes(m, n)' => RowBefore(m, n)'
  BY RowsInOrderStay DEF OrderInv
<1> QED
  BY <1>2, <1>3 DEF OrderInv, IInv, TypeOK, TypesOfJobs

\* Steps that turn no message, hand out none, and add none of a job's to the
\* queue.
LEMMA FewerInOrder ==
    ASSUME IInv, IInv', [Next]_vars, OrderInv, overlapped => overlapped', turned' = turned,
           \A m \in Sends : Waits(m)' => Waits(m),
           \A m, n \in Sends : WaitsBefore(m, n)' => WaitsBefore(m, n),
           \A m \in Sends : Picked(m)' => Picked(m),
           \A m \in Sends : Pushing(m)' => Pushing(m)
    PROVE  OrderInv'
<1>1. \A m, n : (Turned(m)' <=> Turned(m)) /\ (TurnedBefore(m, n)' <=> TurnedBefore(m, n))
  BY DEF Turned, TurnedBefore
<1>2. \A m \in Sends : Entered(m)' => Entered(m)
  BY <1>1 DEF Entered
<1>3. \A m, n \in Sends : Precedes(m, n)' => Precedes(m, n)
  BY <1>1, <1>2 DEF Precedes
<1> QED
  BY <1>2, <1>3, OrderStays

-----------------------------------------------------------------------------
(* The steps. *)

\* Which steps touch the queue or what was turned.
LEMMA QueueSteps ==
    ASSUME IInv, NEW j \in Jobs, Dispatch(j) \/ JobStep(j) \/ JobFault(j)
    PROVE  \/ /\ pending' = pending /\ turned' = turned
              /\ \A i \in Jobs : /\ pc'[i] = "picked" => pc[i] = "picked" /\ turn'[i].msg = turn[i].msg
                                 /\ pc'[i] = "pushing" => pc[i] = "pushing"
           \/ Persists(j) \/ Pushes(j) \/ Picks(j) \/ Begins(j) \/ Shifts(j)
<1>0. turn \in [Jobs -> TurnState] /\ pc \in [Jobs -> Places]
  BY Typed
<1> SUFFICES ASSUME ~Persists(j), ~Pushes(j), ~Picks(j), ~Begins(j), ~Shifts(j)
             PROVE  /\ pending' = pending /\ turned' = turned
                    /\ \A i \in Jobs :
                         /\ pc'[i] = "picked" => pc[i] = "picked" /\ turn'[i].msg = turn[i].msg
                         /\ pc'[i] = "pushing" => pc[i] = "pushing"
  OBVIOUS
<1>1. pending' = pending /\ turned' = turned
  BY DEF JobStep, JobFault, Dispatch, Fetches, Locks, PersistFails, Starts, Loads, Builds, BootstrapFails,
     ChecksCancel, StopsDraining, Resets, Replies, Returns, StepFails, Saves, SaveFails, Merges,
     SavesMerged, Resyncs, Ends, Leaves, Finishes, Goes, ghosts
<1>2. \A i \in Jobs \ {j} : pc'[i] = pc[i] /\ turn'[i] = turn[i]
  BY OthersTurnOn
<1>3. CASE Replies(j)
  BY <1>0, <1>1, <1>2, <1>3 DEF Replies
<1>4. CASE ~Replies(j)
  <2>1. pc'[j] \notin {"picked", "pushing"}
    BY <1>0, <1>4 DEF JobStep, JobFault, Dispatch, Fetches, Locks, PersistFails, Starts, Loads, Builds,
       BootstrapFails, ChecksCancel, StopsDraining, Resets, Returns, StepFails, Saves, SaveFails, Merges,
       SavesMerged, Resyncs, Ends, Leaves, Finishes, Goes
  <2> QED
    BY <1>1, <1>2, <2>1
<1> QED
  BY <1>3, <1>4

\* A message's first row is stored behind those of all that entered the queue
\* before it.
LEMMA PersistsOrder ==
    ASSUME IInv, IInv', QInv, ReplyInv, [Next]_vars, OrderInv, NEW j \in Jobs, Persists(j)
    PROVE  OrderInv'
<1>0. pc \in [Jobs -> Places] /\ disk \in Seq(Row) /\ Sends \subseteq Jobs
  BY Typed DEF IInv, TypeOK, TypesOfRows
<1>1. /\ pc[j] = "persisting" /\ pc' = [pc EXCEPT ![j] = "pushing"] /\ turn' = turn
      /\ pending' = pending /\ turned' = turned /\ overlapped' = overlapped
      /\ disk' = Append(disk, UserRow(j, NextUserSeq(disk)))
  BY DEF Persists, Goes, ghosts
<1>2. \A m \in Sends : /\ (Waits(m)' <=> Waits(m)) /\ (Turned(m)' <=> Turned(m))
                       /\ (Picked(m)' <=> Picked(m))
  BY <1>0, <1>1 DEF Waits, Turned, Picked
<1>3. \A m \in Sends : Entered(m)' <=> Entered(m)
  BY <1>2 DEF Entered
<1>4. ASSUME NEW m \in Sends, Entered(m)
      PROVE  RowBefore(m, j)'
  <2>1. PICK a \in CopiesOf(m) : TRUE
    BY <1>4 DEF OrderInv
  <2>2. j \in Sends
    BY <1>1 DEF IInv, Equipped, EquippedJob
  <2>3. CopiesOf(j) = {}
    BY <1>1, <2>2 DEF ReplyInv, AllClean, Clean, CleanSeqs, KnownRows, Unpersisted, CopiesOf
  <2> DEFINE row == UserRow(j, NextUserSeq(disk))
             t == Append(disk, row)
  <2>4. row \in Row
    BY <1>0, <2>2, UserRowTyped DEF Messages
  <2> HIDE DEF row
  <2>5. Len(t) = Len(disk) + 1 /\ \A i \in 1..Len(disk) : t[i] = disk[i]
    BY <1>0, <2>4
  <2>6. t = disk' /\ DOMAIN t = 1 .. Len(disk) + 1
    BY <1>0, <1>1, <2>4 DEF row
  <2> HIDE DEF t
  <2>7. a \in 1..Len(disk) /\ a \in CopiesOf(m)'
    BY <1>0, <2>1, <2>5, <2>6 DEF CopiesOf
  <2>8. \A b \in CopiesOf(j)' : b = Len(disk) + 1
    BY <1>0, <2>3, <2>5, <2>6 DEF CopiesOf
  <2> QED
    BY <1>0, <2>7, <2>8 DEF RowBefore
<1>5. ASSUME NEW m \in Sends, NEW n \in Sends, Precedes(m, n)'
      PROVE  Precedes(m, n) \/ RowBefore(m, n)'
  <2>1. TurnedBefore(m, n)' <=> TurnedBefore(m, n)
    BY <1>1 DEF TurnedBefore
  <2>2. WaitsBefore(m, n)' <=> WaitsBefore(m, n)
    BY <1>1 DEF WaitsBefore
  <2>3. Pushing(n)' => Pushing(n) \/ n = j
    BY <1>0, <1>1 DEF Pushing
  <2> QED
    BY <1>2, <1>3, <1>4, <1>5, <2>1, <2>2, <2>3 DEF Precedes
<1> QED
  BY <1>1, <1>3, <1>5, OrderStays

\* The message enters the queue at its end.
LEMMA PushesOrder ==
    ASSUME IInv, IInv', QInv, QInv', [Next]_vars, OrderInv, NEW j \in Jobs, Pushes(j),
           CopiesOf(j) # {}
    PROVE  OrderInv'
<1>0. /\ pc \in [Jobs -> Places] /\ pending \in Seq(Messages) /\ Sends \subseteq Jobs
      /\ disk' = disk /\ j \in Messages
  BY Typed DEF Pushes, Goes, IInv, Equipped, EquippedJob, Messages
<1>1. /\ pc[j] = "pushing" /\ pc' = [pc EXCEPT ![j] = "starting"] /\ turn' = turn
      /\ pending' = Append(pending, j) /\ turned' = turned /\ overlapped' = overlapped
  BY DEF Pushes, Goes
<1>2. /\ DOMAIN pending = 1..Len(pending) /\ DOMAIN pending' = 1 .. Len(pending) + 1
      /\ Len(pending) \in Nat /\ pending'[Len(pending) + 1] = j
      /\ \A i \in 1..Len(pending) : pending'[i] = pending[i]
  BY <1>0, <1>1
<1>3. \A m \in Sends : /\ Waits(m)' <=> Waits(m) \/ m = j
                       /\ Turned(m)' <=> Turned(m)
                       /\ Picked(m)' <=> Picked(m)
                       /\ Pushing(m)' <=> Pushing(m) /\ m # j
  <2>1. \A m \in Sends : Waits(m)' <=> Waits(m) \/ m = j
    BY <1>2 DEF Waits
  <2>2. \A m \in Sends : /\ Turned(m)' <=> Turned(m)
                         /\ Picked(m)' <=> Picked(m)
                         /\ Pushing(m)' <=> Pushing(m) /\ m # j
    BY <1>0, <1>1 DEF Turned, Picked, Pushing
  <2> QED
    BY <2>1, <2>2
<1>4. \A m, n \in Sends : /\ TurnedBefore(m, n)' <=> TurnedBefore(m, n)
                          /\ WaitsBefore(m, n)' => WaitsBefore(m, n) \/ (n = j /\ Waits(m))
  <2>1. \A m, n \in Sends : TurnedBefore(m, n)' <=> TurnedBefore(m, n)
    BY <1>1 DEF TurnedBefore
  <2>2. \A m, n \in Sends : WaitsBefore(m, n)' => WaitsBefore(m, n) \/ (n = j /\ Waits(m))
    BY <1>2 DEF WaitsBefore, Waits
  <2> QED
    BY <2>1, <2>2
<1>5. \A m \in Sends : Entered(m)' => Entered(m) \/ CopiesOf(m)' # {}
  BY <1>0, <1>3 DEF Entered, CopiesOf
<1>6. ASSUME ~overlapped', NEW m \in Sends, NEW n \in Sends, Precedes(m, n)'
      PROVE  Precedes(m, n)
  <2>1. ~Pushing(n)'
    <3>1. OneRuns'
      BY <1>6 DEF QInv
    <3> QED
      BY <1>0, <1>1, <3>1 DEF Pushing, OneRuns, Running
  <2>2. Pushing(j)
    BY <1>1 DEF Pushing
  <2> QED
    BY <1>3, <1>4, <1>6, <2>1, <2>2 DEF Precedes, Entered
<1> QED
  BY <1>1, <1>5, <1>6, OrderStays

\* The front of the queue is handed out.
LEMMA PicksOrder ==
    ASSUME IInv, IInv', QInv, QInv', [Next]_vars, OrderInv, NEW j \in Jobs, Picks(j)
    PROVE  OrderInv'
<1> DEFINE front == pending[1]
<1>0. /\ pc \in [Jobs -> Places] /\ turn \in [Jobs -> TurnState] /\ pending \in Seq(Messages)
      /\ Sends \subseteq Jobs
  BY Typed
<1>1. /\ pc' = [pc EXCEPT ![j] = "picked"] /\ turn'[j].msg = front /\ pc[j] = "draining"
      /\ \A i \in Jobs \ {j} : turn'[i] = turn[i]
      /\ pending' = pending /\ pending # <<>> /\ turned' = turned /\ overlapped' = overlapped
  BY <1>0 DEF Picks, Goes, ghosts, TurnState
<1>2. Waits(front) /\ DOMAIN pending = 1..Len(pending) /\ 1 \in DOMAIN pending
  BY <1>0, <1>1 DEF Waits
<1>3. \A m \in Sends : /\ Waits(m)' <=> Waits(m)
                       /\ Turned(m)' <=> Turned(m)
                       /\ Picked(m)' => Picked(m) \/ m = front
                       /\ Pushing(m)' <=> Pushing(m)
  <2>1. \A m \in Sends : (Waits(m)' <=> Waits(m)) /\ (Turned(m)' <=> Turned(m))
    BY <1>1 DEF Turned, Waits
  <2>2. \A m \in Sends : Picked(m)' => Picked(m) \/ m = front
    BY <1>0, <1>1 DEF Picked
  <2>3. \A m \in Sends : Pushing(m)' <=> Pushing(m)
    BY <1>0, <1>1 DEF Pushing
  <2> QED
    BY <2>1, <2>2, <2>3
<1>4. \A m, n \in Sends : /\ TurnedBefore(m, n)' <=> TurnedBefore(m, n)
                          /\ WaitsBefore(m, n)' <=> WaitsBefore(m, n)
  BY <1>1 DEF TurnedBefore, WaitsBefore
<1>5. \A m \in Sends : Entered(m)' => Entered(m)
  BY <1>2, <1>3 DEF Entered
<1>6. \A n : Waits(n) /\ n # front => WaitsBefore(front, n)
  BY <1>2 DEF Waits, WaitsBefore
<1>7. ASSUME NEW m \in Sends, NEW n \in Sends, Precedes(m, n)'
      PROVE  Precedes(m, n)
  BY <1>2, <1>3, <1>4, <1>5, <1>6, <1>7 DEF Precedes
<1> QED
  BY <1>1, <1>5, <1>7, OrderStays

\* What was handed out is turned.
LEMMA BeginsOrder ==
    ASSUME IInv, IInv', QInv, QInv', [Next]_vars, OrderInv, NEW j \in Jobs, Begins(j)
    PROVE  OrderInv'
<1> DEFINE msg == turn[j].msg
<1>0. /\ pc \in [Jobs -> Places] /\ turn \in [Jobs -> TurnState] /\ turned \in Seq(Messages)
      /\ Sends \subseteq Jobs /\ msg \in Messages
  BY Typed, InHand DEF Begins, Goes, Turning
<1>1. /\ pc' = [pc EXCEPT ![j] = "begun"] /\ pc[j] = "picked"
      /\ \A i \in Jobs : turn'[i].msg = turn[i].msg
      /\ pending' = pending /\ turned' = Append(turned, msg) /\ overlapped' = overlapped
  BY <1>0 DEF Begins, Goes, TurnState
<1>2. Picked(msg)
  BY <1>1 DEF Picked
<1>3. /\ DOMAIN turned = 1..Len(turned) /\ DOMAIN turned' = 1 .. Len(turned) + 1
      /\ Len(turned) \in Nat /\ turned'[Len(turned) + 1] = msg
      /\ \A i \in 1..Len(turned) : turned'[i] = turned[i]
  <2> HIDE DEF msg
  <2> QED
    BY <1>0, <1>1
<1> HIDE DEF msg
<1>4. \A m \in Sends : /\ Waits(m)' <=> Waits(m)
                       /\ Turned(m)' <=> Turned(m) \/ m = msg
                       /\ Picked(m)' => Picked(m)
                       /\ Pushing(m)' <=> Pushing(m)
  <2>1. \A m \in Sends : Turned(m)' <=> Turned(m) \/ m = msg
    BY <1>3 DEF Turned
  <2>2. \A m \in Sends : (Waits(m)' <=> Waits(m)) /\ (Picked(m)' => Picked(m)) /\ (Pushing(m)' <=> Pushing(m))
    BY <1>0, <1>1 DEF Waits, Picked, Pushing
  <2> QED
    BY <2>1, <2>2
<1>5. \A m, n \in Sends : /\ TurnedBefore(m, n)' => TurnedBefore(m, n) \/ (n = msg /\ Turned(m))
                          /\ WaitsBefore(m, n)' <=> WaitsBefore(m, n)
  <2>1. \A m, n \in Sends : TurnedBefore(m, n)' => TurnedBefore(m, n) \/ (n = msg /\ Turned(m))
    BY <1>3 DEF TurnedBefore, Turned
  <2>2. \A m, n \in Sends : WaitsBefore(m, n)' <=> WaitsBefore(m, n)
    BY <1>1 DEF WaitsBefore
  <2> QED
    BY <2>1, <2>2
<1>6. \A m \in Sends : Entered(m)' => Entered(m)
  BY <1>2, <1>4 DEF Entered
<1>7. ASSUME ~overlapped', NEW m \in Sends, NEW n \in Sends, Precedes(m, n)'
      PROVE  Precedes(m, n)
  <2>1. ~Picked(n)'
    <3>1. OneRuns'
      BY <1>7 DEF QInv
    <3> QED
      BY <1>0, <1>1, <3>1 DEF Picked, OneRuns, Running
  <2>2. ~Turned(msg)
    BY <1>1, <1>7 DEF QInv, HandsOut, msg
  <2> QED
    BY <1>2, <1>4, <1>5, <1>6, <1>7, <2>1, <2>2 DEF Precedes
<1> QED
  BY <1>1, <1>6, <1>7, OrderStays

\* What remains of the queue keeps its order.
LEMMA ShiftsOrder ==
    ASSUME IInv, IInv', [Next]_vars, OrderInv, NEW j \in Jobs, Shifts(j)
    PROVE  OrderInv'
<1>0. pc \in [Jobs -> Places] /\ turn \in [Jobs -> TurnState] /\ pending \in Seq(Messages)
      /\ Sends \subseteq Jobs
  BY Typed
<1>1. /\ pc'[j] \in {"leaving", "draining"} /\ \A i \in Jobs \ {j} : pc'[i] = pc[i] /\ turn'[i] = turn[i]
      /\ pending' = IF pending = <<>> THEN <<>> ELSE Tail(pending)
      /\ turned' = turned /\ overlapped' = overlapped
  BY <1>0 DEF Shifts, Goes, ghosts
<1>2. \A k \in DOMAIN pending' : k \in Nat /\ k + 1 \in DOMAIN pending /\ pending'[k] = pending[k + 1]
  BY <1>0, <1>1
<1>3. \A m \in Sends : Waits(m)' => Waits(m)
  BY <1>2 DEF Waits
<1>4. \A m, n \in Sends : WaitsBefore(m, n)' => WaitsBefore(m, n)
  BY <1>2 DEF WaitsBefore
<1>5. \A m \in Sends : (Picked(m)' => Picked(m)) /\ (Pushing(m)' => Pushing(m))
  BY <1>0, <1>1 DEF Picked, Pushing
<1> QED
  BY <1>1, <1>3, <1>4, <1>5, FewerInOrder

LEMMA JobOrder ==
    ASSUME IInv, IInv', QInv, QInv', ReplyInv, Persisted, [Next]_vars, OrderInv, NEW j \in Jobs,
           Dispatch(j) \/ JobStep(j) \/ JobFault(j)
    PROVE  OrderInv'
<1>1. CASE /\ pending' = pending /\ turned' = turned
           /\ \A i \in Jobs : /\ pc'[i] = "picked" => pc[i] = "picked" /\ turn'[i].msg = turn[i].msg
                              /\ pc'[i] = "pushing" => pc[i] = "pushing"
  <2>1. \A m \in Sends : (Waits(m)' => Waits(m)) /\ (Picked(m)' => Picked(m)) /\ (Pushing(m)' => Pushing(m))
    BY <1>1, Typed DEF Waits, Picked, Pushing
  <2>2. \A m, n \in Sends : WaitsBefore(m, n)' => WaitsBefore(m, n)
    BY <1>1 DEF WaitsBefore
  <2>3. overlapped => overlapped'
    BY MessagesGoOn
  <2> QED
    BY <1>1, <2>1, <2>2, <2>3, FewerInOrder
<1>2. Pushes(j) => CopiesOf(j) # {}
  BY DEF Pushes, Goes, Persisted, IInv, Equipped, EquippedJob
<1> QED
  BY <1>1, <1>2, QueueSteps, PersistsOrder, PushesOrder, PicksOrder, BeginsOrder, ShiftsOrder

\* A queue request adds its own message, which no job posted, or takes it back.
LEMMA RequestOrder ==
    ASSUME IInv, IInv', [Next]_vars, OrderInv, NEW q \in Queued, Reserves(q) \/ PersistQueuedFails(q)
    PROVE  OrderInv'
<1>0. pending \in Seq(Messages) /\ q \in Messages /\ q \notin Sends /\ DOMAIN pending = 1..Len(pending)
  BY Typed, MessagesAssumption DEF Messages
<1>1. pc' = pc /\ turn' = turn /\ turned' = turned /\ overlapped' = overlapped
  BY DEF Reserves, PersistQueuedFails, jobs, ghosts
<1>2. \A m \in Sends : (Picked(m)' => Picked(m)) /\ (Pushing(m)' => Pushing(m))
  BY <1>1 DEF Picked, Pushing
<1>3. CASE Reserves(q)
  <2>1. pending' = Append(pending, q)
    BY <1>3 DEF Reserves
  <2>2. \A k \in DOMAIN pending' : pending'[k] # q => k \in DOMAIN pending /\ pending'[k] = pending[k]
    BY <1>0, <2>1
  <2>3. \A m \in Sends : Waits(m)' => Waits(m)
    BY <1>0, <2>2 DEF Waits
  <2>4. \A m, n \in Sends : WaitsBefore(m, n)' => WaitsBefore(m, n)
    BY <1>0, <2>2 DEF WaitsBefore
  <2> QED
    BY <1>1, <1>2, <2>3, <2>4, FewerInOrder
<1>4. CASE PersistQueuedFails(q)
  <2> DEFINE at == SelectLastInSeq(pending, LAMBDA m : m = q)
  <2>1. at \in 0..Len(pending)
    BY <1>0, LastTyped DEF SelectLastInSeq
  <2>2. pending' = IF at = 0 THEN pending ELSE RemoveAt(pending, at)
    BY <1>4 DEF PersistQueuedFails
  <2> HIDE DEF at
  <2>3. CASE at = 0
    <3>1. \A m \in Sends : Waits(m)' => Waits(m)
      BY <2>2, <2>3 DEF Waits
    <3>2. \A m, n \in Sends : WaitsBefore(m, n)' => WaitsBefore(m, n)
      BY <2>2, <2>3 DEF WaitsBefore
    <3> QED
      BY <1>1, <1>2, <3>1, <3>2, FewerInOrder
  <2>4. CASE at # 0
    <3>1. at \in 1..Len(pending) /\ pending' = RemoveAt(pending, at)
      BY <2>1, <2>2, <2>4
    <3>2. \A k \in DOMAIN pending' : /\ k \in Nat /\ k # 0
                                     /\ k < at => k \in DOMAIN pending /\ pending'[k] = pending[k]
                                     /\ k >= at => k + 1 \in DOMAIN pending /\ pending'[k] = pending[k + 1]
      BY <1>0, <3>1, Removal
    <3>3. \A m \in Sends : Waits(m)' => Waits(m)
      BY <3>1, <3>2 DEF Waits
    <3>4. \A m, n \in Sends : WaitsBefore(m, n)' => WaitsBefore(m, n)
      <4> DEFINE From(k) == IF k < at THEN k ELSE k + 1
      <4>1. \A k \in DOMAIN pending' : From(k) \in DOMAIN pending /\ pending'[k] = pending[From(k)]
        BY <3>1, <3>2
      <4>2. \A i, k \in DOMAIN pending' : i < k => From(i) < From(k)
        BY <3>1, <3>2
      <4> HIDE DEF From
      <4> SUFFICES ASSUME NEW m \in Sends, NEW n \in Sends, WaitsBefore(m, n)'
                   PROVE  WaitsBefore(m, n)
        OBVIOUS
      <4>3. PICK i, k \in DOMAIN pending' : i < k /\ pending'[i] = m /\ pending'[k] = n
        BY DEF WaitsBefore
      <4>4. /\ From(i) \in DOMAIN pending /\ From(k) \in DOMAIN pending /\ From(i) < From(k)
            /\ pending[From(i)] = m /\ pending[From(k)] = n
        BY <4>1, <4>2, <4>3
      <4> QED
        BY <4>4 DEF WaitsBefore
    <3> QED
      BY <1>1, <1>2, <3>3, <3>4, FewerInOrder
  <2> QED
    BY <2>3, <2>4
<1> QED
  BY <1>3, <1>4

LEMMA OthersOrder ==
    ASSUME IInv, IInv', [Next]_vars, OrderInv,
           \/ Takes \/ Writes \/ EvictScans \/ ControlStep \/ DrainerStep \/ UNCHANGED vars
           \/ \E q \in Queued : RequestStep(q) \/ PersistQueuedFails(q)
           \/ \E closing \in BOOLEAN : StopReads(closing)
    PROVE  OrderInv'
<1>0. pc \in [Jobs -> Places] /\ Sends \subseteq Jobs /\ Drain \in Jobs
  BY Typed
<1>1. /\ turn' = turn /\ turned' = turned /\ overlapped' = overlapped
      /\ pc' = pc \/ (pc' = [pc EXCEPT ![Drain] = "dispatched"] /\ pc[Drain] \in {"new", "done"})
  BY OthersMove
<1>2. pending' = pending \/ \E q \in Queued : Reserves(q) \/ PersistQueuedFails(q)
  BY DEF Takes, Writes, EvictScans, ControlStep, StopReads, StopRecords, StopCancels, StopEnds,
         CloseMarks, EvictChecks, EvictDetaches, DrainerStep, Looks, DispatchesDrain, Judges, Retires,
         RequestStep, Refused, PersistsQueued, Schedules, vars
<1>3. CASE pending' = pending
  <2>1. \A m \in Sends : (Waits(m)' => Waits(m)) /\ (Picked(m)' => Picked(m)) /\ (Pushing(m)' => Pushing(m))
    BY <1>0, <1>1, <1>3 DEF Waits, Picked, Pushing
  <2>2. \A m, n \in Sends : WaitsBefore(m, n)' => WaitsBefore(m, n)
    BY <1>3 DEF WaitsBefore
  <2> QED
    BY <1>1, <2>1, <2>2, FewerInOrder
<1> QED
  BY <1>2, <1>3, RequestOrder

\* While jobs do not overlap, posted messages are turned in the order of their
\* rows, whoever turns them and whatever was queued between them.
THEOREM TurnsInRowOrder == Spec => []TurnsFollowRows
<1>1. Init => OrderInv
  BY DEF Init, OrderInv, Precedes, Entered, Waits, Turned, Picked, Pushing, TurnedBefore, WaitsBefore, Jobs
<1>2. IInv /\ IInv' /\ QInv /\ QInv' /\ ReplyInv /\ Persisted /\ OrderInv /\ [Next]_vars => OrderInv'
  <2> SUFFICES ASSUME IInv, IInv', QInv, QInv', ReplyInv, Persisted, OrderInv, [Next]_vars PROVE OrderInv'
    OBVIOUS
  <2> QED
    BY JobOrder, OthersOrder DEF Next
<1>3. OrderInv => TurnsFollowRows
  BY DEF OrderInv, Precedes, TurnedBefore, TurnsFollowRows
<1> QED
  BY <1>1, <1>2, <1>3, Inductive, QueueInductive, RepliesInductive, PersistedInductive, PTL DEF Spec

-----------------------------------------------------------------------------
(* Undisturbed turns: the inductive invariant. *)

\* The agents that are registered or that a job turns on.
InUse == ({resident} \cup {turn[j].agent : j \in Jobs}) \ {0}
AllHold(rows) == \A a \in InUse : agents[a].mem = rows

\* No message waits, and every transcript is the stored one.
Rest == pending = <<>> /\ AllHold(disk)

\* The last stored row is the message of job j, which the transcripts lack.
Own(j, rows) == Append(rows, UserRow(j, NextUserSeq(rows)))
Earlier == SubSeq(disk, 1, Len(disk) - 1)
Leads(j) == disk # <<>> /\ disk = Own(j, Earlier) /\ AllHold(Earlier)

\* The transcript of a turn, with the reply that Step has completed.
Answering == {"stepping", "saving"}
Coming(j) == IF pc[j] = "stepping" THEN Append(Mem(j), Reply(j)) ELSE Mem(j)

\* A job turns its own message, and no merge is needed: what it saves extends the
\* stored rows by its reply at most.
Line(j) ==
    /\ pc[j] \notin {"merging", "merged", "resyncing"}
    /\ pc[j] \in Working => resident \in {0, turn[j].agent}
    /\ pc[j] \in Turning => turn[j].msg = j
    /\ pc[j] = "building" => turn[j].found = disk
    /\ pc[j] \in {"persisting", "leaving"} => Rest
    /\ pc[j] = "pushing" => pending = <<>> /\ Leads(j)
    /\ pc[j] \in {"starting", "loading", "building", "built", "ready", "picked"} =>
           pending = <<j>> /\ Leads(j)
    /\ pc[j] = "draining" => Rest \/ (pending = <<j>> /\ Leads(j))
    /\ pc[j] \in {"begun", "ending", "shifting"} => pending = <<j>> /\ AllHold(disk)
    /\ pc[j] = "stepping" =>
           /\ pending = <<j>>
           /\ \/ disk = Mem(j) /\ (turn[j].resp # <<>> => Coming(j) \in {slot, taken})
              \/ disk = Coming(j) /\ turn[j].resp # <<>>
    /\ pc[j] = "saving" =>
           /\ pending = <<j>>
           /\ disk = Mem(j) \/ (turn[j].resp # <<>> /\ Mem(j) = Append(disk, Reply(j)))

\* A live snapshot is stored, or is what the running turn will save.
Snapshots ==
    \A rows \in {slot, taken} :
        \/ IsPrefix(rows, disk)
        \/ \E j \in Jobs : pc[j] \in Answering /\ turn[j].resp # <<>> /\ rows = Coming(j)

OneCopies == \A m \in Messages : \A i, k \in CopiesOf(m) : i = k

Calm == /\ drainer = "off" /\ pc[Drain] = "new" /\ stopper.at = "idle"
        /\ closePending = FALSE /\ stopFlag = FALSE

Straight ==
    /\ Calm
    /\ \A j \in Jobs : Line(j)
    /\ Running = {} => Rest
    /\ Snapshots /\ OneCopies

-----------------------------------------------------------------------------
(* What an undisturbed step is. *)

LEMMA NoneCounted ==
    ASSUME NEW a \in Nat, NEW b \in Nat, NEW c \in Nat, NEW d \in Nat, c + d = 0,
           c = a \/ c = a + 1, d = b \/ d = b + 1
    PROVE  a = 0 /\ b = 0 /\ c = 0 /\ d = 0 /\ a + b = 0
OBVIOUS

LEMMA StaysDisturbed ==
    ASSUME IInv, IInv', [Next]_vars, Undisturbed'
    PROVE  Undisturbed
<1>0. /\ overlapped \in BOOLEAN /\ stops \in Nat /\ faults \in Nat
      /\ stops' \in Nat /\ faults' \in Nat
      /\ request \in [Queued -> {"new", "persisting", "scheduling", "accepted", "refused", "failed"}]
  BY CapsAssumption DEF IInv, TypeOK, TypesOfJobs, TypesOfControl
<1>1. overlapped => overlapped'
  BY MessagesGoOn, OthersMove DEF Next
<1> DEFINE On == /\ stops' \in {stops, stops + 1} /\ faults' \in {faults, faults + 1}
                 /\ \A q \in Queued : request'[q] \in {"new", "refused"} =>
                                          request[q] \in {"new", "refused"}
<1>2. ASSUME NEW j \in Jobs, Dispatch(j) \/ JobStep(j) \/ JobFault(j)
      PROVE  On
  BY <1>2 DEF JobStep, JobFault, Dispatch, Fetches, Locks, Persists, PersistFails, Pushes, Starts, Loads,
     Builds, BootstrapFails, ChecksCancel, StopsDraining, Picks, Begins, Resets, Replies, Returns, StepFails,
     Saves, SaveFails, Merges, SavesMerged, Resyncs, Ends, Shifts, Leaves, Finishes, queue, bounds
<1>3. ASSUME NEW q \in Queued, RequestStep(q) \/ PersistQueuedFails(q)
      PROVE  On
  BY <1>0, <1>3 DEF RequestStep, Reserves, Refused, PersistsQueued, Schedules,
     PersistQueuedFails, Moves, bounds
<1>4. ASSUME \/ Takes \/ Writes \/ EvictScans \/ ControlStep \/ DrainerStep \/ UNCHANGED vars
             \/ \E closing \in BOOLEAN : StopReads(closing)
      PROVE  On
  BY <1>4 DEF Takes, Writes, EvictScans, ControlStep, StopReads, StopRecords, StopCancels, StopEnds,
         CloseMarks, EvictChecks, EvictDetaches, DrainerStep, Looks, DispatchesDrain, Judges, Retires,
         queue, bounds, vars
<1> HIDE DEF On
<1>5. On
  BY <1>2, <1>3, <1>4 DEF Next
<1>6. stops' + faults' = 0 /\ ~overlapped' /\ \A q \in Queued : request'[q] \in {"new", "refused"}
  BY DEF Undisturbed
<1>7. \A q \in Queued : request[q] \in {"new", "refused"}
  BY <1>5, <1>6 DEF On
<1>8. stops + faults = 0
  <2>1. stops' \in {stops, stops + 1} /\ faults' \in {faults, faults + 1}
    BY <1>5 DEF On
  <2>2. stops' + faults' = 0
    BY <1>6
  <2>3. stops \in Nat /\ faults \in Nat /\ stops' \in Nat /\ faults' \in Nat
    BY <1>0
  <2>4. /\ stops' = stops \/ stops' = stops + 1
        /\ faults' = faults \/ faults' = faults + 1
    BY <2>1
  <2> HIDE DEF On
  <2> QED
    BY <2>2, <2>3, <2>4, NoneCounted
<1> QED
  BY <1>1, <1>6, <1>7, <1>8 DEF Undisturbed

\* No Stop, no failure, no queue request that is let in, and no drainer.
LEMMA UndisturbedSteps ==
    ASSUME IInv, IInv', [Next]_vars, Undisturbed', Straight
    PROVE  \/ \E j \in Sends : Dispatch(j) \/ JobStep(j)
           \/ Takes \/ Writes \/ EvictScans \/ EvictChecks \/ EvictDetaches \/ UNCHANGED vars
           \/ \E q \in Queued : Refused(q)
<1>0. /\ stops = 0 /\ faults = 0 /\ stops' = 0 /\ faults' = 0
      /\ \A q \in Queued : request[q] \in {"new", "refused"} /\ request'[q] \in {"new", "refused"}
      /\ request \in [Queued -> {"new", "persisting", "scheduling", "accepted", "refused", "failed"}]
  <2>1. /\ stops \in Nat /\ faults \in Nat /\ stops' \in Nat /\ faults' \in Nat
        /\ request \in [Queued -> {"new", "persisting", "scheduling", "accepted", "refused", "failed"}]
    BY CapsAssumption DEF IInv, TypeOK, TypesOfControl
  <2>2. Undisturbed
    BY StaysDisturbed
  <2>3. /\ stops + faults = 0 /\ stops' + faults' = 0
        /\ \A q \in Queued : request[q] \in {"new", "refused"} /\ request'[q] \in {"new", "refused"}
    BY <2>2 DEF Undisturbed
  <2>4. \A a, b \in Nat : a + b = 0 => a = 0 /\ b = 0
    OBVIOUS
  <2>5. (stops = 0 /\ faults = 0) /\ (stops' = 0 /\ faults' = 0)
    <3>1. stops \in Nat /\ faults \in Nat /\ stops + faults = 0
      BY <2>1, <2>3
    <3>2. stops' \in Nat /\ faults' \in Nat /\ stops' + faults' = 0
      BY <2>1, <2>3
    <3> QED
      BY <2>4, <3>1, <3>2
  <2> QED
    BY <2>1, <2>3, <2>5
<1>1. ASSUME NEW j \in Jobs, Dispatch(j) \/ JobStep(j) \/ JobFault(j)
      PROVE  j \in Sends /\ (Dispatch(j) \/ JobStep(j))
  <2>1. ~JobFault(j)
    BY <1>0 DEF JobFault, PersistFails, BootstrapFails, StepFails, SaveFails
  <2>2. CASE Dispatch(j)
    BY <2>2 DEF Dispatch
  <2>3. CASE JobStep(j)
    <3>1. pc[j] # "new"
      BY <2>3 DEF JobStep, Fetches, Locks, Persists, Pushes, Starts, Loads, Builds, ChecksCancel,
         StopsDraining, Picks, Begins, Resets, Replies, Returns, Saves, Merges, SavesMerged, Resyncs,
         Ends, Shifts, Leaves, Finishes, Goes
    <3> QED
      BY <2>3, <3>1 DEF Straight, Calm, Jobs
  <2> QED
    BY <1>1, <2>1, <2>2, <2>3
<1>2. ASSUME NEW q \in Queued, RequestStep(q) \/ PersistQueuedFails(q)
      PROVE  Refused(q)
  BY <1>0, <1>2 DEF RequestStep, Reserves, PersistsQueued, Schedules, PersistQueuedFails, Moves
<1>3. ~DrainerStep /\ ~StopRecords /\ ~StopCancels /\ ~StopEnds /\ ~CloseMarks
  BY DEF Straight, Calm, DrainerStep, Looks, DispatchesDrain, Judges, Retires, StopRecords, StopCancels,
     StopEnds, CloseMarks
<1>4. ASSUME NEW closing \in BOOLEAN PROVE ~StopReads(closing)
  BY <1>0 DEF StopReads
<1> QED
  BY <1>1, <1>2, <1>3, <1>4 DEF Next, ControlStep

-----------------------------------------------------------------------------
(* One job runs. *)

LEMMA IdleLine ==
    ASSUME NEW i \in Jobs, pc[i] \in Unlocked \cup {"waiting"}
    PROVE  Line(i) /\ pc[i] \notin Answering
BY DEF Line, Answering, Unlocked, Working, Turning, InTurn

LEMMA Alone ==
    ASSUME IInv, QInv, ~overlapped, NEW j \in Running
    PROVE  /\ \A i \in Jobs \ {j} : pc[i] \in Unlocked \cup {"waiting"} /\ turn[i].agent = 0
           /\ InUse = {resident, turn[j].agent} \ {0}
<1>1. \A i \in Jobs \ {j} : i \notin Running
  BY DEF QInv, OneRuns
<1>2. \A i \in Jobs \ {j} : pc[i] \in Unlocked \cup {"waiting"}
  BY <1>1 DEF Running, Unlocked
<1>3. \A i \in Jobs \ {j} : turn[i].agent = 0
  BY <1>2 DEF IInv, Equipped, EquippedJob, Agentless
<1> QED
  BY <1>2, <1>3 DEF InUse, Running

LEMMA AloneNext ==
    ASSUME IInv', QInv', ~overlapped', NEW j \in Jobs, j \in Running'
    PROVE  InUse' = {resident', turn'[j].agent} \ {0}
<1>1. \A i \in Jobs \ {j} : i \notin Running'
  BY DEF QInv, OneRuns
<1>2. \A i \in Jobs \ {j} : pc'[i] \in Unlocked \cup {"waiting"}
  BY <1>1 DEF Running, Unlocked
<1>3. \A i \in Jobs \ {j} : turn'[i].agent = 0
  BY <1>2 DEF IInv, Equipped, EquippedJob, Agentless
<1> QED
  BY <1>3 DEF InUse

LEMMA NobodyRuns ==
    ASSUME IInv, Running = {}
    PROVE  /\ \A i \in Jobs : pc[i] \in Unlocked \cup {"waiting"} /\ turn[i].agent = 0
           /\ InUse = {resident} \ {0}
<1>1. \A i \in Jobs : pc[i] \in Unlocked \cup {"waiting"}
  BY DEF Running, Unlocked
<1>2. \A i \in Jobs : turn[i].agent = 0
  BY <1>1 DEF IInv, Equipped, EquippedJob, Agentless
<1> QED
  BY <1>1, <1>2 DEF InUse

LEMMA NoAnswer ==
    ASSUME Snapshots, \A i \in Jobs : pc[i] \notin Answering
    PROVE  IsPrefix(slot, disk) /\ IsPrefix(taken, disk)
BY DEF Snapshots

\* What the steps of a job leave alone.
LEMMA CalmStays ==
    ASSUME IInv, Straight, NEW j \in Sends, Dispatch(j) \/ JobStep(j)
    PROVE  Calm'
<1>0. pc \in [Jobs -> Places] /\ j \in Jobs /\ Drain \in Jobs /\ j # Drain
  BY Typed, MessagesAssumption DEF Messages
<1>1. drainer' = drainer /\ stopper' = stopper
  BY DEF JobStep, Dispatch, Fetches, Locks, Persists, Pushes, Starts, Loads, Builds, ChecksCancel,
     StopsDraining, Picks, Begins, Resets, Replies, Returns, Saves, Merges, SavesMerged, Resyncs, Ends,
     Shifts, Leaves, Finishes, queue, control
<1>2. pc'[Drain] = pc[Drain]
  BY <1>0 DEF JobStep, Dispatch, Fetches, Locks, Persists, Pushes, Starts, Loads, Builds, ChecksCancel,
     StopsDraining, Picks, Begins, Resets, Replies, Returns, Saves, Merges, SavesMerged, Resyncs, Ends,
     Shifts, Leaves, Finishes, Goes
<1>3. stopFlag' = FALSE
  BY DEF Straight, Calm, JobStep, Dispatch, Fetches, Locks, Persists, Pushes, Starts, Loads, Builds,
     ChecksCancel, StopsDraining, Picks, Begins, Resets, Replies, Returns, Saves, Merges, SavesMerged,
     Resyncs, Ends, Shifts, Leaves, Finishes, control
<1>4. closePending' = FALSE
  <2>1. ~Resyncs(j)
    BY <1>0 DEF Straight, Line, Resyncs, Goes
  <2> QED
    BY <2>1 DEF Straight, Calm, JobStep, Dispatch, Fetches, Locks, Persists, Pushes, Starts, Loads, Builds,
       ChecksCancel, StopsDraining, Picks, Begins, Resets, Replies, Returns, Saves, Merges, SavesMerged,
       Ends, Shifts, Leaves, Finishes, agent
<1> QED
  BY <1>1, <1>2, <1>3, <1>4 DEF Straight, Calm

\* What the step of a running job must show.
LEMMA JobStraight ==
    ASSUME IInv, IInv', QInv', Undisturbed', Straight, NEW j \in Sends, JobStep(j), j \in Running',
           Line(j)', Snapshots', OneCopies'
    PROVE  Straight'
<1>1. Sends \subseteq Jobs /\ Calm'
  BY Typed, CalmStays
<1>2. ASSUME NEW i \in Jobs \ {j}
      PROVE  Line(i)'
  <2>1. pc'[i] \in Unlocked \cup {"waiting"}
    <3>1. i \notin Running'
      BY DEF Undisturbed, QInv, OneRuns
    <3> QED
      BY <3>1 DEF Running, Unlocked
  <2> QED
    BY <2>1 DEF Line, Unlocked, Working, Turning, InTurn
<1>3. \A i \in Jobs : Line(i)'
  BY <1>2
<1> QED
  BY <1>1, <1>3 DEF Straight

\* Rows and transcripts that a step leaves alone.
LEMMA StillHolds ==
    ASSUME disk' = disk, NEW S, S = InUse, InUse' \subseteq S,
           \A a \in InUse' : agents'[a].mem = agents[a].mem
    PROVE  /\ AllHold(disk) => AllHold(disk)'
           /\ \A j : Leads(j) => Leads(j)'
           /\ OneCopies => OneCopies'
<1>1. AllHold(disk) => AllHold(disk)'
  BY DEF AllHold
<1>2. AllHold(Earlier) => AllHold(Earlier)'
  BY DEF AllHold, Earlier
<1>3. \A j : Leads(j) => Leads(j)'
  BY <1>2 DEF Leads, Earlier, Own
<1> QED
  BY <1>1, <1>3 DEF OneCopies, CopiesOf

\* The steps of a running job that touch neither rows nor transcripts.
LEMMA QuietStraight ==
    ASSUME IInv, IInv', QInv, QInv', ReplyInv, Undisturbed, Undisturbed', Straight, NEW j \in Sends,
           \/ Starts(j) \/ Loads(j) \/ ChecksCancel(j) \/ StopsDraining(j) \/ Picks(j)
           \/ Resets(j) \/ Ends(j) \/ Shifts(j)
    PROVE  Straight'
<1>0. /\ turn \in [Jobs -> TurnState] /\ pc \in [Jobs -> Places] /\ agents \in [Agents -> AgentState]
      /\ j \in Jobs /\ resident \in Agents \cup {0} /\ 0 \notin Agents
      /\ pending \in Seq(Messages) /\ j \in Messages /\ stopFlag = FALSE
  BY Typed DEF IInv, TypeOK, TypesOfAgents, Agents, Messages, Straight, Calm
<1>1. /\ JobStep(j) /\ j \in Running /\ j \in Running' /\ pc[j] \notin Answering
      /\ pc[j] \notin {"new", "dispatched", "waiting", "finishing", "done"}
  BY <1>0 DEF JobStep, Starts, Loads, ChecksCancel, StopsDraining, Picks, Resets, Ends, Shifts, Goes,
     Running, Answering
<1>2. /\ disk' = disk /\ slot' = slot /\ taken' = taken /\ resident' = resident
      /\ \A i \in Jobs \ {j} : turn'[i] = turn[i] /\ pc'[i] = pc[i]
  BY <1>0 DEF Starts, Loads, ChecksCancel, StopsDraining, Picks, Resets, Ends, Shifts, Goes, live, agent
<1>3. \A a \in Agents : agents'[a].mem = agents[a].mem
  <2>1. CASE ChecksCancel(j) \/ Resets(j)
    <3>1. turn[j].agent \in Agents
      BY <1>0, <2>1, InHand DEF ChecksCancel, Resets, Goes, Working, Turning, InTurn
    <3>2. \E b : agents' = [agents EXCEPT ![turn[j].agent].stopped = b]
      BY <2>1 DEF ChecksCancel, Resets
    <3> QED
      BY <1>0, <3>1, <3>2 DEF AgentState
  <2> QED
    BY <2>1 DEF Starts, Loads, StopsDraining, Picks, Ends, Shifts, agent
<1>4. turn'[j].agent \in {turn[j].agent, resident}
  BY <1>0 DEF Straight, Calm, Starts, Loads, ChecksCancel, StopsDraining, Picks, Resets, Ends, Shifts,
     Keeps, NoTurn, TurnState
<1>5. /\ InUse' \subseteq InUse /\ InUse' \subseteq Agents
      /\ \A i \in Jobs \ {j} : pc[i] \notin Answering
  <2>4. ~overlapped /\ ~overlapped'
    BY DEF Undisturbed
  <2>5. InUse = {resident, turn[j].agent} \ {0} /\ \A i \in Jobs \ {j} : pc[i] \in Unlocked \cup {"waiting"}
    BY <1>1, <2>4, Alone
  <2>6. InUse' = {resident', turn'[j].agent} \ {0}
    BY <1>0, <1>1, <2>4, AloneNext
  <2>1. /\ InUse = {resident, turn[j].agent} \ {0} /\ InUse' = {resident', turn'[j].agent} \ {0}
        /\ \A i \in Jobs \ {j} : pc[i] \in Unlocked \cup {"waiting"}
    BY <2>5, <2>6
  <2>2. turn[j].agent \in Agents \cup {0}
    BY <1>0 DEF TurnState
  <2> QED
    BY <1>0, <1>2, <1>4, <2>1, <2>2, IdleLine
<1>6. /\ AllHold(disk) => AllHold(disk)'
      /\ Leads(j) => Leads(j)'
      /\ OneCopies'
  BY <1>2, <1>3, <1>5, StillHolds DEF Straight
<1>7. Snapshots'
  <2>1. IsPrefix(slot, disk) /\ IsPrefix(taken, disk)
    BY <1>1, <1>5, NoAnswer DEF Straight
  <2> QED
    BY <1>2, <2>1 DEF Snapshots
<1>8. Line(j) /\ stopFlag = FALSE
  BY <1>0 DEF Straight, Calm
<1>9. <<j>> # <<>> /\ Head(<<j>>) = j /\ Tail(<<j>>) = <<>>
  BY <1>0
<1>10. Line(j)'
  <2>1. CASE Starts(j)
    <3>1. pc[j] = "starting" /\ pc'[j] \in {"ready", "loading"} /\ pending' = pending
          /\ turn'[j].agent = resident
      BY <1>0, <1>8, <2>1 DEF Starts, Goes, TurnState
    <3> QED
      BY <1>2, <1>6, <1>8, <3>1 DEF Line, Working, Turning, InTurn
  <2>2. CASE Loads(j)
    <3>1. pc[j] = "loading" /\ pc'[j] = "building" /\ pending' = pending /\ turn'[j].found = disk
      BY <1>0, <2>2 DEF Loads, Goes, TurnState
    <3> QED
      BY <1>2, <1>6, <1>8, <3>1 DEF Line, Working, Turning, InTurn
  <2>3. CASE ChecksCancel(j)
    <3>1. \/ pc[j] = "built" /\ pc'[j] = "ready"
          \/ pc[j] = "ready" /\ pc'[j] = "draining"
      BY <1>0, <2>3 DEF ChecksCancel, Goes
    <3>2. pending' = pending /\ turn' = turn
      BY <2>3 DEF ChecksCancel
    <3> QED
      BY <1>2, <1>6, <1>8, <3>1, <3>2 DEF Line, Working, Turning, InTurn
  <2>4. CASE StopsDraining(j)
    <3>1. pc[j] = "draining" /\ pc'[j] = "leaving" /\ pending' = pending /\ pending = <<>> /\ turn' = turn
      BY <1>0, <1>8, <2>4 DEF StopsDraining, Goes
    <3> QED
      BY <1>2, <1>6, <1>8, <1>9, <3>1 DEF Line, Working, Turning, InTurn, Rest
  <2>5. CASE Picks(j)
    <3>1. /\ pc[j] = "draining" /\ pc'[j] = "picked" /\ pending' = pending /\ pending # <<>>
          /\ turn'[j].msg = Head(pending) /\ turn'[j].agent = turn[j].agent
      BY <1>0, <2>5 DEF Picks, Goes, TurnState
    <3> QED
      BY <1>2, <1>6, <1>8, <1>9, <3>1 DEF Line, Working, Turning, InTurn, Rest
  <2>6. CASE Resets(j)
    <3>1. pc[j] = "begun" /\ pc'[j] = "stepping" /\ pending' = pending /\ turn' = turn
      BY <1>0, <2>6 DEF Resets, Goes
    <3>2. turn[j].resp = <<>>
      BY <1>0, <3>1 DEF ReplyInv, Produced
    <3>3. turn[j].agent \in InUse /\ turn[j].agent \in Agents
      BY <1>0, <3>1, InHand DEF Working, Turning, InTurn, InUse
    <3>4. Mem(j)' = Mem(j) /\ disk = Mem(j)
      BY <1>3, <1>8, <3>1, <3>3 DEF Line, AllHold, Mem
    <3> QED
      BY <1>2, <1>8, <3>1, <3>2, <3>4 DEF Line, Working, Turning, InTurn
  <2>7. CASE Ends(j)
    <3>1. pc[j] = "ending" /\ pc'[j] = "shifting" /\ pending' = pending /\ turn' = turn
      BY <1>0, <2>7 DEF Ends, Goes
    <3> QED
      BY <1>2, <1>6, <1>8, <3>1 DEF Line, Working, Turning, InTurn
  <2>8. CASE Shifts(j)
    <3>1. /\ pc[j] = "shifting" /\ pc'[j] \in {"leaving", "draining"}
          /\ turn'[j].agent = turn[j].agent /\ pending' = <<>>
      BY <1>0, <1>8, <1>9, <2>8 DEF Shifts, Goes, Keeps, NoTurn, Line
    <3> QED
      BY <1>2, <1>6, <1>8, <3>1 DEF Line, Working, Turning, InTurn, Rest
  <2> QED
    BY <2>1, <2>2, <2>3, <2>4, <2>5, <2>6, <2>7, <2>8
<1> QED
  BY <1>1, <1>6, <1>7, <1>10, JobStraight

\* The only running job goes on.
LEMMA GoesOn ==
    ASSUME IInv, IInv', QInv, QInv', Undisturbed, Undisturbed', Straight, NEW j \in Sends, JobStep(j),
           j \in Running, j \in Running'
    PROVE  /\ Line(j) /\ stopFlag = FALSE /\ closePending = FALSE
           /\ InUse = {resident, turn[j].agent} \ {0} /\ InUse' = {resident', turn'[j].agent} \ {0}
           /\ InUse \subseteq Agents /\ InUse' \subseteq Agents
           /\ \A i \in Jobs \ {j} : pc[i] \notin Answering /\ turn[i].agent = 0
           /\ pc[j] \notin Answering => IsPrefix(slot, disk) /\ IsPrefix(taken, disk)
<1>0. /\ j \in Jobs /\ 0 \notin Agents /\ resident \in Agents \cup {0} /\ resident' \in Agents \cup {0}
      /\ turn[j].agent \in Agents \cup {0} /\ turn'[j].agent \in Agents \cup {0}
      /\ ~overlapped /\ ~overlapped'
  <2>1. j \in Jobs
    BY Typed
  <2>2. 0 \notin Agents
    BY DEF Agents
  <2>3. resident \in Agents \cup {0} /\ turn \in [Jobs -> TurnState]
    BY DEF IInv, TypeOK, TypesOfAgents, TypesOfJobs
  <2>4. resident' \in Agents \cup {0} /\ turn' \in [Jobs -> TurnState]
    BY DEF IInv, TypeOK, TypesOfAgents, TypesOfJobs
  <2>5. \A t \in TurnState : t.agent \in Agents \cup {0}
    BY DEF TurnState
  <2>6. turn[j].agent \in Agents \cup {0} /\ turn'[j].agent \in Agents \cup {0}
    BY <2>1, <2>3, <2>4, <2>5
  <2>7. ~overlapped /\ ~overlapped'
    BY DEF Undisturbed
  <2> QED
    BY <2>1, <2>2, <2>3, <2>4, <2>6, <2>7
<1>1. /\ InUse = {resident, turn[j].agent} \ {0}
      /\ \A i \in Jobs \ {j} : pc[i] \in Unlocked \cup {"waiting"} /\ turn[i].agent = 0
  BY <1>0, Alone
<1>2. InUse' = {resident', turn'[j].agent} \ {0}
  BY <1>0, AloneNext
<1>3. \A i \in Jobs \ {j} : pc[i] \notin Answering
  BY <1>1, IdleLine
<1>4. Line(j) /\ stopFlag = FALSE /\ closePending = FALSE
  BY <1>0 DEF Straight, Calm
<1>5. pc[j] \notin Answering => IsPrefix(slot, disk) /\ IsPrefix(taken, disk)
  BY <1>3, NoAnswer DEF Straight
<1> QED
  BY <1>0, <1>1, <1>2, <1>3, <1>4, <1>5

\* A job that gets its lock finds nothing to do but its own message.
LEMMA LocksStraight ==
    ASSUME IInv, IInv', QInv, QInv', Undisturbed, Undisturbed', Straight, NEW j \in Sends, Locks(j)
    PROVE  Straight'
<1>0. turn \in [Jobs -> TurnState] /\ pc \in [Jobs -> Places] /\ j \in Jobs /\ j # Drain
  BY Typed, MessagesAssumption DEF Messages
<1>1. /\ pc[j] = "waiting" /\ pc' = [pc EXCEPT ![j] = "persisting"] /\ turn' = turn
      /\ disk' = disk /\ pending' = pending /\ slot' = slot /\ taken' = taken
      /\ agents' = agents /\ resident' = resident
  BY <1>0 DEF Locks, Goes, live, agent
<1>2. j \in Running' /\ \A i \in Running : i \in Running'
  BY <1>0, <1>1 DEF Running
<1>3. Running = {}
  <2>1. \A i \in Running' : i = j
    BY <1>2 DEF QInv, OneRuns, Undisturbed
  <2>2. j \notin Running
    BY <1>1 DEF Running
  <2> QED
    BY <1>2, <2>1, <2>2
<1>4. Rest'
  BY <1>1, <1>3 DEF Straight, Rest, AllHold, InUse
<1>5. Line(j)'
  BY <1>0, <1>1, <1>4 DEF Line, Working, Turning, InTurn
<1>6. Snapshots'
  <2>1. \A i \in Jobs : pc[i] \notin Answering
    BY <1>3, NobodyRuns, IdleLine
  <2> QED
    BY <1>1, <2>1, NoAnswer DEF Straight, Snapshots
<1>7. OneCopies'
  BY <1>1 DEF Straight, OneCopies, CopiesOf
<1> QED
  BY <1>2, <1>5, <1>6, <1>7, JobStraight DEF JobStep

\* A row that is appended stands behind the others.
LEMMA OwnRow ==
    ASSUME IInv, NEW j \in Messages, NEW rows \in Seq(Row)
    PROVE  /\ UserRow(j, NextUserSeq(rows)) \in Row
           /\ Own(j, rows) \in Seq(Row) /\ Own(j, rows) # <<>>
           /\ Len(Own(j, rows)) = Len(rows) + 1
           /\ SubSeq(Own(j, rows), 1, Len(Own(j, rows)) - 1) = rows
<1> DEFINE row == UserRow(j, NextUserSeq(rows))
<1>1. row \in Row
  BY UserRowTyped
<1> HIDE DEF row
<1> DEFINE t == Append(rows, row)
<1>2. t \in Seq(Row) /\ Len(t) = Len(rows) + 1 /\ \A i \in 1..Len(rows) : t[i] = rows[i]
  BY <1>1
<1> HIDE DEF t
<1>3. t # <<>>
  BY <1>2
<1>4. SubSeq(t, 1, Len(t) - 1) = rows
  <2>1. Len(t) - 1 = Len(rows) /\ Len(rows) \in Nat
    BY <1>2
  <2>2. SubSeq(t, 1, Len(rows)) \in Seq(Row) /\ Len(SubSeq(t, 1, Len(rows))) = Len(rows)
        /\ \A i \in 1..Len(rows) : SubSeq(t, 1, Len(rows))[i] = t[i]
    BY <1>2, <2>1
  <2> DEFINE u == SubSeq(t, 1, Len(rows))
  <2>3. u \in Seq(Row) /\ Len(u) = Len(rows) /\ \A i \in 1..Len(rows) : u[i] = rows[i]
    BY <1>2, <2>2
  <2> HIDE DEF u
  <2>4. u = rows
    BY <2>3
  <2> QED
    BY <2>1, <2>4 DEF u
<1> QED
  BY <1>1, <1>2, <1>3, <1>4 DEF Own, t, row

\* The message's row is its first.
LEMMA PersistsStraight ==
    ASSUME IInv, IInv', QInv, QInv', ReplyInv, Undisturbed, Undisturbed', Straight, [Next]_vars,
           NEW j \in Sends, Persists(j)
    PROVE  Straight'
<1>0. /\ turn \in [Jobs -> TurnState] /\ pc \in [Jobs -> Places] /\ j \in Jobs /\ j \in Messages
      /\ disk \in Seq(Row) /\ disk' \in Seq(Row)
  BY Typed DEF Messages, IInv, TypeOK, TypesOfRows
<1>1. /\ pc[j] = "persisting" /\ pc' = [pc EXCEPT ![j] = "pushing"] /\ turn' = turn
      /\ disk' = Own(j, disk) /\ pending' = pending /\ slot' = slot /\ taken' = taken
      /\ agents' = agents /\ resident' = resident
  BY <1>0 DEF Persists, Goes, live, agent, Own
<1>2. j \in Running /\ j \in Running' /\ JobStep(j)
  BY <1>0, <1>1 DEF Running, JobStep
<1>3. Line(j) /\ IsPrefix(slot, disk) /\ IsPrefix(taken, disk)
  BY <1>1, <1>2, GoesOn DEF Answering
<1>4. pending = <<>> /\ AllHold(disk)
  BY <1>1, <1>3 DEF Line, Rest
<1>5. Leads(j)'
  <2>1. /\ Own(j, disk) # <<>>
        /\ SubSeq(Own(j, disk), 1, Len(Own(j, disk)) - 1) = disk
    BY <1>0, OwnRow
  <2>2. Earlier' = disk
    BY <1>1, <2>1 DEF Earlier
  <2>3. \A a \in InUse' : agents'[a].mem = disk
    BY <1>1, <1>4 DEF AllHold, InUse
  <2>4. (disk # <<>>)' /\ Own(j, Earlier)' = Own(j, disk)
    BY <1>1, <2>1, <2>2 DEF Own
  <2>5. AllHold(Earlier)'
    BY <2>2, <2>3 DEF AllHold
  <2> QED
    BY <1>1, <2>4, <2>5 DEF Leads
<1>6. Line(j)'
  BY <1>0, <1>1, <1>4, <1>5 DEF Line, Working, Turning, InTurn
<1>7. Snapshots'
  <2>1. IsPrefix(disk, disk')
    BY DiskGrows
  <2>2. slot \in Seq(Row) /\ taken \in Seq(Row)
    BY DEF IInv, TypeOK, TypesOfRows
  <2> QED
    BY <1>1, <1>3, <2>1, <2>2, StillPrefix DEF Snapshots
<1>8. OneCopies'
  <2>1. CopiesOf(j) = {}
    BY <1>1 DEF ReplyInv, AllClean, Clean, CleanSeqs, KnownRows, Unpersisted, CopiesOf
  <2> DEFINE row == UserRow(j, NextUserSeq(disk))
  <2>2. row \in Row /\ row.msg = j
    BY <1>0, OwnRow DEF UserRow
  <2>3. disk' = Append(disk, row)
    BY <1>1 DEF Own
  <2> HIDE DEF row
  <2>4. DOMAIN disk' = 1 .. Len(disk) + 1 /\ disk'[Len(disk) + 1] = row /\ Len(disk) \in Nat
        /\ DOMAIN disk = 1..Len(disk) /\ \A i \in 1..Len(disk) : disk'[i] = disk[i]
    BY <1>0, <2>2, <2>3
  <2>5. CopiesOf(j)' \subseteq {Len(disk) + 1}
    BY <2>1, <2>4 DEF CopiesOf
  <2>6. \A m \in Messages \ {j} : CopiesOf(m)' \subseteq CopiesOf(m)
    BY <2>2, <2>4 DEF CopiesOf
  <2> QED
    BY <2>5, <2>6 DEF Straight, OneCopies
<1> QED
  BY <1>2, <1>6, <1>7, <1>8, JobStraight

LEMMA PushesStraight ==
    ASSUME IInv, IInv', QInv, QInv', Undisturbed, Undisturbed', Straight, NEW j \in Sends, Pushes(j)
    PROVE  Straight'
<1>0. turn \in [Jobs -> TurnState] /\ pc \in [Jobs -> Places] /\ j \in Jobs
  BY Typed
<1>1. /\ pc[j] = "pushing" /\ pc' = [pc EXCEPT ![j] = "starting"] /\ turn' = turn
      /\ disk' = disk /\ pending' = Append(pending, j) /\ slot' = slot /\ taken' = taken
      /\ agents' = agents /\ resident' = resident
  BY <1>0 DEF Pushes, Goes, live, agent
<1>2. j \in Running /\ j \in Running' /\ JobStep(j)
  BY <1>0, <1>1 DEF Running, JobStep
<1>3. Line(j) /\ IsPrefix(slot, disk) /\ IsPrefix(taken, disk)
  BY <1>1, <1>2, GoesOn DEF Answering
<1>4. pending' = <<j>> /\ Leads(j)'
  BY <1>1, <1>3 DEF Line, Leads, AllHold, InUse, Earlier
<1>5. Line(j)'
  BY <1>0, <1>1, <1>4 DEF Line, Working, Turning, InTurn
<1>6. Snapshots' /\ OneCopies'
  BY <1>1, <1>3 DEF Snapshots, Straight, OneCopies, CopiesOf
<1> QED
  BY <1>2, <1>5, <1>6, JobStraight

\* Of a history that ends with the only message of the queue, one row is
\* withheld.
LEMMA StripsOwn ==
    ASSUME NEW rows \in Seq(Row), rows # <<>>, NEW j, rows[Len(rows)].by = "user",
           rows[Len(rows)].msg = j
    PROVE  StripLen(rows, <<j>>) = 1
<1> DEFINE S == {n \in 0..Len(rows) :
                   /\ n <= Len(<<j>>)
                   /\ \A k \in 0 .. (n - 1) :
                        LET row == rows[Len(rows) - k]
                        IN  row.by = "user" /\ row.msg = <<j>>[Len(<<j>>) - k]}
<1>1. Len(<<j>>) = 1 /\ <<j>>[1] = j /\ Len(rows) \in Nat \ {0}
  OBVIOUS
<1>2. \A k \in 0 .. 0 : k = 0
  OBVIOUS
<1>3. 1 \in S
  BY <1>1, <1>2
<1>4. \A n \in S : n <= 1
  BY <1>1
<1>5. IsFiniteSet(S) /\ S \in SUBSET Int
  <2>1. IsFiniteSet(0..Len(rows)) /\ S \subseteq 0..Len(rows) /\ 0..Len(rows) \subseteq Int
    BY <1>1, FS_Interval
  <2> HIDE DEF S
  <2>2. IsFiniteSet(S)
    BY <2>1, FS_Subset
  <2>3. S \in SUBSET Int
    BY <2>1
  <2> QED
    BY <2>2, <2>3
<1>6. StripLen(rows, <<j>>) = Max(S)
  BY DEF StripLen
<1> HIDE DEF S
<1>7. Max(S) \in S /\ \A x \in S : Max(S) >= x
  BY <1>3, <1>5, MaxOfFinite
<1>8. Max(S) <= 1 /\ Max(S) >= 1 /\ Max(S) \in Int
  BY <1>3, <1>4, <1>5, <1>7
<1> QED
  BY <1>6, <1>8

\* A bootstrap that nobody disturbs withholds the one row of the message, and so
\* builds the transcript before it.
LEMMA BuildsStraight ==
    ASSUME IInv, IInv', QInv, QInv', Undisturbed, Undisturbed', Straight, NEW j \in Sends, Builds(j)
    PROVE  Straight'
<1> DEFINE found == turn[j].found
           fresh == CHOOSE a \in Agents :
                      a \notin {resident, evictor.agent} \cup {turn[i].agent : i \in Jobs}
           kept == SubSeq(found, 1, Len(found) - StripLen(found, pending))
<1>0. /\ turn \in [Jobs -> TurnState] /\ pc \in [Jobs -> Places] /\ agents \in [Agents -> AgentState]
      /\ j \in Jobs /\ j \in Messages /\ 0 \notin Agents /\ disk \in Seq(Row)
  BY Typed DEF Messages, IInv, TypeOK, TypesOfRows, TypesOfAgents, Agents
<1>1. /\ pc[j] = "building" /\ pc' = [pc EXCEPT ![j] = "built"]
      /\ turn'[j].agent = resident'
      /\ disk' = disk /\ pending' = pending /\ slot' = slot /\ taken' = taken
  BY <1>0 DEF Builds, Goes, live, TurnState
<1>2. j \in Running /\ j \in Running' /\ JobStep(j)
  BY <1>0, <1>1 DEF Running, JobStep
<1>3. /\ Line(j) /\ IsPrefix(slot, disk) /\ IsPrefix(taken, disk)
      /\ InUse = {resident, turn[j].agent} \ {0} /\ InUse' = {resident', turn'[j].agent} \ {0}
  BY <1>1, <1>2, GoesOn DEF Answering
<1>4. pending = <<j>> /\ found = disk /\ disk # <<>> /\ disk = Own(j, Earlier) /\ AllHold(Earlier)
  BY <1>1, <1>3 DEF Line, Leads
<1>5. InUse' = {resident'} \ {0}
  BY <1>1, <1>3
<1>6. \A a \in InUse' : agents'[a].mem = Earlier
  <2>1. CASE resident # 0
    <3>1. resident' = resident /\ agents' = agents
      BY <2>1 DEF Builds
    <3> QED
      BY <1>3, <1>4, <1>5, <2>1, <3>1 DEF AllHold
  <2>2. CASE resident = 0
    <3>1. resident' = fresh /\ fresh \in Agents
      BY <1>0, <1>1, <2>2, FreshAgent DEF Builds
    <3>2. agents' = [agents EXCEPT ![fresh] = [agents[fresh] EXCEPT !.mem = kept]]
      BY <2>2 DEF Builds
    <3>3. kept = Earlier
      <4> DEFINE row == UserRow(j, NextUserSeq(Earlier))
      <4>1. Earlier \in Seq(Row)
        BY <1>0, <1>4 DEF Earlier
      <4>2. disk = Append(Earlier, row) /\ row \in Row /\ row.by = "user" /\ row.msg = j
        BY <1>0, <1>4, <4>1, OwnRow DEF Own, UserRow
      <4> HIDE DEF row
      <4>3. disk[Len(disk)] = row
        BY <4>1, <4>2
      <4>4. StripLen(disk, <<j>>) = 1
        BY <1>0, <1>4, <4>2, <4>3, StripsOwn
      <4> QED
        BY <1>4, <4>4 DEF Earlier
    <3> HIDE DEF kept, fresh
    <3>4. agents'[fresh].mem = kept
      BY <1>0, <3>1, <3>2 DEF AgentState
    <3> QED
      BY <1>5, <3>1, <3>3, <3>4
  <2> QED
    BY <2>1, <2>2
<1>7. Leads(j)'
  <2>1. Earlier' = Earlier
    BY <1>1 DEF Earlier
  <2>2. AllHold(Earlier)'
    BY <1>6, <2>1 DEF AllHold
  <2>3. Own(j, Earlier)' = Own(j, Earlier)
    BY <2>1 DEF Own
  <2> QED
    BY <1>1, <1>4, <2>2, <2>3 DEF Leads
<1>8. Line(j)'
  BY <1>0, <1>1, <1>4, <1>7 DEF Line, Working, Turning, InTurn
<1>9. Snapshots' /\ OneCopies'
  BY <1>1, <1>3 DEF Snapshots, Straight, OneCopies, CopiesOf
<1> QED
  BY <1>2, <1>8, <1>9, JobStraight

\* The transcript takes the message as the row that is stored already.
LEMMA BeginsStraight ==
    ASSUME IInv, IInv', QInv, QInv', Undisturbed, Undisturbed', Straight, NEW j \in Sends, Begins(j)
    PROVE  Straight'
<1> DEFINE a == turn[j].agent
           mem == agents[a].mem
           row == UserRow(j, NextUserSeq(mem))
<1>0. /\ turn \in [Jobs -> TurnState] /\ pc \in [Jobs -> Places] /\ agents \in [Agents -> AgentState]
      /\ j \in Jobs /\ 0 \notin Agents /\ disk \in Seq(Row) /\ a \in Agents
  <2>1. a \in Agents
    BY Typed, InHand DEF Begins, Goes, Working, Turning
  <2> QED
    BY <2>1, Typed DEF IInv, TypeOK, TypesOfRows, TypesOfAgents, Agents
<1>1. /\ pc[j] = "picked" /\ pc' = [pc EXCEPT ![j] = "begun"] /\ turn'[j].agent = a
      /\ turn'[j].msg = turn[j].msg
      /\ disk' = disk /\ pending' = pending /\ slot' = agents'[a].mem /\ taken' = taken
      /\ resident' = resident
  BY <1>0 DEF Begins, Goes, TurnState
<1>2. j \in Running /\ j \in Running' /\ JobStep(j)
  BY <1>0, <1>1 DEF Running, JobStep
<1>3. /\ Line(j) /\ IsPrefix(slot, disk) /\ IsPrefix(taken, disk)
      /\ InUse = {resident, a} \ {0} /\ InUse' = {resident', turn'[j].agent} \ {0}
  BY <1>1, <1>2, GoesOn DEF Answering
<1>4. pending = <<j>> /\ turn[j].msg = j /\ disk = Own(j, Earlier) /\ AllHold(Earlier)
      /\ resident \in {0, a}
  BY <1>1, <1>3 DEF Line, Leads, Working, Turning
<1>5. InUse' = {a} /\ mem = Earlier
  BY <1>0, <1>1, <1>3, <1>4 DEF AllHold
<1>6. agents'[a].mem = disk
  <2>1. agents' = [agents EXCEPT ![a] = [[agents[a] EXCEPT !.mem = Append(mem, row)] EXCEPT !.saved = FALSE]]
    BY <1>0, <1>4 DEF Begins
  <2>2. disk = Append(mem, row)
    BY <1>4, <1>5 DEF Own
  <2> HIDE DEF row, mem
  <2> QED
    BY <1>0, <2>1, <2>2 DEF AgentState
<1>7. Line(j)'
  BY <1>0, <1>1, <1>4, <1>5, <1>6 DEF Line, Working, Turning, InTurn, AllHold
<1>8. Snapshots' /\ OneCopies'
  <2>1. IsPrefix(disk, disk)
    BY <1>0, PrefixOfItself
  <2> QED
    BY <1>1, <1>3, <1>6, <2>1 DEF Snapshots, Straight, OneCopies, CopiesOf
<1> QED
  BY <1>2, <1>7, <1>8, JobStraight

\* The snapshot of the reply extends the stored rows.
LEMMA RepliesStraight ==
    ASSUME IInv, IInv', QInv, QInv', Undisturbed, Undisturbed', Straight, NEW j \in Sends, Replies(j)
    PROVE  Straight'
<1>0. /\ turn \in [Jobs -> TurnState] /\ pc \in [Jobs -> Places] /\ j \in Jobs
      /\ disk \in Seq(Row)
  BY Typed DEF IInv, TypeOK, TypesOfRows
<1>1. /\ pc[j] = "stepping" /\ pc' = pc /\ turn'[j].agent = turn[j].agent
      /\ turn'[j].msg = turn[j].msg /\ turn[j].resp = <<>>
      /\ turn'[j].resp = <<Reply(turn[j].msg)>> /\ agents' = agents
      /\ disk' = disk /\ pending' = pending /\ taken' = taken /\ resident' = resident
      /\ slot' = Append(Mem(j), Reply(turn[j].msg))
  BY <1>0 DEF Replies, agent, TurnState
<1>2. j \in Running /\ j \in Running' /\ JobStep(j)
  BY <1>0, <1>1 DEF Running, JobStep
<1>3. Line(j) /\ \A i \in Jobs \ {j} : pc[i] \notin Answering
  BY <1>1, <1>2, GoesOn
<1>4. pending = <<j>> /\ turn[j].msg = j /\ disk = Mem(j) /\ resident \in {0, turn[j].agent}
  BY <1>1, <1>3 DEF Line, Working, Turning, InTurn
<1>5. Mem(j)' = Mem(j) /\ slot' = Coming(j)' /\ turn'[j].resp # <<>>
  <2>1. Mem(j)' = Mem(j)
    BY <1>1 DEF Mem
  <2>2. pc'[j] = "stepping" /\ slot' = Append(Mem(j), Reply(j))
    BY <1>1, <1>4
  <2>3. <<Reply(turn[j].msg)>> # <<>>
    OBVIOUS
  <2> QED
    BY <1>1, <2>1, <2>2, <2>3 DEF Coming
<1>6. Line(j)'
  BY <1>0, <1>1, <1>4, <1>5 DEF Line, Working, Turning, InTurn
<1>7. Snapshots'
  <2>1. IsPrefix(taken, disk)
    <3>1. ~ \E i \in Jobs : pc[i] \in Answering /\ turn[i].resp # <<>>
      BY <1>1, <1>3
    <3> QED
      BY <3>1 DEF Straight, Snapshots
  <2>2. pc'[j] \in Answering
    BY <1>1 DEF Answering
  <2> QED
    BY <1>0, <1>1, <1>5, <2>1, <2>2 DEF Snapshots
<1>8. OneCopies'
  BY <1>1 DEF Straight, OneCopies, CopiesOf
<1> QED
  BY <1>2, <1>6, <1>7, <1>8, JobStraight

\* The transcript becomes what its snapshot was.
LEMMA ReturnsStraight ==
    ASSUME IInv, IInv', QInv, QInv', ReplyInv, Undisturbed, Undisturbed', Straight, NEW j \in Sends,
           Returns(j)
    PROVE  Straight'
<1> DEFINE a == turn[j].agent
           mem == agents[a].mem
           resp == turn[j].resp
           row == Reply(j)
<1>0. /\ turn \in [Jobs -> TurnState] /\ pc \in [Jobs -> Places] /\ agents \in [Agents -> AgentState]
      /\ j \in Jobs /\ j \in Messages /\ 0 \notin Agents /\ disk \in Seq(Row) /\ a \in Agents
      /\ mem \in Seq(Row) /\ row \in Row
  <2>1. a \in Agents /\ mem \in Seq(Row)
    BY Typed, InHand DEF Returns, Goes, Working, Turning, InTurn, Mem
  <2>2. j \in Messages /\ row \in Row
    BY ReplyTyped DEF Messages
  <2> QED
    BY <2>1, <2>2, Typed DEF IInv, TypeOK, TypesOfRows, TypesOfAgents, Agents
<1>1. /\ pc[j] = "stepping" /\ pc' = [pc EXCEPT ![j] = "saving"] /\ turn'[j].agent = a
      /\ turn'[j].msg = turn[j].msg /\ turn'[j].resp = resp
      /\ disk' = disk /\ pending' = pending /\ taken' = taken /\ slot' = slot /\ resident' = resident
  BY <1>0 DEF Returns, Goes, live, TurnState
<1>2. j \in Running /\ j \in Running' /\ JobStep(j)
  BY <1>0, <1>1 DEF Running, JobStep
<1>3. Line(j) /\ \A i \in Jobs \ {j} : pc[i] \notin Answering
  BY <1>1, <1>2, GoesOn
<1>4. /\ pending = <<j>> /\ turn[j].msg = j /\ resident \in {0, a}
      /\ \/ disk = mem
         \/ disk = Append(mem, row) /\ resp # <<>>
      /\ Coming(j) = Append(mem, row)
  BY <1>1, <1>3 DEF Line, Working, Turning, InTurn, Mem, Coming
<1>5. agents'[a].mem = mem \o resp
  <2>1. agents' = [agents EXCEPT ![a] = [agents[a] EXCEPT !.mem = mem \o resp]]
    BY <1>0 DEF Returns, AgentState
  <2> HIDE DEF mem, resp
  <2> QED
    BY <1>0, <2>1 DEF AgentState
<1>6. mem \o resp = IF resp = <<>> THEN mem ELSE Append(mem, row)
  <2>1. resp \in {<<>>, <<row>>}
    BY <1>0, <1>4 DEF ReplyInv, Produced
  <2>2. mem \in Seq(Row) /\ row \in Row
    BY <1>0
  <2> HIDE DEF mem, resp, row
  <2>3. mem \o <<>> = mem /\ mem \o <<row>> = Append(mem, row) /\ <<row>> # <<>>
    BY <2>2
  <2> QED
    BY <2>1, <2>3
<1> HIDE DEF mem, resp, row
<1>7. Mem(j)' = mem \o resp
  BY <1>1, <1>5 DEF Mem
<1>8. Line(j)'
  <2>1. disk' = Mem(j)' \/ (turn'[j].resp # <<>> /\ Mem(j)' = Append(disk', Reply(j)))
    BY <1>1, <1>4, <1>6, <1>7 DEF row
  <2>2. pc'[j] = "saving"
    BY <1>0, <1>1
  <2> QED
    BY <1>1, <1>4, <2>1, <2>2 DEF Line, Working, Turning, InTurn
<1>9. Snapshots'
  <2>1. ASSUME NEW rows \in {slot, taken}
        PROVE  IsPrefix(rows, disk) \/ (resp # <<>> /\ rows = Append(mem, row))
    <3>1. \/ IsPrefix(rows, disk)
          \/ \E i \in Jobs : pc[i] \in Answering /\ turn[i].resp # <<>> /\ rows = Coming(i)
      BY DEF Straight, Snapshots
    <3>2. ASSUME NEW i \in Jobs, pc[i] \in Answering, turn[i].resp # <<>>, rows = Coming(i)
          PROVE  resp # <<>> /\ rows = Append(mem, row)
      BY <1>3, <1>4, <3>2 DEF resp
    <3> QED
      BY <3>1, <3>2
  <2>2. pc'[j] \in Answering /\ Coming(j)' = Mem(j)'
    BY <1>0, <1>1 DEF Answering, Coming
  <2> QED
    BY <1>0, <1>1, <1>6, <1>7, <2>1, <2>2 DEF Snapshots
<1>10. OneCopies'
  BY <1>1 DEF Straight, OneCopies, CopiesOf
<1> QED
  BY <1>2, <1>8, <1>9, <1>10, JobStraight

\* A reply that is stored is no copy of a message.
LEMMA ReplyNoCopy ==
    ASSUME disk \in Seq(Row), OneCopies, NEW row \in Row, row.by = "agent",
           disk' \in {disk, Append(disk, row)}
    PROVE  OneCopies'
<1>1. CASE disk' = disk
  BY <1>1 DEF OneCopies, CopiesOf
<1>2. CASE disk' = Append(disk, row)
  <2>1. /\ DOMAIN disk' = 1 .. Len(disk) + 1 /\ disk'[Len(disk) + 1] = row /\ Len(disk) \in Nat
        /\ DOMAIN disk = 1..Len(disk) /\ \A i \in 1..Len(disk) : disk'[i] = disk[i]
    BY <1>2
  <2>2. \A m \in Messages : CopiesOf(m)' \subseteq CopiesOf(m)
    BY <2>1 DEF CopiesOf
  <2> QED
    BY <2>2 DEF OneCopies
<1> QED
  BY <1>1, <1>2

\* A save finds the stored rows where it left them.
LEMMA SavesStraight ==
    ASSUME IInv, IInv', QInv, QInv', Undisturbed, Undisturbed', Straight, NEW j \in Sends, Saves(j)
    PROVE  Straight'
<1> DEFINE a == turn[j].agent
           mem == agents[a].mem
           row == Reply(j)
<1>0. /\ turn \in [Jobs -> TurnState] /\ pc \in [Jobs -> Places] /\ agents \in [Agents -> AgentState]
      /\ j \in Jobs /\ j \in Messages /\ 0 \notin Agents /\ disk \in Seq(Row) /\ a \in Agents
      /\ mem \in Seq(Row) /\ row \in Row /\ row.by = "agent" /\ slot \in Seq(Row) /\ taken \in Seq(Row)
  <2>1. a \in Agents /\ mem \in Seq(Row)
    BY Typed, InHand DEF Saves, Goes, Working, Turning, InTurn, Mem
  <2>2. j \in Messages /\ row \in Row /\ row.by = "agent"
    BY ReplyTyped DEF Messages, Reply
  <2> QED
    BY <2>1, <2>2, Typed DEF IInv, TypeOK, TypesOfRows, TypesOfAgents, Agents
<1>1. /\ pc[j] = "saving" /\ turn' = turn
      /\ pending' = pending /\ taken' = taken /\ slot' = slot /\ resident' = resident
      /\ pc' = [pc EXCEPT ![j] = IF Storable(mem) THEN "ending" ELSE "merging"]
      /\ disk' = IF Storable(mem) THEN mem ELSE disk
  BY <1>0 DEF Saves, Goes, live, Mem
<1>2. j \in Running /\ j \in Running' /\ JobStep(j)
  BY <1>0, <1>1 DEF Running, JobStep
<1>3. /\ Line(j) /\ \A i \in Jobs \ {j} : pc[i] \notin Answering
      /\ InUse' = {resident', a} \ {0}
  BY <1>1, <1>2, GoesOn
<1>4. /\ pending = <<j>> /\ resident \in {0, a} /\ turn[j].msg = j
      /\ disk = mem \/ mem = Append(disk, row)
      /\ Coming(j) = mem
  BY <1>1, <1>3 DEF Line, Working, Turning, InTurn, Mem, Coming
<1>5. agents'[a].mem = mem
  BY <1>0 DEF Saves, AgentState
<1> HIDE DEF mem, row
<1>6. IsPrefix(disk, mem) /\ IsPrefix(mem, mem)
  <2>1. IsPrefix(mem, mem)
    BY <1>0, PrefixOfItself
  <2>2. IsPrefix(disk, Append(disk, row))
    BY <1>0, PrefixOfAppend
  <2> QED
    BY <1>4, <2>1, <2>2
<1>7. pc'[j] = "ending" /\ disk' = mem
  BY <1>0, <1>1, <1>6 DEF Storable
<1>8. Line(j)'
  <2>1. AllHold(disk)'
    BY <1>1, <1>3, <1>4, <1>5, <1>7 DEF AllHold
  <2> QED
    BY <1>1, <1>4, <1>7, <2>1 DEF Line, Working, Turning, InTurn
<1>9. Snapshots'
  <2>1. ASSUME NEW rows \in {slot, taken}
        PROVE  IsPrefix(rows, mem)
    <3>1. CASE IsPrefix(rows, disk)
      BY <1>0, <1>6, <1>7, <3>1, StillPrefix
    <3>2. CASE rows = mem
      BY <1>6, <3>2
    <3> QED
      BY <1>3, <1>4, <3>1, <3>2 DEF Straight, Snapshots
  <2> QED
    BY <1>1, <1>7, <2>1 DEF Snapshots
<1>10. OneCopies'
  <2>1. disk' \in {disk, Append(disk, row)}
    BY <1>4, <1>7
  <2> QED
    BY <1>0, <2>1, ReplyNoCopy DEF Straight
<1> QED
  BY <1>2, <1>8, <1>9, <1>10, JobStraight

\* The job that leaves releases nobody: no Close and no diverged base waits for it.
LEMMA LeavesStraight ==
    ASSUME IInv, IInv', QInv, QInv', Undisturbed, Undisturbed', Straight, NEW j \in Sends, Leaves(j)
    PROVE  Straight'
<1>0. /\ turn \in [Jobs -> TurnState] /\ pc \in [Jobs -> Places] /\ agents \in [Agents -> AgentState]
      /\ j \in Jobs /\ 0 \notin Agents /\ resident \in Agents \cup {0} /\ closePending = FALSE
      /\ ~overlapped
  BY Typed DEF IInv, TypeOK, TypesOfAgents, Agents, Straight, Calm, Undisturbed
<1>1. /\ pc[j] = "leaving" /\ pc' = [pc EXCEPT ![j] = "finishing"]
      /\ disk' = disk /\ pending' = pending /\ taken' = taken /\ slot' = slot /\ resident' = resident
      /\ Release(Jobs \ {j}, FALSE)
  BY <1>0 DEF Leaves, Goes, live, Release
<1>2. j \in Running /\ JobStep(j)
  BY <1>0, <1>1 DEF Running, JobStep
<1>3. /\ Rest /\ InUse = {resident, turn[j].agent} \ {0}
      /\ \A i \in Jobs \ {j} : pc[i] \in Unlocked \cup {"waiting"}
  BY <1>0, <1>1, <1>2, Alone DEF Straight, Line
<1>4. \A i \in Jobs : pc'[i] \in Unlocked \cup {"waiting"}
  BY <1>0, <1>1, <1>3 DEF Unlocked
<1>5. \A i \in Jobs : Line(i)'
  BY <1>4 DEF Line, Unlocked, Working, Turning, InTurn
<1>6. Rest'
  <2>1. InUse' \subseteq {resident}
    <3>1. \A i \in Jobs : turn'[i].agent = 0
      BY <1>4 DEF IInv, Equipped, EquippedJob, Agentless
    <3> QED
      BY <1>1, <3>1 DEF InUse
  <2>2. resident # 0 => agents'[resident].mem = agents[resident].mem
    BY <1>0, <1>1 DEF Release, AgentState
  <2>3. 0 \notin InUse'
    BY DEF InUse
  <2> QED
    BY <1>1, <1>3, <2>1, <2>2, <2>3 DEF Rest, AllHold
<1>7. Snapshots'
  <2>1. \A i \in Jobs : pc[i] \notin Answering
    BY <1>1, <1>3, IdleLine DEF Answering
  <2> QED
    BY <1>1, <2>1, NoAnswer DEF Straight, Snapshots
<1>8. OneCopies' /\ Calm'
  BY <1>1, <1>2, CalmStays DEF Straight, OneCopies, CopiesOf
<1> QED
  BY <1>5, <1>6, <1>7, <1>8 DEF Straight

-----------------------------------------------------------------------------
(* Steps that leave the running job where it is. *)

LEMMA SameStraight ==
    ASSUME IInv, IInv', Straight, Calm',
           disk' = disk, pending' = pending, slot' = slot, taken' = taken, resident' \in {0, resident},
           \A i \in Jobs : turn'[i].agent = turn[i].agent,
           \A i \in Jobs : \/ pc'[i] = pc[i] /\ turn'[i] = turn[i]
                           \/ {pc[i], pc'[i]} \subseteq Unlocked \cup {"waiting"},
           \A a \in Agents : a \in InUse' => agents'[a].mem = agents[a].mem
    PROVE  Straight'
<1>0. /\ turn \in [Jobs -> TurnState] /\ resident \in Agents \cup {0} /\ 0 \notin Agents
  BY Typed DEF IInv, TypeOK, TypesOfAgents, Agents
<1> DEFINE S == InUse
<1>1. InUse' \subseteq S /\ S \subseteq Agents
  BY <1>0 DEF InUse, TurnState
<1>2. /\ AllHold(disk) => AllHold(disk)'
      /\ \A j : Leads(j) => Leads(j)'
      /\ OneCopies'
  BY <1>1, StillHolds DEF Straight
<1>3. Rest => Rest'
  BY <1>2 DEF Rest
<1>4. ASSUME NEW i \in Jobs, pc'[i] = pc[i], turn'[i] = turn[i], pc[i] \in Answering
      PROVE  Mem(i)' = Mem(i) /\ Coming(i)' = Coming(i)
  <2>1. turn[i].agent \in Agents
    BY <1>4, InHand DEF Answering, Working, Turning, InTurn
  <2>2. turn'[i].agent \in InUse'
    BY <1>0, <1>4, <2>1 DEF InUse
  <2>3. Mem(i)' = Mem(i)
    BY <1>4, <2>1, <2>2 DEF Mem
  <2> QED
    BY <1>4, <2>3 DEF Coming
<1>5. ASSUME NEW i \in Jobs
      PROVE  Line(i)'
  <2>1. CASE {pc[i], pc'[i]} \subseteq Unlocked \cup {"waiting"}
    BY <2>1 DEF Line, Unlocked, Working, Turning, InTurn
  <2>2. CASE pc'[i] = pc[i] /\ turn'[i] = turn[i]
    <3>1. Line(i)
      BY DEF Straight
    <3>2. pc[i] \in Answering => Mem(i)' = Mem(i) /\ Coming(i)' = Coming(i)
      BY <1>4, <2>2
    <3> QED
      BY <1>2, <1>3, <2>2, <3>1, <3>2 DEF Line, Answering
  <2> QED
    BY <2>1, <2>2
<1>6. Running' = Running
  BY DEF Running, Unlocked
<1>7. Snapshots'
  <2>1. ASSUME NEW i \in Jobs, pc[i] \in Answering, turn[i].resp # <<>>
        PROVE  pc'[i] \in Answering /\ turn'[i].resp # <<>> /\ Coming(i)' = Coming(i)
    <3>1. pc'[i] = pc[i] /\ turn'[i] = turn[i]
      BY <2>1 DEF Answering, Unlocked
    <3> QED
      BY <1>4, <2>1, <3>1
  <2> QED
    BY <2>1 DEF Straight, Snapshots
<1> QED
  BY <1>2, <1>3, <1>5, <1>6, <1>7 DEF Straight

LEMMA IdleStraight ==
    ASSUME IInv, IInv', Straight, NEW j \in Sends, Dispatch(j) \/ Fetches(j) \/ Finishes(j)
    PROVE  Straight'
<1>0. turn \in [Jobs -> TurnState] /\ pc \in [Jobs -> Places] /\ j \in Jobs
  BY Typed
<1>1. /\ disk' = disk /\ pending' = pending /\ slot' = slot /\ taken' = taken
      /\ resident' = resident /\ agents' = agents
  BY DEF Dispatch, Fetches, Finishes, live, agent
<1>2. /\ \A i \in Jobs : turn'[i].agent = turn[i].agent
      /\ \A i \in Jobs \ {j} : pc'[i] = pc[i] /\ turn'[i] = turn[i]
      /\ {pc[j], pc'[j]} \subseteq Unlocked \cup {"waiting"}
  <2>1. \E l : turn' = [turn EXCEPT ![j].lock = l] \/ turn' = turn
    BY DEF Dispatch, Fetches, Finishes
  <2>2. \A i \in Jobs : turn'[i].agent = turn[i].agent
    <3>1. CASE turn' = turn
      BY <3>1
    <3>2. ASSUME NEW l, turn' = [turn EXCEPT ![j].lock = l]
          PROVE  \A i \in Jobs : turn'[i].agent = turn[i].agent
      <4>1. \A t \in TurnState : [t EXCEPT !.lock = l].agent = t.agent
        BY DEF TurnState
      <4>2. turn'[j] = [turn[j] EXCEPT !.lock = l] /\ \A i \in Jobs \ {j} : turn'[i] = turn[i]
        BY <1>0, <3>2
      <4> QED
        BY <1>0, <4>1, <4>2
    <3> QED
      BY <2>1, <3>1, <3>2
  <2>3. \A i \in Jobs \ {j} : pc'[i] = pc[i] /\ turn'[i] = turn[i]
    BY <1>0, <2>1 DEF Dispatch, Fetches, Finishes, Goes
  <2>4. {pc[j], pc'[j]} \subseteq Unlocked \cup {"waiting"}
    <3>1. CASE Dispatch(j)
      BY <1>0, <3>1 DEF Dispatch, Goes, Unlocked
    <3>2. CASE Fetches(j)
      BY <1>0, <3>2 DEF Fetches, Goes, Unlocked
    <3>3. CASE Finishes(j)
      BY <1>0, <3>3 DEF Finishes, Goes, Unlocked
    <3> QED
      BY <3>1, <3>2, <3>3
  <2> QED
    BY <2>2, <2>3, <2>4
<1>3. Calm'
  BY CalmStays DEF JobStep
<1> QED
  BY <1>1, <1>2, <1>3, SameStraight

LEMMA BesideStraight ==
    ASSUME IInv, IInv', Straight,
           \/ EvictScans \/ EvictChecks \/ EvictDetaches \/ UNCHANGED vars
           \/ \E q \in Queued : Refused(q)
    PROVE  Straight'
<1>0. agents \in [Agents -> AgentState] /\ 0 \notin Agents /\ resident \in Agents \cup {0}
  BY DEF IInv, TypeOK, TypesOfAgents, Agents
<1>1. /\ disk' = disk /\ pending' = pending /\ slot' = slot /\ taken' = taken
      /\ turn' = turn /\ pc' = pc
  BY DEF EvictScans, EvictChecks, EvictDetaches, Refused, live, jobs, vars
<1>2. Calm'
  BY DEF Straight, Calm, EvictScans, EvictChecks, EvictDetaches, Refused, agent, jobs, queue, control, vars
<1>3. /\ resident' \in {0, resident}
      /\ \A a \in Agents : a \in InUse' => agents'[a].mem = agents[a].mem
  <2>1. CASE agents' = agents /\ resident' = resident
    BY <2>1
  <2>2. CASE EvictDetaches
    <3>1. Release(Jobs, resident = evictor.agent)
      BY <2>2 DEF EvictDetaches
    <3>2. resident' \in {0, resident}
      BY <3>1 DEF Release
    <3>3. ASSUME NEW a \in Agents, a \in InUse'
          PROVE  agents'[a].mem = agents[a].mem
      <4>1. a = resident' \/ \E i \in Jobs : turn[i].agent = a
        BY <1>1, <3>3 DEF InUse
      <4>2. CASE \E i \in Jobs : turn[i].agent = a
        BY <1>0, <3>1, <4>2 DEF Release, AgentState
      <4>3. CASE a = resident' /\ ~ \E i \in Jobs : turn[i].agent = a
        <5>1. a = resident /\ resident # evictor.agent
          BY <1>0, <3>1, <4>3 DEF Release
        <5> QED
          BY <3>1, <4>3, <5>1 DEF Release
      <4> QED
        BY <4>1, <4>2, <4>3
    <3> QED
      BY <3>2, <3>3
  <2> QED
    BY <2>1, <2>2 DEF EvictScans, EvictChecks, Refused, agent, vars
<1> QED
  BY <1>1, <1>2, <1>3, SameStraight

-----------------------------------------------------------------------------
(* The live writer. *)

LEMMA TakesStraight ==
    ASSUME IInv, IInv', Straight, Takes
    PROVE  Straight'
<1>1. /\ disk' = disk /\ pending' = pending /\ taken' = slot /\ slot' = <<>> /\ taken = <<>>
      /\ turn' = turn /\ pc' = pc /\ agents' = agents /\ resident' = resident
      /\ Calm'
  BY DEF Takes, agent, jobs, queue, control, Straight, Calm
<1>2. /\ AllHold(disk)' = AllHold(disk) /\ Rest' = Rest /\ OneCopies' = OneCopies
      /\ Running' = Running /\ \A j \in Jobs : Mem(j)' = Mem(j) /\ Coming(j)' = Coming(j)
  BY <1>1 DEF AllHold, InUse, Rest, OneCopies, CopiesOf, Running, Mem, Coming
<1>3. \A j : Leads(j)' = Leads(j)
  BY <1>1 DEF Leads, Own, Earlier, AllHold, InUse
<1>4. ASSUME NEW j \in Jobs
      PROVE  Line(j)'
  <2>1. ASSUME pc[j] = "stepping"
        PROVE  Coming(j) # <<>>
    <3>1. Mem(j) \in Seq(Row) /\ turn[j].msg \in Messages /\ turn[j].msg = j
      BY <2>1, InHand DEF Working, Turning, InTurn, Straight, Line
    <3>2. Append(Mem(j), Reply(j)) # <<>>
      BY <3>1, ReplyTyped
    <3> QED
      BY <2>1, <3>2 DEF Coming
  <2>2. pc[j] = "stepping" /\ Coming(j) \in {slot, taken} => Coming(j)' \in {slot', taken'}
    BY <1>1, <1>2, <2>1
  <2>3. Line(j)
    BY DEF Straight
  <2> QED
    BY <1>1, <1>2, <1>3, <2>2, <2>3 DEF Line
<1>5. Snapshots'
  <2>1. IsPrefix(<<>>, disk)
    BY EmptyIsPrefix DEF IInv, TypeOK, TypesOfRows
  <2> QED
    BY <1>1, <1>2, <2>1 DEF Straight, Snapshots
<1> QED
  BY <1>1, <1>2, <1>4, <1>5 DEF Straight

\* A snapshot that is stored already changes nothing.
LEMMA WritesStored ==
    ASSUME IInv, IInv', Straight, Writes, IsPrefix(taken, disk)
    PROVE  Straight'
<1>0. disk \in Seq(Row) /\ taken \in Seq(Row) /\ slot \in Seq(Row)
  BY DEF IInv, TypeOK, TypesOfRows
<1>1. disk' = disk
  <2>1. ASSUME IsPrefix(disk, taken)
        PROVE  disk = taken
    <3>1. /\ Len(disk) <= Len(taken) /\ Len(taken) <= Len(disk)
          /\ \A i \in 1..Len(disk) : disk[i] = taken[i]
      BY <1>0, <2>1, PrefixAgrees
    <3> QED
      BY <1>0, <3>1
  <2> QED
    BY <2>1 DEF Writes, Storable
<1>2. /\ pending' = pending /\ taken' = <<>> /\ slot' = slot
      /\ turn' = turn /\ pc' = pc /\ agents' = agents /\ resident' = resident
      /\ Calm'
  BY DEF Writes, agent, jobs, queue, control, Straight, Calm
<1>3. /\ AllHold(disk)' = AllHold(disk) /\ Rest' = Rest /\ OneCopies' = OneCopies
      /\ Running' = Running /\ \A j \in Jobs : Mem(j)' = Mem(j) /\ Coming(j)' = Coming(j)
  BY <1>1, <1>2 DEF AllHold, InUse, Rest, OneCopies, CopiesOf, Running, Mem, Coming
<1>4. \A j : Leads(j)' = Leads(j)
  BY <1>1, <1>2 DEF Leads, Own, Earlier, AllHold, InUse
<1>5. ASSUME NEW j \in Jobs
      PROVE  Line(j)'
  <2>1. ASSUME pc[j] = "stepping", turn[j].resp # <<>>, disk = Mem(j)
        PROVE  Coming(j) # taken
    <3>1. turn[j].msg \in Messages /\ Line(j)
      BY <2>1, InHand DEF Turning, InTurn, Straight
    <3>2. Reply(j) \in Row
      BY <2>1, <3>1, ReplyTyped DEF Line, Turning, InTurn
    <3>3. Len(Append(disk, Reply(j))) = Len(disk) + 1 /\ Len(taken) <= Len(disk)
          /\ Len(taken) \in Nat /\ Len(disk) \in Nat
      BY <1>0, <3>2, PrefixAgrees
    <3> QED
      BY <2>1, <3>3 DEF Coming
  <2>2. Line(j)
    BY DEF Straight
  <2> QED
    BY <1>1, <1>2, <1>3, <1>4, <2>1, <2>2 DEF Line
<1>6. Snapshots'
  <2>1. IsPrefix(<<>>, disk)
    BY <1>0, EmptyIsPrefix
  <2> QED
    BY <1>1, <1>2, <1>3, <2>1 DEF Straight, Snapshots
<1> QED
  BY <1>2, <1>3, <1>5, <1>6 DEF Straight

\* A snapshot that holds the reply stores it, before the turn's save does.
LEMMA WritesReply ==
    ASSUME IInv, IInv', QInv, Undisturbed, Straight, [Next]_vars, Writes,
           NEW j \in Jobs, pc[j] \in Answering, turn[j].resp # <<>>, taken = Coming(j)
    PROVE  Straight'
<1>0. /\ disk \in Seq(Row) /\ slot \in Seq(Row) /\ Mem(j) \in Seq(Row) /\ j \in Messages
      /\ Reply(j) \in Row /\ Reply(j).by = "agent" /\ j \in Running /\ ~overlapped
  <2>1. Mem(j) \in Seq(Row) /\ turn[j].msg \in Messages /\ j \in Running
    BY InHand DEF Answering, Working, Turning, InTurn, Running
  <2>2. turn[j].msg = j
    BY DEF Straight, Line, Answering, Turning, InTurn
  <2> QED
    BY <2>1, <2>2, ReplyTyped DEF Reply, IInv, TypeOK, TypesOfRows, Undisturbed
<1>1. /\ pending' = pending /\ taken' = <<>> /\ slot' = slot
      /\ turn' = turn /\ pc' = pc /\ agents' = agents /\ resident' = resident
      /\ Calm'
  BY DEF Writes, agent, jobs, queue, control, Straight, Calm
<1>2. \A i \in Jobs \ {j} : pc[i] \in Unlocked \cup {"waiting"}
  BY <1>0, Alone
<1>3. \A i \in Jobs : Mem(i)' = Mem(i) /\ Coming(i)' = Coming(i)
  BY <1>1 DEF Mem, Coming
<1>4. Line(j) /\ (disk = Coming(j) \/ Coming(j) = Append(disk, Reply(j)))
  BY DEF Straight, Line, Answering, Coming
<1>5. Coming(j) \in Seq(Row) /\ IsPrefix(disk, Coming(j))
  <2>1. IsPrefix(disk, disk)
    BY <1>0, PrefixOfItself
  <2>2. IsPrefix(disk, Append(disk, Reply(j))) /\ Append(disk, Reply(j)) \in Seq(Row)
    BY <1>0, PrefixOfAppend
  <2> QED
    BY <1>0, <1>4, <2>1, <2>2
<1>6. disk' = Coming(j)
  BY <1>5 DEF Writes, Storable
<1>7. Line(j)'
  BY <1>1, <1>3, <1>4, <1>6 DEF Line, Answering, Coming
<1>8. \A i \in Jobs : Line(i)'
  <2>1. \A i \in Jobs \ {j} : Line(i)'
    BY <1>1, <1>2 DEF Line, Unlocked, Working, Turning, InTurn
  <2> QED
    BY <1>7, <2>1
<1>9. Snapshots'
  <2>1. IsPrefix(slot, disk) => IsPrefix(slot, disk')
    BY <1>0, DiskGrows, StillPrefix
  <2>2. IsPrefix(<<>>, disk')
    BY EmptyIsPrefix DEF IInv, TypeOK, TypesOfRows
  <2> QED
    BY <1>1, <1>3, <2>1, <2>2 DEF Straight, Snapshots
<1>10. OneCopies'
  <2>1. disk' \in {disk, Append(disk, Reply(j))}
    BY <1>4, <1>6
  <2> QED
    BY <1>0, <2>1, ReplyNoCopy DEF Straight
<1>11. Running' # {}
  BY <1>0, <1>1 DEF Running
<1> QED
  BY <1>1, <1>8, <1>9, <1>10, <1>11 DEF Straight

-----------------------------------------------------------------------------
(* The results. *)

LEMMA StraightKeeps ==
    ASSUME IInv, IInv', QInv, QInv', ReplyInv, [Next]_vars, Undisturbed', Undisturbed => Straight
    PROVE  Straight'
<1>1. Undisturbed /\ Straight
  BY StaysDisturbed
<1>2. ASSUME NEW j \in Sends, Dispatch(j) \/ JobStep(j)
      PROVE  Straight'
  <2>1. ~Merges(j) /\ ~SavesMerged(j) /\ ~Resyncs(j)
    <3>1. Line(j)
      BY <1>1, Typed DEF Straight
    <3> QED
      BY <3>1 DEF Line, Merges, SavesMerged, Resyncs, Goes
  <2> QED
    BY <1>1, <1>2, <2>1, IdleStraight, LocksStraight, PersistsStraight, PushesStraight, QuietStraight,
       BuildsStraight, BeginsStraight, RepliesStraight, ReturnsStraight, SavesStraight, LeavesStraight
       DEF JobStep
<1>3. CASE Writes
  BY <1>1, <1>3, WritesStored, WritesReply DEF Straight, Snapshots
<1> QED
  BY <1>1, <1>2, <1>3, UndisturbedSteps, TakesStraight, BesideStraight

LEMMA InitStraight == Init => Straight
<1> SUFFICES ASSUME Init PROVE Straight
  OBVIOUS
<1>0. Drain \in Jobs /\ \A j \in Jobs : pc[j] = "new" /\ turn[j].agent = 0
  BY DEF Init, Jobs, NoTurn
<1>1. Calm /\ \A j \in Jobs : Line(j)
  BY <1>0 DEF Init, Calm, Line, Working, Turning, InTurn
<1>2. Rest
  BY <1>0 DEF Init, Rest, AllHold, InUse
<1>3. IsPrefix(<<>>, <<>>)
  BY PrefixOfItself, <<>> \in Seq(Row)
<1>4. Snapshots
  BY <1>3 DEF Init, Snapshots
<1>5. OneCopies
  BY DEF Init, OneCopies, CopiesOf
<1> QED
  BY <1>1, <1>2, <1>4, <1>5 DEF Straight

StraightInv == Undisturbed => Straight

LEMMA StraightInductive == Spec => []StraightInv
<1>1. Init => StraightInv
  BY InitStraight DEF StraightInv
<1>2. IInv /\ IInv' /\ QInv /\ QInv' /\ ReplyInv /\ StraightInv /\ [Next]_vars => StraightInv'
  BY StraightKeeps DEF StraightInv
<1> QED
  BY <1>1, <1>2, Inductive, QueueInductive, RepliesInductive, PTL DEF Spec

\* Posted messages that nothing comes between are stored once, however many are
\* posted: every save and every live snapshot extends the stored rows by the
\* reply of the one turn that runs (executeTurnJob, persistTurnTranscript).
THEOREM PostedAreStoredOnce == Spec => []StoredOnceUnlessStopped
<1>1. StraightInv => StoredOnceUnlessStopped
  <2>1. SUFFICES ASSUME OneCopies, NEW m \in Messages
                 PROVE  Cardinality(CopiesOf(m)) <= 1
    BY DEF StraightInv, Straight, StoredOnceUnlessStopped, StoredOnce
  <2>2. CASE CopiesOf(m) = {}
    BY <2>2, FS_EmptySet
  <2>3. CASE CopiesOf(m) # {}
    <3>1. PICK i \in CopiesOf(m) : CopiesOf(m) = {i}
      BY <2>1, <2>3 DEF OneCopies
    <3> QED
      BY <3>1, FS_Singleton
  <2> QED
    BY <2>2, <2>3
<1> QED
  BY <1>1, StraightInductive, PTL

\* Once the live writer is idle, what the running turn of such a message has
\* completed is on disk (runTurn's snapshots).
THEOREM RoundsReachDisk == Spec => []RoundsAreStoredUnlessStopped
<1>1. IInv /\ StraightInv => RoundsAreStoredUnlessStopped
  <2>1. SUFFICES ASSUME IInv, Straight, NEW j \in Jobs, pc[j] = "stepping", turn[j].resp # <<>>,
                        slot = <<>>, taken = <<>>
                 PROVE  Stored(Reply(turn[j].msg))
    BY DEF StraightInv, RoundsAreStoredUnlessStopped, RoundsAreStored
  <2>2. /\ Mem(j) \in Seq(Row) /\ turn[j].msg = j /\ Reply(j) \in Row
    <3>1. Mem(j) \in Seq(Row) /\ turn[j].msg \in Messages /\ turn[j].msg = j
      BY <2>1, InHand DEF Working, Turning, InTurn, Straight, Line
    <3> QED
      BY <2>1, <3>1, ReplyTyped
  <2> DEFINE rows == Append(Mem(j), Reply(j))
  <2>3. rows # <<>> /\ Len(Mem(j)) + 1 \in DOMAIN rows /\ rows[Len(Mem(j)) + 1] = Reply(j)
    BY <2>2
  <2> HIDE DEF rows
  <2>4. disk = rows
    BY <2>1, <2>3 DEF Straight, Line, Coming, rows
  <2> QED
    BY <2>2, <2>3, <2>4 DEF Stored
<1> QED
  BY <1>1, Inductive, StraightInductive, PTL
=============================================================================
