------------------------ MODULE PendingRewindProofs ------------------------
(***************************************************************************)
(* Proofs about PendingRewind: its types and its four safety properties.   *)
(***************************************************************************)
EXTENDS PendingRewind, TLAPS, FiniteSetTheorems, WellFoundedInduction

-----------------------------------------------------------------------------
(* The pure parts. *)

\* A finite set of integers has a greatest element: no finite set is the
\* smallest without one.
LEMMA MaxOfFinite ==
    ASSUME NEW S \in SUBSET Int, IsFiniteSet(S), S # {}
    PROVE  Max(S) \in S /\ \A x \in S : Max(S) >= x
<1> DEFINE Top(U) == \E m \in U : \A x \in U : m >= x
           Open == {U \in SUBSET S : U # {} /\ ~Top(U)}
<1>1. Open = {}
  <2>1. SUFFICES ASSUME Open # {} PROVE FALSE
    OBVIOUS
  <2>2. IsWellFoundedOn(StrictSubsetOrdering(S), SUBSET S)
    BY FS_StrictSubsetOrderingWellFounded, FS_FiniteSubsetsOfFinite
  <2>3. Open \subseteq SUBSET S
    OBVIOUS
  <2>4. PICK U \in Open : \A V \in Open : ~ (<<V, U>> \in StrictSubsetOrdering(S))
    <3> HIDE DEF Open
    <3> QED
      BY ONLY <2>1, <2>2, <2>3, WFMin
  <2>5. PICK x \in U : TRUE
    OBVIOUS
  <2>6. U \ {x} \notin Open
    BY <2>4, <2>5 DEF StrictSubsetOrdering
  <2>7. CASE U \ {x} = {}
    <3>1. U = {x} /\ x \in Int
      BY <2>5, <2>7
    <3> QED
      BY <3>1
  <2>8. CASE U \ {x} # {}
    <3>1. PICK m \in U \ {x} : \A y \in U \ {x} : m >= y
      BY <2>6, <2>8
    <3>2. CASE m >= x
      <4>1. \A y \in U : m >= y
        BY <3>1, <3>2
      <4> QED
        BY <4>1, <3>1
    <3>3. CASE x >= m
      <4>1. \A y \in U : x >= y
        BY <3>1, <3>3, <2>5
      <4> QED
        BY <4>1, <2>5
    <3> QED
      BY <3>1, <3>2, <3>3, <2>5
  <2> QED
    BY <2>7, <2>8
<1> QED
  BY <1>1 DEF Max

\* The greatest of the numbers between two bounds that pass a test, when one
\* does.
LEMMA MaxOfInterval ==
    ASSUME NEW a \in Nat, NEW b \in Nat, NEW S \in SUBSET (a..b), S # {}
    PROVE  Max(S) \in S
<1>1. IsFiniteSet(a..b)
  BY FS_Interval
<1>2. IsFiniteSet(S)
  BY <1>1, FS_Subset
<1>3. S \in SUBSET Int
  OBVIOUS
<1> QED
  BY <1>2, <1>3, MaxOfFinite

\* The number of a new user's row is a number.
LEMMA NextUserSeqTyped ==
    ASSUME NEW rs \in Seq(Row)
    PROVE  NextUserSeq(rs) \in Nat
<1> DEFINE D == {k \in DOMAIN rs : rs[k].by = "user"}
           T == {rs[i].seq : i \in D}
           f == [i \in D |-> rs[i].seq]
<1>1. \A i \in 1..Len(rs) : rs[i].seq \in Nat
  <2>1. \A row \in Row : row.seq \in Nat
    BY DEF Row
  <2> QED
    BY <2>1
<1>2. f \in Surjection(D, T)
  BY DEF Surjection
<1>3. IsFiniteSet(D)
  BY FS_Interval, FS_Subset, D \subseteq 1..Len(rs), Len(rs) \in Nat
<1>4. IsFiniteSet({0} \cup T)
  <2>1. IsFiniteSet(T)
    BY <1>2, <1>3, FS_Surjection
  <2> QED
    BY <2>1, FS_AddElement, {0} \cup T = T \cup {0}
<1>5. {0} \cup T \in SUBSET Nat
  BY <1>1
<1> HIDE DEF T, D, f
<1>6. Max({0} \cup T) \in {0} \cup T
  BY <1>4, <1>5, MaxOfFinite, {0} \cup T \in SUBSET Int, {0} \cup T # {}
<1>7. Max({0} \cup T) \in Nat
  BY <1>5, <1>6
<1> QED
  BY <1>7 DEF NextUserSeq, T, D

\* A user's row behind a transcript is a row.
LEMMA UserRowTyped ==
    ASSUME NEW t \in Texts, NEW rs \in Seq(Row)
    PROVE  UserRow(t, NextUserSeq(rs)) \in Row
BY NextUserSeqTyped DEF UserRow, Row

\* A numbered reply is a row.
LEMMA ReplyTyped ==
    ASSUME NEW n \in Nat
    PROVE  Reply(n) \in Row
BY DEF Reply, Row

\* What is stored as a user's row is a text.
LEMMA SomeTexts ==
    /\ Foreign \in Texts
    /\ \A x \in Rewinds \cup Posts \cup Queued : x \in Texts
    /\ None \notin Texts
BY TextsAssumption DEF Texts

\* The first part of a sequence.
LEMMA PrefixTyped ==
    ASSUME NEW R, NEW s \in Seq(R), NEW n \in 0..Len(s)
    PROVE  /\ SubSeq(s, 1, n) \in Seq(R)
           /\ Len(SubSeq(s, 1, n)) = n
           /\ \A i \in 1..n : SubSeq(s, 1, n)[i] = s[i]
OBVIOUS

\* The last element of a sequence is one of its elements.
LEMMA LastTyped ==
    ASSUME NEW R, NEW s \in Seq(R), s # <<>>
    PROVE  Last(s) \in R /\ Last(s) = s[Len(s)] /\ Len(s) \in DOMAIN s
BY DEF Last

\* The first element of a sequence, and the rest.
LEMMA TailTyped ==
    ASSUME NEW R, NEW s \in Seq(R), s # <<>>
    PROVE  /\ Head(s) \in R /\ s[1] = Head(s) /\ 1 \in DOMAIN s
           /\ Tail(s) \in Seq(R)
           /\ Len(Tail(s)) = Len(s) - 1
           /\ \A i \in 1..Len(s) - 1 : Tail(s)[i] = s[i + 1]
OBVIOUS

Sources == Rewinds \cup Posts \cup Queued
Entry == [text : Texts, from : Sources]
Snapshot == [rows : Transcript, gen : Nat]

\* The elements of a sequence.
LEMMA RangeTyped ==
    ASSUME NEW R, NEW s \in Seq(R)
    PROVE  Range(s) \subseteq R /\ Range(s) = {s[i] : i \in 1..Len(s)}
BY DEF Range

\* What an Append adds to the elements of a sequence.
LEMMA AppendRange ==
    ASSUME NEW R, NEW s \in Seq(R), NEW x \in R
    PROVE  Range(Append(s, x)) = Range(s) \cup {x}
<1>1. /\ Len(s) \in Nat /\ DOMAIN s = 1..Len(s) /\ DOMAIN Append(s, x) = 1..Len(s) + 1
      /\ Append(s, x)[Len(s) + 1] = x
      /\ \A k \in 1..Len(s) : Append(s, x)[k] = s[k]
  OBVIOUS
<1>2. 1..Len(s) + 1 = 1..Len(s) \cup {Len(s) + 1}
  BY <1>1
<1>3. Range(Append(s, x)) = {Append(s, x)[k] : k \in 1..Len(s) \cup {Len(s) + 1}}
  BY <1>1, <1>2 DEF Range
<1> QED
  BY <1>1, <1>3 DEF Range

\* The queue's entries are from messages.
LEMMA FromTyped ==
    ASSUME pending \in Seq(Entry)
    PROVE  {e.from : e \in Range(pending)} \subseteq Sources
<1>1. Range(pending) \subseteq Entry
  BY RangeTyped
<1>2. \A e \in Entry : e.from \in Sources
  BY DEF Entry
<1> QED
  BY <1>1, <1>2

\* pendingStripLen strips no more than there is.
LEMMA StripLenTyped ==
    ASSUME NEW history \in Seq(Row), pending \in Seq(Entry)
    PROVE  Len(history) - StripLen(history) \in 0..Len(history)
<1> DEFINE S == {n \in 0 .. Len(history) :
                   /\ n <= Len(pending)
                   /\ \A k \in 0 .. n - 1 :
                        LET row == history[Len(history) - k]
                        IN  row.by = "user" /\ row.text = pending[Len(pending) - k].text}
<1>1. 0 \in S
  OBVIOUS
<1>2. S \in SUBSET (0..Len(history)) /\ Len(history) \in Nat
  OBVIOUS
<1> HIDE DEF S
<1>3. Max(S) \in S
  BY <1>1, <1>2, MaxOfInterval
<1>4. StripLen(history) = Max(S)
  BY DEF StripLen, S
<1>5. StripLen(history) \in 0..Len(history)
  BY <1>2, <1>3, <1>4
<1> QED
  BY <1>2, <1>5

\* The conversation before the model begins.
LEMMA ConversationTyped ==
    /\ Conversation \in Seq(Row) /\ Len(Conversation) = 2 * Len(History)
    /\ \A i \in DOMAIN Conversation : Conversation[i].by = "agent" =>
          i % 2 = 0 /\ Conversation[i] = Reply(i \div 2)
<1>0. Len(History) \in Nat /\ History \in Seq(Texts)
  BY TextsAssumption
<1>1. \A i \in 1 .. 2 * Len(History) :
        /\ i % 2 \in {0, 1} /\ i \div 2 \in Nat
        /\ i % 2 = 1 => (i + 1) \div 2 \in 1..Len(History)
  BY <1>0
<1>2. \A i \in 1 .. 2 * Len(History) : Conversation[i] \in Row
  <2> TAKE i \in 1 .. 2 * Len(History)
  <2>1. CASE i % 2 = 1
    BY <1>0, <1>1, <2>1 DEF Conversation, UserRow, Row
  <2>2. CASE i % 2 # 1
    BY <1>0, <1>1, <2>2, ReplyTyped DEF Conversation
  <2> QED
    BY <2>1, <2>2
<1>3. Conversation \in Seq(Row) /\ Len(Conversation) = 2 * Len(History)
  BY <1>0, <1>2 DEF Conversation
<1> QED
  BY <1>0, <1>1, <1>3 DEF Conversation, UserRow

-----------------------------------------------------------------------------
(* Types, and the turn lock. *)

StoreTypes == /\ rows \in Transcript /\ gen \in Nat /\ res \in Resource
              /\ mem \in Transcript /\ own \in Transcript /\ slot \in Seq(Snapshot)

EngineTypes == /\ resident \in BOOLEAN /\ closing \in BOOLEAN
               /\ released \in BOOLEAN /\ active \in BOOLEAN /\ dropped \subseteq Jobs
               /\ resetting \in BOOLEAN /\ overlapped \in BOOLEAN
               /\ pending \in Seq(Entry)
               /\ at \in [Jobs -> Places] /\ base \in Nat
               /\ request \in [Queued -> {"new", "reserved", "stored"}]

ClientTypes == /\ tab \in Record /\ carry \in [Rewinds -> Record]
               /\ tokens \in Nat /\ odds \in Nat

HistoryTypes == /\ made \in Nat /\ gone \subseteq Row /\ dead \subseteq Sources
                /\ commits \in Seq(Rewinds) /\ begun \in Seq(Sources)
                /\ blind \subseteq Nat /\ moved \subseteq Nat /\ lost \subseteq Sources /\ left \subseteq Sources

\* TypeOK in four parts.
LEMMA TypeParts == TypeOK <=> StoreTypes /\ EngineTypes /\ ClientTypes /\ HistoryTypes
BY DEF TypeOK, StoreTypes, EngineTypes, ClientTypes, HistoryTypes, Entry, Sources, Snapshot

InTurn == \E j \in Jobs : at[j] \in {"picked", "turning", "saving", "shifting"}
Turning == \E j \in Jobs : at[j] \in {"turning", "saving"}
Landed == \E r \in Rewinds : at[r] = "landed"

\* One job has the turn lock.
OneHolds == \A j, k \in Holders : j = k

\* A turn has its message at the front of the queue, and rows.
TurnInHand == /\ InTurn => pending # <<>> /\ Head(pending).from \in Range(begun)
              /\ Turning => Hand # <<>>

\* What the client holds: a token that was prepared, with the text of a row, in
\* its record and in every send it made.
HoldsTokens == /\ tab # NoTab => tab.token \in 1..tokens /\ tab.text \in Texts
               /\ \A r \in Rewinds : at[r] # "new" => carry[r].token \in 1..tokens /\ carry[r].text \in Texts

Typed == StoreTypes /\ EngineTypes /\ ClientTypes /\ HistoryTypes

\* A job that drains the queue has an agent; a released agent is in its hand.
AgentIsThere == /\ InHand # {} => resident \/ released
                /\ released => InHand # {}

\* A commit that is not adopted yet kept rows that are still there.
KeptIsThere == Landed => base <= Len(rows)

\* Steps by what they leave alone: a send that goes no further,
Refuses(r) == CommitRefused(r) \/ Repeated(r) \/ GoesStale(r) \/ CommitFails(r)

\* a job that leaves the queue,
Stops(j) == LeavesEarly(j) \/ Leaves(j)

\* and what no job of the session does.
Aside == \/ \E i \in DOMAIN rows : Prepare(i)
         \/ Expires \/ Cancel \/ Writes \/ ForeignAppends
         \/ Releases \/ Closes \/ ResetReleases \/ ResetFails
         \/ \E j \in Jobs : Overlaps(j)
         \/ \E q \in Queued : Stores(q)

\* Every step is one of these.
LEMMA NextCases ==
    ASSUME Next
    PROVE  \/ Aside
           \/ \E r \in Rewinds : Send(r) \/ Hears(r) \/ Refuses(r) \/ Adopts(r) \/ \E i \in DOMAIN rows : Lands(r, i)
           \/ \E p \in Posts : Post(p) \/ Persists(p) \/ Pushes(p) \/ StrayPersists(p)
           \/ \E q \in Queued : Reserves(q)
           \/ \E j \in Jobs : Boots(j) \/ Picks(j) \/ Begins(j) \/ Replies(j) \/ Saves(j) \/ Shifts(j) \/ Stops(j)
                                \/ StrayBoots(j)
           \/ Drains \/ ResetMoves \/ Crash
BY DEF Next, Commit, Turn, Reset, Refuses, Stops, Aside

\* What each group leaves alone.
LEMMA AsideFrame ==
    ASSUME Aside
    PROVE  UNCHANGED <<at, pending, base, begun, carry, commits, dead, gone, made, lost, left, blind, moved>>
BY DEF Aside, Prepare, Expires, Cancel, Writes, ForeignAppends, Releases, Closes, ResetReleases, ResetFails,
       Overlaps, Stores, store, turn, agent, client, bounds, ghosts

LEMMA RefusesFrame ==
    ASSUME NEW r \in Rewinds, Refuses(r)
    PROVE  /\ at[r] = "waiting" /\ LockFree /\ Goes(r) /\ at' = [at EXCEPT ![r] = "done"]
           /\ UNCHANGED <<rows, gen, pending, slot, base, request, carry, tokens, ghosts>>
BY DEF Refuses, CommitRefused, Repeated, GoesStale, CommitFails, Ends, Goes

LEMMA StopsFrame ==
    ASSUME NEW j \in Jobs, Stops(j)
    PROVE  /\ at[j] \in {"ready", "draining"} /\ Goes(j) /\ at' = [at EXCEPT ![j] = "done"]
           /\ UNCHANGED <<store, pending, slot, base, request, client, tokens, ghosts>>
BY DEF Stops, LeavesEarly, Leaves, Goes, bounds

\* A job's end, with or without the release of the agent.
LEMMA GoesFrame ==
    ASSUME Typed, NEW j \in Jobs, Goes(j)
    PROVE  /\ at' = [at EXCEPT ![j] = "done"] /\ active' = active
           /\ released' = FALSE /\ own' = <<>> /\ closing' \in BOOLEAN /\ dropped' \subseteq Jobs
           /\ \/ resident' = resident /\ mem' = mem
              \/ resident' = FALSE /\ mem' = <<>>
BY DEF Goes, Typed, EngineTypes, InFlight, Holders

\* A released agent leaves the running job the transcript it had in hand.
LEMMA ReleaseFrame ==
    ASSUME Release
    PROVE  /\ resident' = FALSE /\ mem' = <<>> /\ active' = active /\ dropped' \subseteq Jobs
           /\ \/ InHand # {} /\ released' = TRUE /\ own' = Hand
              \/ InHand = {} /\ released' = released /\ own' = own
<1>1. resident' = FALSE /\ mem' = <<>> /\ active' = active /\ dropped' \subseteq Jobs
  BY DEF Release, InFlight, Holders
<1>2. CASE InHand # {} /\ ~released
  BY <1>1, <1>2 DEF Release, Hand
<1>3. CASE InHand # {} /\ released
  BY <1>1, <1>3 DEF Release, Hand
<1>4. CASE InHand = {}
  BY <1>1, <1>4 DEF Release
<1> QED
  BY <1>1, <1>2, <1>3, <1>4

\* The jobs that a moved session leaves are done with it, or go by its old id.
LEMMA MoveFrame ==
    ASSUME Typed, ResetMoves
    PROVE  /\ at' \in [Jobs -> Places]
           /\ \A j \in Jobs : /\ at'[j] \in {"new", "done", "adrift", "unheard", "overtaken"}
                              /\ at'[j] = "new" <=> at[j] = "new"
                              /\ at'[j] = "adrift" => at[j] = "adrift" \/ j \in Posts
<1>1. PICK found \in {{}} \cup {{p} : p \in {w \in Posts : at[w] = "waiting" /\ LockFree}} :
         at' = [j \in Jobs |-> Overtaken(j, found)]
  BY DEF ResetMoves
<1>2. \A j \in found : j \in Posts /\ at[j] = "waiting"
  BY <1>1
<1>3. ASSUME NEW j \in Jobs
      PROVE  /\ Overtaken(j, found) \in {"new", "done", "adrift", "unheard", "overtaken"}
             /\ Overtaken(j, found) = "new" <=> at[j] = "new"
             /\ Overtaken(j, found) = "adrift" => at[j] = "adrift" \/ j \in Posts
  <2>1. j \in Strays <=> at[j] \in {"adrift", "unheard", "overtaken"}
    BY DEF Strays
  <2>2. CASE j \in found
    BY <1>2, <2>1, <2>2 DEF Overtaken
  <2>3. CASE j \notin found /\ at[j] = "landed"
    BY <2>1, <2>3 DEF Overtaken
  <2>4. CASE j \notin found /\ at[j] \in {"persisted", "ready"}
    BY <2>1, <2>4 DEF Overtaken
  <2>5. CASE j \notin found /\ at[j] \in {"new", "adrift", "unheard", "overtaken"}
    BY <2>1, <2>5 DEF Overtaken
  <2>6. CASE j \notin found /\ at[j] \notin {"landed", "persisted", "ready", "new", "adrift", "unheard", "overtaken"}
    BY <2>1, <2>6 DEF Overtaken
  <2> QED
    BY <2>2, <2>3, <2>4, <2>5, <2>6
<1>4. \A j \in Jobs : at'[j] = Overtaken(j, found)
  BY <1>1
<1>5. at' \in [Jobs -> Places]
  BY <1>1, <1>3 DEF Places
<1> QED
  BY <1>3, <1>4, <1>5

\* An agent's transcript, resident or built.
LEMMA BootstrapTyped ==
    ASSUME Typed, Bootstrap
    PROVE  mem' \in Transcript /\ resident' = TRUE
<1>1. SubSeq(rows, 1, Len(rows) - StripLen(rows)) \in Transcript
  BY StripLenTyped, PrefixTyped DEF Typed, StoreTypes, EngineTypes, Transcript
<1> QED
  BY <1>1 DEF Bootstrap, Typed, StoreTypes

\* The transcript in hand is a transcript, and stays the other one's neighbour.
LEMMA HandFrame ==
    ASSUME Typed
    PROVE  /\ Hand \in Seq(Row)
           /\ \A t \in Transcript : Works(t) => mem' \in Transcript /\ own' \in Transcript
           /\ \A t : Works(t) /\ released' = released => Hand' = t
<1>1. mem \in Transcript /\ own \in Transcript
  BY DEF Typed, StoreTypes
<1>2. Hand \in Seq(Row)
  BY <1>1 DEF Hand, Transcript
<1>3. \A t \in Transcript : Works(t) => mem' \in Transcript /\ own' \in Transcript
  BY <1>1 DEF Works
<1>4. \A t : Works(t) /\ released' = released => Hand' = t
  BY DEF Works, Hand
<1> QED
  BY <1>2, <1>3, <1>4

\* The front of the queue.
LEMMA FrontTyped ==
    ASSUME Typed, pending # <<>>
    PROVE  Head(pending) \in Entry /\ Head(pending).text \in Texts /\ Head(pending).from \in Sources
<1>1. Head(pending) \in Entry
  BY TailTyped DEF Typed, EngineTypes
<1> QED
  BY <1>1 DEF Entry

\* What a turn's first step and its last make of the transcript in hand.
LEMMA GrownTyped ==
    ASSUME Typed, TurnInHand
    PROVE  /\ InTurn => Append(Hand, UserRow(Head(pending).text, NextUserSeq(Hand))) \in Transcript
           /\ Append(Hand, Reply(made + 1)) \in Transcript
           /\ Turning => Last(Hand) \in Row
<1>1. Hand \in Seq(Row) /\ made + 1 \in Nat
  BY HandFrame DEF Typed, HistoryTypes
<1>2. ASSUME InTurn PROVE Append(Hand, UserRow(Head(pending).text, NextUserSeq(Hand))) \in Transcript
  <2>1. UserRow(Head(pending).text, NextUserSeq(Hand)) \in Row
    BY <1>1, <1>2, FrontTyped, UserRowTyped DEF TurnInHand
  <2> QED
    BY <1>1, <2>1 DEF Transcript
<1>3. Append(Hand, Reply(made + 1)) \in Transcript
  BY <1>1, ReplyTyped DEF Transcript
<1>4. Turning => Last(Hand) \in Row
  BY <1>1, LastTyped DEF TurnInHand
<1> QED
  BY <1>2, <1>3, <1>4

\* What a step may do to the client's record and to the odd steps' budget.
LEMMA ClientSteps ==
    ASSUME ClientTypes
    PROVE  /\ Odd => odds' \in Nat
           /\ \A new \in Record : Records(new) => tab' \in {new, tab} /\ tab' \in Record /\ odds' \in Nat
           /\ NoTab \in Record /\ NoTab.token = 0
BY DEF ClientTypes, Odd, Records, NoTab, Record

\* No resource is a resource.
LEMMA NoRewindTyped == NoRewind \in Resource
<1>1. <<>> \in Transcript
  BY DEF Transcript
<1> QED
  BY <1>1 DEF NoRewind, Resource

\* appendUserMessageTail stores a transcript.
LEMMA StoresTailTyped ==
    ASSUME NEW t \in Texts, rows \in Transcript, StoresTail(t)
    PROVE  rows' \in Transcript
BY UserRowTyped DEF StoresTail, Transcript

\* Every step keeps the types of the stored rows, the resource, the resident
\* transcript and the live writer's slot.
LEMMA StoreTypesKeep ==
    ASSUME Typed, HoldsTokens, TurnInHand, KeptIsThere, Next
    PROVE  StoreTypes'
<1> USE DEF store, turn, agent, client, bounds, ghosts, Typed
<1>0. <<>> \in Transcript /\ Rewinds \subseteq Jobs
  BY DEF Transcript, Jobs
<1>1. ASSUME NEW i \in DOMAIN rows, Prepare(i) PROVE StoreTypes'
  <2>1. rows[i] \in Row
    BY <1>1 DEF StoreTypes, Transcript
  <2>2. rows[i].text \in Texts \cup {None} /\ rows[i].seq \in Nat
    BY <2>1 DEF Row
  <2>3. res' \in Resource
    BY <1>1, <2>2 DEF Prepare, Resource, StoreTypes, ClientTypes
  <2> QED
    BY <1>1, <2>3 DEF Prepare, StoreTypes
<1>2. CASE Expires
  BY <1>2 DEF Expires, StoreTypes, Resource
<1>3. CASE Cancel
  BY <1>3, NoRewindTyped DEF Cancel, StoreTypes
<1>4. ASSUME NEW r \in Rewinds, Send(r) \/ Hears(r) PROVE StoreTypes'
  BY <1>4 DEF Send, Hears, StoreTypes
<1>5. ASSUME NEW r \in Rewinds, CommitRefused(r) \/ Repeated(r) \/ CommitFails(r) \/ GoesStale(r) PROVE StoreTypes'
  <2>1. Goes(r) /\ UNCHANGED <<rows, gen, slot>>
    BY <1>5 DEF CommitRefused, Repeated, CommitFails, GoesStale, Ends
  <2>2. res' \in {res, [res EXCEPT !.status = "stale"]}
    BY <1>5 DEF CommitRefused, Repeated, CommitFails, GoesStale
  <2>3. mem' \in Transcript /\ own' \in Transcript
    BY <1>0, <2>1, GoesFrame DEF StoreTypes
  <2>4. res' \in Resource
    BY <2>2 DEF StoreTypes, Resource
  <2> QED
    BY <2>1, <2>3, <2>4 DEF StoreTypes
<1>6. ASSUME NEW r \in Rewinds, NEW i \in DOMAIN rows, Lands(r, i) PROVE StoreTypes'
  <2> DEFINE kept == SubSeq(rows, 1, i - 1)
             new == UserRow(carry[r].text, NextUserSeq(kept))
  <2>1. i - 1 \in 0..Len(rows) /\ rows \in Seq(Row)
    BY DEF StoreTypes, Transcript
  <2>2. kept \in Seq(Row)
    BY <2>1, PrefixTyped
  <2>3. carry[r].text \in Texts
    BY <1>6 DEF HoldsTokens, Lands
  <2>4. new \in Row
    BY <2>2, <2>3, UserRowTyped
  <2>5. rows' = Append(kept, new) /\ gen' = gen + 1 /\ res' = [res EXCEPT !.status = "committed"]
    BY <1>6 DEF Lands, NextGen, Committed
  <2> HIDE DEF kept, new
  <2>6. rows' \in Transcript
    BY <2>2, <2>4, <2>5 DEF Transcript
  <2>7. res' \in Resource
    BY <2>5 DEF StoreTypes, Resource
  <2>8. mem' = mem /\ own' = own /\ slot' = slot
    BY <1>6 DEF Lands
  <2> QED
    BY <2>5, <2>6, <2>7, <2>8 DEF StoreTypes
<1>7. ASSUME NEW r \in Rewinds, Adopts(r) PROVE StoreTypes'
  <2>1. base \in 0..Len(rows) /\ rows \in Seq(Row)
    BY <1>7 DEF Adopts, Landed, KeptIsThere, StoreTypes, EngineTypes, Transcript
  <2>2. SubSeq(rows, 1, base) \in Transcript
    BY <2>1, PrefixTyped DEF Transcript
  <2> QED
    BY <1>7, <2>2 DEF Adopts, StoreTypes
<1>8. ASSUME NEW p \in Posts, Post(p) \/ Pushes(p) PROVE StoreTypes'
  BY <1>8 DEF Post, Pushes, StoreTypes
<1>9. ASSUME NEW p \in Posts, Persists(p) \/ StrayPersists(p) PROVE StoreTypes'
  BY <1>9, StoresTailTyped, SomeTexts DEF Persists, StrayPersists, StoreTypes
<1>10. ASSUME NEW q \in Queued, Reserves(q) PROVE StoreTypes'
  BY <1>10 DEF Reserves, StoreTypes
<1>11. ASSUME NEW q \in Queued, Stores(q) PROVE StoreTypes'
  BY <1>11, StoresTailTyped, SomeTexts DEF Stores, StoreTypes
<1>12. CASE Drains
  BY <1>12 DEF Drains, StoreTypes
<1>13. ASSUME NEW j \in Jobs, LeavesEarly(j) \/ Leaves(j) PROVE StoreTypes'
  <2>1. Goes(j) /\ UNCHANGED <<rows, gen, res, slot>>
    BY <1>13 DEF LeavesEarly, Leaves
  <2> QED
    BY <1>0, <2>1, GoesFrame DEF StoreTypes
<1>14. ASSUME NEW j \in Jobs, Boots(j) \/ StrayBoots(j) PROVE StoreTypes'
  BY <1>14, BootstrapTyped DEF Boots, StrayBoots, StoreTypes
<1>15. ASSUME NEW grown \in Transcript, Works(grown), slot' = <<[rows |-> grown, gen |-> gen]>>,
              UNCHANGED <<rows, gen, res>>
       PROVE  StoreTypes'
  BY <1>15, HandFrame DEF StoreTypes, Snapshot
<1>16. ASSUME NEW j \in Jobs, Begins(j) \/ Replies(j) PROVE StoreTypes'
  <2>1. CASE Begins(j)
    BY <1>15, <2>1, GrownTyped DEF Begins, InTurn
  <2>2. CASE Replies(j)
    BY <1>15, <2>2, GrownTyped DEF Replies
  <2> QED
    BY <1>16, <2>1, <2>2
<1>17. ASSUME NEW j \in Jobs, Saves(j) PROVE StoreTypes'
  <2>1. Last(Hand) \in Row /\ Hand \in Seq(Row)
    BY <1>17, GrownTyped, HandFrame DEF Saves, Turning
  <2>2. rows' \in Transcript
    BY <1>17, <2>1 DEF Saves, StoreTypes, Transcript
  <2>3. Works(rows') /\ UNCHANGED <<gen, res, slot>>
    BY <1>17 DEF Saves
  <2>4. mem' \in Transcript /\ own' \in Transcript
    BY <2>2, <2>3, HandFrame
  <2> QED
    BY <2>2, <2>3, <2>4 DEF StoreTypes
<1>18. CASE Writes
  <2>1. slot[1].rows \in Transcript
    <3>1. slot[1] \in Snapshot
      BY <1>18, TailTyped DEF Writes, StoreTypes
    <3> QED
      BY <3>1 DEF Snapshot
  <2> QED
    BY <1>18, <2>1 DEF Writes, StoreTypes
<1>19. CASE ForeignAppends
  BY <1>19, StoresTailTyped, SomeTexts DEF ForeignAppends, StoreTypes
<1>20. CASE Releases \/ ResetReleases
  <2>1. UNCHANGED <<rows, gen, res, slot>> /\ (Release \/ UNCHANGED <<mem, own>>)
    BY <1>20 DEF Releases, ResetReleases
  <2>2. mem' \in Transcript /\ own' \in Transcript
    <3>1. Hand \in Transcript
      BY DEF Hand, StoreTypes
    <3> QED
      BY <1>0, <2>1, <3>1, ReleaseFrame DEF StoreTypes
  <2> QED
    BY <2>1, <2>2 DEF StoreTypes
<1>21. CASE ResetMoves
  <2>1. res' \in Resource
    BY <1>21 DEF ResetMoves, StoreTypes, Resource
  <2> QED
    BY <1>21, <2>1 DEF ResetMoves, StoreTypes, Transcript
<1>22. CASE Crash
  BY <1>22 DEF Crash, StoreTypes, Transcript
<1>23. CASE Closes \/ ResetFails \/ \E j \in Jobs : Picks(j) \/ Shifts(j) \/ Overlaps(j)
  BY <1>23 DEF Closes, ResetFails, Picks, Shifts, Overlaps, StoreTypes
<1> QED
  BY <1>1, <1>2, <1>3, <1>4, <1>5, <1>6, <1>7, <1>8, <1>9, <1>10, <1>11, <1>12, <1>13, <1>14,
     <1>16, <1>17, <1>18, <1>19, <1>20, <1>21, <1>22, <1>23 DEF Next, Commit, Turn, Reset

\* Every step keeps the types of the turn engine's variables.
LEMMA EngineTypesKeep ==
    ASSUME Typed, HoldsTokens, TurnInHand, Next
    PROVE  EngineTypes'
<1> USE DEF store, turn, agent, client, bounds, ghosts, Typed
<1>0. Rewinds \subseteq Jobs /\ Posts \subseteq Jobs /\ Drain \in Jobs
  BY DEF Jobs
<1>1. CASE (\E i \in DOMAIN rows : Prepare(i)) \/ Expires \/ Cancel \/ Writes \/ ForeignAppends
  BY <1>1 DEF Prepare, Expires, Cancel, Writes, ForeignAppends, Followed, EngineTypes
<1>2. ASSUME NEW r \in Rewinds, Send(r) \/ Hears(r) PROVE EngineTypes'
  BY <1>0, <1>2 DEF Send, Hears, Followed, EngineTypes, Places
<1>3. ASSUME NEW j \in Jobs, Goes(j), Followed, UNCHANGED <<pending, base, request, resetting>>
      PROVE  EngineTypes'
  BY <1>3, GoesFrame DEF Followed, EngineTypes, Places
<1>4. ASSUME NEW r \in Rewinds, NEW i \in DOMAIN rows, Lands(r, i) PROVE EngineTypes'
  <2>1. i - 1 \in Nat
    BY DEF StoreTypes, Transcript
  <2> QED
    BY <1>0, <1>4, <2>1 DEF Lands, Followed, EngineTypes, Places
<1>5. ASSUME NEW r \in Rewinds, Adopts(r) PROVE EngineTypes'
  <2>1. [text |-> carry[r].text, from |-> r] \in Entry
    BY <1>5 DEF Adopts, HoldsTokens, Entry, Sources
  <2>2. pending' \in Seq(Entry)
    BY <1>5, <2>1 DEF Adopts
  <2> QED
    BY <1>0, <1>5, <2>2 DEF Adopts, Followed, EngineTypes, Places
<1>6. ASSUME NEW p \in Posts, Post(p) \/ Persists(p) \/ StrayPersists(p) PROVE EngineTypes'
  BY <1>0, <1>6 DEF Post, Persists, StrayPersists, Followed, EngineTypes, Places
<1>7. ASSUME NEW p \in Posts, Pushes(p) PROVE EngineTypes'
  <2>1. [text |-> p, from |-> p] \in Entry
    BY SomeTexts DEF Entry, Sources
  <2>2. pending' \in Seq(Entry)
    BY <1>7, <2>1 DEF Pushes, EngineTypes
  <2> QED
    BY <1>0, <1>7, <2>2 DEF Pushes, Followed, EngineTypes, Places
<1>8. ASSUME NEW q \in Queued, Reserves(q) PROVE EngineTypes'
  <2>1. [text |-> q, from |-> q] \in Entry
    BY SomeTexts DEF Entry, Sources
  <2>2. pending' \in Seq(Entry)
    BY <1>8, <2>1 DEF Reserves, EngineTypes
  <2> QED
    BY <1>8, <2>2 DEF Reserves, Followed, EngineTypes
<1>9. ASSUME NEW q \in Queued, Stores(q) PROVE EngineTypes'
  BY <1>9 DEF Stores, Followed, EngineTypes
<1>10. CASE Drains
  BY <1>0, <1>10 DEF Drains, Followed, EngineTypes, Places
<1>11. ASSUME NEW j \in Jobs, Picks(j) \/ Replies(j) \/ Overlaps(j) PROVE EngineTypes'
  BY <1>11 DEF Picks, Replies, Overlaps, Followed, EngineTypes, Places
<1>12. ASSUME NEW j \in Jobs, Boots(j) \/ StrayBoots(j) PROVE EngineTypes'
  <2>1. resident' = TRUE /\ at' \in [Jobs -> Places]
    BY <1>12, BootstrapTyped DEF Boots, StrayBoots, EngineTypes, Places
  <2> QED
    BY <1>12, <2>1 DEF Boots, StrayBoots, Followed, EngineTypes
<1>13. ASSUME NEW j \in Jobs, Begins(j) PROVE EngineTypes'
  <2>1. base' = Len(Append(Hand, UserRow(Head(pending).text, NextUserSeq(Hand)))) /\ active' = TRUE
        /\ at' = [at EXCEPT ![j] = "turning"]
    BY <1>13 DEF Begins
  <2>2. base' \in Nat
    BY <2>1, HandFrame
  <2>3. Followed /\ UNCHANGED <<resident, closing, released, dropped, pending, request, resetting>>
    BY <1>13 DEF Begins
  <2>4. at' \in [Jobs -> Places]
    BY <2>1 DEF EngineTypes, Places
  <2> QED
    BY <2>1, <2>2, <2>3, <2>4 DEF Followed, EngineTypes
<1>14. ASSUME NEW j \in Jobs, Saves(j) PROVE EngineTypes'
  <2>1. closing' \in BOOLEAN /\ active' = FALSE /\ at' = [at EXCEPT ![j] = "shifting"]
    BY <1>14 DEF Saves, EngineTypes
  <2>2. Followed /\ UNCHANGED <<resident, released, dropped, pending, base, request, resetting>>
    BY <1>14 DEF Saves
  <2> QED
    BY <2>1, <2>2 DEF Followed, EngineTypes, Places
<1>15. ASSUME NEW j \in Jobs, Shifts(j) PROVE EngineTypes'
  <2>1. pending # <<>>
    BY <1>15 DEF Shifts, InTurn, TurnInHand
  <2>2. pending' \in Seq(Entry)
    BY <1>15, <2>1, TailTyped DEF Shifts, EngineTypes
  <2> QED
    BY <1>15, <2>2 DEF Shifts, Followed, EngineTypes, Places
<1>16. CASE Releases \/ ResetReleases
  <2>1. /\ Release \/ UNCHANGED <<resident, turn>>
        /\ resetting' \in BOOLEAN /\ Followed /\ UNCHANGED <<closing, pending, at, base, request>>
    BY <1>16 DEF Releases, ResetReleases, EngineTypes
  <2>2. resident' \in BOOLEAN /\ released' \in BOOLEAN /\ active' \in BOOLEAN /\ dropped' \subseteq Jobs
    BY <2>1, ReleaseFrame DEF EngineTypes
  <2> QED
    BY <2>1, <2>2 DEF Followed, EngineTypes
<1>17. CASE Closes \/ ResetFails
  BY <1>17 DEF Closes, ResetFails, Followed, EngineTypes
<1>18. CASE ResetMoves
  <2>1. at' \in [Jobs -> Places]
    BY <1>18, MoveFrame
  <2>2. resident' = FALSE /\ closing' = FALSE /\ released' = FALSE /\ dropped' = {} /\ resetting' = FALSE
        /\ Followed /\ UNCHANGED <<active, pending, base, request>>
    BY <1>18 DEF ResetMoves
  <2> QED
    BY <2>1, <2>2 DEF Followed, EngineTypes
<1>19. CASE Crash
  <2>1. resident' = FALSE /\ closing' = FALSE /\ pending' = <<>> /\ base' = 0
        /\ released' = FALSE /\ active' = FALSE /\ dropped' = {} /\ resetting' = FALSE /\ Followed
    BY <1>19 DEF Crash
  <2>2. at' \in [Jobs -> Places]
    BY <1>19 DEF Crash, Places
  <2>3. request' \in [Queued -> {"new", "reserved", "stored"}]
    BY <1>19 DEF Crash
  <2>4. <<>> \in Seq(Entry) /\ 0 \in Nat
    OBVIOUS
  <2> QED
    BY <2>1, <2>2, <2>3, <2>4 DEF Followed, EngineTypes
<1> QED
  <2>1. CASE \E r \in Rewinds : CommitRefused(r) \/ Repeated(r) \/ CommitFails(r) \/ GoesStale(r)
    BY <1>0, <1>3, <2>1 DEF CommitRefused, Repeated, CommitFails, GoesStale, Ends
  <2>2. CASE \E j \in Jobs : LeavesEarly(j) \/ Leaves(j)
    BY <1>3, <2>2 DEF LeavesEarly, Leaves
  <2> QED
    BY <1>1, <1>2, <1>4, <1>5, <1>6, <1>7, <1>8, <1>9, <1>10, <1>11, <1>12, <1>13, <1>14,
       <1>15, <1>16, <1>17, <1>18, <1>19, <2>1, <2>2 DEF Next, Commit, Turn, Reset

\* The client's steps; every other step leaves its tokens alone.
LEMMA ClientTypesKeep ==
    ASSUME Typed, HoldsTokens, Next
    PROVE  ClientTypes' /\ HoldsTokens'
<1> USE DEF store, turn, agent, client, bounds, ghosts, Typed
<1>0. Rewinds \subseteq Jobs /\ (\A p \in Posts : p \notin Rewinds) /\ at \in [Jobs -> Places]
  BY TextsAssumption DEF Jobs, EngineTypes
<1>1. ASSUME NEW i \in DOMAIN rows, Prepare(i) PROVE ClientTypes' /\ HoldsTokens'
  <2> DEFINE new == [token |-> tokens', text |-> rows[i].text]
  <2>1. rows[i].text \in Texts
    BY <1>1 DEF Prepare, Resolves, StoreTypes, Transcript, Row
  <2>2. tokens' = tokens + 1 /\ new \in Record
    BY <1>1, <2>1 DEF Prepare, ClientTypes, Record
  <2>3. tab' \in {new, tab} /\ tab' \in Record /\ odds' \in Nat
    BY <1>1, <2>2, ClientSteps DEF Prepare
  <2>4. carry' = carry /\ at' = at
    BY <1>1 DEF Prepare
  <2>5. ClientTypes'
    BY <2>2, <2>3, <2>4 DEF ClientTypes
  <2>6. tab' # NoTab => tab'.token \in 1..tokens' /\ tab'.text \in Texts
    BY <2>1, <2>2, <2>3 DEF HoldsTokens, ClientTypes
  <2> QED
    BY <2>2, <2>4, <2>5, <2>6 DEF HoldsTokens, ClientTypes
<1>2. CASE Expires
  BY <1>2 DEF Expires, Odd, ClientTypes, HoldsTokens
<1>3. CASE Cancel
  BY <1>3, ClientSteps DEF Cancel, ClientTypes, HoldsTokens
<1>4. ASSUME NEW r \in Rewinds, Send(r) PROVE ClientTypes' /\ HoldsTokens'
  <2>1. r \in Texts /\ tab \in Record
    BY SomeTexts DEF ClientTypes
  <2>2. PICK new \in {tab, [tab EXCEPT !.text = r]} : carry' = [carry EXCEPT ![r] = new]
    BY <1>4 DEF Send
  <2>3. tab.token \in 1..tokens /\ tab.text \in Texts
    BY <1>4 DEF Send, HoldsTokens
  <2>4. new \in Record /\ new.token = tab.token /\ new.text \in Texts
    BY <2>1, <2>2, <2>3 DEF Record
  <2>5. odds' \in Nat
    BY <1>4, ClientSteps DEF Send, ClientTypes
  <2>6. ClientTypes'
    BY <1>4, <2>2, <2>4, <2>5 DEF Send, ClientTypes
  <2>7. \A x \in Rewinds : x # r => at'[x] = at[x] /\ carry'[x] = carry[x]
    BY <1>0, <1>4, <2>2 DEF Send, EngineTypes, ClientTypes
  <2>8. carry'[r].token \in 1..tokens /\ carry'[r].text \in Texts
    BY <2>2, <2>3, <2>4 DEF ClientTypes
  <2> QED
    BY <1>4, <2>6, <2>7, <2>8 DEF Send, HoldsTokens
<1>5. ASSUME tab' \in {NoTab, tab}, odds' \in Nat, carry' = carry, tokens' = tokens,
             \A x \in Rewinds : at'[x] # "new" => at[x] # "new"
      PROVE  ClientTypes' /\ HoldsTokens'
  BY <1>5, ClientSteps DEF ClientTypes, HoldsTokens
<1>6. ASSUME NEW r \in Rewinds, Refuses(r) \/ Adopts(r) \/ Hears(r) PROVE ClientTypes' /\ HoldsTokens'
  <2>1. carry' = carry /\ tokens' = tokens /\ \E to \in {"done", "ready", "overtaken"} : at' = [at EXCEPT ![r] = to]
    BY <1>6, RefusesFrame DEF Adopts, Hears
  <2>2. tab' \in {NoTab, tab} /\ odds' \in Nat
    <3>1. Records(NoTab) \/ (tab' = tab /\ Odd)
      BY <1>6 DEF Refuses, CommitRefused, Repeated, GoesStale, CommitFails, Adopts, Hears
    <3> QED
      BY <3>1, ClientSteps DEF ClientTypes
  <2>3. \A x \in Rewinds : at'[x] # "new" => at[x] # "new"
    <3>1. at[r] # "new"
      BY <1>6, RefusesFrame DEF Adopts, Hears
    <3> QED
      BY <1>0, <2>1, <3>1
  <2> QED
    BY <1>5, <2>1, <2>2, <2>3
<1>7. CASE Closes \/ ResetFails \/ ResetReleases \/ Releases \/ ForeignAppends \/ Writes \/ \E q \in Queued : Stores(q) \/ Reserves(q)
  <2>1. client' = client /\ tokens' = tokens /\ at' = at
    BY <1>7 DEF Closes, ResetFails, ResetReleases, Releases, ForeignAppends, Writes, Stores, Reserves
  <2>2. Odd \/ odds' = odds
    BY <1>7 DEF Closes, ResetFails, ResetReleases, Releases, ForeignAppends, Writes, Stores, Reserves
  <2>3. odds' \in Nat
    BY <2>2, ClientSteps DEF ClientTypes
  <2> QED
    BY <1>5, <2>1, <2>3
<1>8. CASE (\E r \in Rewinds : \E i \in DOMAIN rows : Lands(r, i))
             \/ \E p \in Posts : Post(p) \/ Persists(p) \/ Pushes(p) \/ StrayPersists(p)
  <2>1. client' = client /\ bounds' = bounds
    BY <1>8 DEF Lands, Post, Persists, Pushes, StrayPersists
  <2>2. \A x \in Rewinds : at'[x] # "new" => at[x] # "new"
    BY <1>0, <1>8 DEF Lands, Post, Persists, Pushes, StrayPersists
  <2> QED
    BY <1>5, <2>1, <2>2 DEF ClientTypes
<1>9. ASSUME NEW j \in Jobs, Turn(j) \/ LeavesEarly(j) \/ StrayBoots(j) \/ Overlaps(j) PROVE ClientTypes' /\ HoldsTokens'
  <2>1. CASE Stops(j)
    <3>1. client' = client /\ tokens' = tokens /\ at[j] # "new" /\ at' = [at EXCEPT ![j] = "done"]
      BY <2>1, StopsFrame
    <3>2. Odd \/ odds' = odds
      BY <2>1 DEF Stops, LeavesEarly, Leaves
    <3>3. odds' \in Nat
      BY <3>2, ClientSteps DEF ClientTypes
    <3> QED
      BY <1>0, <1>5, <3>1, <3>3
  <2>2. CASE Boots(j) \/ Picks(j) \/ Begins(j) \/ Replies(j) \/ Saves(j) \/ Shifts(j) \/ StrayBoots(j) \/ Overlaps(j)
    <3>1. client' = client /\ bounds' = bounds
      BY <2>2 DEF Boots, Picks, Begins, Replies, Saves, Shifts, StrayBoots, Overlaps
    <3>2. at' = at \/ (at[j] # "new" /\ \E to \in Places : at' = [at EXCEPT ![j] = to])
      BY <2>2 DEF Boots, Picks, Begins, Replies, Saves, Shifts, StrayBoots, Overlaps, Places
    <3> QED
      BY <1>0, <1>5, <3>1, <3>2 DEF ClientTypes
  <2> QED
    BY <1>9, <2>1, <2>2 DEF Turn, Stops
<1>10. CASE Drains
  <2>1. Drain \notin Rewinds
    BY TextsAssumption, SomeTexts
  <2> QED
    BY <1>0, <1>5, <1>10, <2>1 DEF Drains, ClientTypes
<1>11. CASE ResetMoves
  <2>1. carry' = carry /\ tokens' = tokens /\ (Records(NoTab) \/ UNCHANGED <<tab, odds>>)
    BY <1>11 DEF ResetMoves
  <2>2. tab' \in {NoTab, tab} /\ odds' \in Nat
    BY <2>1, ClientSteps DEF ClientTypes
  <2> QED
    BY <1>0, <1>5, <1>11, <2>1, <2>2, MoveFrame
<1>12. CASE Crash
  <2>1. client' = client /\ tokens' = tokens /\ Odd
    BY <1>12 DEF Crash
  <2>2. \A x \in Rewinds : at'[x] # "new" => at[x] # "new"
    BY <1>0, <1>12 DEF Crash
  <2> QED
    BY <1>5, <2>1, <2>2, ClientSteps
<1> QED
  BY <1>1, <1>2, <1>3, <1>4, <1>6, <1>7, <1>8, <1>9, <1>10, <1>11, <1>12 DEF Next, Commit, Reset, Refuses

\* What one commit cuts, and the sends it cuts off.
LEMMA CutTyped ==
    ASSUME rows \in Seq(Row), pending \in Seq(Entry), NEW i \in DOMAIN rows
    PROVE  LET cut == {rows[k] : k \in i .. Len(rows)}
           IN  /\ cut \subseteq Row
               /\ {e.from : e \in {x \in Range(pending) : \E row \in cut : row.text = x.text}} \subseteq Sources
               /\ {e.from : e \in Range(pending)} \subseteq Sources
<1>1. \A k \in i .. Len(rows) : rows[k] \in Row
  OBVIOUS
<1> QED
  BY <1>1, FromTyped

\* Every step keeps the types of the history variables.
LEMMA HistoryTypesKeep ==
    ASSUME Typed, HoldsTokens, Next
    PROVE  HistoryTypes'
<1> USE DEF store, turn, agent, client, bounds, ghosts, Typed
<1>1. CASE UNCHANGED <<made, gone, dead, commits, begun, blind, moved, lost, left>>
  BY <1>1 DEF HistoryTypes
<1>2. ASSUME NEW r \in Rewinds, NEW i \in DOMAIN rows, Lands(r, i) PROVE HistoryTypes'
  <2> DEFINE cut == {rows[k] : k \in i .. Len(rows)}
  <2>1. gone' = gone \cup {row \in cut : row.by = "agent"}
    BY <1>2 DEF Lands
  <2>2. dead' = dead \cup {e.from : e \in {x \in Range(pending) : \E row \in cut : row.text = x.text}}
    BY <1>2 DEF Lands
  <2>3. gone' \subseteq Row /\ dead' \subseteq Sources
    BY <2>1, <2>2, CutTyped DEF HistoryTypes, StoreTypes, EngineTypes, Transcript
  <2>4. commits' = Append(commits, r) /\ blind' \in {blind, blind \cup {res.token}} /\ res.token \in Nat
        /\ made' = made /\ begun' = begun /\ moved' = moved /\ lost' = lost /\ left' = left
    BY <1>2 DEF Lands, StoreTypes, Resource
  <2> HIDE DEF cut
  <2> QED
    BY <2>3, <2>4 DEF HistoryTypes
<1>3. ASSUME NEW r \in Rewinds, Adopts(r) PROVE HistoryTypes'
  <2>1. {e.from : e \in Range(pending)} \subseteq Sources
    BY FromTyped DEF EngineTypes
  <2> QED
    BY <1>3, <2>1 DEF Adopts, HistoryTypes
<1>4. ASSUME NEW j \in Jobs, Picks(j) PROVE HistoryTypes'
  <2>1. Head(pending).from \in Sources
    BY <1>4, FrontTyped DEF Picks
  <2> QED
    BY <1>4, <2>1 DEF Picks, HistoryTypes
<1>5. ASSUME NEW j \in Jobs, Replies(j) PROVE HistoryTypes'
  BY <1>5 DEF Replies, HistoryTypes
<1>6. CASE ResetMoves
  <2>1. moved' \in {moved, moved \cup {res.token}} /\ res.token \in Nat
    BY <1>6 DEF ResetMoves, StoreTypes, Resource
  <2>2. {e.from : e \in Range(pending)} \subseteq Sources
    BY FromTyped DEF EngineTypes
  <2>3. lost' \subseteq Sources /\ left' \subseteq Sources
    BY <1>6, <2>2 DEF ResetMoves, HistoryTypes, Sources
  <2>4. UNCHANGED <<made, gone, dead, commits, begun, blind>>
    BY <1>6 DEF ResetMoves
  <2> QED
    BY <2>1, <2>3, <2>4 DEF HistoryTypes
<1>7. CASE Crash
  <2>1. {e.from : e \in Range(pending)} \subseteq Sources
    BY FromTyped DEF EngineTypes
  <2>2. lost' \subseteq Sources
    BY <1>7, <2>1 DEF Crash, HistoryTypes, Sources
  <2> QED
    BY <1>7, <2>2 DEF Crash, HistoryTypes
<1> QED
  <2>1. CASE Aside
    BY <1>1, <2>1, AsideFrame
  <2>2. CASE \E r \in Rewinds : Send(r) \/ Hears(r) \/ Refuses(r)
    BY <1>1, <2>2, RefusesFrame DEF Send, Hears
  <2>3. CASE (\E p \in Posts : Post(p) \/ Persists(p) \/ Pushes(p) \/ StrayPersists(p)) \/ (\E q \in Queued : Reserves(q))
    BY <1>1, <2>3 DEF Post, Persists, Pushes, StrayPersists, Reserves
  <2>4. CASE \E j \in Jobs : Boots(j) \/ Begins(j) \/ Saves(j) \/ Shifts(j) \/ Stops(j) \/ StrayBoots(j)
    BY <1>1, <2>4, StopsFrame DEF Boots, Begins, Saves, Shifts, StrayBoots
  <2>5. CASE Drains
    BY <1>1, <2>5 DEF Drains
  <2> QED
    BY <1>2, <1>3, <1>4, <1>5, <1>6, <1>7, <2>1, <2>2, <2>3, <2>4, <2>5, NextCases

\* The places of a job that has not the turn lock.
Outside == {"new", "waiting", "done", "adrift", "unheard", "overtaken"}

\* The jobs past the turn lock, now and after a step.
LEMMA HoldersAre ==
    /\ Holders = {j \in Jobs : at[j] \notin Outside}
    /\ Holders' = {j \in Jobs : at'[j] \notin Outside}
BY DEF Holders, Strays, Outside

\* Beside the holder of the turn lock nobody is past it.
LEMMA OthersWait ==
    ASSUME OneHolds, NEW j \in Jobs, at[j] \notin Outside
    PROVE  \A k \in Jobs : k # j => at[k] \in Outside
BY HoldersAre DEF OneHolds

\* While the turn lock is free there is no turn and no commit to adopt.
LEMMA NobodyHolds ==
    ASSUME LockFree
    PROVE  ~InTurn /\ ~Turning /\ ~Landed /\ InHand = {} /\ \A j \in Jobs : at[j] \in Outside
BY HoldersAre DEF LockFree, InTurn, Turning, Landed, InHand, Jobs, Outside

\* A job that holds the lock alone, in a turn or not, when it takes its step.
LEMMA AloneHolds ==
    ASSUME Typed, OneHolds, NEW j \in Jobs, at[j] \notin Outside,
           NEW to \in Places, at' = [at EXCEPT ![j] = to]
    PROVE  /\ InTurn <=> at[j] \in {"picked", "turning", "saving", "shifting"}
           /\ Turning <=> at[j] \in {"turning", "saving"}
           /\ Landed <=> at[j] = "landed" /\ j \in Rewinds
           /\ InTurn' <=> to \in {"picked", "turning", "saving", "shifting"}
           /\ Turning' <=> to \in {"turning", "saving"}
           /\ Landed' <=> to = "landed" /\ j \in Rewinds
           /\ InHand # {} <=> at[j] \in {"draining", "picked", "turning", "saving", "shifting"}
           /\ InHand' # {} <=> to \in {"draining", "picked", "turning", "saving", "shifting"}
<1>1. \A k \in Jobs : k # j => at[k] \in Outside /\ at'[k] = at[k]
  BY OthersWait DEF Typed, EngineTypes
<1>2. at'[j] = to /\ Rewinds \subseteq Jobs
  BY DEF Typed, EngineTypes, Jobs
<1>3. \A k \in Jobs : k # j => at[k] \notin {"landed", "draining", "picked", "turning", "saving", "shifting"}
  BY <1>1 DEF Outside
<1>4. /\ InTurn <=> at[j] \in {"picked", "turning", "saving", "shifting"}
      /\ InTurn' <=> to \in {"picked", "turning", "saving", "shifting"}
  BY <1>1, <1>2, <1>3 DEF InTurn
<1>5. /\ Turning <=> at[j] \in {"turning", "saving"}
      /\ Turning' <=> to \in {"turning", "saving"}
  BY <1>1, <1>2, <1>3 DEF Turning
<1>6. /\ Landed <=> at[j] = "landed" /\ j \in Rewinds
      /\ Landed' <=> to = "landed" /\ j \in Rewinds
  BY <1>1, <1>2, <1>3 DEF Landed
<1>7. /\ InHand # {} <=> at[j] \in {"draining", "picked", "turning", "saving", "shifting"}
      /\ InHand' # {} <=> to \in {"draining", "picked", "turning", "saving", "shifting"}
  BY <1>1, <1>2, <1>3 DEF InHand
<1> QED
  BY <1>4, <1>5, <1>6, <1>7

\* A job that goes from one place outside the lock to another.
LEMMA OutsideMoves ==
    ASSUME Typed, NEW j \in Jobs, at[j] \in Outside, NEW to \in Outside, at' = [at EXCEPT ![j] = to]
    PROVE  /\ InTurn <=> InTurn'
           /\ Turning <=> Turning'
           /\ Landed <=> Landed'
           /\ InHand = InHand' /\ Holders = Holders'
<1>1. \A k \in Jobs : at'[k] = at[k] \/ (at[k] \in Outside /\ at'[k] \in Outside)
  BY DEF Typed, EngineTypes
<1>2. Rewinds \subseteq Jobs
  BY DEF Jobs
<1>3. (InTurn <=> InTurn') /\ (Turning <=> Turning')
  BY <1>1 DEF InTurn, Turning, Outside
<1>4. Landed <=> Landed'
  BY <1>1, <1>2 DEF Landed, Outside
<1>5. InHand = InHand' /\ Holders = Holders'
  BY <1>1, HoldersAre DEF InHand, Outside
<1> QED
  BY <1>3, <1>4, <1>5

\* A job that finds the lock free and takes it.
LEMMA TakesLock ==
    ASSUME Typed, LockFree, NEW j \in Jobs, NEW to \in Places, at' = [at EXCEPT ![j] = to],
           to \in {"landed", "persisted", "ready"}
    PROVE  /\ Holders' \subseteq {j} /\ ~InTurn' /\ ~Turning' /\ InHand' = {}
           /\ to # "landed" => ~Landed'
<1>1. \A k \in Jobs : at'[k] \in Outside \cup {to} /\ (k # j => at'[k] \in Outside)
  BY NobodyHolds DEF Typed, EngineTypes
<1>2. Rewinds \subseteq Jobs
  BY DEF Jobs
<1> QED
  BY <1>1, <1>2, HoldersAre DEF InTurn, Turning, Landed, InHand, Outside

\* Nobody has the lock once the session has moved, or the server is started again.
LEMMA AfterMove ==
    ASSUME Typed, ResetMoves \/ Crash
    PROVE  /\ \A j \in Jobs : at'[j] \in Outside /\ (at'[j] = "new" <=> at[j] = "new")
           /\ Holders' = {} /\ ~InTurn' /\ ~Turning' /\ ~Landed' /\ InHand' = {}
<1>1. \A j \in Jobs : at'[j] \in Outside /\ (at'[j] = "new" <=> at[j] = "new")
  BY MoveFrame DEF Crash, Outside
<1>2. Rewinds \subseteq Jobs
  BY DEF Jobs
<1> QED
  BY <1>1, <1>2, HoldersAre DEF InTurn, Turning, Landed, InHand, Outside

\* How each step moves a job.
LEMMA JobSteps ==
    ASSUME Typed, Next
    PROVE  \/ Aside /\ at' = at
           \/ (\E q \in Queued : Reserves(q)) /\ at' = at
           \/ \E j \in Jobs, to \in Outside : at[j] \in Outside /\ at' = [at EXCEPT ![j] = to]
                /\ \/ j \in Rewinds /\ (Send(j) \/ Hears(j) \/ Refuses(j))
                   \/ j \in Posts /\ (Post(j) \/ StrayPersists(j))
                   \/ StrayBoots(j)
           \/ \E j \in Jobs, to \in {"landed", "persisted", "ready"} :
                LockFree /\ at' = [at EXCEPT ![j] = to]
                /\ \/ j \in Rewinds /\ to = "landed" /\ \E i \in DOMAIN rows : Lands(j, i)
                   \/ j \in Posts /\ to = "persisted" /\ Persists(j)
                   \/ j = Drain /\ to = "ready" /\ Drains
           \/ \E j \in Jobs, to \in Places \ {"landed"} : at[j] \notin Outside /\ at' = [at EXCEPT ![j] = to]
                /\ \/ j \in Rewinds /\ Adopts(j)
                   \/ j \in Posts /\ Pushes(j)
                   \/ Boots(j) \/ Picks(j) \/ Begins(j) \/ Replies(j) \/ Saves(j) \/ Shifts(j) \/ Stops(j)
           \/ ResetMoves \/ Crash
<1>0. Rewinds \subseteq Jobs /\ Posts \subseteq Jobs /\ Drain \in Jobs
  BY DEF Jobs
<1>1. CASE Aside
  BY <1>1, AsideFrame
<1>2. CASE \E q \in Queued : Reserves(q)
  BY <1>2 DEF Reserves
<1>3. ASSUME NEW r \in Rewinds, Send(r) \/ Hears(r) \/ Refuses(r)
      PROVE  \E to \in Outside : at[r] \in Outside /\ at' = [at EXCEPT ![r] = to]
  BY <1>3, RefusesFrame DEF Send, Hears, Outside
<1>4. ASSUME NEW p \in Posts, Post(p) \/ StrayPersists(p)
      PROVE  \E to \in Outside : at[p] \in Outside /\ at' = [at EXCEPT ![p] = to]
  BY <1>4 DEF Post, StrayPersists, Outside
<1>5. ASSUME NEW j \in Jobs, StrayBoots(j)
      PROVE  \E to \in Outside : at[j] \in Outside /\ at' = [at EXCEPT ![j] = to]
  BY <1>5 DEF StrayBoots, Outside
<1>6. ASSUME NEW r \in Rewinds, NEW i \in DOMAIN rows, Lands(r, i)
      PROVE  LockFree /\ at' = [at EXCEPT ![r] = "landed"]
  BY <1>6 DEF Lands
<1>7. ASSUME NEW p \in Posts, Persists(p)
      PROVE  LockFree /\ at' = [at EXCEPT ![p] = "persisted"]
  BY <1>7 DEF Persists
<1>8. ASSUME Drains PROVE LockFree /\ at' = [at EXCEPT ![Drain] = "ready"]
  <2>1. at' = [at EXCEPT ![Drain] = "ready"] /\ \A j \in Jobs \ Strays : at[j] \in {"new", "done"}
    BY <1>8 DEF Drains
  <2> QED
    BY <2>1 DEF LockFree, Holders
<1>9. ASSUME NEW r \in Rewinds, Adopts(r)
      PROVE  at[r] \notin Outside /\ at' = [at EXCEPT ![r] = "ready"]
  BY <1>9 DEF Adopts, Outside
<1>10. ASSUME NEW p \in Posts, Pushes(p)
       PROVE  at[p] \notin Outside /\ at' = [at EXCEPT ![p] = "ready"]
  BY <1>10 DEF Pushes, Outside
<1>11. ASSUME NEW j \in Jobs, Boots(j) \/ Picks(j) \/ Begins(j) \/ Replies(j) \/ Saves(j) \/ Shifts(j) \/ Stops(j)
       PROVE  \E to \in Places \ {"landed"} : at[j] \notin Outside /\ at' = [at EXCEPT ![j] = to]
  <2>1. \E to \in {"draining", "picked", "turning", "saving", "shifting", "done"} : at' = [at EXCEPT ![j] = to]
    BY <1>11, StopsFrame DEF Boots, Picks, Begins, Replies, Saves, Shifts
  <2>2. at[j] \in {"ready", "draining", "picked", "turning", "saving", "shifting"}
    BY <1>11, StopsFrame DEF Boots, Picks, Begins, Replies, Saves, Shifts
  <2> QED
    BY <2>1, <2>2 DEF Outside, Places
<1>12. "ready" \in Places \ {"landed"}
  BY DEF Places
<1>13. CASE \E r \in Rewinds : Send(r) \/ Hears(r) \/ Refuses(r)
  BY <1>0, <1>3, <1>13
<1>14. CASE \E p \in Posts : Post(p) \/ StrayPersists(p)
  BY <1>0, <1>4, <1>14
<1>15. CASE \E j \in Jobs : StrayBoots(j)
  BY <1>5, <1>15
<1>16. CASE \E r \in Rewinds : \E i \in DOMAIN rows : Lands(r, i)
  BY <1>0, <1>6, <1>16
<1>17. CASE \E p \in Posts : Persists(p)
  BY <1>0, <1>7, <1>17
<1>18. CASE Drains
  BY <1>0, <1>8, <1>18
<1>19. CASE \E r \in Rewinds : Adopts(r)
  BY <1>0, <1>9, <1>12, <1>19
<1>20. CASE \E p \in Posts : Pushes(p)
  BY <1>0, <1>10, <1>12, <1>20
<1>21. CASE \E j \in Jobs : Boots(j) \/ Picks(j) \/ Begins(j) \/ Replies(j) \/ Saves(j) \/ Shifts(j) \/ Stops(j)
  BY <1>11, <1>21
<1> QED
  BY <1>1, <1>2, <1>13, <1>14, <1>15, <1>16, <1>17, <1>18, <1>19, <1>20, <1>21, NextCases

\* Every step leaves at most one job with the turn lock.
LEMMA OneHoldsKeep ==
    ASSUME Typed, OneHolds, Next
    PROVE  OneHolds'
<1>1. ASSUME Holders' \subseteq Holders \/ \E j \in Jobs : Holders' \subseteq {j} PROVE OneHolds'
  BY <1>1 DEF OneHolds
<1>2. CASE at' = at
  BY <1>1, <1>2, HoldersAre
<1>3. ASSUME NEW j \in Jobs, NEW to \in Places, at[j] \notin Outside, at' = [at EXCEPT ![j] = to] PROVE OneHolds'
  BY <1>1, <1>3, HoldersAre DEF Typed, EngineTypes
<1> QED
  BY <1>1, <1>2, <1>3, JobSteps, OutsideMoves, TakesLock, AfterMove DEF Outside, Places

\* Every step leaves the rows that a commit kept until it is adopted.
LEMMA KeptKeeps ==
    ASSUME Typed, OneHolds, KeptIsThere, Next
    PROVE  KeptIsThere'
<1> USE DEF store, turn, agent, client, bounds, ghosts
<1>0. rows \in Seq(Row) /\ base \in Nat
  BY DEF Typed, EngineTypes, StoreTypes, Transcript
<1>1. ASSUME Landed' => Landed, base' = base, Len(rows') >= Len(rows) PROVE KeptIsThere'
  <2> SUFFICES ASSUME Landed' PROVE base' <= Len(rows')
    BY DEF KeptIsThere
  <2> QED
    BY <1>0, <1>1 DEF KeptIsThere
<1>2. ASSUME ~Landed' PROVE KeptIsThere'
  BY <1>2 DEF KeptIsThere
<1>3. CASE (Aside \/ \E q \in Queued : Reserves(q)) /\ at' = at
  <2>1. Landed' => Landed
    BY <1>3 DEF Landed
  <2>2. base' = base
    BY <1>3, AsideFrame DEF Reserves
  <2>3. Len(rows') >= Len(rows)
    <3>1. CASE Writes
      BY <1>0, <3>1 DEF Writes, IsPrefix
    <3>2. CASE ForeignAppends \/ \E q \in Queued : Stores(q)
      BY <1>0, <3>2 DEF ForeignAppends, Stores, StoresTail
    <3>3. CASE rows' = rows
      BY <1>0, <3>3
    <3> QED
      BY <1>3, <3>1, <3>2, <3>3 DEF Aside, Prepare, Expires, Cancel, Releases, Closes, ResetReleases, ResetFails, Overlaps, Reserves
  <2> QED
    BY <1>1, <2>1, <2>2, <2>3
<1>4. ASSUME NEW j \in Jobs, NEW to \in Outside, at[j] \in Outside, at' = [at EXCEPT ![j] = to],
             \/ j \in Rewinds /\ (Send(j) \/ Hears(j) \/ Refuses(j))
             \/ j \in Posts /\ (Post(j) \/ StrayPersists(j))
             \/ StrayBoots(j)
      PROVE  KeptIsThere'
  <2>1. base' = base /\ (rows' = rows \/ StoresTail(j))
    BY <1>4, RefusesFrame DEF Send, Hears, Post, StrayPersists, StrayBoots
  <2>2. Len(rows') >= Len(rows)
    BY <1>0, <2>1 DEF StoresTail
  <2> QED
    BY <1>1, <1>4, <2>1, <2>2, OutsideMoves
<1>5. ASSUME NEW r \in Rewinds, NEW i \in DOMAIN rows, Lands(r, i) PROVE KeptIsThere'
  <2> DEFINE kept == SubSeq(rows, 1, i - 1)
             new == UserRow(carry[r].text, NextUserSeq(kept))
  <2>1. i - 1 \in 0..Len(rows)
    BY <1>0
  <2>2. kept \in Seq(Row) /\ Len(kept) = i - 1
    BY <1>0, <2>1, PrefixTyped
  <2>3. rows' = Append(kept, new) /\ base' = i - 1
    BY <1>5 DEF Lands
  <2> HIDE DEF kept, new
  <2>4. Len(rows') = i
    BY <2>2, <2>3, <1>0
  <2> QED
    BY <2>1, <2>3, <2>4, <1>0 DEF KeptIsThere
<1>6. ASSUME NEW j \in Jobs, NEW to \in {"persisted", "ready"}, LockFree, at' = [at EXCEPT ![j] = to] PROVE KeptIsThere'
  <2>1. to \in Places
    BY DEF Places
  <2> QED
    BY <1>2, <1>6, <2>1, TakesLock
<1>7. ASSUME NEW j \in Jobs, NEW to \in Places \ {"landed"}, at[j] \notin Outside, at' = [at EXCEPT ![j] = to]
      PROVE  KeptIsThere'
  BY <1>2, <1>7, AloneHolds
<1> QED
  BY <1>2, <1>3, <1>4, <1>5, <1>6, <1>7, JobSteps, AfterMove

\* Every step leaves a running turn its message and its rows.
LEMMA TurnKeeps ==
    ASSUME Typed, OneHolds, TurnInHand, AgentIsThere, Next
    PROVE  TurnInHand'
<1> USE DEF store, turn, agent, client, bounds, ghosts
<1>0. pending \in Seq(Entry) /\ begun \in Seq(Sources) /\ Hand \in Seq(Row)
  BY HandFrame DEF Typed, EngineTypes, HistoryTypes
<1>1. ASSUME ~InTurn', ~Turning' PROVE TurnInHand'
  BY <1>1 DEF TurnInHand
<1>2. ASSUME InTurn' => InTurn, Turning' => Turning, begun' = begun,
             pending # <<>> => pending' # <<>> /\ Head(pending') = Head(pending),
             Turning' => Hand' = Hand
      PROVE  TurnInHand'
  BY <1>2 DEF TurnInHand
<1>3. ASSUME Aside, at' = at PROVE TurnInHand'
  <2>1. (InTurn' => InTurn) /\ (Turning' => Turning) /\ (Turning => InHand # {})
    BY <1>3 DEF InTurn, Turning, InHand
  <2>2. InHand # {} => Hand' = Hand
    <3>1. CASE Release
      BY <3>1, ReleaseFrame DEF Hand
    <3>2. CASE UNCHANGED <<mem, own, released>>
      BY <3>2 DEF Hand
    <3> QED
      BY <1>3, <3>1, <3>2 DEF Aside, Prepare, Expires, Cancel, Writes, ForeignAppends, Releases, Closes,
                              ResetReleases, ResetFails, Overlaps, Stores
  <2> QED
    BY <1>2, <1>3, <2>1, <2>2, AsideFrame
<1>4. ASSUME NEW q \in Queued, Reserves(q) PROVE TurnInHand'
  <2>1. (InTurn' => InTurn) /\ (Turning' => Turning)
    BY <1>4 DEF Reserves, InTurn, Turning
  <2>2. pending # <<>> => pending' # <<>> /\ Head(pending') = Head(pending)
    BY <1>0, <1>4 DEF Reserves
  <2>3. begun' = begun /\ Hand' = Hand
    BY <1>4 DEF Reserves, Hand
  <2> QED
    BY <1>2, <2>1, <2>2, <2>3
<1>5. ASSUME NEW j \in Jobs, NEW to \in Outside, at[j] \in Outside, at' = [at EXCEPT ![j] = to],
             \/ j \in Rewinds /\ (Send(j) \/ Hears(j) \/ Refuses(j))
             \/ j \in Posts /\ (Post(j) \/ StrayPersists(j))
             \/ StrayBoots(j)
      PROVE  TurnInHand'
  <2>1. CASE j \in Rewinds /\ Refuses(j)
    BY <1>1, <1>5, <2>1, RefusesFrame, NobodyHolds, OutsideMoves
  <2>2. CASE StrayBoots(j)
    <3>1. begun' = begun /\ pending' = pending /\ UNCHANGED turn /\ Bootstrap
      BY <2>2 DEF StrayBoots
    <3>2. Hand' = Hand \/ (~released /\ ~resident)
      BY <3>1 DEF Bootstrap, Hand
    <3>3. Turning => released \/ resident
      BY DEF AgentIsThere, Turning, InHand
    <3> QED
      BY <1>2, <1>5, <3>1, <3>2, <3>3, OutsideMoves
  <2>3. CASE \/ j \in Rewinds /\ (Send(j) \/ Hears(j))
             \/ j \in Posts /\ (Post(j) \/ StrayPersists(j))
    <3>1. begun' = begun /\ pending' = pending /\ Hand' = Hand
      BY <2>3 DEF Send, Hears, Post, StrayPersists, Hand
    <3> QED
      BY <1>2, <1>5, <3>1, OutsideMoves
  <2> QED
    BY <1>5, <2>1, <2>2, <2>3
<1>6. ASSUME NEW j \in Jobs, NEW to \in {"landed", "persisted", "ready"}, LockFree, at' = [at EXCEPT ![j] = to] PROVE TurnInHand'
  <2>1. to \in Places
    BY DEF Places
  <2> QED
    BY <1>1, <1>6, <2>1, TakesLock
<1>7. ASSUME NEW j \in Jobs, NEW to \in Places, at[j] \notin Outside, at' = [at EXCEPT ![j] = to],
             Adopts(j) \/ Pushes(j) \/ Boots(j) \/ Shifts(j) \/ Stops(j)
      PROVE  TurnInHand'
  <2>1. \E there \in {"ready", "draining", "done"} : at' = [at EXCEPT ![j] = there]
    BY <1>7, StopsFrame DEF Adopts, Pushes, Boots, Shifts
  <2>2. to \in {"ready", "draining", "done"}
    BY <1>7, <2>1 DEF Typed, EngineTypes
  <2> QED
    BY <1>1, <1>7, <2>2, AloneHolds
<1>8. ASSUME NEW j \in Jobs, at[j] \notin Outside, Picks(j) PROVE TurnInHand'
  <2>1. at' = [at EXCEPT ![j] = "picked"] /\ pending' = pending /\ pending # <<>>
        /\ begun' = Append(begun, Head(pending).from)
    BY <1>8 DEF Picks
  <2>2. ~Turning'
    BY <1>8, <2>1, AloneHolds DEF Places
  <2>3. Head(pending').from \in Range(begun')
    BY <1>0, <2>1, FrontTyped, AppendRange
  <2> QED
    BY <2>1, <2>2, <2>3 DEF TurnInHand
<1>9. ASSUME NEW j \in Jobs, at[j] \notin Outside, Begins(j) \/ Replies(j) PROVE TurnInHand'
  <2>1. /\ \E there \in Places : at' = [at EXCEPT ![j] = there]
        /\ at[j] \in {"picked", "turning"} /\ pending' = pending /\ begun' = begun
    BY <1>9 DEF Begins, Replies, Places
  <2>2. InTurn
    BY <1>9, <2>1, AloneHolds
  <2>3. Hand' # <<>>
    <3>1. PICK row : Works(Append(Hand, row)) /\ released' = released
      BY <1>9 DEF Begins, Replies
    <3>2. Hand' = Append(Hand, row)
      BY <3>1, HandFrame
    <3> QED
      BY <1>0, <3>2
  <2> QED
    BY <2>1, <2>2, <2>3 DEF TurnInHand
<1>10. ASSUME NEW j \in Jobs, at[j] \notin Outside, Saves(j) PROVE TurnInHand'
  <2>1. at[j] = "saving" /\ at' = [at EXCEPT ![j] = "shifting"] /\ pending' = pending /\ begun' = begun
    BY <1>10 DEF Saves
  <2>2. InTurn /\ ~Turning'
    BY <1>10, <2>1, AloneHolds DEF Places
  <2> QED
    BY <2>1, <2>2 DEF TurnInHand
<1>11. CASE ResetMoves \/ Crash
  BY <1>1, <1>11, AfterMove
<1> QED
  BY <1>3, <1>4, <1>5, <1>6, <1>7, <1>8, <1>9, <1>10, <1>11, JobSteps

\* Every step leaves a draining job its agent.
LEMMA AgentKeeps ==
    ASSUME Typed, OneHolds, AgentIsThere, Next
    PROVE  AgentIsThere'
<1> USE DEF store, turn, agent, client, bounds, ghosts
<1>1. ASSUME (InHand # {}) <=> (InHand' # {}), UNCHANGED <<resident, released>> PROVE AgentIsThere'
  BY <1>1 DEF AgentIsThere
<1>2. ASSUME InHand' = {}, ~released' PROVE AgentIsThere'
  BY <1>2 DEF AgentIsThere
<1>3. ASSUME Aside \/ \E q \in Queued : Reserves(q), at' = at PROVE AgentIsThere'
  <2>1. InHand' = InHand
    BY <1>3 DEF InHand
  <2>2. CASE Release
    <3>1. (InHand # {} /\ released' = TRUE) \/ (InHand = {} /\ released' = released)
      BY <2>2, ReleaseFrame
    <3>2. CASE InHand # {} /\ released' = TRUE
      BY <2>1, <3>2 DEF AgentIsThere
    <3>3. CASE InHand = {} /\ released' = released
      BY <2>1, <3>3 DEF AgentIsThere
    <3> QED
      BY <3>1, <3>2, <3>3
  <2>3. CASE UNCHANGED <<resident, released>>
    BY <1>1, <2>1, <2>3
  <2> QED
    BY <1>3, <2>2, <2>3 DEF Aside, Prepare, Expires, Cancel, Writes, ForeignAppends, Releases, Closes,
                            ResetReleases, ResetFails, Overlaps, Stores, Reserves
<1>4. ASSUME NEW j \in Jobs, NEW to \in Outside, at[j] \in Outside, at' = [at EXCEPT ![j] = to],
             \/ j \in Rewinds /\ (Send(j) \/ Hears(j) \/ Refuses(j))
             \/ j \in Posts /\ (Post(j) \/ StrayPersists(j))
             \/ StrayBoots(j)
      PROVE  AgentIsThere'
  <2>1. InHand' = InHand
    BY <1>4, OutsideMoves
  <2>2. CASE j \in Rewinds /\ Refuses(j)
    BY <1>2, <2>1, <2>2, RefusesFrame, NobodyHolds, GoesFrame
  <2>3. CASE StrayBoots(j)
    BY <2>1, <2>3, BootstrapTyped DEF StrayBoots, AgentIsThere
  <2>4. CASE (j \in Rewinds /\ (Send(j) \/ Hears(j))) \/ (j \in Posts /\ (Post(j) \/ StrayPersists(j)))
    BY <1>1, <2>1, <2>4 DEF Send, Hears, Post, StrayPersists
  <2> QED
    BY <1>4, <2>2, <2>3, <2>4
<1>5. ASSUME NEW j \in Jobs, NEW to \in {"landed", "persisted", "ready"}, LockFree, at' = [at EXCEPT ![j] = to],
             (\E i \in DOMAIN rows : Lands(j, i)) \/ Persists(j) \/ Drains
      PROVE  AgentIsThere'
  <2>1. to \in Places
    BY DEF Places
  <2>2. released' = released
    BY <1>5 DEF Lands, Persists, Drains
  <2> QED
    BY <1>2, <1>5, <2>1, <2>2, TakesLock, NobodyHolds DEF AgentIsThere
<1>6. ASSUME NEW j \in Jobs, NEW to \in Places, at[j] \notin Outside, at' = [at EXCEPT ![j] = to],
             Adopts(j) \/ Pushes(j) \/ Boots(j)
      PROVE  AgentIsThere'
  <2>1. at[j] \in {"landed", "persisted", "ready"} /\ released' = released
    BY <1>6 DEF Adopts, Pushes, Boots
  <2>2. ~released'
    BY <1>6, <2>1, AloneHolds DEF AgentIsThere
  <2>3. CASE Boots(j)
    <3>1. resident' = TRUE /\ at' = [at EXCEPT ![j] = "draining"]
      BY <2>3, BootstrapTyped DEF Boots
    <3> QED
      BY <2>2, <3>1 DEF AgentIsThere
  <2>4. CASE Adopts(j) \/ Pushes(j)
    <3>1. at' = [at EXCEPT ![j] = "ready"] /\ "ready" \in Places
      BY <2>4 DEF Adopts, Pushes, Places
    <3>2. InHand' = {}
      BY <1>6, <3>1, AloneHolds
    <3> QED
      BY <1>2, <2>2, <3>2
  <2> QED
    BY <1>6, <2>3, <2>4
<1>7. ASSUME NEW j \in Jobs, NEW to \in Places, at[j] \notin Outside, at' = [at EXCEPT ![j] = to],
             Picks(j) \/ Begins(j) \/ Replies(j) \/ Saves(j) \/ Shifts(j)
      PROVE  AgentIsThere'
  <2>1. /\ at[j] \in {"draining", "picked", "turning", "saving", "shifting"}
        /\ \E there \in {"draining", "picked", "turning", "saving", "shifting"} : at' = [at EXCEPT ![j] = there]
        /\ UNCHANGED <<resident, released>>
    BY <1>7 DEF Picks, Begins, Replies, Saves, Shifts
  <2>2. {"draining", "picked", "turning", "saving", "shifting"} \subseteq Places
    BY DEF Places
  <2> QED
    BY <1>1, <1>7, <2>1, <2>2, AloneHolds
<1>8. ASSUME NEW j \in Jobs, at[j] \notin Outside, Stops(j) PROVE AgentIsThere'
  <2>1. at' = [at EXCEPT ![j] = "done"] /\ "done" \in Places /\ ~released'
    BY <1>8, StopsFrame, GoesFrame DEF Places
  <2> QED
    BY <1>2, <1>8, <2>1, AloneHolds
<1>9. CASE ResetMoves \/ Crash
  <2>1. ~released'
    BY <1>9 DEF ResetMoves, Crash
  <2> QED
    BY <1>2, <1>9, <2>1, AfterMove
<1> QED
  BY <1>3, <1>4, <1>5, <1>6, <1>7, <1>8, <1>9, JobSteps

-----------------------------------------------------------------------------
(* What a commit saw. *)

\* An armed resource has the fingerprint of what was prepared for, or a reset-id
\* gave it another; so has what was committed.
SeenOrMoved == /\ res.status = "armed" => res.fp = res.seen \/ res.token \in moved
               /\ blind \subseteq moved

\* Every step keeps what a commit may cut.
LEMMA SeenKeeps ==
    ASSUME Typed, SeenOrMoved, Next
    PROVE  SeenOrMoved'
<1> USE DEF store, turn, agent, client, bounds, ghosts, Typed
<1>0. res \in Resource
  BY DEF StoreTypes
<1>1. ASSUME res' = res, moved' = moved, blind' = blind PROVE SeenOrMoved'
  BY <1>1 DEF SeenOrMoved
<1>2. ASSUME NEW i \in DOMAIN rows, Prepare(i) PROVE SeenOrMoved'
  BY <1>2 DEF Prepare, SeenOrMoved
<1>3. CASE Expires
  BY <1>0, <1>3 DEF Expires, SeenOrMoved, Resource
<1>4. CASE Cancel
  BY <1>4 DEF Cancel, SeenOrMoved, NoRewind
<1>5. ASSUME NEW r \in Rewinds, GoesStale(r) PROVE SeenOrMoved'
  <2>1. moved' = moved /\ blind' = blind
    BY <1>5, RefusesFrame DEF Refuses
  <2> QED
    BY <1>0, <1>5, <2>1 DEF GoesStale, SeenOrMoved, Resource
<1>6. ASSUME NEW r \in Rewinds, NEW i \in DOMAIN rows, Lands(r, i) PROVE SeenOrMoved'
  <2>1. res.status = "armed" /\ res.fp = rows
    BY <1>6 DEF Lands, Armed, Is, Fresh
  <2>2. moved' = moved /\ blind' = (IF rows = res.seen THEN blind ELSE blind \cup {res.token})
    BY <1>6 DEF Lands
  <2>3. res'.status = "committed"
    BY <1>0, <1>6 DEF Lands, Committed, Resource
  <2> QED
    BY <2>1, <2>2, <2>3 DEF SeenOrMoved
<1>7. CASE ResetMoves
  <2>1. res' = (IF res.token = 0 THEN res ELSE [res EXCEPT !.fp = rows]) /\ blind' = blind
    BY <1>7 DEF ResetMoves
  <2>2. moved' = IF res'.fp = res.fp THEN moved ELSE moved \cup {res.token}
    BY <1>7 DEF ResetMoves
  <2>3. res'.status = res.status /\ res'.seen = res.seen /\ res'.token = res.token
    BY <1>0, <2>1 DEF Resource
  <2> QED
    BY <2>1, <2>2, <2>3 DEF SeenOrMoved
<1> QED
  <2>1. CASE \E r \in Rewinds : Send(r) \/ Hears(r) \/ CommitRefused(r) \/ Repeated(r) \/ Adopts(r) \/ CommitFails(r)
    BY <1>1, <2>1 DEF Send, Hears, CommitRefused, Repeated, Adopts, CommitFails, Ends
  <2>2. CASE (\E p \in Posts : Post(p) \/ Persists(p) \/ Pushes(p) \/ StrayPersists(p))
               \/ (\E q \in Queued : Reserves(q) \/ Stores(q))
    BY <1>1, <2>2 DEF Post, Persists, Pushes, StrayPersists, Reserves, Stores
  <2>3. CASE \E j \in Jobs : Turn(j) \/ LeavesEarly(j) \/ StrayBoots(j) \/ Overlaps(j)
    BY <1>1, <2>3 DEF Turn, Boots, Picks, Begins, Replies, Saves, Shifts, Leaves, LeavesEarly, StrayBoots, Overlaps
  <2>4. CASE Drains \/ Writes \/ ForeignAppends \/ Releases \/ Closes \/ ResetReleases \/ ResetFails \/ Crash
    BY <1>1, <2>4 DEF Drains, Writes, ForeignAppends, Releases, Closes, ResetReleases, ResetFails, Crash
  <2> QED
    BY <1>2, <1>3, <1>4, <1>5, <1>6, <1>7, <2>1, <2>2, <2>3, <2>4 DEF Next, Commit, Reset

-----------------------------------------------------------------------------
(* A token is used once. *)

\* A send that committed has left the gate, its token is the resource's only
\* while that is committed, and no other that committed has it.
UsedOnce == /\ res.token <= tokens
            /\ \A r \in Range(commits) : /\ at[r] \notin {"new", "waiting"}
                                         /\ carry[r].token = res.token => res.status = "committed"
            /\ \A i, k \in DOMAIN commits : carry[commits[i]].token = carry[commits[k]].token => i = k

\* A step that commits nothing and gives the resource no token of a send.
LEMMA UsedOnceFrame ==
    ASSUME Typed, UsedOnce, commits' = commits,
           res'.token <= tokens',
           \A r \in Range(commits) : /\ at'[r] \notin {"new", "waiting"} /\ carry'[r] = carry[r]
                                     /\ carry[r].token = res'.token => res'.status = "committed"
    PROVE  UsedOnce'
<1>1. \A i \in DOMAIN commits : commits[i] \in Range(commits)
  BY DEF Range
<1> QED
  BY <1>1 DEF UsedOnce

\* Every step keeps tokens used once.
LEMMA UsedOnceKeeps ==
    ASSUME Typed, HoldsTokens, UsedOnce, Next
    PROVE  UsedOnce'
<1> USE DEF store, turn, agent, client, bounds, ghosts, Typed
<1>0. /\ Rewinds \subseteq Jobs /\ Posts \subseteq Jobs /\ Drain \in Jobs /\ Drain \notin Rewinds
      /\ at \in [Jobs -> Places] /\ res \in Resource /\ tokens \in Nat /\ res.token \in Nat
      /\ commits \in Seq(Rewinds) /\ Range(commits) \subseteq Rewinds
      /\ Rewinds \cap Posts = {}
  BY TextsAssumption, SomeTexts, RangeTyped DEF Jobs, EngineTypes, StoreTypes, ClientTypes, HistoryTypes, Resource
<1>1. \A r \in Range(commits) : carry[r].token \in 1..tokens
  BY <1>0 DEF UsedOnce, HoldsTokens
<1>2. ASSUME NEW i \in DOMAIN rows, Prepare(i) PROVE UsedOnce'
  <2>1. res'.token = tokens + 1 /\ tokens' = tokens + 1 /\ commits' = commits /\ at' = at /\ carry' = carry
    BY <1>2 DEF Prepare
  <2> QED
    BY <1>0, <1>1, <2>1, UsedOnceFrame DEF UsedOnce
<1>3. CASE Cancel
  <2>1. res' \in {res, NoRewind} /\ tokens' = tokens /\ commits' = commits /\ at' = at /\ carry' = carry
    BY <1>3 DEF Cancel
  <2>2. NoRewind.token = 0
    BY DEF NoRewind
  <2> QED
    BY <1>0, <1>1, <2>1, <2>2, UsedOnceFrame DEF UsedOnce
<1>4. CASE Expires \/ ResetMoves
  <2>1. res'.token = res.token /\ res'.status = res.status
    BY <1>0, <1>4 DEF Expires, ResetMoves, Resource
  <2>2. tokens' = tokens /\ commits' = commits /\ carry' = carry
    BY <1>4 DEF Expires, ResetMoves
  <2>3. \A r \in Range(commits) : at'[r] \notin {"new", "waiting"}
    <3>1. CASE Expires
      BY <3>1 DEF Expires, UsedOnce
    <3>2. CASE ResetMoves
      BY <1>0, <3>2, MoveFrame DEF UsedOnce
    <3> QED
      BY <1>4, <3>1, <3>2
  <2> QED
    BY <2>1, <2>2, <2>3, UsedOnceFrame DEF UsedOnce
<1>5. ASSUME NEW r \in Rewinds, Send(r) PROVE UsedOnce'
  <2>1. r \notin Range(commits)
    BY <1>5 DEF Send, UsedOnce
  <2>2. \A x \in Range(commits) : at'[x] = at[x] /\ carry'[x] = carry[x]
    BY <1>0, <1>5, <2>1 DEF Send, ClientTypes
  <2>3. res' = res /\ tokens' = tokens /\ commits' = commits
    BY <1>5 DEF Send
  <2> QED
    BY <2>2, <2>3, UsedOnceFrame DEF UsedOnce
<1>6. ASSUME NEW r \in Rewinds, GoesStale(r) PROVE UsedOnce'
  <2>1. Refuses(r)
    BY <1>6 DEF Refuses
  <2>2. res.status = "armed" /\ res'.token = res.token /\ tokens' = tokens /\ commits' = commits /\ carry' = carry
    BY <1>0, <1>6, <2>1, RefusesFrame DEF GoesStale, Armed, Is, Resource
  <2>3. \A x \in Range(commits) : at'[x] \notin {"new", "waiting"}
    BY <1>0, <2>1, RefusesFrame DEF UsedOnce
  <2>4. \A x \in Range(commits) : carry[x].token # res.token
    BY <2>2 DEF UsedOnce
  <2> QED
    BY <2>2, <2>3, <2>4, UsedOnceFrame DEF UsedOnce
<1>7. ASSUME NEW r \in Rewinds, NEW i \in DOMAIN rows, Lands(r, i) PROVE UsedOnce'
  <2>1. /\ at[r] = "waiting" /\ res.token = carry[r].token /\ res.status = "armed"
        /\ commits' = Append(commits, r) /\ at' = [at EXCEPT ![r] = "landed"] /\ carry' = carry /\ tokens' = tokens
        /\ res' = [res EXCEPT !.status = "committed"]
    BY <1>7 DEF Lands, Armed, Is, Committed
  <2>2. res'.token = res.token /\ res'.status = "committed"
    BY <1>0, <2>1 DEF Resource
  <2>3. \A x \in Range(commits) : carry[x].token # carry[r].token
    BY <2>1 DEF UsedOnce
  <2>4. Range(commits') \subseteq Range(commits) \cup {r}
    BY <1>0, <2>1, AppendRange
  <2>5. \A x \in Range(commits') : at'[x] \notin {"new", "waiting"}
    BY <1>0, <2>1, <2>4 DEF UsedOnce
  <2>6. \A k, m \in DOMAIN commits' : carry[commits'[k]].token = carry[commits'[m]].token => k = m
    <3> TAKE k, m \in DOMAIN commits'
    <3>1. /\ Len(commits') = Len(commits) + 1 /\ commits'[Len(commits) + 1] = r
          /\ \A x \in 1..Len(commits) : commits'[x] = commits[x] /\ commits[x] \in Range(commits)
          /\ k \in 1..Len(commits) + 1 /\ m \in 1..Len(commits) + 1
      BY <1>0, <2>1 DEF Range
    <3> QED
      BY <1>0, <2>3, <3>1 DEF UsedOnce
  <2> QED
    BY <2>1, <2>2, <2>5, <2>6 DEF UsedOnce
<1> QED
  <2>1. ASSUME res' = res, tokens' = tokens, commits' = commits, carry' = carry,
               \A r \in Rewinds : at[r] \notin {"new", "waiting"} => at'[r] \notin {"new", "waiting"}
        PROVE  UsedOnce'
    BY <1>0, <2>1, UsedOnceFrame DEF UsedOnce
  <2>2. CASE \E r \in Rewinds : CommitRefused(r) \/ Repeated(r) \/ Adopts(r) \/ CommitFails(r) \/ Hears(r)
    <3>1. res' = res /\ tokens' = tokens /\ commits' = commits /\ carry' = carry
      BY <2>2 DEF CommitRefused, Repeated, Adopts, CommitFails, Hears, Ends
    <3>2. \A r \in Rewinds : at[r] \notin {"new", "waiting"} => at'[r] \notin {"new", "waiting"}
      BY <1>0, <2>2, RefusesFrame DEF Refuses, Adopts, Hears
    <3> QED
      BY <2>1, <3>1, <3>2
  <2>3. CASE (\E p \in Posts : Post(p) \/ Persists(p) \/ Pushes(p) \/ StrayPersists(p))
               \/ (\E q \in Queued : Reserves(q) \/ Stores(q))
    <3>1. res' = res /\ tokens' = tokens /\ commits' = commits /\ carry' = carry
      BY <2>3 DEF Post, Persists, Pushes, StrayPersists, Reserves, Stores
    <3>2. \A r \in Rewinds : at'[r] = at[r]
      BY <1>0, <2>3 DEF Post, Persists, Pushes, StrayPersists, Reserves, Stores
    <3> QED
      BY <2>1, <3>1, <3>2
  <2>4. CASE \E j \in Jobs : Turn(j) \/ LeavesEarly(j) \/ StrayBoots(j) \/ Overlaps(j)
    <3>1. res' = res /\ tokens' = tokens /\ commits' = commits /\ carry' = carry
      BY <2>4 DEF Turn, Boots, Picks, Begins, Replies, Saves, Shifts, Leaves, LeavesEarly, StrayBoots, Overlaps
    <3>2. PICK j \in Jobs : Turn(j) \/ LeavesEarly(j) \/ StrayBoots(j) \/ Overlaps(j)
      BY <2>4
    <3>3. at' = at \/ \E to \in Places \ {"new", "waiting"} : at' = [at EXCEPT ![j] = to]
      BY <3>2, StopsFrame DEF Turn, Boots, Picks, Begins, Replies, Saves, Shifts, Stops, StrayBoots, Overlaps, Places
    <3>4. \A r \in Rewinds : at[r] \notin {"new", "waiting"} => at'[r] \notin {"new", "waiting"}
      BY <1>0, <3>3
    <3> QED
      BY <2>1, <3>1, <3>4
  <2>5. CASE Drains \/ Writes \/ ForeignAppends \/ Releases \/ Closes \/ ResetReleases \/ ResetFails \/ Crash
    <3>1. res' = res /\ tokens' = tokens /\ commits' = commits /\ carry' = carry
      BY <2>5 DEF Drains, Writes, ForeignAppends, Releases, Closes, ResetReleases, ResetFails, Crash
    <3>2. \A r \in Rewinds : at[r] \notin {"new", "waiting"} => at'[r] \notin {"new", "waiting"}
      BY <1>0, <2>5 DEF Drains, Writes, ForeignAppends, Releases, Closes, ResetReleases, ResetFails, Crash
    <3> QED
      BY <2>1, <3>1, <3>2
  <2> QED
    BY <1>2, <1>3, <1>4, <1>5, <1>6, <1>7, <2>2, <2>3, <2>4, <2>5 DEF Next, Commit, Reset

-----------------------------------------------------------------------------
(* The pending queue. *)

\* The messages that have been given their places in the queue, and those that a
\* reset-id kept from it.
Entered == {x \in Rewinds \cup Posts : at[x] \notin {"new", "waiting", "landed", "persisted"}}
             \cup {x \in Queued : request[x] # "new"}

\* Every message is queued once and turned once, unless a reset-id left it in the
\* queue: a message that was turned is still queued only in front, while its turn
\* runs.
QueueOfEntered ==
  /\ \A k \in DOMAIN pending : pending[k].from \in Entered
  /\ \A k, m \in DOMAIN pending : pending[k].from = pending[m].from => k = m
  /\ \A k \in DOMAIN pending : pending[k].from \in Range(begun) => pending[k].from \in left \/ (k = 1 /\ InTurn)
  /\ \A k \in DOMAIN begun : begun[k] \in Entered
  /\ \A k, m \in DOMAIN begun : begun[k] = begun[m] => k = m \/ begun[k] \in left

\* A message whose row was cut has left the queue once the commit is adopted,
\* and was not turned, unless a reset-id left it there.
DeadAreOut ==
  /\ \A x \in dead : x \in Entered /\ (x \in Range(begun) => x \in left)
  /\ ~Landed => \A k \in DOMAIN pending : pending[k].from \in dead => pending[k].from \in left

\* What the provers are told of the queue's parts.
LEMMA QueueParts ==
    ASSUME Typed
    PROVE  /\ Rewinds \subseteq Jobs /\ Posts \subseteq Jobs /\ Drain \in Jobs
           /\ Drain \notin Sources /\ Rewinds \cap Posts = {} /\ (Rewinds \cup Posts) \cap Queued = {}
           /\ at \in [Jobs -> Places] /\ request \in [Queued -> {"new", "reserved", "stored"}]
           /\ pending \in Seq(Entry) /\ begun \in Seq(Sources) /\ dead \subseteq Sources
           /\ commits \in Seq(Rewinds) /\ lost \subseteq Sources
           /\ \A k \in DOMAIN pending : pending[k] \in Entry /\ pending[k].from \in Sources
           /\ {e.from : e \in Range(pending)} = {pending[k].from : k \in DOMAIN pending}
<1>1. \A e \in Entry : e.from \in Sources
  BY DEF Entry
<1>2. pending \in Seq(Entry)
  BY DEF Typed, EngineTypes
<1>3. {e.from : e \in Range(pending)} = {pending[k].from : k \in DOMAIN pending}
  BY DEF Range
<1>4. \A k \in DOMAIN pending : pending[k] \in Entry
  BY <1>2
<1>5. Drain \notin Sources
  BY TextsAssumption, SomeTexts DEF Sources
<1>6. Rewinds \cap Posts = {} /\ (Rewinds \cup Posts) \cap Queued = {}
  BY TextsAssumption
<1>7. /\ at \in [Jobs -> Places] /\ request \in [Queued -> {"new", "reserved", "stored"}]
      /\ begun \in Seq(Sources) /\ dead \subseteq Sources
      /\ commits \in Seq(Rewinds) /\ lost \subseteq Sources
  BY DEF Typed, EngineTypes, HistoryTypes
<1> QED
  BY <1>1, <1>2, <1>3, <1>4, <1>5, <1>6, <1>7 DEF Jobs

\* A message keeps the place it was given.
LEMMA EnteredStays ==
    ASSUME Typed, Next
    PROVE  Entered \subseteq Entered'
<1> USE DEF store, turn, agent, client, bounds, ghosts
<1>0. /\ Rewinds \subseteq Jobs /\ Posts \subseteq Jobs /\ Drain \in Jobs
      /\ Drain \notin Sources /\ Rewinds \cap Posts = {} /\ (Rewinds \cup Posts) \cap Queued = {}
      /\ at \in [Jobs -> Places] /\ request \in [Queued -> {"new", "reserved", "stored"}]
  BY QueueParts
<1>1. ASSUME NEW x \in Queued, request[x] # "new" PROVE request'[x] # "new"
  <2>1. request[x] # "new"
    BY <1>1
  <2>2. CASE request' = request
    BY <2>1, <2>2
  <2>3. CASE \E q \in Queued : Reserves(q) \/ Stores(q)
    BY <1>0, <2>1, <2>3 DEF Reserves, Stores
  <2>4. CASE Crash
    BY <1>0, <2>1, <2>4 DEF Crash
  <2> QED
    <3>1. CASE (\E i \in DOMAIN rows : Prepare(i)) \/ Expires \/ Cancel \/ Drains \/ Writes \/ ForeignAppends \/ Releases
                 \/ Closes \/ Reset
      BY <2>2, <3>1 DEF Prepare, Expires, Cancel, Drains, Writes, ForeignAppends, Releases, Closes, Reset,
                        ResetReleases, ResetFails, ResetMoves
    <3>2. CASE \E r \in Rewinds : Send(r) \/ Hears(r) \/ Refuses(r) \/ Adopts(r) \/ \E i \in DOMAIN rows : Lands(r, i)
      BY <2>2, <3>2, RefusesFrame DEF Send, Hears, Lands, Adopts
    <3>3. CASE (\E p \in Posts : Post(p) \/ Persists(p) \/ Pushes(p) \/ StrayPersists(p))
                 \/ \E j \in Jobs : Turn(j) \/ LeavesEarly(j) \/ StrayBoots(j) \/ Overlaps(j)
      BY <2>2, <3>3 DEF Post, Persists, Pushes, StrayPersists, Turn, Boots, Picks, Begins, Replies, Saves, Shifts,
                        Leaves, LeavesEarly, StrayBoots, Overlaps
    <3> QED
      BY <2>3, <2>4, <3>1, <3>2, <3>3 DEF Next, Commit, Refuses
<1>2. ASSUME NEW x \in Rewinds \cup Posts, at[x] \notin {"new", "waiting", "landed", "persisted"}
      PROVE  at'[x] \notin {"new", "waiting", "landed", "persisted"}
  <2> DEFINE Early == {"new", "waiting", "landed", "persisted"}
  <2>1. at[x] \notin Early /\ x \in Jobs /\ x # Drain
    BY <1>0, <1>2 DEF Sources
  <2>2. CASE at' = at
    BY <2>1, <2>2
  <2>3. CASE \E j \in Jobs, to \in Places : at' = [at EXCEPT ![j] = to] /\ (j = x => to \notin Early)
    BY <1>0, <2>1, <2>3
  <2>4. ASSUME NEW j \in Jobs, NEW to \in Outside, at' = [at EXCEPT ![j] = to],
               \/ j \in Rewinds /\ (Send(j) \/ Hears(j) \/ Refuses(j))
               \/ j \in Posts /\ (Post(j) \/ StrayPersists(j))
               \/ StrayBoots(j)
        PROVE  j = x => to \notin Early
    <3>1. at[j] \in {"new", "waiting"} \/ \E there \in {"overtaken", "done"} : at' = [at EXCEPT ![j] = there]
      BY <2>4, RefusesFrame DEF Send, Hears, Post, StrayPersists, StrayBoots
    <3> QED
      BY <1>0, <2>1, <2>4, <3>1
  <2>5. ASSUME NEW j \in Jobs, (\E i \in DOMAIN rows : Lands(j, i)) \/ Persists(j) \/ (j = Drain /\ Drains)
        PROVE  j # x
    BY <2>1, <2>5 DEF Lands, Persists
  <2>6. ASSUME NEW j \in Jobs, NEW to \in Places, at' = [at EXCEPT ![j] = to],
               \/ Adopts(j) \/ Pushes(j)
               \/ Boots(j) \/ Picks(j) \/ Begins(j) \/ Replies(j) \/ Saves(j) \/ Shifts(j) \/ Stops(j)
        PROVE  j = x => to \notin Early
    <3>1. \E there \in {"ready", "draining", "picked", "turning", "saving", "shifting", "done"} : at' = [at EXCEPT ![j] = there]
      BY <2>6, StopsFrame DEF Adopts, Pushes, Boots, Picks, Begins, Replies, Saves, Shifts
    <3> QED
      BY <1>0, <2>6, <3>1
  <2>7. CASE ResetMoves \/ Crash
    BY <2>1, <2>7, MoveFrame DEF Crash
  <2>8. Outside \subseteq Places /\ {"landed", "persisted", "ready"} \subseteq Places
    BY DEF Outside, Places
  <2> HIDE DEF Early
  <2>9. CASE \E j \in Jobs, to \in Outside : at[j] \in Outside /\ at' = [at EXCEPT ![j] = to]
                /\ \/ j \in Rewinds /\ (Send(j) \/ Hears(j) \/ Refuses(j))
                   \/ j \in Posts /\ (Post(j) \/ StrayPersists(j))
                   \/ StrayBoots(j)
    BY <2>3, <2>4, <2>8, <2>9
  <2>10. CASE \E j \in Jobs, to \in {"landed", "persisted", "ready"} :
                LockFree /\ at' = [at EXCEPT ![j] = to]
                /\ \/ j \in Rewinds /\ to = "landed" /\ \E i \in DOMAIN rows : Lands(j, i)
                   \/ j \in Posts /\ to = "persisted" /\ Persists(j)
                   \/ j = Drain /\ to = "ready" /\ Drains
    BY <2>3, <2>5, <2>8, <2>10
  <2>11. CASE \E j \in Jobs, to \in Places \ {"landed"} : at[j] \notin Outside /\ at' = [at EXCEPT ![j] = to]
                /\ \/ j \in Rewinds /\ Adopts(j)
                   \/ j \in Posts /\ Pushes(j)
                   \/ Boots(j) \/ Picks(j) \/ Begins(j) \/ Replies(j) \/ Saves(j) \/ Shifts(j) \/ Stops(j)
    BY <2>3, <2>6, <2>11
  <2> QED
    BY <2>2, <2>7, <2>9, <2>10, <2>11, JobSteps
<1> QED
  BY <1>1, <1>2 DEF Entered

\* A message enters behind the queue.
LEMMA EntersQueue ==
    ASSUME Typed, Next, QueueOfEntered, DeadAreOut, NEW text \in Texts, NEW x \in Sources, x \notin Entered, x \in Entered',
           pending' = Append(pending, [text |-> text, from |-> x]),
           Landed => Landed', begun' = begun, dead' = dead, left' = left, InTurn => InTurn'
    PROVE  QueueOfEntered' /\ DeadAreOut'
<1>0. /\ pending \in Seq(Entry) /\ begun \in Seq(Sources) /\ dead \subseteq Sources
      /\ \A k \in DOMAIN pending : pending[k].from \in Sources
  BY QueueParts
<1>1. x \notin Range(begun) /\ x \notin dead /\ \A k \in DOMAIN pending : pending[k].from # x
  BY DEF QueueOfEntered, DeadAreOut, Range
<1>2. \A k \in DOMAIN pending' : \/ k \in DOMAIN pending /\ pending'[k] = pending[k]
                                 \/ k = Len(pending') /\ pending'[k].from = x
  <2> DEFINE e == [text |-> text, from |-> x]
  <2>1. e.from = x /\ e \in Entry
    BY DEF Entry
  <2>2. pending' = Append(pending, e)
    OBVIOUS
  <2> HIDE DEF e
  <2> QED
    BY <1>0, <2>1, <2>2
<1>3. /\ \A k \in DOMAIN pending : pending[k].from \in Entered'
      /\ \A k \in DOMAIN begun : begun[k] \in Entered'
      /\ dead \subseteq Entered'
  BY <1>0, EnteredStays DEF QueueOfEntered, DeadAreOut
<1>4. QueueOfEntered'
  <2>1. \A k \in DOMAIN pending' : pending'[k].from \in Entered'
    BY <1>2, <1>3
  <2>2. \A k, m \in DOMAIN pending' : pending'[k].from = pending'[m].from => k = m
    BY <1>1, <1>2 DEF QueueOfEntered
  <2>3. \A k \in DOMAIN pending' : pending'[k].from \in Range(begun') => pending'[k].from \in left' \/ (k = 1 /\ InTurn')
    BY <1>1, <1>2 DEF QueueOfEntered
  <2>4. \A k, m \in DOMAIN begun' : begun'[k] = begun'[m] => k = m \/ begun'[k] \in left'
    BY DEF QueueOfEntered
  <2> QED
    BY <1>3, <2>1, <2>2, <2>3, <2>4 DEF QueueOfEntered
<1>5. DeadAreOut'
  <2>1. ~Landed' => \A k \in DOMAIN pending' : pending'[k].from \in dead' => pending'[k].from \in left'
    BY <1>1, <1>2 DEF DeadAreOut
  <2> QED
    BY <1>3, <2>1 DEF DeadAreOut
<1> QED
  BY <1>4, <1>5

\* A step that leaves the queue, or the rest of it.
LEMMA LeavesQueue ==
    ASSUME Typed, Next, QueueOfEntered, DeadAreOut,
           \/ pending' = pending /\ (InTurn => InTurn') /\ left' = left /\ (Landed => Landed')
           \/ pending' = pending /\ left' = left \cup ({e.from : e \in Range(pending)} \cap (dead \cup Range(begun)))
           \/ pending' = <<>> /\ left' = left
           \/ pending # <<>> /\ pending' = Tail(pending) /\ left' = left /\ ~Landed,
           begun' = begun, dead' = dead
    PROVE  QueueOfEntered' /\ DeadAreOut'
<1>0. /\ pending \in Seq(Entry) /\ begun \in Seq(Sources) /\ dead \subseteq Sources
      /\ \A k \in DOMAIN pending : pending[k].from \in Sources
      /\ {e.from : e \in Range(pending)} = {pending[k].from : k \in DOMAIN pending}
  BY QueueParts
<1>1. /\ \A k \in DOMAIN pending : pending[k].from \in Entered'
      /\ \A k \in DOMAIN begun : begun[k] \in Entered'
      /\ dead \subseteq Entered' /\ left \subseteq left'
  BY <1>0, EnteredStays DEF QueueOfEntered, DeadAreOut
<1>2. /\ \A k, m \in DOMAIN begun' : begun'[k] = begun'[m] => k = m \/ begun'[k] \in left'
      /\ \A x \in dead' : x \in Entered' /\ (x \in Range(begun') => x \in left')
  BY <1>1 DEF QueueOfEntered, DeadAreOut
<1>3. ASSUME \A k \in DOMAIN pending' : pending'[k].from \in Entered',
             \A k, m \in DOMAIN pending' : pending'[k].from = pending'[m].from => k = m,
             \A k \in DOMAIN pending' : pending'[k].from \in Range(begun') => pending'[k].from \in left' \/ (k = 1 /\ InTurn'),
             ~Landed' => \A k \in DOMAIN pending' : pending'[k].from \in dead' => pending'[k].from \in left'
      PROVE  QueueOfEntered' /\ DeadAreOut'
  BY <1>1, <1>2, <1>3 DEF QueueOfEntered, DeadAreOut
<1>4. CASE pending' = pending /\ (InTurn => InTurn') /\ left' = left /\ (Landed => Landed')
  BY <1>1, <1>3, <1>4 DEF QueueOfEntered, DeadAreOut
<1>5. CASE pending' = pending /\ left' = left \cup ({e.from : e \in Range(pending)} \cap (dead \cup Range(begun)))
  BY <1>0, <1>1, <1>3, <1>5 DEF QueueOfEntered
<1>6. CASE pending' = <<>>
  BY <1>3, <1>6
<1>7. CASE pending # <<>> /\ pending' = Tail(pending) /\ left' = left /\ ~Landed
  <2>1. \A k \in DOMAIN pending' : k \in Nat \ {0} /\ k + 1 \in DOMAIN pending /\ pending'[k] = pending[k + 1]
    BY <1>0, <1>7
  <2>2. \A k, m \in DOMAIN pending' : pending'[k].from = pending'[m].from => k = m
    BY <2>1 DEF QueueOfEntered
  <2>3. \A k \in DOMAIN pending' : pending'[k].from \in Range(begun') => pending'[k].from \in left'
    BY <1>7, <2>1 DEF QueueOfEntered
  <2>4. \A k \in DOMAIN pending' : pending'[k].from \in dead' => pending'[k].from \in left'
    BY <1>7, <2>1 DEF DeadAreOut
  <2>5. \A k \in DOMAIN pending' : pending'[k].from \in Entered'
    BY <1>1, <2>1
  <2> QED
    BY <1>3, <2>2, <2>3, <2>4, <2>5
<1> QED
  BY <1>4, <1>5, <1>6, <1>7

\* Every step keeps the queue's invariants.
LEMMA QueueKeeps ==
    ASSUME Typed, OneHolds, TurnInHand, QueueOfEntered, DeadAreOut, Next
    PROVE  QueueOfEntered' /\ DeadAreOut'
<1> USE DEF store, turn, agent, client, bounds, ghosts
<1>0. /\ Rewinds \subseteq Jobs /\ Posts \subseteq Jobs /\ Drain \in Jobs
      /\ Drain \notin Sources /\ Rewinds \cap Posts = {} /\ (Rewinds \cup Posts) \cap Queued = {}
      /\ at \in [Jobs -> Places] /\ request \in [Queued -> {"new", "reserved", "stored"}]
      /\ pending \in Seq(Entry) /\ begun \in Seq(Sources) /\ dead \subseteq Sources
      /\ \A k \in DOMAIN pending : pending[k] \in Entry /\ pending[k].from \in Sources
  BY QueueParts
<1>1. ASSUME UNCHANGED <<pending, begun, dead, left>>, InTurn => InTurn', Landed => Landed'
      PROVE  QueueOfEntered' /\ DeadAreOut'
  BY <1>1, LeavesQueue
<1>2. ASSUME Aside, at' = at PROVE QueueOfEntered' /\ DeadAreOut'
  BY <1>1, <1>2, AsideFrame DEF InTurn, Landed
<1>3. ASSUME NEW j \in Jobs, NEW to \in Outside, at[j] \in Outside, at' = [at EXCEPT ![j] = to],
             \/ j \in Rewinds /\ (Send(j) \/ Hears(j) \/ Refuses(j))
             \/ j \in Posts /\ (Post(j) \/ StrayPersists(j))
             \/ StrayBoots(j)
      PROVE  QueueOfEntered' /\ DeadAreOut'
  <2>1. UNCHANGED <<pending, begun, dead, left>>
    BY <1>3, RefusesFrame DEF Send, Hears, Post, StrayPersists, StrayBoots
  <2> QED
    BY <1>1, <1>3, <2>1, OutsideMoves
<1>4. ASSUME NEW r \in Rewinds, NEW i \in DOMAIN rows, Lands(r, i) PROVE QueueOfEntered' /\ DeadAreOut'
  <2> DEFINE cut == {rows[k] : k \in i .. Len(rows)}
             out == {e.from : e \in {x \in Range(pending) : \E row \in cut : row.text = x.text}}
  <2>1. ~InTurn /\ at[r] = "waiting" /\ at' = [at EXCEPT ![r] = "landed"]
    BY <1>4, NobodyHolds DEF Lands
  <2>2. Landed'
    BY <1>0, <2>1 DEF Landed
  <2>3. pending' = pending /\ begun' = begun /\ dead' = dead \cup out /\ left' = left
    BY <1>4 DEF Lands
  <2>4. Entered \subseteq Entered'
    BY <1>4, EnteredStays
  <2>5. out \subseteq {pending[k].from : k \in DOMAIN pending}
    BY QueueParts
  <2> HIDE DEF cut, out
  <2>6. QueueOfEntered'
    BY <2>1, <2>3, <2>4 DEF QueueOfEntered
  <2>7. \A x \in out : x \in Entered /\ (x \in Range(begun) => x \in left)
    BY <2>1, <2>5 DEF QueueOfEntered
  <2>8. DeadAreOut'
    BY <2>2, <2>3, <2>4, <2>7 DEF DeadAreOut
  <2> QED
    BY <2>6, <2>8
<1>5. ASSUME NEW r \in Rewinds, at[r] \notin Outside, Adopts(r) PROVE QueueOfEntered' /\ DeadAreOut'
  <2>1. pending' = <<[text |-> carry[r].text, from |-> r]>> /\ begun' = begun /\ dead' = dead /\ left' = left
        /\ at[r] = "landed" /\ at' = [at EXCEPT ![r] = "ready"] /\ request' = request
    BY <1>5 DEF Adopts
  <2>2. r \notin Entered /\ r \in Entered' /\ r \in Sources
    BY <1>0, <2>1 DEF Entered, Sources
  <2>4. Entered \subseteq Entered'
    BY <1>5, EnteredStays
  <2>5. r \notin Range(begun) /\ r \notin dead
    BY <2>2 DEF QueueOfEntered, DeadAreOut, Range
  <2>6. Len(pending') = 1 /\ pending'[1].from = r /\ DOMAIN pending' = {1}
    BY <2>1
  <2> QED
    BY <2>1, <2>2, <2>4, <2>5, <2>6 DEF QueueOfEntered, DeadAreOut
<1>6. ASSUME NEW p \in Posts, at[p] \notin Outside, Pushes(p) PROVE QueueOfEntered' /\ DeadAreOut'
  <2>1. pending' = Append(pending, [text |-> p, from |-> p]) /\ begun' = begun /\ dead' = dead /\ left' = left
        /\ at[p] = "persisted" /\ at' = [at EXCEPT ![p] = "ready"] /\ request' = request
    BY <1>6 DEF Pushes
  <2>2. p \notin Entered /\ p \in Entered' /\ p \in Sources /\ p \in Texts
    BY <1>0, <2>1, SomeTexts DEF Entered, Sources
  <2>3. (InTurn => InTurn') /\ (Landed => Landed')
    BY <1>0, <1>6, <2>1, AloneHolds DEF Places
  <2> QED
    BY <2>1, <2>2, <2>3, EntersQueue
<1>7. ASSUME NEW q \in Queued, Reserves(q) PROVE QueueOfEntered' /\ DeadAreOut'
  <2>1. pending' = Append(pending, [text |-> q, from |-> q]) /\ begun' = begun /\ dead' = dead /\ left' = left
        /\ request[q] = "new" /\ request' = [request EXCEPT ![q] = "reserved"] /\ at' = at
    BY <1>7 DEF Reserves
  <2>2. q \notin Entered /\ q \in Entered' /\ q \in Sources /\ q \in Texts
    BY <1>0, <2>1, SomeTexts DEF Entered, Sources
  <2>3. (InTurn => InTurn') /\ (Landed => Landed')
    BY <2>1 DEF InTurn, Landed
  <2> QED
    BY <2>1, <2>2, <2>3, EntersQueue
<1>8. ASSUME NEW j \in Jobs, at[j] \notin Outside, Boots(j) \/ Stops(j) \/ Begins(j) \/ Replies(j) \/ Saves(j)
      PROVE  QueueOfEntered' /\ DeadAreOut'
  <2>1. UNCHANGED <<pending, begun, dead, left>>
    BY <1>8, StopsFrame DEF Boots, Begins, Replies, Saves
  <2>2. \E to \in Places : /\ at' = [at EXCEPT ![j] = to]
                           /\ at[j] # "landed"
                           /\ at[j] \in {"picked", "turning", "saving"} => to \in {"turning", "saving", "shifting"}
                           /\ at[j] # "shifting"
    BY <1>8, StopsFrame DEF Boots, Begins, Replies, Saves, Places
  <2>3. (InTurn => InTurn') /\ (Landed => Landed')
    BY <1>8, <2>2, AloneHolds
  <2> QED
    BY <1>1, <2>1, <2>3
<1>9. ASSUME NEW j \in Jobs, at[j] \notin Outside, Picks(j) PROVE QueueOfEntered' /\ DeadAreOut'
  <2>1. pending' = pending /\ pending # <<>> /\ begun' = Append(begun, Head(pending).from) /\ dead' = dead /\ left' = left
        /\ at[j] = "draining" /\ at' = [at EXCEPT ![j] = "picked"]
    BY <1>9 DEF Picks
  <2>2. ~InTurn /\ ~Landed /\ InTurn' /\ ~Landed'
    BY <1>9, <2>1, AloneHolds DEF Places
  <2>3. Entered \subseteq Entered'
    BY EnteredStays
  <2>4. 1 \in DOMAIN pending /\ Head(pending) = pending[1]
    BY <1>0, <2>1
  <2> DEFINE x == Head(pending).from
  <2>5. x \in Sources /\ x = pending[1].from /\ x \in Entered /\ (x \in Range(begun) \cup dead => x \in left)
    BY <1>0, <2>2, <2>4 DEF QueueOfEntered, DeadAreOut
  <2>6. begun' = Append(begun, x)
    BY <2>1
  <2> HIDE DEF x
  <2>7. Range(begun') = Range(begun) \cup {x}
    BY <1>0, <2>5, <2>6, AppendRange
  <2>8. QueueOfEntered'
    <3>1. \A k \in DOMAIN pending' : pending'[k].from \in Entered'
      BY <2>1, <2>3 DEF QueueOfEntered
    <3>2. \A k, m \in DOMAIN pending' : pending'[k].from = pending'[m].from => k = m
      BY <2>1 DEF QueueOfEntered
    <3>3. \A k \in DOMAIN pending' : pending'[k].from \in Range(begun') => pending'[k].from \in left' \/ (k = 1 /\ InTurn')
      BY <2>1, <2>2, <2>4, <2>5, <2>7 DEF QueueOfEntered
    <3>4. \A k \in DOMAIN begun' : begun'[k] \in Entered'
      BY <1>0, <2>3, <2>5, <2>6 DEF QueueOfEntered
    <3>5. \A k, m \in DOMAIN begun' : begun'[k] = begun'[m] => k = m \/ begun'[k] \in left'
      <4>1. \A k \in 1..Len(begun) : begun[k] = x => x \in left
        BY <2>5 DEF Range
      <4> QED
        BY <1>0, <2>1, <2>5, <2>6, <4>1 DEF QueueOfEntered
    <3> QED
      BY <3>1, <3>2, <3>3, <3>4, <3>5 DEF QueueOfEntered
  <2>9. DeadAreOut'
    BY <2>1, <2>2, <2>3, <2>5, <2>7 DEF DeadAreOut
  <2> QED
    BY <2>8, <2>9
<1>10. ASSUME NEW j \in Jobs, at[j] \notin Outside, Shifts(j) PROVE QueueOfEntered' /\ DeadAreOut'
  <2>1. pending' = Tail(pending) /\ begun' = begun /\ dead' = dead /\ left' = left
        /\ at[j] = "shifting" /\ at' = [at EXCEPT ![j] = "draining"]
    BY <1>10 DEF Shifts
  <2>2. ~Landed /\ InTurn
    BY <1>10, <2>1, AloneHolds DEF Places
  <2> QED
    BY <2>1, <2>2, LeavesQueue DEF TurnInHand
<1>11. CASE Crash
  <2>1. pending' = <<>> /\ begun' = begun /\ dead' = dead /\ left' = left
    BY <1>11 DEF Crash
  <2> QED
    BY <2>1, LeavesQueue
<1>12. ASSUME NEW j \in Jobs, NEW to \in {"persisted", "ready"}, LockFree, at' = [at EXCEPT ![j] = to], Persists(j) \/ Drains
       PROVE  QueueOfEntered' /\ DeadAreOut'
  <2>1. UNCHANGED <<pending, begun, dead, left>>
    BY <1>12 DEF Persists, Drains
  <2> QED
    BY <1>1, <1>12, <2>1, NobodyHolds
<1>13. CASE ResetMoves
  <2>1. pending' = pending /\ begun' = begun /\ dead' = dead
        /\ left' = left \cup ({e.from : e \in Range(pending)} \cap (dead \cup Range(begun)))
    BY <1>13 DEF ResetMoves
  <2> QED
    BY <2>1, LeavesQueue
<1> QED
  BY <1>2, <1>3, <1>4, <1>5, <1>6, <1>7, <1>8, <1>9, <1>10, <1>11, <1>12, <1>13, JobSteps

\* Where the text of a committed rewind may be.
Found == Range(begun) \cup lost \cup {e.from : e \in Range(pending)}

\* Every step leaves a committed text where it can be found.
LEMMA CommittedKeeps ==
    ASSUME Typed, OneHolds, TurnInHand, CommittedIsQueued, Next
    PROVE  CommittedIsQueued'
<1> USE DEF store, turn, agent, client, bounds, ghosts
<1>0. /\ Rewinds \subseteq Jobs /\ Posts \subseteq Jobs
      /\ at \in [Jobs -> Places]
      /\ pending \in Seq(Entry) /\ begun \in Seq(Sources) /\ commits \in Seq(Rewinds)
      /\ {e.from : e \in Range(pending)} = {pending[k].from : k \in DOMAIN pending}
      /\ Range(commits) \subseteq Rewinds
  BY QueueParts, RangeTyped
<1>1. ASSUME commits' = commits, Found \subseteq Found',
             \A r \in Rewinds : at[r] = "landed" => at'[r] = "landed" \/ r \in Found'
      PROVE  CommittedIsQueued'
  BY <1>0, <1>1 DEF CommittedIsQueued, Found
<1>2. ASSUME Aside, at' = at PROVE CommittedIsQueued'
  BY <1>1, <1>2, AsideFrame DEF Found
<1>3. ASSUME NEW j \in Jobs, NEW to \in Outside, at[j] \in Outside, at' = [at EXCEPT ![j] = to],
             \/ j \in Rewinds /\ (Send(j) \/ Hears(j) \/ Refuses(j))
             \/ j \in Posts /\ (Post(j) \/ StrayPersists(j))
             \/ StrayBoots(j)
      PROVE  CommittedIsQueued'
  <2>1. UNCHANGED <<pending, begun, lost, commits>>
    BY <1>3, RefusesFrame DEF Send, Hears, Post, StrayPersists, StrayBoots
  <2>2. \A r \in Rewinds : at[r] = "landed" => at'[r] = "landed"
    BY <1>0, <1>3 DEF Outside
  <2> QED
    BY <1>1, <2>1, <2>2 DEF Found
<1>4. ASSUME NEW r \in Rewinds, NEW i \in DOMAIN rows, Lands(r, i) PROVE CommittedIsQueued'
  <2>1. pending' = pending /\ begun' = begun /\ lost' = lost /\ commits' = Append(commits, r)
        /\ at' = [at EXCEPT ![r] = "landed"]
    BY <1>4 DEF Lands
  <2>2. Range(commits') \subseteq Range(commits) \cup {r}
    BY <1>0, <2>1 DEF Range
  <2> QED
    BY <1>0, <2>1, <2>2 DEF CommittedIsQueued
<1>5. ASSUME NEW r \in Rewinds, Adopts(r) PROVE CommittedIsQueued'
  <2>1. begun' = begun /\ commits' = commits /\ lost' = lost \cup {e.from : e \in Range(pending)}
        /\ pending' = <<[text |-> carry[r].text, from |-> r]>> /\ at' = [at EXCEPT ![r] = "ready"]
    BY <1>5 DEF Adopts
  <2>2. r \in Found'
    <3>1. 1 \in DOMAIN pending' /\ pending'[1].from = r
      BY <2>1
    <3>2. pending'[1] \in Range(pending')
      BY <3>1 DEF Range
    <3> QED
      BY <3>1, <3>2 DEF Found
  <2>3. Found \subseteq Found'
    BY <2>1 DEF Found
  <2> QED
    BY <1>0, <1>1, <2>1, <2>2, <2>3
<1>6. CASE (\E p \in Posts : Pushes(p)) \/ \E q \in Queued : Reserves(q)
  <2>1. begun' = begun /\ lost' = lost /\ commits' = commits
    BY <1>6 DEF Pushes, Reserves
  <2>2. Range(pending) \subseteq Range(pending')
    <3>1. PICK x \in Texts, y \in Sources : pending' = Append(pending, [text |-> x, from |-> y])
      BY <1>6, SomeTexts DEF Pushes, Reserves, Sources
    <3> DEFINE e == [text |-> x, from |-> y]
    <3>2. e \in Entry /\ pending' = Append(pending, e)
      BY <3>1 DEF Entry
    <3> HIDE DEF e
    <3> QED
      BY <1>0, <3>2, AppendRange
  <2>3. \A r \in Rewinds : at[r] = "landed" => at'[r] = "landed"
    BY <1>0, <1>6 DEF Pushes, Reserves
  <2> QED
    BY <1>1, <2>1, <2>2, <2>3 DEF Found
<1>7. ASSUME NEW j \in Jobs, at[j] \notin Outside, Boots(j) \/ Stops(j) \/ Begins(j) \/ Replies(j) \/ Saves(j)
      PROVE  CommittedIsQueued'
  <2>1. UNCHANGED <<pending, begun, lost, commits>>
    BY <1>7, StopsFrame DEF Boots, Begins, Replies, Saves
  <2>2. at[j] # "landed" /\ \E to \in Places : at' = [at EXCEPT ![j] = to]
    BY <1>7, StopsFrame DEF Boots, Begins, Replies, Saves, Places
  <2>3. \A r \in Rewinds : at[r] = "landed" => at'[r] = "landed"
    BY <1>0, <2>2
  <2> QED
    BY <1>1, <2>1, <2>3 DEF Found
<1>8. ASSUME NEW j \in Jobs, Picks(j) PROVE CommittedIsQueued'
  <2>1. pending' = pending /\ begun' = Append(begun, Head(pending).from) /\ pending # <<>>
        /\ lost' = lost /\ commits' = commits /\ at[j] = "draining" /\ at' = [at EXCEPT ![j] = "picked"]
    BY <1>8 DEF Picks
  <2>2. Range(begun) \subseteq Range(begun')
    BY <1>0, <2>1, FrontTyped, AppendRange
  <2> QED
    BY <1>0, <1>1, <2>1, <2>2 DEF Found
<1>9. ASSUME NEW j \in Jobs, Shifts(j) PROVE CommittedIsQueued'
  <2>1. pending' = Tail(pending) /\ begun' = begun /\ lost' = lost /\ commits' = commits
        /\ at[j] = "shifting" /\ at' = [at EXCEPT ![j] = "draining"]
    BY <1>9 DEF Shifts
  <2>2. pending # <<>> /\ Head(pending).from \in Range(begun)
    BY <2>1 DEF InTurn, TurnInHand
  <2>3. Range(pending) \subseteq {Head(pending)} \cup Range(pending')
    <3>1. \A k \in DOMAIN pending : k = 1 \/ (k - 1 \in DOMAIN pending' /\ pending'[k - 1] = pending[k])
      BY <1>0, <2>1, <2>2
    <3>2. Head(pending) = pending[1]
      BY <1>0, <2>2
    <3> QED
      BY <3>1, <3>2 DEF Range
  <2>4. Found \subseteq Found'
    BY <2>1, <2>2, <2>3 DEF Found
  <2> QED
    BY <1>0, <1>1, <2>1, <2>4
<1>10. ASSUME NEW j \in Jobs, NEW to \in {"persisted", "ready"}, LockFree, at' = [at EXCEPT ![j] = to], Persists(j) \/ Drains
       PROVE  CommittedIsQueued'
  <2>1. UNCHANGED <<pending, begun, lost, commits>>
    BY <1>10 DEF Persists, Drains
  <2>2. \A r \in Rewinds : at[r] # "landed"
    BY <1>10, NobodyHolds DEF Landed
  <2> QED
    BY <1>1, <2>1, <2>2 DEF Found
<1>11. CASE Crash \/ ResetMoves
  <2>1. begun' = begun /\ commits' = commits
    BY <1>11 DEF Crash, ResetMoves
  <2>2. {r \in Rewinds : at[r] = "landed"} \subseteq lost'
    BY <1>11 DEF Crash, ResetMoves
  <2>3. Found \subseteq Found'
    BY <1>11, <2>1 DEF Found, Crash, ResetMoves
  <2>4. \A r \in Rewinds : at[r] = "landed" => r \in Found'
    BY <2>2 DEF Found
  <2> QED
    BY <1>1, <2>1, <2>3, <2>4
<1> QED
  BY <1>2, <1>3, <1>4, <1>5, <1>6, <1>7, <1>8, <1>9, <1>10, <1>11, JobSteps

-----------------------------------------------------------------------------
(* The rows. *)

\* A transcript in which every reply has a number of its own, of the first n.
Proper(rs, n) == /\ \A i \in DOMAIN rs : rs[i].by = "agent" => rs[i].seq <= n
                 /\ \A i, k \in DOMAIN rs : rs[i].by = "agent" /\ rs[i] = rs[k] => i = k

\* Cut replies, of the first n.
CutReplies(G, n) == \A x \in G : x \in Row /\ x.by = "agent" /\ x.seq <= n

\* A transcript without them.
Clean(rs, G) == \A i \in DOMAIN rs : rs[i] \notin G

\* A part from the front has what the whole has.
LEMMA PrefixClean ==
    ASSUME NEW rs \in Seq(Row), NEW n \in Nat, NEW G, NEW k \in 0..Len(rs)
    PROVE  /\ Proper(rs, n) => Proper(SubSeq(rs, 1, k), n)
           /\ Clean(rs, G) => Clean(SubSeq(rs, 1, k), G)
<1>1. /\ SubSeq(rs, 1, k) \in Seq(Row) /\ Len(SubSeq(rs, 1, k)) = k
      /\ \A i \in 1..k : SubSeq(rs, 1, k)[i] = rs[i]
  BY PrefixTyped
<1>2. DOMAIN SubSeq(rs, 1, k) = 1..k /\ 1..k \subseteq DOMAIN rs
  BY <1>1
<1> QED
  BY <1>1, <1>2 DEF Proper, Clean

\* A user's row behind a transcript.
LEMMA UserBehind ==
    ASSUME NEW rs \in Seq(Row), NEW n \in Nat, NEW G, CutReplies(G, n), NEW t \in Texts
    PROVE  LET new == Append(rs, UserRow(t, NextUserSeq(rs)))
           IN  /\ Proper(rs, n) => Proper(new, n)
               /\ Clean(rs, G) => Clean(new, G)
<1> DEFINE u == UserRow(t, NextUserSeq(rs))
<1>1. u \in Row /\ u.by = "user"
  BY UserRowTyped DEF UserRow
<1> HIDE DEF u
<1>2. \A i \in DOMAIN Append(rs, u) : (i \in DOMAIN rs /\ Append(rs, u)[i] = rs[i]) \/ Append(rs, u)[i] = u
  BY <1>1
<1>3. u \notin G
  BY <1>1 DEF CutReplies
<1>4. Proper(rs, n) => Proper(Append(rs, u), n)
  BY <1>1, <1>2 DEF Proper
<1>5. Clean(rs, G) => Clean(Append(rs, u), G)
  BY <1>2, <1>3 DEF Clean
<1> QED
  BY <1>4, <1>5 DEF u

\* A reply behind a transcript that does not have it.
LEMMA ReplyBehind ==
    ASSUME NEW rs \in Seq(Row), NEW n \in Nat, NEW G, NEW row \in Row,
           row \notin Range(rs), row \notin G, row.by = "agent" => row.seq <= n
    PROVE  /\ Proper(rs, n) => Proper(Append(rs, row), n)
           /\ Clean(rs, G) => Clean(Append(rs, row), G)
<1>1. \A i \in DOMAIN Append(rs, row) : \/ i \in DOMAIN rs /\ Append(rs, row)[i] = rs[i] /\ rs[i] \in Range(rs)
                                        \/ i = Len(rs) + 1 /\ Append(rs, row)[i] = row
  BY DEF Range
<1>2. Proper(rs, n) => Proper(Append(rs, row), n)
  BY <1>1 DEF Proper
<1>3. Clean(rs, G) => Clean(Append(rs, row), G)
  BY <1>1 DEF Clean
<1> QED
  BY <1>2, <1>3

\* The next reply is new to every transcript.
LEMMA NextReply ==
    ASSUME NEW n \in Nat
    PROVE  /\ Reply(n + 1) \in Row /\ Reply(n + 1).by = "agent" /\ Reply(n + 1).seq = n + 1
           /\ \A rs \in Seq(Row) : Proper(rs, n) => Proper(rs, n + 1) /\ Reply(n + 1) \notin Range(rs)
           /\ \A G : CutReplies(G, n) => CutReplies(G, n + 1) /\ Reply(n + 1) \notin G
<1>1. Reply(n + 1) \in Row /\ Reply(n + 1).by = "agent" /\ Reply(n + 1).seq = n + 1
  BY ReplyTyped DEF Reply
<1>2. \A row \in Row : row.seq \in Nat
  BY DEF Row
<1>3. ASSUME NEW rs \in Seq(Row), Proper(rs, n) PROVE Proper(rs, n + 1) /\ Reply(n + 1) \notin Range(rs)
  <2>1. \A i \in DOMAIN rs : rs[i] \in Row
    OBVIOUS
  <2>2. \A i \in DOMAIN rs : rs[i].by = "agent" => rs[i].seq <= n /\ rs[i].seq <= n + 1
    BY <1>2, <1>3, <2>1 DEF Proper
  <2>3. Proper(rs, n + 1)
    BY <1>3, <2>2 DEF Proper
  <2>4. \A i \in DOMAIN rs : rs[i] # Reply(n + 1)
    BY <1>1, <2>2
  <2> QED
    BY <2>3, <2>4 DEF Range
<1>4. ASSUME NEW G, CutReplies(G, n) PROVE CutReplies(G, n + 1) /\ Reply(n + 1) \notin G
  <2>1. \A x \in G : x \in Row /\ x.by = "agent" /\ x.seq <= n /\ x.seq \in Nat
    BY <1>2, <1>4 DEF CutReplies
  <2>2. \A x \in G : x.seq <= n + 1 /\ x.seq # n + 1
    BY <2>1
  <2> QED
    BY <1>1, <2>1, <2>2 DEF CutReplies
<1> QED
  BY <1>1, <1>3, <1>4

\* A commit leaves none of the replies that it cuts.
LEMMA CutClean ==
    ASSUME NEW rs \in Seq(Row), NEW n \in Nat, NEW G, CutReplies(G, n), NEW i \in DOMAIN rs,
           Proper(rs, n), Clean(rs, G)
    PROVE  LET cut == {row \in {rs[k] : k \in i .. Len(rs)} : row.by = "agent"}
           IN  CutReplies(G \cup cut, n) /\ Clean(SubSeq(rs, 1, i - 1), G \cup cut)
<1> DEFINE cut == {row \in {rs[k] : k \in i .. Len(rs)} : row.by = "agent"}
           kept == SubSeq(rs, 1, i - 1)
<1>1. i - 1 \in 0..Len(rs) /\ \A k \in i .. Len(rs) : k \in DOMAIN rs /\ k \notin 1 .. i - 1
  OBVIOUS
<1>2. Len(kept) = i - 1 /\ kept \in Seq(Row) /\ \A k \in 1 .. i - 1 : kept[k] = rs[k]
  BY <1>1, PrefixTyped
<1>3. DOMAIN kept = 1 .. i - 1 /\ 1 .. i - 1 \subseteq DOMAIN rs
  BY <1>1, <1>2
<1> HIDE DEF kept
<1>4. \A x \in cut : x \in Row /\ x.by = "agent" /\ x.seq <= n
  BY <1>1 DEF Proper
<1>5. \A k \in 1 .. i - 1 : rs[k] \notin cut
  BY <1>1, <1>3 DEF Proper
<1>6. \A k \in 1 .. i - 1 : rs[k] \notin G
  BY <1>3 DEF Clean
<1> HIDE DEF cut
<1>7. CutReplies(G \cup cut, n)
  BY <1>4 DEF CutReplies
<1>8. Clean(kept, G \cup cut)
  BY <1>2, <1>3, <1>5, <1>6 DEF Clean
<1> QED
  BY <1>7, <1>8 DEF cut, kept

\* The stored rows have nothing that was cut.
StoredClean == CutReplies(gone, made) /\ Proper(rows, made) /\ Clean(rows, gone)

\* Nor has a transcript in memory: the resident one may, until the commit is adopted.
AgentClean == /\ Proper(mem, made) /\ (~Landed => Clean(mem, gone))
              /\ ~resident => mem = <<>>
              /\ Proper(own, made) /\ (released => Clean(own, gone))

\* Nor has a snapshot of the running generation.
SlotClean == slot # <<>> => /\ Proper(slot[1].rows, made) /\ slot[1].gen <= gen
                            /\ slot[1].gen = gen => Clean(slot[1].rows, gone)

RowsInv == StoredClean /\ AgentClean /\ SlotClean

\* The transcript in hand has what both may have.
LEMMA HandRows ==
    ASSUME AgentClean
    PROVE  Proper(Hand, made) /\ (~Landed => Clean(Hand, gone))
<1>1. CASE released
  BY <1>1 DEF AgentClean, Hand
<1>2. CASE ~released
  BY <1>2 DEF AgentClean, Hand
<1> QED
  BY <1>1, <1>2

\* What a job works on takes the place of the transcript in hand.
LEMMA WorksRows ==
    ASSUME Typed, AgentIsThere, AgentClean, InHand # {}, ~Landed, UNCHANGED <<resident, released, gone>>,
           NEW grown \in Seq(Row), Works(grown), Proper(grown, made'), Clean(grown, gone),
           made' \in {made, made + 1}
    PROVE  AgentClean'
<1>1. made \in Nat /\ mem \in Seq(Row) /\ own \in Seq(Row)
  BY DEF Typed, HistoryTypes, StoreTypes, Transcript
<1>2. Proper(mem, made') /\ Proper(own, made')
  <2>1. Proper(mem, made) /\ Proper(own, made)
    BY DEF AgentClean
  <2>2. Proper(mem, made + 1) /\ Proper(own, made + 1)
    BY <1>1, <2>1, NextReply
  <2> QED
    BY <2>1, <2>2
<1>3. CASE released
  <2>1. mem' = mem /\ own' = grown
    BY <1>3 DEF Works
  <2> QED
    BY <1>2, <2>1 DEF AgentClean
<1>4. CASE ~released
  <2>1. mem' = grown /\ own' = own /\ resident
    BY <1>4 DEF Works, AgentIsThere
  <2> QED
    BY <1>2, <1>4, <2>1 DEF AgentClean
<1> QED
  BY <1>3, <1>4

\* The transcripts in memory over a release, and over a job's end.
LEMMA ReleasesRows ==
    ASSUME AgentClean, Release, ~(InHand # {} /\ Landed), UNCHANGED <<made, gone>>
    PROVE  AgentClean'
<1>1. Proper(<<>>, made) /\ Clean(<<>>, gone)
  BY DEF Proper, Clean
<1>2. resident' = FALSE /\ mem' = <<>>
  BY ReleaseFrame
<1>3. Proper(own', made) /\ (released' => Clean(own', gone))
  <2>1. CASE InHand # {} /\ released' = TRUE /\ own' = Hand
    BY <2>1, HandRows
  <2>2. CASE InHand = {} /\ released' = released /\ own' = own
    BY <2>2 DEF AgentClean
  <2> QED
    BY <2>1, <2>2, ReleaseFrame
<1> QED
  BY <1>1, <1>2, <1>3 DEF AgentClean

LEMMA GoesRows ==
    ASSUME Typed, AgentClean, NEW j \in Jobs, Goes(j), Landed => Landed', UNCHANGED <<made, gone>>
    PROVE  AgentClean'
<1>1. Proper(<<>>, made) /\ Clean(<<>>, gone)
  BY DEF Proper, Clean
<1>2. released' = FALSE /\ own' = <<>>
  BY GoesFrame
<1>3. CASE resident' = resident /\ mem' = mem
  BY <1>1, <1>2, <1>3 DEF AgentClean
<1>4. CASE resident' = FALSE /\ mem' = <<>>
  BY <1>1, <1>2, <1>4 DEF AgentClean
<1> QED
  BY <1>3, <1>4, GoesFrame

\* An agent that is built has the stored rows.
LEMMA BootstrapRows ==
    ASSUME Typed, StoredClean, AgentClean, Bootstrap, Landed => Landed', UNCHANGED <<made, gone, released, own>>
    PROVE  AgentClean'
<1> DEFINE front == SubSeq(rows, 1, Len(rows) - StripLen(rows))
<1>1. rows \in Seq(Row) /\ made \in Nat /\ pending \in Seq(Entry)
  BY DEF Typed, StoreTypes, HistoryTypes, EngineTypes, Transcript
<1>2. Proper(front, made) /\ Clean(front, gone)
  BY <1>1, StripLenTyped, PrefixClean DEF StoredClean
<1>3. resident' = TRUE /\ mem' = IF resident THEN mem ELSE front
  BY DEF Bootstrap
<1> HIDE DEF front
<1>4. Proper(mem', made) /\ (~Landed => Clean(mem', gone))
  BY <1>2, <1>3 DEF AgentClean
<1> QED
  BY <1>3, <1>4 DEF AgentClean

\* A user's row behind the stored ones.
LEMMA TailRows ==
    ASSUME Typed, StoredClean, NEW t \in Texts, StoresTail(t), UNCHANGED <<made, gone>>
    PROVE  StoredClean'
<1>1. rows \in Seq(Row) /\ made \in Nat
  BY DEF Typed, StoreTypes, HistoryTypes, Transcript
<1>2. Proper(rows', made) /\ Clean(rows', gone)
  BY <1>1, UserBehind DEF StoresTail, StoredClean
<1> QED
  BY <1>2 DEF StoredClean

\* A snapshot of the running generation.
LEMMA SlotRows ==
    ASSUME NEW grown, gen \in Nat, gen' = gen, slot' = <<[rows |-> grown, gen |-> gen]>>,
           Proper(grown, made'), Clean(grown, gone')
    PROVE  SlotClean'
<1>1. slot'[1].rows = grown /\ slot'[1].gen = gen
  OBVIOUS
<1>2. Proper(slot'[1].rows, made') /\ Clean(slot'[1].rows, gone')
  BY <1>1, Zenon
<1>3. slot'[1].gen <= gen'
  BY <1>1
<1> QED
  BY <1>2, <1>3 DEF SlotClean

\* Every step keeps the transcripts free of what was cut.
LEMMA RowsKeep ==
    ASSUME Typed, OneHolds, HoldsTokens, TurnInHand, KeptIsThere, AgentIsThere, RowsInv, Next
    PROVE  RowsInv'
<1> USE DEF store, turn, agent, client, bounds, ghosts, RowsInv
<1>0. /\ Rewinds \subseteq Jobs /\ Posts \subseteq Jobs /\ Drain \in Jobs
      /\ gen \in Nat /\ made \in Nat
      /\ rows \in Seq(Row) /\ mem \in Seq(Row) /\ Hand \in Seq(Row) /\ slot \in Seq(Snapshot)
      /\ pending \in Seq(Entry) /\ base \in Nat
  BY HandFrame DEF Jobs, Typed, EngineTypes, StoreTypes, HistoryTypes, Transcript
<1>1. ASSUME UNCHANGED <<rows, made, gone>> PROVE StoredClean'
  BY <1>1 DEF StoredClean
<1>2. ASSUME UNCHANGED <<mem, resident, own, released, made, gone>>, Landed => Landed' PROVE AgentClean'
  BY <1>2 DEF AgentClean
<1>3. ASSUME UNCHANGED <<slot, gen, made, gone>> \/ slot' = <<>> PROVE SlotClean'
  BY <1>3 DEF SlotClean
<1>4. ASSUME Aside, at' = at PROVE RowsInv'
  <2>1. UNCHANGED <<made, gone>> /\ (Landed => Landed')
    BY <1>4, AsideFrame DEF Landed
  <2>2. CASE Writes
    <3>1. UNCHANGED <<mem, resident, own, released>> /\ slot # <<>> /\ slot' = <<>>
      BY <2>2 DEF Writes
    <3>2. \/ rows' = rows
          \/ (slot[1].gen = gen) /\ (rows' = slot[1].rows)
      <4>1. CASE slot[1].gen = gen /\ IsPrefix(rows, slot[1].rows)
        BY <2>2, <4>1 DEF Writes
      <4>2. CASE ~(slot[1].gen = gen /\ IsPrefix(rows, slot[1].rows))
        BY <2>2, <4>2 DEF Writes
      <4> QED
        BY <4>1, <4>2
    <3>3. StoredClean'
      BY <2>1, <3>1, <3>2 DEF StoredClean, SlotClean
    <3> QED
      BY <1>2, <1>3, <2>1, <3>1, <3>3
  <2>3. CASE ForeignAppends \/ \E q \in Queued : Stores(q)
    <3>1. UNCHANGED <<mem, resident, own, released, slot, gen>> /\ \E t \in Texts : StoresTail(t)
      BY <2>3, SomeTexts DEF ForeignAppends, Stores
    <3> QED
      BY <1>2, <1>3, <2>1, <3>1, TailRows
  <2>4. CASE Releases \/ ResetReleases
    <3>1. UNCHANGED <<rows, slot, gen>> /\ (Release \/ UNCHANGED <<mem, resident, own, released>>)
      BY <2>4 DEF Releases, ResetReleases
    <3>2. ~(InHand # {} /\ Landed)
      <4>1. SUFFICES ASSUME NEW j \in InHand, NEW r \in Rewinds, at[r] = "landed" PROVE FALSE
        BY DEF Landed
      <4>2. j \in Holders /\ r \in Holders /\ j # r
        BY <1>0, <4>1, HoldersAre DEF InHand, Outside
      <4> QED
        BY <4>2 DEF OneHolds
    <3>3. AgentClean'
      BY <1>2, <2>1, <3>1, <3>2, ReleasesRows
    <3> QED
      BY <1>1, <1>3, <2>1, <3>1, <3>3
  <2>5. CASE UNCHANGED <<rows, gen, slot, mem, resident, own, released>>
    BY <1>1, <1>2, <1>3, <2>1, <2>5
  <2> QED
    BY <1>4, <2>2, <2>3, <2>4, <2>5 DEF Aside, Prepare, Expires, Cancel, Closes, ResetFails, Overlaps
<1>5. ASSUME NEW q \in Queued, Reserves(q) PROVE RowsInv'
  <2>1. UNCHANGED <<rows, gen, slot, made, gone, mem, resident, own, released>> /\ (Landed => Landed')
    BY <1>5 DEF Reserves, Landed
  <2> QED
    BY <1>1, <1>2, <1>3, <2>1
<1>6. ASSUME NEW j \in Jobs, NEW to \in Outside, at[j] \in Outside, at' = [at EXCEPT ![j] = to],
             \/ j \in Rewinds /\ (Send(j) \/ Hears(j) \/ Refuses(j))
             \/ j \in Posts /\ (Post(j) \/ StrayPersists(j))
             \/ StrayBoots(j)
      PROVE  RowsInv'
  <2>1. Landed => Landed'
    BY <1>6, OutsideMoves
  <2>2. CASE j \in Rewinds /\ Refuses(j)
    <3>1. UNCHANGED <<rows, gen, slot, made, gone>> /\ Goes(j)
      BY <2>2, RefusesFrame
    <3> QED
      BY <1>1, <1>3, <2>1, <3>1, GoesRows
  <2>3. CASE StrayBoots(j)
    <3>1. UNCHANGED <<rows, gen, slot, made, gone, own, released>> /\ Bootstrap
      BY <2>3 DEF StrayBoots
    <3> QED
      BY <1>1, <1>3, <2>1, <3>1, BootstrapRows
  <2>4. CASE j \in Posts /\ StrayPersists(j)
    <3>1. UNCHANGED <<gen, slot, made, gone, mem, resident, own, released>> /\ StoresTail(j) /\ j \in Texts
      BY <2>4, SomeTexts DEF StrayPersists
    <3> QED
      BY <1>2, <1>3, <2>1, <3>1, TailRows
  <2>5. CASE (j \in Rewinds /\ (Send(j) \/ Hears(j))) \/ (j \in Posts /\ Post(j))
    <3>1. UNCHANGED <<rows, gen, slot, made, gone, mem, resident, own, released>>
      BY <2>5 DEF Send, Hears, Post
    <3> QED
      BY <1>1, <1>2, <1>3, <2>1, <3>1
  <2> QED
    BY <1>6, <2>2, <2>3, <2>4, <2>5
<1>7. ASSUME NEW r \in Rewinds, NEW i \in DOMAIN rows, LockFree, Lands(r, i) PROVE RowsInv'
  <2> DEFINE kept == SubSeq(rows, 1, i - 1)
             cut == {row \in {rows[k] : k \in i .. Len(rows)} : row.by = "agent"}
  <2>1. rows' = Append(kept, UserRow(carry[r].text, NextUserSeq(kept))) /\ gone' = gone \cup cut
        /\ gen' = gen + 1 /\ UNCHANGED <<made, mem, slot, resident, own, released>>
    BY <1>7 DEF Lands, NextGen
  <2>2. carry[r].text \in Texts
    BY <1>7 DEF HoldsTokens, Lands
  <2>3. CutReplies(gone', made) /\ Clean(kept, gone')
    BY <1>0, <2>1, CutClean DEF StoredClean
  <2>4. i - 1 \in 0..Len(rows)
    BY <1>0
  <2>5. kept \in Seq(Row) /\ Proper(kept, made)
    BY <1>0, <2>4, PrefixTyped, PrefixClean DEF StoredClean
  <2>6. Landed'
    BY <1>0, <1>7 DEF Lands, Landed, Typed, EngineTypes
  <2>7. ~released
    BY <1>7, NobodyHolds DEF AgentIsThere
  <2> HIDE DEF kept, cut
  <2>8. Proper(rows', made) /\ Clean(rows', gone')
    BY <1>0, <2>1, <2>2, <2>3, <2>5, UserBehind
  <2>9. StoredClean' /\ AgentClean'
    BY <2>1, <2>3, <2>6, <2>7, <2>8 DEF StoredClean, AgentClean
  <2>10. slot # <<>> => slot[1].gen \in Nat
    <3>1. slot # <<>> => slot[1] \in Snapshot
      BY <1>0, TailTyped
    <3> QED
      BY <3>1 DEF Snapshot
  <2>11. slot' # <<>> => Proper(slot'[1].rows, made') /\ slot'[1].gen <= gen' /\ slot'[1].gen # gen'
    BY <1>0, <2>1, <2>10 DEF SlotClean
  <2> QED
    BY <2>9, <2>11 DEF SlotClean
<1>8. ASSUME NEW j \in Jobs, NEW to \in {"persisted", "ready"}, LockFree, at' = [at EXCEPT ![j] = to],
             (j \in Posts /\ Persists(j)) \/ Drains
      PROVE  RowsInv'
  <2>1. UNCHANGED <<gen, slot, made, gone, mem, resident, own, released>> /\ ~Landed
    BY <1>8, NobodyHolds DEF Persists, Drains
  <2>2. rows' = rows \/ \E t \in Texts : StoresTail(t)
    BY <1>8, SomeTexts DEF Persists, Drains
  <2>3. StoredClean'
    BY <1>1, <2>1, <2>2, TailRows
  <2> QED
    BY <1>2, <1>3, <2>1, <2>3
<1>9. ASSUME NEW r \in Rewinds, Adopts(r) PROVE RowsInv'
  <2>1. UNCHANGED <<rows, gen, slot, made, gone, resident, own, released>>
        /\ mem' = (IF resident THEN SubSeq(rows, 1, base) ELSE mem)
    BY <1>9 DEF Adopts
  <2>2. base \in 0..Len(rows)
    BY <1>0, <1>9 DEF Adopts, Landed, KeptIsThere
  <2>3. Proper(SubSeq(rows, 1, base), made) /\ Clean(SubSeq(rows, 1, base), gone)
    BY <1>0, <2>2, PrefixClean DEF StoredClean
  <2>4. Clean(<<>>, gone)
    BY DEF Clean
  <2>5. AgentClean'
    BY <2>1, <2>3, <2>4 DEF AgentClean
  <2> QED
    BY <1>1, <1>3, <2>1, <2>5
<1>10. ASSUME NEW j \in Jobs, at[j] \notin Outside, Pushes(j) \/ Picks(j) \/ Shifts(j) PROVE RowsInv'
  <2>1. UNCHANGED <<rows, gen, slot, made, gone, mem, resident, own, released>> /\ at[j] # "landed"
        /\ \E to \in Places : at' = [at EXCEPT ![j] = to]
    BY <1>10 DEF Pushes, Picks, Shifts, Places
  <2> QED
    BY <1>1, <1>2, <1>3, <1>10, <2>1, AloneHolds
<1>11. ASSUME NEW j \in Jobs, at[j] \notin Outside, Stops(j) PROVE RowsInv'
  <2>1. UNCHANGED <<rows, gen, slot, made, gone>> /\ Goes(j) /\ at[j] # "landed" /\ at' = [at EXCEPT ![j] = "done"]
    BY <1>11, StopsFrame
  <2>2. ~Landed
    BY <1>11, <2>1, AloneHolds DEF Places
  <2> QED
    BY <1>1, <1>3, <2>1, <2>2, GoesRows
<1>12. ASSUME NEW j \in Jobs, at[j] \notin Outside, Boots(j) PROVE RowsInv'
  <2>1. UNCHANGED <<rows, gen, slot, made, gone, own, released>> /\ Bootstrap
        /\ at[j] = "ready" /\ at' = [at EXCEPT ![j] = "draining"]
    BY <1>12 DEF Boots
  <2>2. ~Landed
    BY <1>12, <2>1, AloneHolds DEF Places
  <2> QED
    BY <1>1, <1>3, <2>1, <2>2, BootstrapRows
<1>13. ASSUME NEW j \in Jobs, at[j] \in {"picked", "turning", "saving"}, NEW to \in Places, at' = [at EXCEPT ![j] = to]
       PROVE  ~Landed /\ InHand # {}
  BY <1>13, AloneHolds DEF Outside
<1>14. ASSUME NEW j \in Jobs, Begins(j) PROVE RowsInv'
  <2> DEFINE grown == Append(Hand, UserRow(Head(pending).text, NextUserSeq(Hand)))
  <2>1. UNCHANGED <<rows, gen, made, gone, resident, released>> /\ Works(grown) /\ slot' = <<[rows |-> grown, gen |-> gen]>>
        /\ at[j] = "picked" /\ at' = [at EXCEPT ![j] = "turning"]
    BY <1>14 DEF Begins
  <2>2. InTurn /\ ~Landed /\ InHand # {}
    BY <1>13, <2>1 DEF InTurn, Places
  <2>3. Head(pending).text \in Texts
    BY <2>2, FrontTyped DEF TurnInHand
  <2>4. Proper(grown, made) /\ Clean(grown, gone)
    BY <1>0, <2>2, <2>3, HandRows, UserBehind DEF StoredClean
  <2>5. grown \in Seq(Row)
    BY <2>2, GrownTyped DEF Transcript
  <2> HIDE DEF grown
  <2>6. AgentClean'
    BY <2>1, <2>2, <2>4, <2>5, WorksRows
  <2>7. SlotClean'
    BY <1>0, <2>1, <2>4, SlotRows
  <2> QED
    BY <1>1, <2>1, <2>6, <2>7
<1>15. ASSUME NEW j \in Jobs, Replies(j) PROVE RowsInv'
  <2> DEFINE grown == Append(Hand, Reply(made + 1))
  <2>1. UNCHANGED <<rows, gen, gone, resident, released>> /\ made' = made + 1
        /\ Works(grown) /\ slot' = <<[rows |-> grown, gen |-> gen]>>
        /\ at[j] = "turning" /\ at' = [at EXCEPT ![j] = "saving"]
    BY <1>15 DEF Replies
  <2>2. ~Landed /\ InHand # {}
    BY <1>13, <2>1 DEF Places
  <2>3. /\ Reply(made + 1) \in Row /\ Reply(made + 1).seq = made + 1 /\ Reply(made + 1) \notin gone
        /\ CutReplies(gone, made + 1) /\ Proper(rows, made + 1) /\ Proper(Hand, made + 1) /\ Reply(made + 1) \notin Range(Hand)
    BY <1>0, NextReply, HandRows DEF StoredClean
  <2>4. Proper(grown, made + 1) /\ Clean(grown, gone)
    BY <1>0, <2>2, <2>3, HandRows, ReplyBehind
  <2>5. grown \in Seq(Row)
    BY <1>0, <2>3
  <2> HIDE DEF grown
  <2>6. AgentClean'
    BY <2>1, <2>2, <2>4, <2>5, WorksRows
  <2>7. SlotClean'
    BY <1>0, <2>1, <2>4, SlotRows
  <2>8. StoredClean'
    BY <2>1, <2>3 DEF StoredClean
  <2> QED
    BY <2>6, <2>7, <2>8
<1>16. ASSUME NEW j \in Jobs, Saves(j) PROVE RowsInv'
  <2>1. UNCHANGED <<gen, slot, made, gone, resident, released>> /\ Works(rows')
        /\ at[j] = "saving" /\ at' = [at EXCEPT ![j] = "shifting"]
    BY <1>16 DEF Saves
  <2>2. ~Landed /\ InHand # {} /\ Turning
    BY <1>13, <2>1 DEF Turning, Places
  <2>3. Hand # <<>> /\ Proper(Hand, made) /\ Clean(Hand, gone)
    BY <2>2, HandRows DEF TurnInHand
  <2>4. Last(Hand) \in Row /\ Last(Hand) = Hand[Len(Hand)] /\ Len(Hand) \in DOMAIN Hand
    BY <1>0, <2>3, LastTyped
  <2>5. Last(Hand) \notin gone /\ (Last(Hand).by = "agent" => Last(Hand).seq <= made)
    BY <2>3, <2>4 DEF Clean, Proper
  <2>6. \/ rows' = Hand \/ rows' = rows
        \/ Last(Hand) \notin Range(rows) /\ rows' = Append(rows, Last(Hand))
    BY <1>16 DEF Saves
  <2>7. Proper(rows', made) /\ Clean(rows', gone) /\ rows' \in Seq(Row)
    <3>1. CASE rows' = Hand
      BY <1>0, <2>3, <3>1
    <3>2. CASE rows' = rows
      BY <1>0, <3>2 DEF StoredClean
    <3>3. CASE Last(Hand) \notin Range(rows) /\ rows' = Append(rows, Last(Hand))
      <4>1. Proper(rows, made) /\ Clean(rows, gone)
        BY <1>0 DEF StoredClean
      <4>2. Proper(Append(rows, Last(Hand)), made) /\ Clean(Append(rows, Last(Hand)), gone)
        BY <1>0, <2>4, <2>5, <3>3, <4>1, ReplyBehind
      <4> QED
        BY <1>0, <2>4, <3>3, <4>2
    <3> QED
      BY <2>6, <3>1, <3>2, <3>3
  <2>8. StoredClean'
    BY <2>1, <2>7 DEF StoredClean
  <2>9. AgentClean'
    BY <2>1, <2>2, <2>7, WorksRows
  <2> QED
    BY <1>3, <2>1, <2>8, <2>9
<1>17. CASE ResetMoves \/ Crash
  <2>1. UNCHANGED <<rows, made, gone>> /\ mem' = <<>> /\ own' = <<>> /\ slot' = <<>>
    BY <1>17 DEF ResetMoves, Crash
  <2>2. Clean(<<>>, gone) /\ Proper(<<>>, made)
    BY DEF Clean, Proper
  <2>3. AgentClean'
    BY <2>1, <2>2 DEF AgentClean
  <2> QED
    BY <1>1, <1>3, <2>1, <2>3
<1> QED
  BY <1>4, <1>5, <1>6, <1>7, <1>8, <1>9, <1>10, <1>11, <1>12, <1>14, <1>15, <1>16, <1>17, JobSteps

-----------------------------------------------------------------------------
(* The theorems. *)

\* The inductive invariant.
Inv == /\ Typed /\ OneHolds /\ TurnInHand /\ HoldsTokens /\ KeptIsThere /\ AgentIsThere
       /\ SeenOrMoved /\ UsedOnce
       /\ QueueOfEntered /\ DeadAreOut /\ CommittedIsQueued
       /\ RowsInv

\* The invariant holds initially.
LEMMA InitInv ==
    ASSUME Init
    PROVE  Inv
<1>1. \A j \in Jobs : at[j] = "new"
  BY DEF Init
<1>2. ~Landed /\ ~Turning /\ ~InTurn /\ Holders = {} /\ InHand = {} /\ ~released
  BY <1>1 DEF Init, Landed, Turning, InTurn, Holders, InHand, Jobs
<1>3. OneHolds /\ TurnInHand /\ KeptIsThere /\ AgentIsThere
  BY <1>1, <1>2 DEF OneHolds, TurnInHand, KeptIsThere, AgentIsThere
<1>4. StoreTypes
  <2>1. mem \in {Conversation, <<>>} /\ rows = Conversation /\ gen = 0 /\ res = NoRewind /\ slot = <<>>
        /\ own = <<>>
    BY DEF Init
  <2>2. <<>> \in Seq(Row) /\ <<>> \in Seq(Snapshot) /\ 0 \in Nat
    OBVIOUS
  <2>3. Conversation \in Seq(Row) /\ NoRewind \in Resource
    BY ConversationTyped, NoRewindTyped
  <2>4. mem \in Seq(Row)
    BY <2>1, <2>2, <2>3
  <2> QED
    BY <2>1, <2>2, <2>3, <2>4 DEF StoreTypes, Transcript
<1>5. EngineTypes
  <2>1. resident \in BOOLEAN /\ closing = FALSE /\ pending = <<>> /\ base = 0
        /\ released = FALSE /\ active = FALSE /\ dropped = {} /\ resetting = FALSE /\ overlapped = FALSE
    BY DEF Init
  <2>2. at \in [Jobs -> Places] /\ request \in [Queued -> {"new", "reserved", "stored"}]
    BY DEF Init, Places
  <2>3. pending \in Seq(Entry)
    BY <2>1
  <2> QED
    BY <2>1, <2>2, <2>3 DEF EngineTypes
<1>6. ClientTypes
  BY DEF Init, ClientTypes, NoTab, Record
<1>7. HistoryTypes
  BY TextsAssumption DEF Init, HistoryTypes
<1>8. HoldsTokens
  BY <1>1 DEF Init, HoldsTokens, Jobs
<1>9. SeenOrMoved
  BY DEF Init, SeenOrMoved, NoRewind
<1>10. Range(commits) = {} /\ Range(begun) = {} /\ commits = <<>> /\ begun = <<>> /\ pending = <<>> /\ dead = {}
  BY DEF Init, Range
<1>11. UsedOnce
  <2>1. res.token = 0 /\ tokens = 0
    BY DEF Init, NoRewind
  <2> QED
    BY <1>10, <2>1 DEF UsedOnce
<1>12. QueueOfEntered /\ DeadAreOut /\ CommittedIsQueued
  BY <1>10 DEF QueueOfEntered, DeadAreOut, CommittedIsQueued
<1>13. RowsInv
  <2>1. rows = Conversation /\ made = Len(History) /\ gone = {} /\ slot = <<>>
        /\ mem = (IF resident THEN Conversation ELSE <<>>) /\ own = <<>>
    BY DEF Init
  <2>2. Proper(Conversation, made)
    <3>1. made \in Nat
      BY <1>7 DEF HistoryTypes
    <3>2. DOMAIN Conversation = 1 .. 2 * made
      BY <2>1, ConversationTyped
    <3>3. \A k \in DOMAIN Conversation : Conversation[k].by = "agent" =>
             k % 2 = 0 /\ Conversation[k] = Reply(k \div 2) /\ Conversation[k].seq = k \div 2
      BY ConversationTyped DEF Reply
    <3>4. \A k \in 1 .. 2 * made : k \div 2 <= made
      BY <3>1
    <3>5. \A k, m \in 1 .. 2 * made : k % 2 = 0 /\ m % 2 = 0 /\ k \div 2 = m \div 2 => k = m
      BY <3>1
    <3> QED
      BY <3>2, <3>3, <3>4, <3>5 DEF Proper
  <2>3. Proper(<<>>, made) /\ Clean(<<>>, gone)
    BY DEF Proper, Clean
  <2>4. Clean(Conversation, gone) /\ CutReplies(gone, made)
    BY <2>1 DEF Clean, CutReplies
  <2>5. Proper(mem, made) /\ Clean(mem, gone) /\ (~resident => mem = <<>>)
    BY <2>1, <2>2, <2>3, <2>4
  <2>6. StoredClean
    BY <2>1, <2>2, <2>4 DEF StoredClean
  <2>7. AgentClean
    BY <1>2, <2>1, <2>3, <2>5 DEF AgentClean
  <2>8. SlotClean
    BY <2>1 DEF SlotClean
  <2> QED
    BY <2>6, <2>7, <2>8 DEF RowsInv
<1> QED
  BY <1>3, <1>4, <1>5, <1>6, <1>7, <1>8, <1>9, <1>11, <1>12, <1>13 DEF Inv, Typed

\* Every step keeps the invariant.
LEMMA NextInv ==
    ASSUME Inv, Next
    PROVE  Inv'
<1>1. Typed'
  BY StoreTypesKeep, EngineTypesKeep, ClientTypesKeep, HistoryTypesKeep DEF Inv, Typed
<1>2. HoldsTokens'
  BY ClientTypesKeep DEF Inv
<1>3. OneHolds' /\ TurnInHand' /\ KeptIsThere' /\ AgentIsThere'
  BY OneHoldsKeep, TurnKeeps, KeptKeeps, AgentKeeps DEF Inv
<1>4. SeenOrMoved' /\ UsedOnce'
  BY SeenKeeps, UsedOnceKeeps DEF Inv
<1>5. QueueOfEntered' /\ DeadAreOut' /\ CommittedIsQueued'
  BY QueueKeeps, CommittedKeeps DEF Inv
<1>6. RowsInv'
  BY RowsKeep DEF Inv
<1> QED
  BY <1>1, <1>2, <1>3, <1>4, <1>5, <1>6 DEF Inv

\* So does a step that changes nothing.
LEMMA StutterInv ==
    ASSUME Inv, UNCHANGED vars
    PROVE  Inv'
<1> USE DEF vars, store, turn, agent, client, bounds, ghosts, Inv
<1>1. Typed'
  BY DEF Typed, StoreTypes, EngineTypes, ClientTypes, HistoryTypes
<1>2. OneHolds' /\ TurnInHand' /\ HoldsTokens' /\ KeptIsThere' /\ AgentIsThere'
  BY DEF OneHolds, Holders, Strays, TurnInHand, InTurn, Turning, Hand, HoldsTokens, KeptIsThere, Landed,
         AgentIsThere, InHand
<1>3. SeenOrMoved' /\ UsedOnce'
  BY DEF SeenOrMoved, UsedOnce
<1>4. QueueOfEntered' /\ DeadAreOut' /\ CommittedIsQueued'
  BY DEF QueueOfEntered, DeadAreOut, CommittedIsQueued, Entered, InTurn, Landed
<1>5. RowsInv'
  BY DEF RowsInv, StoredClean, AgentClean, SlotClean, Landed
<1> HIDE DEF Inv
<1> QED
  BY <1>1, <1>2, <1>3, <1>4, <1>5 DEF Inv

\* The invariant holds in every state, from any conversation, with any number of
\* sends, posts, queue requests, crashes, releases, Closes and moves, each at any
\* point at which the code lets it through, until two jobs overlap.
THEOREM Inductive == Spec => []Inv
<1>1. Inv /\ [Next]_vars => Inv'
  BY NextInv, StutterInv
<1> QED
  BY <1>1, InitInv, PTL DEF Spec

\* Every variable has its type.
THEOREM TypeCorrect == Spec => []TypeOK
<1>1. Inv => TypeOK
  BY TypeParts DEF Inv, Typed
<1> QED
  BY <1>1, Inductive, PTL

\* What a rewind cut stays cut, until two jobs overlap: the live writer's snapshot
\* of the generation before is dropped, the transcript of a turn began behind the
\* kept rows, the agent's own or a released one's, and the queue of the messages
\* that were cut is gone before another turn begins, unless a reset-id has left it.
THEOREM CutStaysGone == Spec => []CutIsGone
<1>1. Inv => CutIsGone
  <2> SUFFICES ASSUME Inv PROVE CutIsGone
    OBVIOUS
  <2>1. rows \in Seq(Row) /\ Hand \in Seq(Row)
    BY HandFrame DEF Inv, Typed, StoreTypes, Transcript
  <2>2. gone \cap Range(rows) = {}
    BY <2>1 DEF Inv, RowsInv, StoredClean, Clean, Range
  <2>3. ASSUME NEW j \in Jobs, at[j] \in {"turning", "saving"} PROVE gone \cap Range(Hand) = {}
    <3>1. Rewinds \subseteq Jobs
      BY DEF Jobs
    <3>2. ~Landed
      BY <2>3, <3>1, OthersWait DEF Landed, Inv, Outside
    <3>3. Clean(Hand, gone)
      BY <3>2, HandRows DEF Inv, RowsInv
    <3> QED
      BY <2>1, <3>3 DEF Clean, Range
  <2>4. dead \cap Range(begun) \subseteq left
    BY DEF Inv, DeadAreOut
  <2> QED
    BY <2>2, <2>3, <2>4 DEF CutIsGone
<1> QED
  BY <1>1, Inductive, PTL

\* A token cuts the transcript once and its text is turned once, whatever retries,
\* crashes, releases and moves come between, until two jobs overlap; a reset-id
\* that overtakes a job with that text in hand leaves it to be turned again.
THEOREM TokenUsedOnce == Spec => []SingleUse
<1>1. Inv => SingleUse
  BY DEF Inv, UsedOnce, QueueOfEntered, SingleUse
<1> QED
  BY <1>1, Inductive, PTL

\* A row stored after the preparation is cut only under a token that a reset-id
\* gave another fingerprint.
THEOREM CommitSaw == Spec => []CommitsWhatWasSeen
<1>1. Inv => CommitsWhatWasSeen
  BY DEF Inv, SeenOrMoved, CommitsWhatWasSeen
<1> QED
  BY <1>1, Inductive, PTL

\* The text of a committed rewind is turned or queued, until two jobs overlap, unless
\* a crash or a later rewind emptied the queue, or a reset-id moved it before the
\* commit had put the text there.
THEOREM CommitQueued == Spec => []CommittedIsQueued
<1>1. Inv => CommittedIsQueued
  BY DEF Inv
<1> QED
  BY <1>1, Inductive, PTL
=============================================================================
