---------------------------- MODULE PendingRewind ----------------------------
(***************************************************************************)
(* The deferred rewind of a session (internal/session/pending_rewind.go):  *)
(* a client prepares a token for a user's row and edits the restored text; *)
(* its next send carries the token, and one transaction cuts that row and  *)
(* all that follow and stores the text in their place.                     *)
(*                                                                         *)
(* Actors.  The client, whose record of its token survives a reload; the   *)
(* jobs of its sends, of plain posts and of the queue's drainer, under the *)
(* turn lock; queue requests, without it; the live writer; another process *)
(* that appends; Stop; the idle sweep and Close, which release the agent   *)
(* and take the turn lock from its map, whatever job holds it; reset-id,   *)
(* which moves the session to a new id under the jobs of the old one; a    *)
(* crash of the server.                                                    *)
(*                                                                         *)
(* The session is followed until two jobs run at once, which they can once *)
(* the lock of one is not in the map any more: see Overlaps.  What two     *)
(* jobs do to each other is SessionTurns's.                                *)
(*                                                                         *)
(* The turn engine is that of SessionTurns, reduced: the turn lock         *)
(* excludes, a turn has one reply, a conflicting save merges in one step,  *)
(* a Stop is the early exit it causes, and the live worker takes and       *)
(* writes its snapshot at once.  A reply's row has a number of its own, so *)
(* that no later row equals it by chance.                                  *)
(***************************************************************************)
EXTENDS SequencesExt

CONSTANTS
  Rewinds,    \* sends that carry a token; one more of the same token is a retry
  Posts,      \* sends without one
  Queued,     \* messages of queue requests
  Drain,      \* the drainer's job
  Foreign,    \* the text another process appends
  History,    \* the texts turned before
  None,       \* no text
  MaxTokens,  \* bound: prepared tokens
  MaxOdds     \* bound: the steps that a plain run does not have, see Odd

Jobs == Rewinds \cup Posts \cup {Drain}
Texts == Rewinds \cup Posts \cup Queued \cup Range(History) \cup {Foreign}

ASSUME TextsAssumption == /\ History \in Seq(Texts)
                          /\ None \notin Texts
                          /\ Drain \notin Texts
                          /\ Rewinds \cap (Posts \cup Queued) = {}
                          /\ Posts \cap Queued = {}
ASSUME BoundsAssumption == MaxTokens \in Nat /\ MaxOdds \in Nat

VARIABLES
  \* --- the session's database
  rows, gen,     \* messages, meta.history_gen
  res,           \* the row of pending_rewinds
  \* --- the server's memory
  resident, mem, \* is there an agent, and its transcript
  released, own, \* is the running job's agent another, and that one's transcript
  active,        \* sessionEntry.turnActive
  dropped,       \* the jobs whose mutex is not the one in turnLocks[id]
  resetting,     \* is a reset-id between its release and its move
  pending,       \* sessionEntry.pending, with the job each entry is from
  closing,       \* Handler.closePending[id]
  slot,          \* the live writer's snapshot, with its generation
  at,            \* where each job is
  base,          \* the running job's: the rows kept, or its turn's base
  request,       \* where each queue request is
  \* --- the client
  tab,           \* the token and draft in its local storage
  carry,         \* what each tokenized send carries
  \* --- bounds and history variables
  tokens, odds,  \* tokens prepared, steps spent
  made,          \* replies numbered so far
  gone,          \* reply rows a commit cut
  dead,          \* pending entries whose rows a commit cut
  commits,       \* the sends that committed, in order
  begun,         \* the sources of the turns, in the order they began
  blind, moved,  \* tokens: committed over other rows than seen; re-fingerprinted
  lost,          \* messages out of pending by a crash, a later rewind or a reset-id
  left,          \* messages in pending by a reset-id that should be out of it
  overlapped     \* have two jobs run at once

store  == <<rows, gen, res>>
turn   == <<released, own, active, dropped>>
agent  == <<resident, mem, closing, turn>>
client == <<tab, carry>>
bounds == <<tokens, odds>>
ghosts == <<made, gone, dead, commits, begun, blind, moved, lost, left>>
vars == <<store, agent, pending, slot, at, base, request, resetting, client, bounds, ghosts, overlapped>>

UserRow(t, n) == [by |-> "user", text |-> t, seq |-> n]
Reply(n) == [by |-> "agent", text |-> None, seq |-> n]

NextUserSeq(rs) ==
  1 + Max({0} \cup {rs[i].seq : i \in {k \in DOMAIN rs : rs[k].by = "user"}})

NoTab == [token |-> 0, text |-> None]
NoRewind == [token |-> 0, text |-> None, seq |-> 0, fp |-> <<>>, status |-> "none",
             expired |-> FALSE, seen |-> <<>>]

\* Jobs that a reset-id overtook: they are called with the old id.
Strays == {j \in Jobs : at[j] \in {"adrift", "unheard", "overtaken"}}

\* The turn lock is held from the persist or the commit on.
Holders == {j \in Jobs : at[j] \notin {"new", "waiting", "done"}} \ Strays
LockFree == Holders = {}

\* The jobs that have fetched a mutex: when onEvict deletes it from its map they
\* go on with it.
InFlight == Holders \cup {j \in Jobs : at[j] = "waiting"}

\* The running job has an agent in hand from its bootstrap on, and works on that
\* one's transcript when the agent is released.
InHand == {j \in Jobs : at[j] \in {"draining", "picked", "turning", "saving", "shifting"}}
Hand == IF released THEN own ELSE mem
Works(transcript) == /\ mem' = IF released THEN mem ELSE transcript
                     /\ own' = IF released THEN transcript ELSE own

\* Two jobs have not run at once.
Followed == ~overlapped /\ UNCHANGED overlapped

\* An edit of the text, a lost answer, an expiry, a failed commit, a queue request, a
\* Stop or a failed bootstrap, another process, a release, a Close, a reset-id, a crash.
Odd == odds < MaxOdds /\ odds' = odds + 1

\* What one client's record becomes, unless the answer that says so is lost.
Records(new) == \/ tab' = new /\ UNCHANGED odds
                \/ tab' = tab /\ tab # new /\ Odd

\* appendUserMessageTail
StoresTail(text) == rows' = Append(rows, UserRow(text, NextUserSeq(rows)))

\* A conversation turned to its end.
Conversation == [i \in 1 .. 2 * Len(History) |->
                   IF i % 2 = 1 THEN UserRow(History[(i + 1) \div 2], (i + 1) \div 2)
                                ELSE Reply(i \div 2)]

Init ==
  /\ rows = Conversation /\ gen = 0 /\ res = NoRewind
  /\ resident \in BOOLEAN /\ mem = IF resident THEN Conversation ELSE <<>>
  /\ released = FALSE /\ own = <<>> /\ active = FALSE
  /\ dropped = {} /\ resetting = FALSE /\ overlapped = FALSE
  /\ pending = <<>> /\ closing = FALSE
  /\ slot = <<>>
  /\ at = [j \in Jobs |-> "new"] /\ base = 0
  /\ request = [q \in Queued |-> "new"]
  /\ tab = NoTab
  /\ carry = [r \in Rewinds |-> NoTab]
  /\ tokens = 0 /\ odds = 0
  /\ made = Len(History)
  /\ gone = {} /\ dead = {} /\ commits = <<>> /\ begun = <<>>
  /\ blind = {} /\ moved = {} /\ lost = {} /\ left = {}

-----------------------------------------------------------------------------
(* The resource: prepare, status, cancel. *)

\* resolvePendingRewindTarget: one user row has the user_seq, and it has the
\* content.
Resolves(i, seq, text) ==
  /\ {k \in DOMAIN rows : rows[k].by = "user" /\ rows[k].seq = seq} = {i}
  /\ rows[i].text = text

Is(token, status) == res.token = token /\ res.status = status
Armed(token) == Is(token, "armed") /\ ~res.expired

\* HandlePreparePendingRewind, under the mutex of the map: a new resource takes the
\* place of the old one, except of a committed one that has not expired.  The
\* client keeps the new token, or never hears of it.  Bound: a send is left.
Prepare(i) ==
  /\ Holders \subseteq dropped /\ ~active
  /\ \E r \in Rewinds : at[r] = "new"
  /\ Resolves(i, rows[i].seq, rows[i].text)
  /\ res.status # "committed" \/ res.expired
  /\ tokens < MaxTokens /\ tokens' = tokens + 1
  /\ res' = [token |-> tokens', text |-> rows[i].text, seq |-> rows[i].seq,
             fp |-> rows, status |-> "armed", expired |-> FALSE, seen |-> rows]
  /\ Records([token |-> tokens', text |-> rows[i].text])
  /\ Followed /\ UNCHANGED <<rows, gen, agent, pending, slot, at, base, request, resetting, carry, ghosts>>

\* 24 hours pass.
Expires ==
  /\ res.token # 0 /\ ~res.expired
  /\ Odd
  /\ res' = [res EXCEPT !.expired = TRUE]
  /\ Followed /\ UNCHANGED <<rows, gen, agent, pending, slot, at, base, request, resetting, client, tokens, ghosts>>

\* HandleCancelPendingRewind: an armed or stale resource is deleted.  The
\* client drops its record, whatever the answer, unless the answer is lost.
Cancel ==
  /\ tab # NoTab
  /\ res' = IF Armed(tab.token) \/ Is(tab.token, "stale") THEN NoRewind ELSE res
  /\ Records(NoTab)
  /\ Followed /\ UNCHANGED <<rows, gen, agent, pending, slot, at, base, request, resetting, carry, tokens, ghosts>>

-----------------------------------------------------------------------------
(* The client's sends. *)

\* A send with a token: the restored text as it was, or edited.  Its job fetches the
\* session's mutex.
Send(r) ==
  /\ at[r] = "new" /\ tab # NoTab
  /\ at' = [at EXCEPT ![r] = "waiting"]
  /\ \/ carry' = [carry EXCEPT ![r] = tab] /\ UNCHANGED odds
     \/ carry' = [carry EXCEPT ![r] = [tab EXCEPT !.text = r]] /\ Odd
  /\ Followed /\ UNCHANGED <<store, agent, pending, slot, base, request, resetting, tab, tokens, ghosts>>

\* A send without a token.
Post(p) ==
  /\ at[p] = "new"
  /\ at' = [at EXCEPT ![p] = "waiting"]
  /\ Followed /\ UNCHANGED <<store, agent, pending, slot, base, request, resetting, client, bounds, ghosts>>

-----------------------------------------------------------------------------
(* The commit: commitPendingRewindTurn, under the turn lock. *)

\* A job's last step: drainPendingClose releases the agent of a session that was
\* closed, or that has diverged, unless a turn is active.
Goes(j) ==
  /\ at' = [at EXCEPT ![j] = "done"]
  /\ \/ /\ closing /\ resident /\ ~active
        /\ resident' = FALSE /\ mem' = <<>> /\ closing' = FALSE
        /\ dropped' = InFlight \ {j}
     \/ /\ ~(closing /\ resident /\ ~active)
        /\ closing' = (closing /\ resident)
        /\ dropped' = dropped \ {j}
        /\ UNCHANGED <<resident, mem>>
  /\ released' = FALSE /\ own' = <<>>
  /\ UNCHANGED active

\* A send whose job has the lock and goes no further.
Ends(r) ==
  /\ at[r] = "waiting" /\ LockFree
  /\ Goes(r)
  /\ Followed /\ UNCHANGED <<rows, gen, pending, slot, base, request, resetting, carry, tokens, ghosts>>

\* The token is unknown, stale or expired.
CommitRefused(r) ==
  /\ ~Armed(carry[r].token) /\ ~Is(carry[r].token, "committed")
  /\ Ends(r) /\ Records(NoTab)
  /\ UNCHANGED res

\* A retry of what was committed is accepted, and starts nothing.
Repeated(r) ==
  /\ Is(carry[r].token, "committed")
  /\ Ends(r) /\ Records(NoTab)
  /\ UNCHANGED res

\* Mutant of Fresh: the fingerprint is not compared.
FreshByTarget(i) == Resolves(i, res.seq, res.text)

\* The target is where it was, and the transcript what it was.
Fresh(i) == Resolves(i, res.seq, res.text) /\ res.fp = rows

\* The transcript is another than the one prepared for.
GoesStale(r) ==
  /\ Armed(carry[r].token) /\ \A i \in DOMAIN rows : ~Fresh(i)
  /\ Ends(r) /\ Records(NoTab)
  /\ res' = [res EXCEPT !.status = "stale"]

\* The transaction rolls back.
CommitFails(r) ==
  /\ Armed(carry[r].token)
  /\ Ends(r) /\ Odd
  /\ UNCHANGED <<res, tab>>

\* Mutant of NextGen: the generation stays.
NextGenSame == gen

\* A commit moves the history generation,
NextGen == gen + 1

\* Mutant of Committed: the resource stays armed.
CommittedArmed == res

\* and marks the resource.
Committed == [res EXCEPT !.status = "committed"]

\* It commits: the target and all later rows go, the text takes their place,
\* and the history generation moves.
Lands(r, i) ==
  LET kept == SubSeq(rows, 1, i - 1)
      new  == UserRow(carry[r].text, NextUserSeq(kept))
      cut  == {rows[k] : k \in i .. Len(rows)}
  IN  /\ at[r] = "waiting" /\ LockFree
      /\ Armed(carry[r].token) /\ Fresh(i)
      /\ at' = [at EXCEPT ![r] = "landed"]
      /\ rows' = Append(kept, new)
      /\ gen' = NextGen
      /\ res' = Committed
      /\ base' = i - 1
      /\ commits' = Append(commits, r)
      /\ gone' = gone \cup {row \in cut : row.by = "agent"}
      /\ dead' = dead \cup {e.from : e \in {x \in Range(pending) : \E row \in cut : row.text = x.text}}
      /\ blind' = IF rows = res.seen THEN blind ELSE blind \cup {res.token}
      /\ Followed /\ UNCHANGED <<agent, pending, slot, request, resetting, client, bounds, made, begun, moved, lost, left>>

\* The resident transcript becomes the kept rows, the queue becomes the one
\* message, and the sender gets its 202.
Adopts(r) ==
  /\ at[r] = "landed"
  /\ at' = [at EXCEPT ![r] = "ready"]
  /\ mem' = IF resident THEN SubSeq(rows, 1, base) ELSE mem
  /\ pending' = <<[text |-> carry[r].text, from |-> r]>>
  /\ lost' = lost \cup {e.from : e \in Range(pending)}
  /\ Records(NoTab)
  /\ Followed /\ UNCHANGED <<store, resident, closing, turn, slot, base, request, resetting, carry, tokens, made, gone, dead, commits, begun, blind, moved, left>>

-----------------------------------------------------------------------------
(* The turn engine around it. *)

\* A post's row, then its place in the queue.
Persists(p) ==
  /\ at[p] = "waiting" /\ LockFree
  /\ at' = [at EXCEPT ![p] = "persisted"]
  /\ StoresTail(p)
  /\ Followed /\ UNCHANGED <<gen, res, agent, pending, slot, base, request, resetting, client, bounds, ghosts>>

Pushes(p) ==
  /\ at[p] = "persisted"
  /\ at' = [at EXCEPT ![p] = "ready"]
  /\ pending' = Append(pending, [text |-> p, from |-> p])
  /\ Followed /\ UNCHANGED <<store, agent, slot, base, request, resetting, client, bounds, ghosts>>

\* A queue request takes its place first, and without the lock.
Reserves(q) ==
  /\ request[q] = "new" /\ resident
  /\ Odd
  /\ request' = [request EXCEPT ![q] = "reserved"]
  /\ pending' = Append(pending, [text |-> q, from |-> q])
  /\ Followed /\ UNCHANGED <<store, agent, slot, at, base, resetting, client, tokens, ghosts>>

Stores(q) ==
  /\ request[q] = "reserved"
  /\ request' = [request EXCEPT ![q] = "stored"]
  /\ StoresTail(q)
  /\ Followed /\ UNCHANGED <<gen, res, agent, pending, slot, at, base, resetting, client, bounds, ghosts>>

\* The drainer's job, refused while another of this id is in flight.
Drains ==
  /\ at[Drain] = "new" /\ \E q \in Queued : request[q] = "stored"
  /\ pending # <<>> /\ resident
  /\ \A j \in Jobs \ Strays : at[j] \in {"new", "done"}
  /\ at' = [at EXCEPT ![Drain] = "ready"]
  /\ Followed /\ UNCHANGED <<store, agent, pending, slot, base, request, resetting, client, bounds, ghosts>>

\* Mutant of LeavesEarly: the message is shifted away.
LeavesEarlyShifting(j) ==
  /\ at[j] \in {"ready", "draining"} /\ pending # <<>>
  /\ Goes(j)
  /\ Odd
  /\ pending' = Tail(pending)
  /\ Followed /\ UNCHANGED <<store, slot, base, request, resetting, client, tokens, ghosts>>

\* A Stop, or a failed bootstrap: the queue is kept.
LeavesEarly(j) ==
  /\ at[j] \in {"ready", "draining"}
  /\ Goes(j)
  /\ Odd
  /\ Followed /\ UNCHANGED <<store, pending, slot, base, request, resetting, client, tokens, ghosts>>

\* pendingStripLen
StripLen(history) ==
  Max({n \in 0 .. Len(history) :
         /\ n <= Len(pending)
         /\ \A k \in 0 .. n - 1 :
              LET row == history[Len(history) - k]
              IN  row.by = "user" /\ row.text = pending[Len(pending) - k].text})

\* An agent is there, or is built from the stored rows less the queued ones.
Bootstrap ==
  /\ resident' = TRUE
  /\ mem' = IF resident THEN mem ELSE SubSeq(rows, 1, Len(rows) - StripLen(rows))

Boots(j) ==
  /\ at[j] = "ready"
  /\ at' = [at EXCEPT ![j] = "draining"]
  /\ Bootstrap
  /\ Followed /\ UNCHANGED <<store, closing, turn, pending, slot, base, request, resetting, client, bounds, ghosts>>

\* The front of the queue is this job's next turn, whatever becomes of the queue.
Picks(j) ==
  /\ at[j] = "draining" /\ pending # <<>>
  /\ at' = [at EXCEPT ![j] = "picked"]
  /\ begun' = Append(begun, Head(pending).from)
  /\ Followed /\ UNCHANGED <<store, agent, pending, slot, base, request, resetting, client, bounds, made, gone, dead, commits, blind, moved, lost, left>>

\* runTurn; its first live snapshot.
Begins(j) ==
  LET grown == Append(Hand, UserRow(Head(pending).text, NextUserSeq(Hand)))
  IN  /\ at[j] = "picked"
      /\ at' = [at EXCEPT ![j] = "turning"]
      /\ active' = TRUE
      /\ Works(grown)
      /\ base' = Len(grown)
      /\ slot' = <<[rows |-> grown, gen |-> gen]>>
      /\ Followed /\ UNCHANGED <<store, resident, closing, released, dropped, pending, request, resetting, client, bounds, ghosts>>

Replies(j) ==
  LET grown == Append(Hand, Reply(made + 1))
  IN  /\ at[j] = "turning"
      /\ at' = [at EXCEPT ![j] = "saving"]
      /\ made' = made + 1
      /\ Works(grown)
      /\ slot' = <<[rows |-> grown, gen |-> gen]>>
      /\ Followed /\ UNCHANGED <<store, resident, closing, released, active, dropped, pending, base, request, resetting, client, bounds, gone, dead, commits, begun, blind, moved, lost, left>>

\* persistTurnTranscript: the transcript extends the stored rows; or its base
\* is stored and the reply goes behind what others appended; or it converges
\* to the stored rows and the agent is to be released.
Saves(j) ==
  LET based == base <= Len(rows) /\ IsPrefix(SubSeq(Hand, 1, base), rows)
  IN  /\ at[j] = "saving"
      /\ at' = [at EXCEPT ![j] = "shifting"]
      /\ active' = FALSE
      /\ rows' = IF IsPrefix(rows, Hand) THEN Hand
                 ELSE IF based /\ Last(Hand) \notin Range(rows) THEN Append(rows, Last(Hand))
                 ELSE rows
      /\ Works(rows')
      /\ closing' = (closing \/ (~based /\ ~IsPrefix(rows, Hand)))
      /\ Followed /\ UNCHANGED <<gen, res, resident, released, dropped, pending, slot, base, request, resetting, client, bounds, ghosts>>

\* The queue is shifted, whatever the turn came to.
Shifts(j) ==
  /\ at[j] = "shifting"
  /\ at' = [at EXCEPT ![j] = "draining"]
  /\ pending' = Tail(pending)
  /\ Followed /\ UNCHANGED <<store, agent, slot, base, request, resetting, client, bounds, ghosts>>

Leaves(j) ==
  /\ at[j] = "draining" /\ pending = <<>>
  /\ Goes(j)
  /\ Followed /\ UNCHANGED <<store, pending, slot, base, request, resetting, client, bounds, ghosts>>

\* The live worker: a snapshot of this generation that extends the rows is
\* written, any other is dropped.
Writes ==
  /\ slot # <<>>
  /\ slot' = <<>>
  /\ rows' = IF slot[1].gen = gen /\ IsPrefix(rows, slot[1].rows) THEN slot[1].rows ELSE rows
  /\ Followed /\ UNCHANGED <<gen, res, agent, pending, at, base, request, resetting, client, bounds, ghosts>>

-----------------------------------------------------------------------------
(* Other processes, reset-id, crashes. *)

ForeignAppends ==
  /\ Odd
  /\ StoresTail(Foreign)
  /\ Followed /\ UNCHANGED <<gen, res, agent, pending, slot, at, base, request, resetting, client, tokens, ghosts>>

\* ReleaseAgent and EvictIdle ask only whether a turn is active: a job between two
\* turns, or before its first, keeps the agent it has in hand.
Release ==
  /\ resident /\ ~active
  /\ resident' = FALSE /\ mem' = <<>>
  /\ IF InHand # {} /\ ~released THEN released' = TRUE /\ own' = mem
                                 ELSE UNCHANGED <<released, own>>
  /\ dropped' = InFlight
  /\ UNCHANGED active

\* The idle sweep, or a Close.
Releases ==
  /\ Release
  /\ Odd
  /\ Followed /\ UNCHANGED <<store, closing, pending, slot, at, base, request, resetting, client, tokens, ghosts>>

\* HandleCloseSession that can release nothing leaves it to the next job's end.
Closes ==
  /\ ~(resident /\ ~active) /\ ~closing
  /\ Odd
  /\ closing' = TRUE
  /\ Followed /\ UNCHANGED <<store, resident, mem, turn, pending, slot, at, base, request, resetting, client, tokens, ghosts>>

\* HandleResetSessionID quiesces the session: no turn is active, the live writer
\* is flushed, the agent released.  It takes no turn lock.
ResetReleases ==
  /\ ~resetting /\ ~active /\ slot = <<>>
  /\ Odd
  /\ resetting' = TRUE
  /\ Release \/ (~resident /\ UNCHANGED <<resident, mem, turn>>)
  /\ Followed /\ UNCHANGED <<store, closing, pending, slot, at, base, request, client, tokens, ghosts>>

\* The move fails.
ResetFails ==
  /\ resetting /\ resetting' = FALSE
  /\ Followed /\ UNCHANGED <<store, agent, pending, slot, at, base, request, client, bounds, ghosts>>

\* Where a job is once its session has another id.  One that waits finds no session,
\* unless it found it before and has its row still to store.  A commit has its answer
\* to give; a bootstrap goes by the new id; all that follows, turns too, goes by the
\* old one, where there is no queue and no agent.
Overtaken(j, found) ==
  CASE j \in found -> "adrift"
    [] at[j] = "landed" -> "unheard"
    [] at[j] \in {"persisted", "ready"} -> "overtaken"
    [] at[j] = "new" \/ j \in Strays -> at[j]
    [] OTHER -> "done"

\* RekeyForDir: the rows are written to a new file, and the resource moves with
\* the fingerprint of what was written; an armed one only when its target is
\* there.  The registry's entry moves with its queue and its turnActive, whatever
\* jobs are in flight.  Messages that a turn has taken, and those that a commit has
\* cut and would have replaced, are left in the queue.
ResetMoves ==
  /\ resetting /\ resetting' = FALSE
  /\ res.status = "armed" => \E i \in DOMAIN rows : Resolves(i, res.seq, res.text)
  /\ gen' = 0
  /\ res' = IF res.token = 0 THEN res ELSE [res EXCEPT !.fp = rows]
  /\ moved' = IF res'.fp = res.fp THEN moved ELSE moved \cup {res.token}
  /\ resident' = FALSE /\ mem' = <<>> /\ closing' = FALSE /\ slot' = <<>>
  /\ released' = FALSE /\ own' = <<>> /\ dropped' = {}
  /\ \E found \in {{}} \cup {{p} : p \in {w \in Posts : at[w] = "waiting" /\ LockFree}} :
       at' = [j \in Jobs |-> Overtaken(j, found)]
  /\ IF \E r \in Rewinds : at[r] = "waiting" THEN Records(NoTab) ELSE UNCHANGED <<tab, odds>>
  /\ lost' = lost \cup {r \in Rewinds : at[r] = "landed"}
  /\ left' = left \cup ({e.from : e \in Range(pending)} \cap (dead \cup Range(begun)))
  /\ Followed /\ UNCHANGED <<rows, active, pending, base, request, carry, tokens, made, gone, dead, commits, begun, blind>>

\* The jobs of the old id go on.
Hears(r) ==
  /\ at[r] = "unheard"
  /\ at' = [at EXCEPT ![r] = "overtaken"]
  /\ Records(NoTab)
  /\ Followed /\ UNCHANGED <<store, agent, pending, slot, base, request, resetting, carry, tokens, ghosts>>

StrayPersists(p) ==
  /\ at[p] = "adrift"
  /\ at' = [at EXCEPT ![p] = "overtaken"]
  /\ StoresTail(p)
  /\ Followed /\ UNCHANGED <<gen, res, agent, pending, slot, base, request, resetting, client, bounds, ghosts>>

StrayBoots(j) ==
  /\ at[j] = "overtaken"
  /\ at' = [at EXCEPT ![j] = "done"]
  /\ Bootstrap
  /\ Followed /\ UNCHANGED <<store, closing, turn, pending, slot, base, request, resetting, client, bounds, ghosts>>

\* A job can lock its mutex while another job runs: theirs are, or may be, two.
Overlaps(j) ==
  /\ at[j] = "waiting" /\ ~LockFree
  /\ dropped \cap (Holders \cup {j}) # {}
  /\ ~overlapped /\ overlapped' = TRUE
  /\ UNCHANGED <<store, agent, pending, slot, at, base, request, resetting, client, bounds, ghosts>>

\* The server is killed and started again.
Crash ==
  /\ Odd
  /\ resident' = FALSE /\ mem' = <<>> /\ closing' = FALSE
  /\ released' = FALSE /\ own' = <<>> /\ active' = FALSE
  /\ dropped' = {} /\ resetting' = FALSE
  /\ lost' = lost \cup {e.from : e \in Range(pending)} \cup {r \in Rewinds : at[r] = "landed"}
  /\ pending' = <<>> /\ slot' = <<>> /\ base' = 0
  /\ at' = [j \in Jobs |-> IF at[j] = "new" THEN "new" ELSE "done"]
  /\ request' = [q \in Queued |-> IF request[q] = "new" THEN "new" ELSE "stored"]
  /\ Followed /\ UNCHANGED <<store, client, tokens, made, gone, dead, commits, begun, blind, moved, left>>

-----------------------------------------------------------------------------
Commit(r) == CommitRefused(r) \/ Repeated(r) \/ GoesStale(r) \/ (\E i \in DOMAIN rows : Lands(r, i)) \/ Adopts(r)
Turn(j) == Boots(j) \/ Picks(j) \/ Begins(j) \/ Replies(j) \/ Saves(j) \/ Shifts(j) \/ Leaves(j)
Reset == ResetReleases \/ ResetFails \/ ResetMoves

Next ==
  \/ \E i \in DOMAIN rows : Prepare(i)
  \/ Expires \/ Cancel
  \/ \E r \in Rewinds : Send(r) \/ Commit(r) \/ CommitFails(r) \/ Hears(r)
  \/ \E p \in Posts : Post(p) \/ Persists(p) \/ Pushes(p) \/ StrayPersists(p)
  \/ \E q \in Queued : Reserves(q) \/ Stores(q)
  \/ \E j \in Jobs : Turn(j) \/ LeavesEarly(j) \/ StrayBoots(j) \/ Overlaps(j)
  \/ Drains \/ Writes
  \/ ForeignAppends \/ Releases \/ Closes \/ Reset \/ Crash

Spec == Init /\ [][Next]_vars

-----------------------------------------------------------------------------
Row == [by : {"user"}, text : Texts, seq : Nat] \cup [by : {"agent"}, text : {None}, seq : Nat]
Transcript == Seq(Row)
Resource == [token : Nat, text : Texts \cup {None}, seq : Nat, fp : Transcript, seen : Transcript,
             status : {"none", "armed", "committed", "stale"}, expired : BOOLEAN]
Record == [token : Nat, text : Texts \cup {None}]
Places == {"new", "waiting", "landed", "persisted", "ready", "draining", "picked", "turning",
           "saving", "shifting", "done", "adrift", "unheard", "overtaken"}

\* Every variable has its type.
TypeOK ==
  /\ rows \in Transcript /\ gen \in Nat /\ res \in Resource
  /\ resident \in BOOLEAN /\ mem \in Transcript /\ closing \in BOOLEAN
  /\ pending \in Seq([text : Texts, from : Rewinds \cup Posts \cup Queued])
  /\ slot \in Seq([rows : Transcript, gen : Nat])
  /\ at \in [Jobs -> Places] /\ base \in Nat
  /\ request \in [Queued -> {"new", "reserved", "stored"}]
  /\ tab \in Record /\ carry \in [Rewinds -> Record]
  /\ tokens \in Nat /\ odds \in Nat /\ made \in Nat
  /\ gone \subseteq Row /\ dead \subseteq Rewinds \cup Posts \cup Queued
  /\ commits \in Seq(Rewinds) /\ begun \in Seq(Rewinds \cup Posts \cup Queued)
  /\ blind \subseteq Nat /\ moved \subseteq Nat
  /\ lost \subseteq Rewinds \cup Posts \cup Queued
  /\ left \subseteq Rewinds \cup Posts \cup Queued
  /\ released \in BOOLEAN /\ own \in Transcript /\ active \in BOOLEAN
  /\ dropped \subseteq Jobs /\ resetting \in BOOLEAN /\ overlapped \in BOOLEAN

\* What a rewind cut stays cut, until two jobs overlap: no reply that it deleted is
\* among the stored rows again or in the transcript that a turn works on, and no
\* message whose row it deleted is turned afterwards, unless a reset-id left it in
\* the queue that it moved: between the commit and ReplacePending, or after a job
\* had taken it.  A snapshot the live writer holds, the transcript of the resident agent or of a
\* released one and the pending queue all still have what was cut, and an
\* unchanged text makes the new row equal to the old one.
CutIsGone ==
  /\ gone \cap Range(rows) = {}
  /\ (\E j \in Jobs : at[j] \in {"turning", "saving"}) => gone \cap Range(Hand) = {}
  /\ dead \cap Range(begun) \subseteq left

\* A token is used once, until two jobs overlap: of the sends that carry it, retries
\* after a lost answer, a crash or a reset-id among them, at most one cuts the
\* transcript, and its text is turned at most once, unless a reset-id moved the
\* session while a job had taken that text from the queue and not yet shifted it.
SingleUse ==
  /\ \A i, k \in DOMAIN commits : carry[commits[i]].token = carry[commits[k]].token => i = k
  /\ \A i, k \in DOMAIN begun : begun[i] = begun[k] /\ begun[i] \in Rewinds \ left => i = k

\* A commit cuts the transcript that was prepared for: a row stored since then
\* is cut only under a token that a reset-id fingerprinted anew.
CommitsWhatWasSeen == blind \subseteq moved

\* The text of a committed rewind is turned or waits in the queue, until two jobs
\* overlap, whatever Stop, failed bootstrap, release, Close or reset-id came
\* between, unless a crash emptied the queue, a later rewind replaced it, or a
\* reset-id moved the session before the commit's ReplacePending.
CommittedIsQueued ==
  \A r \in Range(commits) :
    at[r] = "landed" \/ r \in Range(begun) \cup lost \cup {e.from : e \in Range(pending)}
=============================================================================
