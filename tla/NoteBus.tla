------------------------------- MODULE NoteBus -------------------------------
(***************************************************************************)
(* The notes bus of a group of sub-agents (internal/notebus/notebus.go) in  *)
(* the round of the parent's Step that owns it (internal/agent/group_bus.go,*)
(* agent.go, subagent.go, delta_inject.go, child_emit.go).                  *)
(*                                                                         *)
(* One owner goroutine serves a channel of requests; every caller hands it  *)
(* one request at a time and waits for the answer on a channel of its own.  *)
(* The parent (Main) seeds the brief, dispatches the children, waits for    *)
(* the attached ones, reads the log for the reconcile hand-off, stops the   *)
(* bus and waits for the owner to leave.  A child runs a Step, and a second *)
(* one when its output contract was not met: it asks for its delta at the   *)
(* start of each Step and appends the notes and resolves its replies hold.  *)
(* Cancelling the parent's turn makes the owner leave as well.              *)
(*                                                                         *)
(* The body of a note is one of Findings; time stamps, redaction and the    *)
(* rendering are left out, and so are the soft cap and the sidecar file,     *)
(* which no caller in the program switches on.                              *)
(***************************************************************************)
EXTENDS Integers, Sequences, FiniteSets

CONSTANTS
    Agents,       \* the children of the group
    Main,         \* the parent
    Findings,     \* the bodies a note may have
    Refs,         \* the seqs a resolve may name
    Contracted,   \* the children with an output contract
    Nobody,       \* the reader of a reply channel that was given up
    MaxPosts,     \* bound: entries each child appends
    BriefSize,    \* entries of the brief
    ReqsCap       \* capacity of the request channel

ASSUME NoteBusAssumption ==
    /\ Main \notin Agents
    /\ Nobody \notin Agents \cup {Main}
    /\ Contracted \subseteq Agents
    /\ Refs \subseteq Nat \ {0}
    /\ MaxPosts \in [Agents -> Nat] /\ BriefSize \in Nat /\ ReqsCap \in Nat \ {0}

VARIABLES
    log,        \* the entries, at their seq
    wm,         \* per child, the seq up to which its delta was handed out
    reslv,      \* the seqs some resolve named
    reqs,       \* the request channel
    running,    \* the owner goroutine has not left
    stopped,    \* stopCh is closed
    cancelled,  \* the turn was cancelled: the owner's ctx is done
    at,         \* where each caller's own code stands
    call,       \* the request each caller has in hand, or NoCall
    ans,        \* the one-slot reply channel of that request
    posts,      \* entries each caller has tried to append
    steps,      \* Steps each child has begun
    loose,      \* the children whose dispatch returned before they were done
    status,     \* the tracker: "completed", "failed" or ""
    handoff,    \* the reconcile hand-off, or NoHandoff
    acked,      \* ghost: the entries whose Append returned a seq, with it
    heard       \* ghost: the seqs each child was given in a delta

bus == <<log, wm, reslv>>
callers == <<at, call, posts, steps, loose, status, handoff>>
ghosts == <<acked, heard>>
vars == <<log, wm, reslv, reqs, running, stopped, cancelled, at, call, ans,
          posts, steps, loose, status, handoff, acked, heard>>

Callers == Agents \cup {Main}
NoFinding == "none"
Note(by, what) == [by |-> by, kind |-> "note", what |-> what, ref |-> 0]
Resolve(by, ref) == [by |-> by, kind |-> "resolve", what |-> NoFinding, ref |-> ref]
Entry == [by : Callers, kind : {"note", "resolve"}, what : Findings \cup {NoFinding},
          ref : Refs \cup {0}]

\* What a caller asks: an append, a delta, or the whole log and its head.
Write(e) == [io |-> "sending", op |-> "write", entry |-> e]
Asks(op) == [io |-> "sending", op |-> op, entry |-> Note(Main, NoFinding)]
NoCall == [Asks("none") EXCEPT !.io = "none"]
NoAnswer == [seq |-> -1, delta |-> {}]
Closed == [seq |-> 0, delta |-> {}]
NoHandoff == [head |-> -1, clusters |-> {}, unreviewed |-> {}]

Init ==
    /\ log = <<>> /\ reslv = {} /\ reqs = <<>>
    /\ wm = [a \in Agents |-> 0]
    /\ running = TRUE /\ stopped = FALSE /\ cancelled = FALSE
    /\ at = [c \in Callers |-> IF c = Main THEN "seed" ELSE "away"]
    /\ call = [c \in Callers |-> NoCall]
    /\ ans = [c \in Callers |-> NoAnswer]
    /\ posts = [c \in Callers |-> 0]
    /\ steps = [a \in Agents |-> 0]
    /\ loose = {}
    /\ status = [a \in Agents |-> ""]
    /\ handoff = NoHandoff
    /\ acked = {} /\ heard = [a \in Agents |-> {}]
-----------------------------------------------------------------------------
(* The owner goroutine: run and handle.                                     *)

\* The reply goes to the caller's own channel; one that gave up has left it.
Replies(r, s, d) ==
    ans' = IF r.from \in Callers THEN [ans EXCEPT ![r.from] = [seq |-> s, delta |-> d]]
           ELSE ans

\* Mutant: the seq handed back is the one the log had before the append.
StoresOffByOne(r) ==
    /\ r.op = "write"
    /\ log' = Append(log, r.entry)
    /\ reslv' = IF r.entry.kind = "resolve" /\ r.entry.ref > 0
                THEN reslv \cup {r.entry.ref} ELSE reslv
    /\ Replies(r, Len(log), {})
    /\ UNCHANGED wm

Stores(r) ==
    /\ r.op = "write"
    /\ log' = Append(log, r.entry)
    /\ reslv' = IF r.entry.kind = "resolve" /\ r.entry.ref > 0
                THEN reslv \cup {r.entry.ref} ELSE reslv
    /\ Replies(r, Len(log) + 1, {})
    /\ UNCHANGED wm

\* HeadSeq and Snapshot: the log up to the head.
Shows(r) ==
    /\ r.op = "read"
    /\ Replies(r, Len(log), {})
    /\ UNCHANGED bus

\* Mutant: the entry at the watermark counts as new.
FreshAgain(a) == {i \in (wm[a] .. Len(log)) \ {0} :
                     /\ log[i].by # a /\ log[i].kind = "note" /\ i \notin reslv}

\* The entries a child is to be told of: after its watermark, by another,
\* no resolve, and not resolved.
Fresh(a) == {i \in wm[a] + 1 .. Len(log) :
                /\ log[i].by # a /\ log[i].kind = "note" /\ i \notin reslv}

\* Mutant: the watermark is the seq the next Append will get.
TellsAhead(r) ==
    /\ r.op = "delta"
    /\ Replies(r, Len(log), Fresh(r.of))
    /\ wm' = [wm EXCEPT ![r.of] = Len(log) + 1]
    /\ UNCHANGED <<log, reslv>>

\* Mutant: an empty delta is not answered.
TellsOnlyNews(r) ==
    /\ r.op = "delta"
    /\ IF Fresh(r.of) = {} THEN UNCHANGED ans ELSE Replies(r, Len(log), Fresh(r.of))
    /\ wm' = [wm EXCEPT ![r.of] = Len(log)]
    /\ UNCHANGED <<log, reslv>>

Tells(r) ==
    /\ r.op = "delta"
    /\ Replies(r, Len(log), Fresh(r.of))
    /\ wm' = [wm EXCEPT ![r.of] = Len(log)]
    /\ UNCHANGED <<log, reslv>>

Handle ==
    /\ running /\ reqs # <<>>
    /\ LET r == Head(reqs) IN Stores(r) \/ Shows(r) \/ Tells(r)
    /\ reqs' = Tail(reqs)
    /\ UNCHANGED <<running, stopped, cancelled>> /\ UNCHANGED callers /\ UNCHANGED ghosts

\* The owner leaves on ctx or stopCh, whatever is still in the channel.
Leave ==
    /\ running /\ (stopped \/ cancelled)
    /\ running' = FALSE
    /\ UNCHANGED <<reqs, stopped, cancelled, ans>>
    /\ UNCHANGED bus /\ UNCHANGED callers /\ UNCHANGED ghosts
-----------------------------------------------------------------------------
(* What a call's return makes of its caller: one disjunct per place a call  *)
(* is made from.                                                            *)

\* handleAssistantNotes ignores what Append returned; the ghost does not.
Acks(c, res) ==
    acked' = IF call[c].op = "write" /\ res.seq > 0
             THEN acked \cup {[seq |-> res.seq, entry |-> call[c].entry]} ELSE acked

\* seedBrief goes on to the next entry and stops at the first error.
SeedGoesOn(c, res) ==
    /\ at[c] = "seed"
    /\ posts' = [posts EXCEPT ![c] = IF res = Closed THEN BriefSize ELSE @ + 1]
    /\ call' = [call EXCEPT ![c] = NoCall]
    /\ UNCHANGED <<at, heard, handoff>>

\* injectNotesTail asks for the head only when the delta is not empty.
DeltaIsIn(c, res) ==
    /\ at[c] = "delta"
    /\ heard' = [heard EXCEPT ![c] = @ \cup res.delta]
    /\ call' = [call EXCEPT ![c] = IF res.delta = {} THEN NoCall ELSE Asks("read")]
    /\ at' = [at EXCEPT ![c] = IF res.delta = {} THEN "work" ELSE "head"]
    /\ UNCHANGED <<posts, handoff>>

GoesToWork(c, res) ==
    /\ at[c] \in {"head", "note"}
    /\ at' = [at EXCEPT ![c] = "work"]
    /\ call' = [call EXCEPT ![c] = NoCall]
    /\ UNCHANGED <<posts, heard, handoff>>

\* ReconcilePrepass over the log up to head: notes of the children that no
\* resolve names, gathered by what they say; and the failed children.
Open(head) == {i \in 1 .. head :
    /\ log[i].kind = "note" /\ log[i].by # Main
    /\ ~ \E j \in 1 .. head : log[j].kind = "resolve" /\ log[j].ref = i}
Cluster(head, w) ==
    LET seqs == {i \in Open(head) : log[i].what = w}
    IN  [what |-> w, authors |-> {log[i].by : i \in seqs}, seqs |-> seqs]
Prepass(head) ==
    [head |-> head,
     clusters |-> {Cluster(head, log[i].what) : i \in Open(head)},
     unreviewed |-> {a \in Agents : status[a] = "failed"}]

\* reconcileHandoffMessage: nothing to hand off for an empty log and tracker.
HandsOff(c, res) ==
    /\ at[c] = "read"
    /\ handoff' = IF res.seq = 0 /\ (\A a \in Agents : status[a] = "")
                  THEN NoHandoff ELSE Prepass(res.seq)
    /\ at' = [at EXCEPT ![c] = "stop"]
    /\ call' = [call EXCEPT ![c] = NoCall]
    /\ UNCHANGED <<posts, heard>>

Returns(c, res) ==
    /\ Acks(c, res)
    /\ ans' = [ans EXCEPT ![c] = NoAnswer]
    /\ SeedGoesOn(c, res) \/ DeltaIsIn(c, res) \/ GoesToWork(c, res) \/ HandsOff(c, res)
    /\ UNCHANGED <<running, stopped, cancelled, steps, loose, status>> /\ UNCHANGED bus
-----------------------------------------------------------------------------
(* The calls: Append, Delta, HeadSeq and Snapshot up to their return.       *)

Request(c) == [from |-> c, of |-> c, op |-> call[c].op, entry |-> call[c].entry]

Send(c) ==
    /\ call[c].io = "sending" /\ Len(reqs) < ReqsCap
    /\ reqs' = Append(reqs, Request(c))
    /\ call' = [call EXCEPT ![c].io = "waiting"]
    /\ UNCHANGED <<running, stopped, cancelled, at, ans, posts, steps, loose, status, handoff>>
    /\ UNCHANGED bus /\ UNCHANGED ghosts

SendRefused(c) ==
    /\ call[c].io = "sending" /\ stopped
    /\ Returns(c, Closed) /\ UNCHANGED reqs

Answered(c) ==
    /\ call[c].io = "waiting" /\ ans[c] # NoAnswer
    /\ Returns(c, ans[c]) /\ UNCHANGED reqs

\* Only Append watches stopCh while it waits.  Its request stays behind, and
\* what it is answered goes to a channel nobody reads.
GivesUp(c) ==
    /\ call[c].io = "waiting" /\ call[c].op = "write" /\ stopped
    /\ Returns(c, Closed)
    /\ reqs' = [i \in DOMAIN reqs |->
                   IF reqs[i].from = c THEN [reqs[i] EXCEPT !.from = Nobody] ELSE reqs[i]]

CallStep(c) == Send(c) \/ SendRefused(c) \/ Answered(c) \/ GivesUp(c)
-----------------------------------------------------------------------------
(* The children.                                                            *)

Idle(c, place) == at[c] = place /\ call[c] = NoCall
Moves(c, place, request) ==
    /\ at' = [at EXCEPT ![c] = place]
    /\ call' = [call EXCEPT ![c] = request]
    /\ UNCHANGED <<reqs, running, stopped, ans>> /\ UNCHANGED bus /\ UNCHANGED ghosts

\* A dispatch that is not queued out or skipped begins the child's Step.
Dispatch(a) ==
    /\ at[Main] = "fan" /\ Idle(a, "away") /\ ~cancelled
    /\ Moves(a, "delta", Asks("delta"))
    /\ steps' = [steps EXCEPT ![a] = 1]
    /\ UNCHANGED <<cancelled, posts, loose, status, handoff>>

\* The turn was cancelled before the dispatch, or a dependency of the child
\* failed or was skipped: no Step is run and nothing is recorded.
Skip(a) ==
    /\ at[Main] = "fan" /\ Idle(a, "away")
    /\ cancelled \/ \E b \in Agents : status[b] = "failed" \/ at[b] = "skipped"
    /\ Moves(a, "skipped", NoCall)
    /\ UNCHANGED <<cancelled, posts, steps, loose, status, handoff>>

\* A child is dispatched in the background, or outlasts the wait its dispatch
\* was given: the dispatch returns and the child runs on.
Detach(a) ==
    /\ at[Main] = "fan" /\ at[a] \notin {"away", "skipped", "over"} /\ a \notin loose
    /\ loose' = loose \cup {a}
    /\ UNCHANGED <<reqs, running, stopped, cancelled, at, call, ans, posts, steps, status, handoff>>
    /\ UNCHANGED bus /\ UNCHANGED ghosts

\* A reply of the model carries a note or a resolve.
Post(a) ==
    /\ Idle(a, "work") /\ posts[a] < MaxPosts[a]
    /\ \E e \in {Note(a, w) : w \in Findings} \cup {Resolve(a, i) : i \in Refs} :
           Moves(a, "note", Write(e))
    /\ posts' = [posts EXCEPT ![a] = @ + 1]
    /\ UNCHANGED <<cancelled, steps, loose, status, handoff>>

\* The Step returns: executeSubAgentWithTranscript records how, whatever was
\* recorded before.
StepEnds(a) ==
    /\ Idle(a, "work")
    /\ \E s \in {"completed", "failed"} : status' = [status EXCEPT ![a] = s]
    /\ Moves(a, "stepped", NoCall)
    /\ UNCHANGED <<cancelled, posts, steps, loose, handoff>>

\* verifyAndRetryContract steps a child whose result missed the contract once
\* more.
Retry(a) ==
    /\ Idle(a, "stepped") /\ a \in Contracted /\ status[a] = "completed" /\ steps[a] = 1
    /\ Moves(a, "delta", Asks("delta"))
    /\ steps' = [steps EXCEPT ![a] = @ + 1]
    /\ UNCHANGED <<cancelled, posts, loose, status, handoff>>

ChildEnds(a) ==
    /\ Idle(a, "stepped")
    /\ Moves(a, "over", NoCall)
    /\ UNCHANGED <<cancelled, posts, steps, loose, status, handoff>>

ChildStep(a) == Dispatch(a) \/ Skip(a) \/ StepEnds(a) \/ Retry(a) \/ ChildEnds(a)
-----------------------------------------------------------------------------
(* The parent's round.                                                      *)

SeedNext ==
    /\ Idle(Main, "seed") /\ posts[Main] < BriefSize
    /\ \E w \in Findings : Moves(Main, "seed", Write(Note(Main, w)))
    /\ UNCHANGED <<cancelled, posts, steps, loose, status, handoff>>

FanOut ==
    /\ Idle(Main, "seed") /\ posts[Main] = BriefSize
    /\ Moves(Main, "fan", NoCall)
    /\ UNCHANGED <<cancelled, posts, steps, loose, status, handoff>>

\* Mutant: a dispatch counts as returned once the child has begun.
ReturnedOnceBegun(a) == at[a] # "away"

\* wg.Wait: every dispatch has returned.
Returned(a) == at[a] \in {"over", "skipped"} \/ a \in loose

Join ==
    /\ Idle(Main, "fan") /\ \A a \in Agents : Returned(a)
    /\ Moves(Main, "read", Asks("read"))
    /\ UNCHANGED <<cancelled, posts, steps, loose, status, handoff>>

\* teardownGroupBus: Stop, then wait for Done.
Stop ==
    /\ Idle(Main, "stop")
    /\ stopped' = TRUE
    /\ at' = [at EXCEPT ![Main] = "drain"]
    /\ UNCHANGED <<reqs, running, cancelled, call, ans, posts, steps, loose, status, handoff>>
    /\ UNCHANGED bus /\ UNCHANGED ghosts

Drained ==
    /\ Idle(Main, "drain") /\ ~running
    /\ Moves(Main, "end", NoCall)
    /\ UNCHANGED <<cancelled, posts, steps, loose, status, handoff>>

MainStep == SeedNext \/ FanOut \/ Join \/ Stop \/ Drained

\* Agent.Cancel closes the turn's stop channel, which cancels the bus's ctx.
Cancel ==
    /\ ~cancelled /\ at[Main] # "end"
    /\ cancelled' = TRUE
    /\ UNCHANGED <<reqs, running, stopped, ans>>
    /\ UNCHANGED bus /\ UNCHANGED callers /\ UNCHANGED ghosts

Next ==
    \/ Handle \/ Leave \/ MainStep \/ Cancel
    \/ \E c \in Callers : CallStep(c)
    \/ \E a \in Agents : ChildStep(a) \/ Detach(a) \/ Post(a)

Spec == Init /\ [][Next]_vars

(* Every goroutine that can take a step takes one: the owner, the calls, the *)
(* parent, and the children, whose Step ends once the model has replied.     *)
Fairness ==
    /\ WF_vars(Handle) /\ WF_vars(Leave) /\ WF_vars(MainStep)
    /\ \A c \in Callers : WF_vars(CallStep(c))
    /\ \A a \in Agents : WF_vars(ChildStep(a))

FairSpec == Spec /\ Fairness
-----------------------------------------------------------------------------
(* Properties.                                                              *)

\* The type of every variable; a caller has at most one request out, and the
\* channel never holds more than its capacity.
TypeOK ==
    /\ log \in Seq(Entry)
    /\ wm \in [Agents -> Nat] /\ reslv \subseteq Nat
    /\ reqs \in Seq([from : Callers \cup {Nobody}, of : Callers,
                     op : {"write", "read", "delta"}, entry : Entry])
    /\ Len(reqs) <= ReqsCap
    /\ running \in BOOLEAN /\ stopped \in BOOLEAN /\ cancelled \in BOOLEAN
    /\ at \in [Callers -> {"away", "skipped", "delta", "head", "work", "note", "stepped",
                           "over", "seed", "fan", "read", "stop", "drain", "end"}]
    /\ call \in [Callers -> [io : {"none", "sending", "waiting"},
                             op : {"none", "write", "read", "delta"}, entry : Entry]]
    /\ ans \in [Callers -> [seq : Int, delta : SUBSET Nat]]
    /\ posts \in [Callers -> Nat] /\ steps \in [Agents -> Nat]
    /\ loose \subseteq Agents
    /\ status \in [Agents -> {"", "completed", "failed"}]
    /\ heard \in [Agents -> SUBSET Nat]

\* An Append that returned a seq is in the log at that seq, as it was sent,
\* and no other Append was given the same one.
AckedIsLogged ==
    /\ \A k \in acked : k.seq \in 1 .. Len(log) /\ log[k.seq] = k.entry
    /\ \A c \in Callers : ans[c] # NoAnswer /\ call[c].op = "write" /\ ans[c].seq > 0 =>
           /\ log[ans[c].seq] = call[c].entry
           /\ \A k \in acked : k.seq # ans[c].seq

\* A note behind a child's watermark was given to that child, unless it is
\* its own or was resolved by an entry behind the watermark too: a delta
\* computed between two appends loses neither.
Given(a) == heard[a] \cup ans[a].delta
NothingSkipped ==
    \A a \in Agents : \A i \in 1 .. wm[a] :
        /\ i \in DOMAIN log
        /\ \/ i \in Given(a)
           \/ log[i].by = a \/ log[i].kind = "resolve"
           \/ \E j \in 1 .. wm[a] : log[j].kind = "resolve" /\ log[j].ref = i

\* No note is given to a child twice, and never its own: the Step a contract
\* asks for is not told again what the first one was told.
ToldOnce ==
    \A a \in Agents :
        /\ heard[a] \cap ans[a].delta = {}
        /\ \A i \in Given(a) : i \in 1 .. wm[a] /\ log[i].by # a /\ log[i].kind = "note"

\* The hand-off holds every note an attached child was told is logged, unless
\* a resolve in the log names it, under its author and seq; nothing of the
\* brief; and every attached child that failed.
HandoffIsComplete ==
    handoff # NoHandoff =>
        /\ \A k \in acked :
               k.entry.by \notin loose \cup {Main} /\ k.entry.kind = "note" =>
                   \/ \E cl \in handoff.clusters :
                          cl.what = k.entry.what /\ k.entry.by \in cl.authors /\ k.seq \in cl.seqs
                   \/ \E j \in 1 .. handoff.head : log[j].kind = "resolve" /\ log[j].ref = k.seq
        /\ \A cl \in handoff.clusters : Main \notin cl.authors
        /\ \A a \in Agents \ loose : status[a] = "failed" => a \in handoff.unreviewed

\* The parent's round ends: no call of it or of the children it waits for
\* blocks for ever, if the turn is not cancelled meanwhile.
GroupEnds == <>(at[Main] = "end" \/ cancelled)

\* As notebus_test.go:302-304 has it, a cancelled context makes Append return
\* an error and "never ... block forever".
AppendReturns ==
    \A c \in Callers :
        (call[c].op = "write" /\ call[c].io = "waiting") ~> (call[c] = NoCall)
=============================================================================
