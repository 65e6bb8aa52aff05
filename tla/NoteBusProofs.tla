---------------------------- MODULE NoteBusProofs ----------------------------
(***************************************************************************)
(* Proofs about NoteBus, for every group of children, every capacity and    *)
(* every bound.  The five invariants follow from one inductive invariant:   *)
(* what a caller has in hand fits where its code stands (Places), a queued  *)
(* request is what its caller waits for and is the only one (Requests), a   *)
(* reply fits the request (Replied), the log holds what was acknowledged    *)
(* (AckedIsLogged, Apart), the resolved set is what the log says            *)
(* (Resolved), the watermarks (NothingSkipped, ToldOnce), and nothing an    *)
(* attached child appended comes after the hand-off (Joined, Covered).      *)
(***************************************************************************)
EXTENDS NoteBus, TLAPS

OpAt(place) ==
    CASE place = "delta" -> "delta"
      [] place \in {"head", "read"} -> "read"
      [] place \in {"note", "seed"} -> "write"
      [] OTHER -> "none"

AgentPlaces == {"away", "skipped", "delta", "head", "work", "note", "stepped", "over"}
MainPlaces == {"seed", "fan", "read", "stop", "drain", "end"}

Fits(c) ==
    call[c] # NoCall =>
        /\ call[c].io # "none"
        /\ call[c].op = OpAt(at[c]) /\ call[c].op # "none"
        /\ call[c].op = "write" => call[c].entry.by = c

Places ==
    /\ at[Main] \in MainPlaces
    /\ \A a \in Agents : at[a] \in AgentPlaces
    /\ \A c \in Callers : Fits(c)

Requests ==
    /\ \A i \in DOMAIN reqs : reqs[i].from \in Callers =>
           LET c == reqs[i].from IN
           /\ call[c].io = "waiting" /\ ans[c] = NoAnswer /\ reqs[i].of = c
           /\ reqs[i].op = call[c].op /\ reqs[i].entry = call[c].entry
    /\ \A i \in DOMAIN reqs : \A j \in DOMAIN reqs :
           reqs[i].from \in Callers /\ reqs[i].from = reqs[j].from => i = j
    /\ \A i \in DOMAIN reqs : reqs[i].from = Nobody => reqs[i].op = "write"

Replied ==
    \A c \in Callers :
        /\ ans[c] # NoAnswer => call[c].io = "waiting"
        /\ ans[c] # NoAnswer => ans[c].seq \in 0 .. Len(log)
        /\ ans[c] # NoAnswer /\ call[c].op = "write" => ans[c].seq > 0
        /\ ans[c].delta # {} => call[c].op = "delta"

Apart ==
    \A c, d \in Callers :
        ans[c] # NoAnswer /\ call[c].op = "write" /\ ans[d] # NoAnswer
            /\ call[d].op = "write" /\ ans[c].seq = ans[d].seq => c = d

Resolved ==
    \A i \in reslv : \E j \in DOMAIN log : log[j].kind = "resolve" /\ log[j].ref = i

Marked == \A a \in Agents : wm[a] \in 0 .. Len(log)

Joined ==
    at[Main] \in {"read", "stop", "drain", "end"} =>
        \A a \in Agents \ loose : at[a] \in {"over", "skipped"}

Covered ==
    at[Main] = "read" /\ ans[Main] # NoAnswer =>
        \A k \in acked : k.entry.by \in Agents \ loose => k.seq <= ans[Main].seq

Early ==
    handoff # NoHandoff =>
        at[Main] \in {"stop", "drain", "end"} /\ handoff.head \in 0 .. Len(log)

Quiet == stopped => at[Main] \in {"drain", "end"}

IInv ==
    /\ TypeOK /\ Places /\ Quiet /\ Requests /\ Replied /\ AckedIsLogged /\ Apart /\ Resolved
    /\ Marked /\ NothingSkipped /\ ToldOnce /\ Joined /\ Covered /\ Early /\ HandoffIsComplete
-----------------------------------------------------------------------------
CallType == [io : {"none", "sending", "waiting"}, op : {"none", "write", "read", "delta"},
             entry : Entry]

(* The steps that leave the bus, the channels and the hand-off alone.        *)
Moving(c, place, request) ==
    /\ c \in Callers /\ call[c] = NoCall /\ at[c] \notin {"over", "skipped"}
    /\ Moves(c, place, request)
    /\ request \in CallType
    /\ request # NoCall =>
           /\ request.io = "sending"
           /\ request.op = OpAt(place) /\ request.op # "none"
           /\ request.op = "write" => request.entry.by = c
    /\ c \in Agents => place \in AgentPlaces
    /\ c = Main => \/ at[Main] = "seed" /\ place \in {"seed", "fan"}
                   \/ at[Main] = "fan" /\ place = "read" /\ \A a \in Agents : Returned(a)
                   \/ at[Main] = "drain" /\ place = "end"
    /\ UNCHANGED <<cancelled, loose, handoff>>
    /\ \A a \in Agents \ {c} : status'[a] = status[a]
    /\ posts' \in [Callers -> Nat] /\ steps' \in [Agents -> Nat]
    /\ status' \in [Agents -> {"", "completed", "failed"}]

Pausing ==
    /\ UNCHANGED <<log, wm, reslv, reqs, call, ans, posts, steps, status, handoff, acked, heard>>
    /\ \/ at' = at
       \/ at[Main] = "stop" /\ at' = [at EXCEPT ![Main] = "drain"]
    /\ stopped' = stopped \/ at'[Main] = "drain"
    /\ loose \subseteq loose' /\ loose' \subseteq Agents
    /\ running' \in BOOLEAN /\ stopped' \in BOOLEAN /\ cancelled' \in BOOLEAN

RequestType == [from : Callers \cup {Nobody}, of : Callers,
                op : {"write", "read", "delta"}, entry : Entry]

(* What Append and Tail make of a sequence.                                  *)
LEMMA Appends ==
    ASSUME NEW S, NEW s \in Seq(S), NEW e \in S
    PROVE  /\ Append(s, e) \in Seq(S)
           /\ Len(s) \in Nat /\ DOMAIN s = 1 .. Len(s)
           /\ Len(Append(s, e)) = Len(s) + 1 /\ DOMAIN Append(s, e) = 1 .. Len(s) + 1
           /\ Append(s, e)[Len(s) + 1] = e
           /\ \A i \in 1 .. Len(s) : Append(s, e)[i] = s[i]
<1> QED OBVIOUS

LEMMA Tails ==
    ASSUME NEW S, NEW s \in Seq(S), s # <<>>
    PROVE  /\ Tail(s) \in Seq(S) /\ Head(s) \in S /\ Head(s) = s[1]
           /\ Len(s) \in Nat \ {0} /\ DOMAIN s = 1 .. Len(s)
           /\ Len(Tail(s)) = Len(s) - 1 /\ DOMAIN Tail(s) = 1 .. Len(s) - 1
           /\ \A i \in 1 .. Len(s) - 1 : Tail(s)[i] = s[i + 1]
<1> QED OBVIOUS

LEMMA Lens ==
    ASSUME NEW S, NEW s \in Seq(S)
    PROVE  Len(s) \in Nat /\ DOMAIN s = 1 .. Len(s) /\ \A i \in 1 .. Len(s) : s[i] \in S
<1> QED OBVIOUS

LEMMA Entries ==
    ASSUME NEW e \in Entry
    PROVE  e.ref \in Nat /\ e.kind \in {"note", "resolve"} /\ e.by \in Callers
<1>1. e.ref \in Refs \cup {0} /\ e.kind \in {"note", "resolve"} /\ e.by \in Callers
    BY DEF Entry
<1>2. \A i \in Refs \cup {0} : i \in Nat
    BY NoteBusAssumption
<1>3. e.ref \in Nat
    BY <1>1, <1>2, Zenon
<1> QED BY <1>1, <1>3

(* The requests the code makes are of the type of a call.                    *)
LEMMA Calls ==
    /\ NoCall \in CallType /\ Asks("delta") \in CallType /\ Asks("read") \in CallType
    /\ \A e \in Entry : Write(e) \in CallType
    /\ \A a \in Agents, w \in Findings : Note(a, w) \in Entry
    /\ \A w \in Findings : Note(Main, w) \in Entry
    /\ \A a \in Agents, i \in Refs : Resolve(a, i) \in Entry
<1> QED BY NoteBusAssumption
        DEF NoCall, Asks, CallType, Write, Entry, Note, Resolve, Callers

(* A counter of one caller goes up by one.                                   *)
LEMMA Counts ==
    ASSUME NEW S, NEW f \in [S -> Nat], NEW x \in S
    PROVE  [f EXCEPT ![x] = @ + 1] \in [S -> Nat]
<1>1. f[x] + 1 \in Nat
    OBVIOUS
<1> QED
    BY <1>1

(* Every step is a step of the owner, of a call, a move or a pause.          *)
LEMMA Steps ==
    ASSUME TypeOK, Places, Next
    PROVE  \/ Handle
           \/ \E c \in Callers : CallStep(c)
           \/ \E c, place, request : Moving(c, place, request)
           \/ Pausing
<1> USE NoteBusAssumption DEF Callers
<1>1. ASSUME Leave \/ Cancel \/ Stop
      PROVE Pausing
    BY <1>1 DEF Leave, Cancel, Stop, Idle, Pausing, TypeOK, bus, callers, ghosts
<1>2. ASSUME NEW a \in Agents, Detach(a)
      PROVE Pausing
    BY <1>2 DEF Detach, Pausing, TypeOK, bus, ghosts
<1>3. ASSUME NEW a \in Agents, Dispatch(a)
      PROVE Moving(a, "delta", Asks("delta"))
    BY <1>3, Calls DEF Dispatch, Moving, Idle, Moves, Asks, OpAt, AgentPlaces, TypeOK
<1>4. ASSUME NEW a \in Agents, Skip(a)
      PROVE Moving(a, "skipped", NoCall)
    BY <1>4, Calls DEF Skip, Moving, Idle, Moves, AgentPlaces, TypeOK
<1>5. ASSUME NEW a \in Agents, Post(a)
      PROVE \E e : Moving(a, "note", Write(e))
    <2>1. PICK e \in {Note(a, w) : w \in Findings} \cup {Resolve(a, i) : i \in Refs} :
              Moves(a, "note", Write(e))
        BY <1>5 DEF Post
    <2>2. e \in Entry /\ e.by = a
        BY <2>1, Calls DEF Note, Resolve
    <2>3. /\ Write(e) \in CallType /\ Write(e).io = "sending"
          /\ Write(e).op = "write" /\ Write(e).entry = e
        BY <2>2, Calls DEF Write
    <2>4. OpAt("note") = "write"
        BY DEF OpAt
    <2>5. posts' \in [Callers -> Nat] /\ steps' = steps /\ status' = status
        BY <1>5, Counts, Zenon DEF Post, TypeOK
    <2>6. /\ a \in Callers /\ call[a] = NoCall /\ at[a] = "work"
          /\ UNCHANGED <<cancelled, loose, handoff>>
        BY <1>5 DEF Post, Idle
    <2>7. Moving(a, "note", Write(e))
        BY <2>5, <2>6, <2>1, <2>2, <2>3, <2>4 DEF Moving, AgentPlaces, TypeOK
    <2> QED
        BY <2>7
<1>6. ASSUME NEW a \in Agents, StepEnds(a)
      PROVE Moving(a, "stepped", NoCall)
    <2>1. status' \in [Agents -> {"", "completed", "failed"}] /\ \A b \in Agents \ {a} : status'[b] = status[b]
        <3>1. PICK s \in {"completed", "failed"} : status' = [status EXCEPT ![a] = s]
            BY <1>6 DEF StepEnds
        <3>2. status \in [Agents -> {"", "completed", "failed"}]
            BY DEF TypeOK
        <3> QED
            BY <3>1, <3>2
    <2>2. /\ a \in Callers /\ call[a] = NoCall /\ at[a] = "work" /\ Moves(a, "stepped", NoCall)
          /\ UNCHANGED <<cancelled, posts, steps, loose, handoff>>
        BY <1>6 DEF StepEnds, Idle
    <2>3. posts' \in [Callers -> Nat] /\ steps' \in [Agents -> Nat]
        BY <2>2 DEF TypeOK
    <2> QED
        BY <2>1, <2>2, <2>3, Calls DEF Moving, AgentPlaces
<1>7. ASSUME NEW a \in Agents, Retry(a)
      PROVE Moving(a, "delta", Asks("delta"))
    <2>1. steps' \in [Agents -> Nat]
        BY <1>7, Counts, Zenon DEF Retry, TypeOK
    <2> QED
        BY <1>7, <2>1, Calls DEF Retry, Moving, Idle, Moves, Asks, OpAt, AgentPlaces, TypeOK
<1>8. ASSUME NEW a \in Agents, ChildEnds(a)
      PROVE Moving(a, "over", NoCall)
    BY <1>8, Calls DEF ChildEnds, Moving, Idle, Moves, AgentPlaces, TypeOK
<1>9. ASSUME SeedNext
      PROVE \E e : Moving(Main, "seed", Write(e))
    <2>1. PICK w \in Findings : Moves(Main, "seed", Write(Note(Main, w)))
        BY <1>9 DEF SeedNext
    <2>2. Note(Main, w) \in Entry /\ Note(Main, w).by = Main
        BY Calls DEF Note
    <2>3. /\ Write(Note(Main, w)) \in CallType /\ Write(Note(Main, w)).io = "sending"
          /\ Write(Note(Main, w)).op = "write" /\ Write(Note(Main, w)).entry = Note(Main, w)
        BY <2>2, Calls DEF Write
    <2>4. OpAt("seed") = "write"
        BY DEF OpAt
    <2> QED
        BY <1>9, <2>1, <2>2, <2>3, <2>4 DEF SeedNext, Moving, Idle, TypeOK
<1>10. ASSUME FanOut
       PROVE Moving(Main, "fan", NoCall)
    BY <1>10, Calls DEF FanOut, Moving, Idle, Moves, TypeOK
<1>11. ASSUME Join
       PROVE Moving(Main, "read", Asks("read"))
    BY <1>11, Calls DEF Join, Moving, Idle, Moves, Asks, OpAt, TypeOK
<1>12. ASSUME Drained
       PROVE Moving(Main, "end", NoCall)
    BY <1>12, Calls DEF Drained, Moving, Idle, Moves, TypeOK
<1> QED
    BY <1>1, <1>2, <1>3, <1>4, <1>5, <1>6, <1>7, <1>8, <1>9, <1>10, <1>11, <1>12
    DEF Next, MainStep, ChildStep

LEMMA InitIInv == Init => IInv
<1> SUFFICES ASSUME Init PROVE IInv
    OBVIOUS
<1> USE NoteBusAssumption
<1>1. TypeOK
    <2>1. \A S : <<>> \in Seq(S)
        OBVIOUS
    <2>2. log \in Seq(Entry)
        BY <2>1 DEF Init
    <2>3. /\ reqs = <<>> /\ reslv = {} /\ loose = {}
          /\ wm \in [Agents -> Nat] /\ steps \in [Agents -> Nat]
          /\ posts \in [Callers -> Nat]
        BY DEF Init
    <2>4. status \in [Agents -> {"", "completed", "failed"}] /\ heard \in [Agents -> SUBSET Nat]
        BY {} \in SUBSET Nat DEF Init
    <2>5. running \in BOOLEAN /\ stopped \in BOOLEAN /\ cancelled \in BOOLEAN
        BY Zenon DEF Init
    <2>6. call \in [Callers -> CallType]
        BY Calls DEF Init
    <2>7. at \in [Callers -> {"away", "seed"}]
        BY DEF Init
    <2>8. NoAnswer \in [seq : Int, delta : SUBSET Nat]
        BY -1 \in Int, {} \in SUBSET Nat DEF NoAnswer
    <2>9. ans \in [Callers -> [seq : Int, delta : SUBSET Nat]]
        BY <2>8 DEF Init
    <2>10. reqs \in Seq([from : Callers \cup {Nobody}, of : Callers,
                     op : {"write", "read", "delta"}, entry : Entry]) /\ Len(reqs) <= ReqsCap
        BY <2>3, <2>1, Len(<<>>) = 0
    <2> QED
        BY <2>3, <2>6, <2>7, <2>9, <2>5, <2>10, <2>4, <2>2 DEF TypeOK, CallType
<1>2. /\ \A c \in Callers : call[c] = NoCall /\ ans[c] = NoAnswer /\ ans[c].delta = {}
      /\ at[Main] = "seed" /\ \A a \in Agents : at[a] = "away"
      /\ log = <<>> /\ reqs = <<>> /\ acked = {} /\ reslv = {}
      /\ \A a \in Agents : wm[a] = 0 /\ heard[a] = {}
    BY DEF Init, Callers, NoAnswer
<1>3. Places /\ Requests /\ Replied /\ AckedIsLogged /\ Apart /\ Resolved
    BY <1>2 DEF Places, Fits, AgentPlaces, MainPlaces, Requests, Replied, AckedIsLogged, Apart, Resolved
<1>5. Marked /\ NothingSkipped /\ ToldOnce
    BY <1>2 DEF Marked, NothingSkipped, ToldOnce, Given, Callers
<1>4. Joined /\ Covered /\ Early /\ HandoffIsComplete
    BY DEF Init, Joined, Covered, Early, HandoffIsComplete, Callers
<1>6. Quiet
    BY DEF Init, Quiet
<1> QED BY <1>1, <1>3, <1>4, <1>5, <1>6 DEF IInv

(* A pause changes nothing the invariant is about but lets children go and   *)
(* the parent pass from "stop" to "drain".                                   *)
LEMMA PausingKeeps ==
    ASSUME IInv, Pausing
    PROVE  IInv'
<1> USE NoteBusAssumption DEF Callers
<1>1. TypeOK'
    <2>1. at' \in [Callers -> {"away", "skipped", "delta", "head", "work", "note", "stepped",
                               "over", "seed", "fan", "read", "stop", "drain", "end"}]
        BY DEF IInv, Pausing, TypeOK
    <2>2. loose' \subseteq Agents
        BY DEF Pausing
    <2> QED
        BY <2>1, <2>2 DEF IInv, Pausing, TypeOK
<1>2. \A c \in Callers : OpAt(at'[c]) = OpAt(at[c])
    BY DEF Pausing, IInv, TypeOK, OpAt
<1>3. Places'
    BY <1>2 DEF IInv, Pausing, Places, Fits, MainPlaces, TypeOK
<1>4. Requests' /\ Replied' /\ AckedIsLogged' /\ Apart' /\ Resolved'
    BY DEF IInv, Pausing, Requests, Replied, AckedIsLogged, Apart, Resolved
<1>5. Marked' /\ NothingSkipped' /\ ToldOnce'
    BY DEF IInv, Pausing, Marked, NothingSkipped, ToldOnce, Given
<1>6. Joined' /\ Covered' /\ Early'
    BY DEF IInv, Pausing, Joined, Covered, Early, TypeOK
<1>7. HandoffIsComplete'
    BY DEF IInv, Pausing, HandoffIsComplete
<1>8. Quiet'
    BY DEF IInv, Pausing, Quiet, TypeOK
<1> QED BY <1>1, <1>3, <1>4, <1>5, <1>6, <1>7, <1>8 DEF IInv

(* A caller with nothing in hand takes up its next call or moves on.         *)
LEMMA MovingKeeps ==
    ASSUME IInv, NEW c, NEW place, NEW request, Moving(c, place, request)
    PROVE  IInv'
<1> USE NoteBusAssumption DEF Callers
<1>1. /\ c \in Callers /\ call[c] = NoCall /\ at[c] \notin {"over", "skipped"}
      /\ at' = [at EXCEPT ![c] = place] /\ call' = [call EXCEPT ![c] = request]
      /\ UNCHANGED <<log, wm, reslv, reqs, running, stopped, cancelled, ans, loose, handoff>>
      /\ UNCHANGED <<acked, heard>>
    BY DEF Moving, Moves, bus, ghosts
<1>2. TypeOK
    BY DEF IInv
<1>3. call[c].io = "none" /\ call[c].op = "none" /\ ans[c] = NoAnswer
    BY <1>1 DEF NoCall, Asks, IInv, Replied
<1>4. TypeOK'
    <2>1. place \in AgentPlaces \cup MainPlaces
        BY <1>1 DEF Moving, MainPlaces
    <2>2. /\ at' \in [Callers -> {"away", "skipped", "delta", "head", "work", "note", "stepped",
                           "over", "seed", "fan", "read", "stop", "drain", "end"}]
          /\ call' \in [Callers -> CallType]
        BY <1>1, <1>2, <2>1 DEF Moving, TypeOK, AgentPlaces, MainPlaces, CallType
    <2> QED
        BY <1>1, <1>2, <2>2 DEF Moving, TypeOK, CallType
<1>5. Places'
    <2>1. at'[Main] \in MainPlaces
        BY <1>1, <1>2 DEF Moving, TypeOK, MainPlaces, IInv, Places
    <2>2. ASSUME NEW a \in Agents PROVE at'[a] \in AgentPlaces
        BY <1>1, <1>2 DEF Moving, TypeOK, IInv, Places
    <2>3. ASSUME NEW d \in Callers
          PROVE  Fits(d)'
        BY <1>1, <1>2 DEF Moving, TypeOK, IInv, Places, Fits
    <2> QED
        BY <2>1, <2>2, <2>3 DEF Places
<1>6. \A d \in Callers : d # c => call'[d] = call[d] /\ at'[d] = at[d]
    BY <1>1, <1>2 DEF TypeOK
<1>7. Requests'
    <2>1. \A i \in DOMAIN reqs : reqs[i].from # c
        BY <1>1, <1>3 DEF IInv, Requests
    <2> QED
        BY <2>1, <1>1, <1>6 DEF IInv, Requests
<1>8. Replied'
    BY <1>1, <1>3, <1>6 DEF IInv, Replied, NoAnswer
<1>9. AckedIsLogged' /\ Apart'
    BY <1>1, <1>3, <1>6 DEF IInv, AckedIsLogged, Apart
<1>10. Resolved' /\ Marked' /\ NothingSkipped' /\ ToldOnce'
    BY <1>1 DEF IInv, Resolved, Marked, NothingSkipped, ToldOnce, Given
<1>11. Joined'
    BY <1>1, <1>2, <1>6 DEF IInv, Joined, Moving, Returned, TypeOK
<1>12. Covered'
    BY <1>1, <1>3, <1>6 DEF IInv, Covered
<1>13. Early'
    BY <1>1, <1>2, <1>6 DEF IInv, Early, Moving, TypeOK
<1>14. HandoffIsComplete'
    <2> SUFFICES ASSUME handoff # NoHandoff PROVE HandoffIsComplete'
        BY <1>1 DEF HandoffIsComplete
    <2>1. \A a \in Agents \ loose : status'[a] = status[a]
        BY <1>1 DEF IInv, Early, Joined, Moving
    <2> QED
        BY <2>1, <1>1 DEF IInv, HandoffIsComplete
<1>15. Quiet'
    BY <1>1, <1>2, <1>6 DEF IInv, Quiet, Moving, TypeOK
<1> QED
    BY <1>4, <1>5, <1>7, <1>8, <1>9, <1>10, <1>11, <1>12, <1>13, <1>14, <1>15 DEF IInv

(* A request joins the channel.                                              *)
LEMMA SendKeeps ==
    ASSUME IInv, NEW c \in Callers, Send(c)
    PROVE  IInv'
<1> USE NoteBusAssumption
<1>1. /\ call[c].io = "sending" /\ Len(reqs) < ReqsCap
      /\ reqs' = Append(reqs, Request(c))
      /\ call' = [call EXCEPT ![c].io = "waiting"]
      /\ UNCHANGED <<log, wm, reslv, running, stopped, cancelled, at, ans, posts, steps, loose>>
      /\ UNCHANGED <<status, handoff, acked, heard>>
    BY DEF Send, bus, ghosts
<1>2. TypeOK
    BY DEF IInv
<1>3. /\ call[c] # NoCall /\ ans[c] = NoAnswer
      /\ Fits(c)
    BY <1>1 DEF NoCall, Asks, IInv, Replied, Places
<1>4. /\ call' \in [Callers -> CallType]
      /\ call'[c].io = "waiting" /\ call'[c].op = call[c].op /\ call'[c].entry = call[c].entry
      /\ \A d \in Callers : d # c => call'[d] = call[d]
    <2>1. call[c] \in CallType /\ call \in [Callers -> CallType]
        BY <1>2 DEF TypeOK, CallType
    <2>2. [call[c] EXCEPT !.io = "waiting"] \in CallType
        BY <2>1 DEF CallType
    <2>3. call' = [call EXCEPT ![c] = [call[c] EXCEPT !.io = "waiting"]]
        BY <1>1
    <2> QED
        BY <2>1, <2>2, <2>3 DEF CallType
<1>5. /\ reqs' \in Seq(RequestType) /\ Len(reqs) \in Nat
      /\ Len(reqs') = Len(reqs) + 1 /\ reqs'[Len(reqs) + 1] = Request(c)
      /\ DOMAIN reqs' = 1 .. Len(reqs) + 1 /\ DOMAIN reqs = 1 .. Len(reqs)
      /\ \A i \in 1 .. Len(reqs) : reqs'[i] = reqs[i]
    <2>1. Request(c) \in RequestType
        BY <1>2, <1>3 DEF Request, RequestType, TypeOK, Fits
    <2>2. reqs \in Seq(RequestType)
        BY <1>2 DEF TypeOK, RequestType
    <2> QED
        BY <1>1, <2>1, <2>2, Appends
<1>6. TypeOK'
    <2>1. Len(reqs') <= ReqsCap
        BY <1>1, <1>5
    <2> QED
        BY <1>1, <1>2, <1>4, <1>5, <2>1 DEF TypeOK, CallType, RequestType
<1>7. Places'
    <2>1. ASSUME NEW d \in Callers PROVE Fits(d)'
        BY <1>1, <1>3, <1>4 DEF IInv, Places, Fits
    <2> QED
        BY <2>1, <1>1 DEF IInv, Places
<1>8. Requests'
    <2>1. \A i \in DOMAIN reqs : reqs[i].from # c
        BY <1>1 DEF IInv, Requests
    <2>2. DOMAIN reqs' = 1 .. Len(reqs) + 1 /\ DOMAIN reqs = 1 .. Len(reqs) /\ Len(reqs) \in Nat
        BY <1>5
    <2>3. /\ Request(c).from = c /\ Request(c).of = c
          /\ Request(c).op = call[c].op /\ Request(c).entry = call[c].entry
        BY DEF Request
    <2>4. c # Nobody
        BY DEF Callers
    <2>5. ASSUME NEW i \in DOMAIN reqs', reqs'[i].from \in Callers
          PROVE  LET d == reqs'[i].from IN
                 /\ call'[d].io = "waiting" /\ ans'[d] = NoAnswer /\ reqs'[i].of = d
                 /\ reqs'[i].op = call'[d].op /\ reqs'[i].entry = call'[d].entry
        <3>1. CASE i = Len(reqs) + 1
            BY <3>1, <2>3, <1>1, <1>3, <1>4, <1>5
        <3>2. CASE i \in DOMAIN reqs
            BY <3>2, <2>1, <2>2, <2>5, <1>1, <1>4, <1>5 DEF IInv, Requests
        <3> QED
            BY <3>1, <3>2, <2>2
    <2>6. ASSUME NEW i \in DOMAIN reqs', NEW j \in DOMAIN reqs',
                 reqs'[i].from \in Callers, reqs'[i].from = reqs'[j].from
          PROVE  i = j
        BY <2>6, <2>1, <2>2, <2>3, <1>5 DEF IInv, Requests
    <2>7. ASSUME NEW i \in DOMAIN reqs', reqs'[i].from = Nobody
          PROVE  reqs'[i].op = "write"
        BY <2>7, <2>2, <2>3, <2>4, <1>5 DEF IInv, Requests
    <2> QED
        BY <2>5, <2>6, <2>7 DEF Requests
<1>9. Replied' /\ AckedIsLogged' /\ Apart'
    BY <1>1, <1>3, <1>4 DEF IInv, Replied, AckedIsLogged, Apart
<1>10. Resolved' /\ Marked' /\ NothingSkipped' /\ ToldOnce'
    BY <1>1 DEF IInv, Resolved, Marked, NothingSkipped, ToldOnce, Given
<1>11. Quiet' /\ Joined' /\ Covered' /\ Early' /\ HandoffIsComplete'
    BY <1>1 DEF IInv, Quiet, Joined, Covered, Early, HandoffIsComplete
<1> QED
    BY <1>6, <1>7, <1>8, <1>9, <1>10, <1>11 DEF IInv

(* A handled request leaves the channel, and only its caller is answered.    *)
LEMMA Handled ==
    ASSUME IInv, Handle
    PROVE  LET r == Head(reqs) IN
           /\ r \in RequestType /\ reqs' \in Seq(RequestType) /\ Len(reqs') <= ReqsCap
           /\ UNCHANGED <<running, stopped, cancelled>> /\ UNCHANGED callers /\ UNCHANGED ghosts
           /\ Stores(r) \/ Shows(r) \/ Tells(r)
           /\ r.from \in Callers =>
                  /\ call[r.from].io = "waiting" /\ ans[r.from] = NoAnswer /\ r.of = r.from
                  /\ r.op = call[r.from].op /\ r.entry = call[r.from].entry
           /\ r.op # "write" => r.from \in Callers
           /\ (\A c \in Callers : c # r.from => ans'[c] = ans[c]) => Requests'
<1> USE NoteBusAssumption
<1> DEFINE r == Head(reqs)
<1>1. reqs \in Seq(RequestType) /\ reqs # <<>> /\ Len(reqs) <= ReqsCap
    BY DEF IInv, TypeOK, RequestType, Handle
<1>2. /\ reqs' = Tail(reqs) /\ UNCHANGED callers
      /\ UNCHANGED <<running, stopped, cancelled>> /\ UNCHANGED ghosts
      /\ Stores(r) \/ Shows(r) \/ Tells(r)
    BY DEF Handle
<1>3. /\ reqs' \in Seq(RequestType) /\ r \in RequestType /\ r = reqs[1]
      /\ Len(reqs) \in Nat \ {0} /\ DOMAIN reqs = 1 .. Len(reqs)
      /\ Len(reqs') = Len(reqs) - 1 /\ DOMAIN reqs' = 1 .. Len(reqs) - 1
      /\ \A i \in 1 .. Len(reqs) - 1 : reqs'[i] = reqs[i + 1]
    BY <1>1, <1>2, Tails
<1>4. r.from \in Callers =>
          /\ call[r.from].io = "waiting" /\ ans[r.from] = NoAnswer /\ r.of = r.from
          /\ r.op = call[r.from].op /\ r.entry = call[r.from].entry
    BY <1>3 DEF IInv, Requests
<1>5. r.op # "write" => r.from \in Callers
    BY <1>3 DEF IInv, Requests, RequestType
<1>6. ASSUME \A c \in Callers : c # r.from => ans'[c] = ans[c]
      PROVE  Requests'
    <2>1. call' = call
        BY <1>2 DEF callers
    <2>2. \A i \in DOMAIN reqs' : /\ i \in Nat /\ i + 1 \in DOMAIN reqs /\ i + 1 # 1
                                  /\ reqs'[i] = reqs[i + 1]
        BY <1>3
    <2>a. 1 \in DOMAIN reqs /\ r = reqs[1] /\ Requests
        BY <1>3 DEF IInv
    <2> HIDE DEF r
    <2>3. \A i \in DOMAIN reqs' : reqs'[i].from \in Callers => reqs'[i].from # r.from
        BY <2>a, <2>2 DEF Requests
    <2>4. ASSUME NEW i \in DOMAIN reqs', reqs'[i].from \in Callers
          PROVE  LET d == reqs'[i].from IN
                 /\ call'[d].io = "waiting" /\ ans'[d] = NoAnswer /\ reqs'[i].of = d
                 /\ reqs'[i].op = call'[d].op /\ reqs'[i].entry = call'[d].entry
        <3>1. reqs'[i] = reqs[i + 1] /\ i + 1 \in DOMAIN reqs
            BY <2>2
        <3>2. LET d == reqs'[i].from IN
                 /\ call[d].io = "waiting" /\ ans[d] = NoAnswer /\ reqs'[i].of = d
                 /\ reqs'[i].op = call[d].op /\ reqs'[i].entry = call[d].entry
            BY <2>4, <3>1, <2>a DEF Requests
        <3>3. ans'[reqs'[i].from] = ans[reqs'[i].from]
            BY <2>4, <2>3, <1>6
        <3> QED
            BY <3>2, <3>3, <2>1
    <2>5. ASSUME NEW i \in DOMAIN reqs', NEW j \in DOMAIN reqs',
                 reqs'[i].from \in Callers, reqs'[i].from = reqs'[j].from
          PROVE  i = j
        <3>1. i + 1 = j + 1
            BY <2>5, <2>a, <2>2 DEF Requests
        <3> QED
            BY <3>1, <2>2
    <2>6. ASSUME NEW i \in DOMAIN reqs', reqs'[i].from = Nobody
          PROVE  reqs'[i].op = "write"
        BY <2>6, <2>a, <2>2 DEF Requests
    <2> QED
        BY <2>4, <2>5, <2>6 DEF Requests
<1> QED
    BY <1>1, <1>2, <1>3, <1>4, <1>5, <1>6

(* What a reply does to the answers.                                         *)
LEMMA Reply ==
    ASSUME TypeOK, NEW r \in RequestType, NEW s \in Nat, NEW d \in SUBSET Nat, Replies(r, s, d)
    PROVE  /\ ans' \in [Callers -> [seq : Int, delta : SUBSET Nat]]
           /\ \A c \in Callers : c # r.from => ans'[c] = ans[c]
           /\ r.from \in Callers => /\ ans'[r.from] = [seq |-> s, delta |-> d]
                                    /\ ans'[r.from] # NoAnswer
                                    /\ ans'[r.from].seq = s /\ ans'[r.from].delta = d
<1>1. [seq |-> s, delta |-> d] \in [seq : Int, delta : SUBSET Nat]
    OBVIOUS
<1>2. [seq |-> s, delta |-> d] # NoAnswer
    <2>1. s # -1
        OBVIOUS
    <2> QED BY <2>1 DEF NoAnswer
<1> QED
    BY <1>1, <1>2 DEF Replies, TypeOK

LEMMA StoreKeeps ==
    ASSUME IInv, Handle, Stores(Head(reqs))
    PROVE  IInv'
<1> USE NoteBusAssumption
<1> DEFINE r == Head(reqs)
           n == Len(log)
<1>1. TypeOK
    BY DEF IInv
<1>2. /\ r \in RequestType /\ reqs' \in Seq(RequestType) /\ Len(reqs') <= ReqsCap
      /\ UNCHANGED <<running, stopped, cancelled, at, call, posts, steps, loose, status, handoff>>
      /\ UNCHANGED <<acked, heard, wm>>
      /\ r.op = "write"
      /\ r.from \in Callers =>
             /\ call[r.from].io = "waiting" /\ ans[r.from] = NoAnswer
             /\ r.op = call[r.from].op /\ r.entry = call[r.from].entry
      /\ (\A c \in Callers : c # r.from => ans'[c] = ans[c]) => Requests'
    BY Handled DEF Stores, callers, ghosts
<1>3. log \in Seq(Entry) /\ r.entry \in Entry
    BY <1>1, <1>2 DEF TypeOK, RequestType
<1>4. /\ log' \in Seq(Entry) /\ n \in Nat /\ DOMAIN log = 1 .. n
      /\ Len(log') = n + 1 /\ DOMAIN log' = 1 .. n + 1 /\ log'[n + 1] = r.entry
      /\ \A i \in 1 .. n : log'[i] = log[i]
    BY <1>3, Appends DEF Stores
<1>5. /\ ans' \in [Callers -> [seq : Int, delta : SUBSET Nat]]
      /\ \A c \in Callers : c # r.from => ans'[c] = ans[c]
      /\ r.from \in Callers => /\ ans'[r.from] # NoAnswer
                               /\ ans'[r.from].seq = n + 1 /\ ans'[r.from].delta = {}
    <2>1. n + 1 \in Nat /\ {} \in SUBSET Nat /\ Replies(r, n + 1, {})
        BY <1>4 DEF Stores
    <2> QED
        BY <2>1, <1>1, <1>2, Reply
<1>6. TypeOK'
    <2>2. r.entry.ref \in Nat
        BY <1>3, Entries
    <2>1. reslv' \subseteq Nat
        BY <1>1, <2>2 DEF Stores, TypeOK
    <2> QED
        BY <2>1, <1>1, <1>2, <1>4, <1>5 DEF TypeOK, RequestType
<1>7. Places' /\ Requests'
    BY <1>2, <1>5 DEF IInv, Places, Fits
<1>8. Replied'
    BY <1>2, <1>4, <1>5 DEF IInv, Replied
<1>9. \A k \in acked : k.seq \in 1 .. n
    BY DEF IInv, AckedIsLogged
<1>10. AckedIsLogged'
    <2>1. \A k \in acked : k.seq \in 1 .. Len(log') /\ log'[k.seq] = k.entry
        BY <1>4, <1>9 DEF IInv, AckedIsLogged
    <2>2. ASSUME NEW c \in Callers, ans'[c] # NoAnswer, call[c].op = "write", ans'[c].seq > 0
          PROVE  log'[ans'[c].seq] = call[c].entry /\ \A k \in acked : k.seq # ans'[c].seq
        <3>1. CASE c = r.from
            BY <3>1, <1>2, <1>4, <1>5, <1>9
        <3>2. CASE c # r.from
            BY <3>2, <2>2, <1>2, <1>4, <1>5 DEF IInv, AckedIsLogged, Replied
        <3> QED BY <3>1, <3>2
    <2> QED
        BY <2>1, <2>2, <1>2 DEF AckedIsLogged
<1>11. Apart'
    <2>1. \A c \in Callers : c # r.from /\ ans'[c] # NoAnswer => ans'[c].seq <= n /\ ans'[c].seq # n + 1
        BY <1>4, <1>5 DEF IInv, Replied
    <2>2. ASSUME NEW c \in Callers, NEW d \in Callers,
                 ans'[c] # NoAnswer, call'[c].op = "write",
                 ans'[d] # NoAnswer, call'[d].op = "write", ans'[c].seq = ans'[d].seq
          PROVE  c = d
        <3>1. CASE c # r.from /\ d # r.from
            BY <3>1, <2>2, <1>2, <1>5 DEF IInv, Apart
        <3>2. CASE c = r.from \/ d = r.from
            BY <3>2, <2>1, <2>2, <1>5
        <3> QED BY <3>1, <3>2
    <2> QED
        BY <2>2 DEF Apart
<1>12. Resolved'
    <2>1. \A i \in reslv : \E j \in 1 .. n : log'[j].kind = "resolve" /\ log'[j].ref = i
        BY <1>4 DEF IInv, Resolved
    <2> QED
        BY <2>1, <1>4 DEF Stores, Resolved
<1>13. \A a \in Agents : Given(a)' = Given(a)
    BY <1>2, <1>5 DEF Given, NoAnswer, Callers
<1>14. \A a \in Agents : wm[a] \in 0 .. n
    BY DEF IInv, Marked
<1>15. Marked' /\ NothingSkipped' /\ ToldOnce'
    <2>1. Marked'
        BY <1>2, <1>4, <1>14 DEF Marked
    <2>2. ASSUME NEW a \in Agents, NEW i \in 1 .. wm'[a]
          PROVE  /\ i \in DOMAIN log'
                 /\ \/ i \in Given(a)'
                    \/ log'[i].by = a \/ log'[i].kind = "resolve"
                    \/ \E j \in 1 .. wm'[a] : log'[j].kind = "resolve" /\ log'[j].ref = i
        <3>1. wm' = wm /\ Given(a)' = Given(a) /\ wm[a] \in 0 .. n /\ i \in 1 .. wm[a]
            BY <1>2, <1>13, <1>14, <2>2
        <3>2. \A j \in 1 .. wm[a] : j \in 1 .. n /\ log'[j] = log[j]
            BY <3>1, <1>4
        <3>3. i \in 1 .. n /\ i \in DOMAIN log' /\ log'[i] = log[i]
            BY <3>1, <3>2, <1>4
        <3>4. \/ i \in Given(a)
              \/ log[i].by = a \/ log[i].kind = "resolve"
              \/ \E j \in 1 .. wm[a] : log[j].kind = "resolve" /\ log[j].ref = i
            BY <3>1 DEF IInv, NothingSkipped
        <3> QED
            BY <3>1, <3>2, <3>3, <3>4
    <2>3. NothingSkipped'
        BY <2>2 DEF NothingSkipped
    <2>4. \A a \in Agents : heard[a] \cap ans'[a].delta = {}
        <3>1. ASSUME NEW a \in Agents
              PROVE  ans'[a].delta = {} \/ ans'[a].delta = ans[a].delta
            BY <1>2, <1>5 DEF Callers
        <3>2. \A a \in Agents : heard[a] \cap ans[a].delta = {}
            BY DEF IInv, ToldOnce
        <3> QED
            BY <3>1, <3>2
    <2>5. ToldOnce'
        BY <2>4, <1>2, <1>4, <1>13, <1>14 DEF IInv, ToldOnce
    <2> QED BY <2>1, <2>5, <2>3
<1>16. Joined' /\ Quiet'
    BY <1>2 DEF IInv, Joined, Quiet
<1>17. Covered'
    <2>1. at[Main] = "read" => r.from # Main
        BY <1>2 DEF IInv, Places, Fits, OpAt, NoCall, Asks, Callers
    <2> QED
        BY <2>1, <1>2, <1>5 DEF IInv, Covered, Callers
<1>18. Early'
    BY <1>2, <1>4 DEF IInv, Early
<1>19. HandoffIsComplete'
    <2>1. handoff # NoHandoff => \A j \in 1 .. handoff.head : log'[j] = log[j]
        BY <1>4 DEF IInv, Early
    <2> QED
        BY <2>1, <1>2 DEF IInv, HandoffIsComplete
<1> QED
    BY <1>6, <1>7, <1>8, <1>10, <1>11, <1>12, <1>15, <1>16, <1>17, <1>18, <1>19 DEF IInv

(* The head is shown to a caller: nothing else changes.                      *)
LEMMA ShowKeeps ==
    ASSUME IInv, Handle, Shows(Head(reqs))
    PROVE  IInv'
<1> USE NoteBusAssumption
<1> DEFINE r == Head(reqs)
           n == Len(log)
<1>1. TypeOK
    BY DEF IInv
<1>2. /\ r \in RequestType /\ reqs' \in Seq(RequestType) /\ Len(reqs') <= ReqsCap
      /\ UNCHANGED <<running, stopped, cancelled, at, call, posts, steps, loose, status, handoff>>
      /\ UNCHANGED <<acked, heard, log, wm, reslv>>
      /\ r.op = "read" /\ r.from \in Callers
      /\ call[r.from].io = "waiting" /\ ans[r.from] = NoAnswer /\ call[r.from].op = "read"
    BY Handled DEF Shows, callers, ghosts, bus
<1>3. n \in Nat
    BY <1>1, Lens, Zenon DEF TypeOK
<1>4. /\ ans' \in [Callers -> [seq : Int, delta : SUBSET Nat]]
      /\ \A c \in Callers : c # r.from => ans'[c] = ans[c]
      /\ ans'[r.from] # NoAnswer /\ ans'[r.from].seq = n /\ ans'[r.from].delta = {}
    <2>1. {} \in SUBSET Nat /\ Replies(r, n, {})
        BY DEF Shows
    <2>2. r \in RequestType /\ r.from \in Callers
        BY <1>2
    <2> HIDE DEF r, n
    <2> QED
        BY <2>1, <2>2, <1>1, <1>3, Reply
<1>5. TypeOK'
    BY <1>1, <1>2, <1>4 DEF TypeOK, RequestType
<1>6. Places' /\ Requests' /\ Joined' /\ Quiet'
    <2>1. Requests'
        BY <1>4, Handled
    <2> QED
        BY <2>1, <1>2 DEF IInv, Places, Fits, Joined, Quiet
<1>7. Replied'
    BY <1>2, <1>3, <1>4 DEF IInv, Replied
<1>8. AckedIsLogged' /\ Apart'
    <2>1. \A c \in Callers : call[c].op = "write" => ans'[c] = ans[c]
        BY <1>2, <1>4
    <2>2. AckedIsLogged'
        BY <2>1, <1>2 DEF IInv, AckedIsLogged
    <2>3. Apart'
        BY <2>1, <1>2 DEF IInv, Apart
    <2> QED BY <2>2, <2>3
<1>9. \A a \in Agents : Given(a)' = Given(a) /\ ans'[a].delta = ans[a].delta
    <2>1. ans[r.from].delta = {}
        BY <1>2 DEF NoAnswer
    <2>2. \A a \in Agents : ans'[a].delta = ans[a].delta
        BY <2>1, <1>4 DEF Callers
    <2> QED
        BY <2>2, <1>2 DEF Given
<1>10. Resolved' /\ Marked' /\ NothingSkipped' /\ ToldOnce'
    <2>1. Resolved'         BY <1>2 DEF IInv, Resolved
    <2>2. Marked'           BY <1>2 DEF IInv, Marked
    <2>3. NothingSkipped'   BY <1>2, <1>9 DEF IInv, NothingSkipped
    <2>4. ToldOnce'         BY <1>2, <1>9 DEF IInv, ToldOnce
    <2> QED BY <2>1, <2>2, <2>3, <2>4
<1>11. Covered'
    <2>1. \A k \in acked : k.seq \in 1 .. n
        BY DEF IInv, AckedIsLogged
    <2>2. CASE r.from = Main
        BY <2>1, <2>2, <1>2, <1>3, <1>4 DEF Covered
    <2>3. CASE r.from # Main
        BY <2>3, <1>2, <1>4 DEF IInv, Covered, Callers
    <2> QED BY <2>2, <2>3
<1>12. Early' /\ HandoffIsComplete'
    BY <1>2 DEF IInv, Early, HandoffIsComplete
<1> QED
    BY <1>5, <1>6, <1>7, <1>8, <1>10, <1>11, <1>12 DEF IInv

(* A child is told of what is fresh to it, and its watermark moves up.       *)
LEMMA TellKeeps ==
    ASSUME IInv, Handle, Tells(Head(reqs))
    PROVE  IInv'
<1> USE NoteBusAssumption
<1> DEFINE r == Head(reqs)
           n == Len(log)
<1>0. PICK b : b = r.from
    OBVIOUS
<1>1. TypeOK
    BY DEF IInv
<1>2. /\ r \in RequestType /\ reqs' \in Seq(RequestType) /\ Len(reqs') <= ReqsCap
      /\ UNCHANGED <<running, stopped, cancelled, at, call, posts, steps, loose, status, handoff>>
      /\ UNCHANGED <<acked, heard, log, reslv>>
      /\ r.op = "delta" /\ b \in Callers /\ r.of = b
      /\ call[b].io = "waiting" /\ ans[b] = NoAnswer /\ call[b].op = "delta"
      /\ wm' = [wm EXCEPT ![b] = n] /\ Replies(r, n, Fresh(b))
    BY <1>0, Handled DEF Tells, callers, ghosts
<1>3. b \in Agents
    <2>1. call[b] # NoCall
        BY <1>2 DEF NoCall, Asks
    <2>2. OpAt(at[b]) = "delta"
        BY <2>1, <1>2 DEF IInv, Places, Fits
    <2>3. b # Main
        BY <2>2 DEF IInv, Places, MainPlaces, OpAt
    <2> QED BY <2>3, <1>2 DEF Callers
<1>4. n \in Nat /\ DOMAIN log = 1 .. n /\ \A i \in 1 .. n : log[i] \in Entry
    BY <1>1, Lens, Zenon DEF TypeOK
<1>5. \A a \in Agents : wm[a] \in 0 .. n
    BY DEF IInv, Marked
<1>6. /\ Fresh(b) \subseteq wm[b] + 1 .. n /\ Fresh(b) \in SUBSET Nat
      /\ \A i \in Fresh(b) : log[i].by # b /\ log[i].kind = "note"
    BY <1>3, <1>4, <1>5 DEF Fresh
<1>7. /\ ans' \in [Callers -> [seq : Int, delta : SUBSET Nat]]
      /\ \A c \in Callers : c # b => ans'[c] = ans[c]
      /\ ans'[b] # NoAnswer /\ ans'[b].seq = n /\ ans'[b].delta = Fresh(b)
    <2>1. /\ r \in RequestType /\ r.from = b /\ b \in Callers
          /\ Replies(r, n, Fresh(b)) /\ Fresh(b) \in SUBSET Nat
        BY <1>0, <1>2, <1>6
    <2> HIDE DEF r
    <2> QED
        BY <2>1, <1>1, <1>4, Reply
<1>8. /\ wm' \in [Agents -> Nat] /\ wm'[b] = n
      /\ \A a \in Agents : a # b => wm'[a] = wm[a]
    BY <1>1, <1>2, <1>3, <1>4 DEF TypeOK
<1>9. TypeOK'
    BY <1>1, <1>2, <1>7, <1>8 DEF TypeOK, RequestType
<1>10. Places' /\ Requests' /\ Joined' /\ Quiet'
    <2>1. Requests'
        BY <1>0, <1>7, Handled
    <2> QED
        BY <2>1, <1>2 DEF IInv, Places, Fits, Joined, Quiet
<1>11. Replied'
    BY <1>2, <1>4, <1>7 DEF IInv, Replied
<1>12. AckedIsLogged' /\ Apart'
    <2>1. \A c \in Callers : call[c].op = "write" => ans'[c] = ans[c]
        BY <1>2, <1>7
    <2>2. AckedIsLogged'
        BY <2>1, <1>2 DEF IInv, AckedIsLogged
    <2>3. Apart'
        BY <2>1, <1>2 DEF IInv, Apart
    <2> QED BY <2>2, <2>3
<1>13. Resolved' /\ Marked'
    BY <1>2, <1>4, <1>5, <1>8 DEF IInv, Resolved, Marked
<1>14. /\ Given(b) = heard[b] /\ Given(b)' = heard[b] \cup Fresh(b)
       /\ \A a \in Agents : a # b => Given(a)' = Given(a) /\ ans'[a] = ans[a]
    <2>1. ans[b].delta = {} /\ heard' = heard
        BY <1>2 DEF NoAnswer
    <2>2. \A a \in Agents : a # b => ans'[a] = ans[a]
        BY <1>7 DEF Callers
    <2> QED
        BY <2>1, <2>2, <1>7 DEF Given
<1>15. NothingSkipped'
    <2> SUFFICES ASSUME NEW a \in Agents, NEW i \in 1 .. wm'[a]
                 PROVE  /\ i \in DOMAIN log
                        /\ \/ i \in Given(a)'
                           \/ log[i].by = a \/ log[i].kind = "resolve"
                           \/ \E j \in 1 .. wm'[a] : log[j].kind = "resolve" /\ log[j].ref = i
        BY <1>2 DEF NothingSkipped
    <2>1. CASE a # b
        BY <2>1, <1>8, <1>14 DEF IInv, NothingSkipped
    <2>2. CASE a = b /\ i <= wm[b]
        <3>1. i \in 1 .. wm[b]
            BY <2>2, <1>3, <1>4, <1>5, <1>8
        <3>2. \A j \in 1 .. wm[b] : j \in 1 .. wm'[b]
            BY <1>3, <1>4, <1>5, <1>8
        <3> QED
            BY <3>1, <3>2, <2>2, <1>3, <1>14 DEF IInv, NothingSkipped
    <2>3. CASE a = b /\ i > wm[b]
        <3>1. i \in wm[b] + 1 .. n /\ i \in DOMAIN log
            BY <2>3, <1>3, <1>4, <1>5, <1>8
        <3>2. log[i].kind \in {"note", "resolve"}
            BY <3>1, <1>3, <1>4, <1>5, Entries
        <3>3. i \in reslv => \E j \in 1 .. n : log[j].kind = "resolve" /\ log[j].ref = i
            BY <1>4 DEF IInv, Resolved
        <3> QED
            BY <3>1, <3>2, <3>3, <2>3, <1>8, <1>14 DEF Fresh
    <2> QED
        BY <2>1, <2>2, <2>3, <1>3, <1>4, <1>5, <1>8
<1>16. ToldOnce'
    <2> SUFFICES ASSUME NEW a \in Agents
                 PROVE  /\ heard[a] \cap ans'[a].delta = {}
                        /\ \A i \in Given(a)' :
                               i \in 1 .. wm'[a] /\ log[i].by # a /\ log[i].kind = "note"
        BY <1>2 DEF ToldOnce
    <2>1. CASE a # b
        BY <2>1, <1>8, <1>14 DEF IInv, ToldOnce
    <2>2. CASE a = b
        <3>1. \A i \in heard[b] : i \in 1 .. wm[b] /\ log[i].by # b /\ log[i].kind = "note"
            BY <1>3, <1>14 DEF IInv, ToldOnce
        <3>2. \A i \in heard[b] : i \notin Fresh(b) /\ i \in 1 .. n
            BY <3>1, <1>3, <1>4, <1>5, <1>6
        <3>3. \A i \in Fresh(b) : i \in 1 .. n
            BY <1>3, <1>4, <1>5, <1>6
        <3> QED
            BY <3>1, <3>2, <3>3, <2>2, <1>6, <1>7, <1>8, <1>14
    <2> QED BY <2>1, <2>2
<1>17. Covered'
    BY <1>2, <1>3, <1>7 DEF IInv, Covered, Callers
<1>18. Early' /\ HandoffIsComplete'
    BY <1>2 DEF IInv, Early, HandoffIsComplete
<1> QED
    BY <1>9, <1>10, <1>11, <1>12, <1>13, <1>15, <1>16, <1>17, <1>18 DEF IInv

(* What the return of a call starts from.  The result is what the owner      *)
(* answered or the refusal of a stopped bus, and the caller leaves no        *)
(* request of its own behind.                                                *)
Ending(c, res) ==
    /\ call[c] # NoCall
    /\ \/ ans[c] # NoAnswer /\ res = ans[c]
       \/ stopped /\ res = Closed /\ ans[c].delta = {}
    /\ reqs' \in Seq(RequestType) /\ Len(reqs') = Len(reqs)
    /\ \A i \in DOMAIN reqs :
           /\ reqs'[i].of = reqs[i].of /\ reqs'[i].op = reqs[i].op
           /\ reqs'[i].entry = reqs[i].entry
           /\ reqs'[i].from = IF reqs[i].from = c THEN Nobody ELSE reqs[i].from
           /\ reqs[i].from = c => reqs[i].op = "write"

LEMMA Endings ==
    ASSUME IInv, NEW c \in Callers, CallStep(c)
    PROVE  Send(c) \/ \E res : Returns(c, res) /\ Ending(c, res)
<1> USE NoteBusAssumption
<1>1. /\ reqs \in Seq(RequestType) /\ DOMAIN reqs = 1 .. Len(reqs)
      /\ \A i \in 1 .. Len(reqs) : reqs[i] \in RequestType
    BY Lens DEF IInv, TypeOK, RequestType
<1>2. call[c].io # "none" => call[c] # NoCall
    BY DEF NoCall, Asks
<1>3. ans[c] = NoAnswer => ans[c].delta = {}
    BY DEF NoAnswer
<1>4. ASSUME SendRefused(c)
      PROVE  Returns(c, Closed) /\ Ending(c, Closed)
    <2>1. /\ call[c].io = "sending" /\ stopped /\ Returns(c, Closed) /\ reqs' = reqs
        BY <1>4 DEF SendRefused
    <2>2. ans[c].delta = {}
        BY <2>1, <1>3 DEF IInv, Replied
    <2>3. \A i \in DOMAIN reqs : reqs[i].from # c
        BY <2>1 DEF IInv, Requests
    <2> QED
        BY <2>1, <2>2, <2>3, <1>1, <1>2 DEF Ending
<1>5. ASSUME Answered(c)
      PROVE  Returns(c, ans[c]) /\ Ending(c, ans[c])
    <2>1. /\ call[c].io = "waiting" /\ ans[c] # NoAnswer /\ Returns(c, ans[c]) /\ reqs' = reqs
        BY <1>5 DEF Answered
    <2>2. \A i \in DOMAIN reqs : reqs[i].from # c
        BY <2>1 DEF IInv, Requests
    <2> QED
        BY <2>1, <2>2, <1>1, <1>2 DEF Ending
<1>6. ASSUME GivesUp(c)
      PROVE  Returns(c, Closed) /\ Ending(c, Closed)
    <2>1. /\ call[c].io = "waiting" /\ call[c].op = "write" /\ stopped /\ Returns(c, Closed)
          /\ reqs' = [i \in DOMAIN reqs |->
                 IF reqs[i].from = c THEN [reqs[i] EXCEPT !.from = Nobody] ELSE reqs[i]]
        BY <1>6 DEF GivesUp
    <2>2. ans[c].delta = {}
        BY <2>1 DEF IInv, Replied
    <2>3. \A i \in 1 .. Len(reqs) :
              /\ [reqs[i] EXCEPT !.from = Nobody] \in RequestType
              /\ [reqs[i] EXCEPT !.from = Nobody].from = Nobody
              /\ [reqs[i] EXCEPT !.from = Nobody].of = reqs[i].of
              /\ [reqs[i] EXCEPT !.from = Nobody].op = reqs[i].op
              /\ [reqs[i] EXCEPT !.from = Nobody].entry = reqs[i].entry
        BY <1>1 DEF RequestType
    <2>4. Len(reqs) \in Nat
        BY <1>1
    <2>5. /\ reqs' \in [1 .. Len(reqs) -> RequestType]
          /\ \A i \in 1 .. Len(reqs) :
                 reqs'[i] = IF reqs[i].from = c THEN [reqs[i] EXCEPT !.from = Nobody] ELSE reqs[i]
        BY <2>1, <2>3, <1>1
    <2>6. reqs' \in Seq(RequestType) /\ Len(reqs') = Len(reqs)
        BY <2>4, <2>5
    <2>7. \A i \in DOMAIN reqs : reqs[i].from = c => reqs[i].op = "write"
        BY <2>1 DEF IInv, Requests
    <2> QED
        BY <2>1, <2>2, <2>3, <2>5, <2>6, <2>7, <1>1, <1>2 DEF Ending
<1> QED
    BY <1>4, <1>5, <1>6 DEF CallStep

(* A call returns: its caller goes on, and an Append that was answered is    *)
(* acknowledged.                                                             *)
LEMMA ReturnsKeeps ==
    ASSUME IInv, NEW c \in Callers, NEW res, Returns(c, res), Ending(c, res)
    PROVE  IInv'
<1> USE NoteBusAssumption
<1> DEFINE new == [seq |-> res.seq, entry |-> call[c].entry]
<1>1. TypeOK
    BY DEF IInv
<1>2. /\ ans' = [ans EXCEPT ![c] = NoAnswer]
      /\ UNCHANGED <<running, stopped, cancelled, steps, loose, status, log, wm, reslv>>
      /\ acked' = IF call[c].op = "write" /\ res.seq > 0 THEN acked \cup {new} ELSE acked
    BY DEF Returns, bus, Acks
<1>3. /\ ans' \in [Callers -> [seq : Int, delta : SUBSET Nat]]
      /\ ans'[c] = NoAnswer /\ ans'[c].delta = {}
      /\ \A d \in Callers : d # c => ans'[d] = ans[d]
    <2>1. NoAnswer \in [seq : Int, delta : SUBSET Nat] /\ NoAnswer.delta = {}
        BY -1 \in Int, {} \in SUBSET Nat DEF NoAnswer
    <2> QED
        BY <2>1, <1>1, <1>2 DEF TypeOK
<1>4. \/ ans[c] # NoAnswer /\ res = ans[c]
      \/ stopped /\ res = Closed /\ ans[c].delta = {}
    BY DEF Ending
<1>5. res \in [seq : Int, delta : SUBSET Nat] /\ res.delta = ans[c].delta
    <2>1. Closed \in [seq : Int, delta : SUBSET Nat] /\ Closed.delta = {}
        BY 0 \in Int, {} \in SUBSET Nat DEF Closed
    <2>2. ans[c] \in [seq : Int, delta : SUBSET Nat]
        BY <1>1 DEF TypeOK
    <2>3. CASE res = ans[c]
        BY <2>2, <2>3
    <2>4. CASE res = Closed /\ ans[c].delta = {}
        BY <2>1, <2>4
    <2> QED
        BY <2>3, <2>4, <1>4
<1>6. /\ call[c] # NoCall /\ call[c].op = OpAt(at[c]) /\ call[c].op # "none"
      /\ call[c].op = "write" => call[c].entry.by = c
    BY DEF Ending, IInv, Places, Fits
<1>7. /\ at[c] \notin {"over", "skipped"} /\ at[Main] \in MainPlaces
      /\ c # Main => c \in Agents /\ at[c] \in AgentPlaces
      /\ c = Main => at[c] \in {"seed", "read"}
    BY <1>6 DEF OpAt, IInv, Places, Callers, MainPlaces
(* The four places a call is made from.                                      *)
<1>8. \/ at[c] = "seed" /\ SeedGoesOn(c, res)
      \/ at[c] = "delta" /\ DeltaIsIn(c, res)
      \/ at[c] \in {"head", "note"} /\ GoesToWork(c, res)
      \/ at[c] = "read" /\ HandsOff(c, res)
    BY DEF Returns, SeedGoesOn, DeltaIsIn, GoesToWork, HandsOff
<1>9. /\ \A d \in Callers : d # c => call'[d] = call[d] /\ at'[d] = at[d]
      /\ call' \in [Callers -> CallType]
      /\ call'[c] = NoCall \/ (at[c] = "delta" /\ at'[c] = "head" /\ call'[c] = Asks("read"))
      /\ at' = at \/ (at[c] \in {"delta", "head", "note"} /\ at' = [at EXCEPT ![c] = "work"])
                  \/ (at[c] = "delta" /\ at' = [at EXCEPT ![c] = "head"])
                  \/ (at[c] = "read" /\ at' = [at EXCEPT ![c] = "stop"])
    <2>1. call \in [Callers -> CallType] /\ NoCall \in CallType /\ Asks("read") \in CallType
        BY <1>1, Calls DEF TypeOK, CallType
    <2>2. \A q \in CallType : call' = [call EXCEPT ![c] = q] =>
              /\ call' \in [Callers -> CallType] /\ call'[c] = q
              /\ \A d \in Callers : d # c => call'[d] = call[d]
        BY <2>1
    <2>3. at \in [Callers -> AgentPlaces \cup MainPlaces]
        BY <1>1 DEF TypeOK, AgentPlaces, MainPlaces
    <2>4. \A p : at' = [at EXCEPT ![c] = p] =>
              at'[c] = p /\ \A d \in Callers : d # c => at'[d] = at[d]
        BY <2>3
    <2>5. CASE at[c] = "seed" /\ SeedGoesOn(c, res)
        BY <2>1, <2>2, <2>5 DEF SeedGoesOn
    <2>6. CASE at[c] = "delta" /\ DeltaIsIn(c, res)
        <3>1. CASE res.delta = {}
            BY <2>1, <2>2, <2>4, <2>6, <3>1 DEF DeltaIsIn
        <3>2. CASE res.delta # {}
            BY <2>1, <2>2, <2>4, <2>6, <3>2 DEF DeltaIsIn
        <3> QED BY <3>1, <3>2
    <2>7. CASE at[c] \in {"head", "note"} /\ GoesToWork(c, res)
        BY <2>1, <2>2, <2>4, <2>7 DEF GoesToWork
    <2>8. CASE at[c] = "read" /\ HandsOff(c, res)
        BY <2>1, <2>2, <2>4, <2>8 DEF HandsOff
    <2> QED BY <2>5, <2>6, <2>7, <2>8, <1>8
<1>10. /\ at' \in [Callers -> {"away", "skipped", "delta", "head", "work", "note", "stepped",
                           "over", "seed", "fan", "read", "stop", "drain", "end"}]
       /\ c # Main => at'[c] \in AgentPlaces /\ at'[Main] = at[Main]
       /\ c = Main => \/ at'[Main] = at[Main] /\ at[Main] = "seed"
                      \/ at'[Main] = "stop" /\ at[Main] = "read"
    <2> DEFINE P == {"away", "skipped", "delta", "head", "work", "note", "stepped",
                     "over", "seed", "fan", "read", "stop", "drain", "end"}
    <2>1. at \in [Callers -> P]
        BY <1>1 DEF TypeOK
    <2>2. \A p \in P : [at EXCEPT ![c] = p] \in [Callers -> P] /\ [at EXCEPT ![c] = p][c] = p
        BY <2>1
    <2>3. at' \in [Callers -> P]
        BY <2>1, <2>2, <1>9
    <2>4. ASSUME c # Main PROVE at'[c] \in AgentPlaces /\ at'[Main] = at[Main]
        <3>1. at'[Main] = at[Main]
            BY <2>4, <1>9 DEF Callers
        <3>2. at[c] # "read"
            BY <2>4, <1>7 DEF AgentPlaces
        <3>3. at'[c] \in {at[c], "work", "head"}
            BY <3>2, <2>2, <1>9
        <3> QED BY <3>1, <3>3, <2>4, <1>7 DEF AgentPlaces
    <2>5. ASSUME c = Main
          PROVE  \/ at'[Main] = at[Main] /\ at[Main] = "seed"
                 \/ at'[Main] = "stop" /\ at[Main] = "read"
        <3>1. CASE at[c] = "seed"
            BY <3>1, <2>5, <1>9
        <3>2. CASE at[c] = "read"
            <4>1. HandsOff(c, res)
                BY <3>2, <1>8
            <4>2. at' = [at EXCEPT ![c] = "stop"]
                BY <4>1 DEF HandsOff
            <4> QED BY <4>2, <3>2, <2>2, <2>5
        <3> QED BY <3>1, <3>2, <2>5, <1>7
    <2> QED BY <2>3, <2>4, <2>5
<1>11. TypeOK'
    <2>1. posts' \in [Callers -> Nat]
        <3>4. posts[c] \in Nat
            BY <1>1 DEF TypeOK
        <3>1. posts[c] + 1 \in Nat /\ BriefSize \in Nat
            BY <3>4
        <3>2. CASE posts' = posts
            BY <3>2, <1>1 DEF TypeOK
        <3>3. CASE SeedGoesOn(c, res)
            BY <3>1, <3>3, <1>1 DEF SeedGoesOn, TypeOK
        <3> QED
            BY <3>2, <3>3, <1>8 DEF DeltaIsIn, GoesToWork, HandsOff
    <2>2. heard' \in [Agents -> SUBSET Nat]
        <3>1. CASE heard' = heard
            BY <3>1, <1>1 DEF TypeOK
        <3>2. CASE at[c] = "delta" /\ DeltaIsIn(c, res)
            <4>1. c \in Agents /\ heard[c] \cup res.delta \in SUBSET Nat
                BY <3>2, <1>1, <1>5, <1>7 DEF TypeOK
            <4>2. heard' = [heard EXCEPT ![c] = heard[c] \cup res.delta]
                BY <3>2 DEF DeltaIsIn
            <4> QED
                BY <4>1, <4>2, <1>1 DEF TypeOK
        <3> QED
            BY <3>1, <3>2, <1>8 DEF SeedGoesOn, GoesToWork, HandsOff
    <2>3. reqs' \in Seq(RequestType) /\ Len(reqs') <= ReqsCap
        BY <1>1 DEF Ending, TypeOK
    <2> QED
        BY <2>1, <2>2, <2>3, <1>1, <1>2, <1>3, <1>9, <1>10 DEF TypeOK, CallType, RequestType
<1>12. Places'
    <2>1. at'[Main] \in MainPlaces
        BY <1>7, <1>10 DEF MainPlaces
    <2>2. ASSUME NEW a \in Agents PROVE at'[a] \in AgentPlaces
        BY <1>9, <1>10 DEF IInv, Places, Callers
    <2>3. ASSUME NEW d \in Callers PROVE Fits(d)'
        <3>1. CASE d # c
            BY <3>1, <1>9 DEF IInv, Places, Fits
        <3>2. CASE d = c /\ call'[c] = NoCall
            BY <3>2 DEF Fits
        <3>3. CASE d = c /\ at'[c] = "head" /\ call'[c] = Asks("read")
            BY <3>3 DEF Fits, Asks, OpAt
        <3> QED BY <3>1, <3>2, <3>3, <1>9
    <2> QED BY <2>1, <2>2, <2>3 DEF Places
<1>13. Quiet'
    BY <1>2, <1>10 DEF IInv, Quiet
<1>14. Requests'
    <2>1. /\ reqs \in Seq(RequestType) /\ reqs' \in Seq(RequestType) /\ Len(reqs') = Len(reqs)
          /\ DOMAIN reqs = 1 .. Len(reqs) /\ DOMAIN reqs' = 1 .. Len(reqs')
        BY <1>1, Lens DEF TypeOK, RequestType, Ending
    <2>2. \A i \in DOMAIN reqs :
              /\ reqs'[i].of = reqs[i].of /\ reqs'[i].op = reqs[i].op
              /\ reqs'[i].entry = reqs[i].entry
              /\ reqs'[i].from = IF reqs[i].from = c THEN Nobody ELSE reqs[i].from
              /\ reqs[i].from = c => reqs[i].op = "write"
        BY DEF Ending
    <2>3. \A i \in DOMAIN reqs : reqs'[i].from \in Callers =>
              reqs'[i].from = reqs[i].from /\ reqs[i].from # c
        BY <2>2 DEF Callers
    <2>4. ASSUME NEW i \in DOMAIN reqs, reqs'[i].from \in Callers
          PROVE  LET d == reqs'[i].from IN
                 /\ call'[d].io = "waiting" /\ ans'[d] = NoAnswer /\ reqs'[i].of = d
                 /\ reqs'[i].op = call'[d].op /\ reqs'[i].entry = call'[d].entry
        BY <2>4, <2>2, <2>3, <1>3, <1>9 DEF IInv, Requests
    <2>5. ASSUME NEW i \in DOMAIN reqs, NEW j \in DOMAIN reqs,
                 reqs'[i].from \in Callers, reqs'[i].from = reqs'[j].from
          PROVE  i = j
        BY <2>5, <2>3 DEF IInv, Requests
    <2>6. ASSUME NEW i \in DOMAIN reqs, reqs'[i].from = Nobody
          PROVE  reqs'[i].op = "write"
        BY <2>6, <2>2 DEF IInv, Requests
    <2> QED
        BY <2>1, <2>4, <2>5, <2>6 DEF Requests
<1>15. Replied'
    BY <1>2, <1>3, <1>9 DEF IInv, Replied
<1>16. call[c].op = "write" /\ res.seq > 0 =>
           ans[c] # NoAnswer /\ res = ans[c]
    BY <1>4 DEF Closed
<1>17. \A d \in Callers : ans'[d] # NoAnswer => d # c /\ ans'[d] = ans[d] /\ call'[d] = call[d]
    BY <1>3, <1>9
<1>18. AckedIsLogged'
    <2>1. ASSUME NEW k \in acked' PROVE k.seq \in 1 .. Len(log) /\ log[k.seq] = k.entry
        <3>1. CASE k \in acked
            BY <3>1 DEF IInv, AckedIsLogged
        <3>2. CASE k = new /\ call[c].op = "write" /\ res.seq > 0
            <4>1. k.seq = ans[c].seq /\ k.entry = call[c].entry
                BY <3>2, <1>16
            <4>2. ans[c].seq \in 0 .. Len(log) /\ ans[c].seq > 0
                BY <3>2, <1>16 DEF IInv, Replied
            <4>3. ans[c].seq \in 1 .. Len(log)
                BY <4>2
            <4> QED
                BY <4>1, <4>2, <4>3, <3>2, <1>16 DEF IInv, AckedIsLogged
        <3> QED BY <3>1, <3>2, <1>2
    <2>2. ASSUME NEW d \in Callers, ans'[d] # NoAnswer, call'[d].op = "write", ans'[d].seq > 0
          PROVE  log[ans'[d].seq] = call'[d].entry /\ \A k \in acked' : k.seq # ans'[d].seq
        <3>1. /\ d # c /\ ans[d] # NoAnswer /\ call[d].op = "write" /\ ans[d].seq > 0
              /\ ans'[d] = ans[d] /\ call'[d] = call[d]
            BY <2>2, <1>17
        <3>2. log[ans[d].seq] = call[d].entry /\ \A k \in acked : k.seq # ans[d].seq
            BY <3>1 DEF IInv, AckedIsLogged
        <3>3. call[c].op = "write" /\ res.seq > 0 => new.seq # ans[d].seq
            BY <3>1, <1>16 DEF IInv, Apart
        <3> QED
            BY <3>1, <3>2, <3>3, <1>2
    <2> QED
        BY <2>1, <2>2, <1>2 DEF AckedIsLogged
<1>19. Apart'
    BY <1>17 DEF IInv, Apart
<1>20. Resolved' /\ Marked'
    BY <1>2 DEF IInv, Resolved, Marked
<1>21. ASSUME NEW a \in Agents
       PROVE  Given(a)' = Given(a) /\ heard'[a] \cap ans'[a].delta = {}
    <2>1. CASE at[c] = "delta" /\ DeltaIsIn(c, res)
        <3>1. c \in Agents /\ heard' = [heard EXCEPT ![c] = heard[c] \cup res.delta]
            BY <2>1, <1>7 DEF DeltaIsIn
        <3>2. CASE a = c
            <4>1. heard'[c] = heard[c] \cup ans[c].delta
                BY <3>1, <1>1, <1>5 DEF TypeOK
            <4> QED BY <4>1, <3>2, <1>3 DEF Given
        <3>3. CASE a # c
            <4>1. heard'[a] = heard[a] /\ ans'[a] = ans[a]
                BY <3>1, <3>3, <1>1, <1>3 DEF TypeOK, Callers
            <4> QED BY <4>1 DEF Given, IInv, ToldOnce
        <3> QED BY <3>2, <3>3
    <2>2. CASE at[c] # "delta"
        <3>1. heard' = heard /\ ans[c].delta = {}
            BY <2>2, <1>6, <1>8 DEF SeedGoesOn, GoesToWork, HandsOff, IInv, Replied, OpAt
        <3>2. ans'[a].delta = ans[a].delta
            BY <3>1, <1>3 DEF Callers
        <3> QED BY <3>1, <3>2 DEF Given, IInv, ToldOnce
    <2> QED BY <2>1, <2>2, <1>8
<1>22. NothingSkipped' /\ ToldOnce'
    <2>1. NothingSkipped'
        BY <1>2, <1>21 DEF IInv, NothingSkipped
    <2>2. ToldOnce'
        BY <1>2, <1>21 DEF IInv, ToldOnce
    <2> QED BY <2>1, <2>2
<1>23. Joined'
    BY <1>2, <1>7, <1>9, <1>10 DEF IInv, Joined, Callers
(* After the join only a child that was let go still makes calls.            *)
<1>24. at[Main] \in {"read", "stop", "drain", "end"} => c = Main \/ c \in loose
    BY <1>7 DEF IInv, Joined
<1>25. Covered'
    <2> SUFFICES ASSUME at'[Main] = "read", ans'[Main] # NoAnswer, NEW k \in acked',
                        k.entry.by \in Agents \ loose
                 PROVE  k.seq <= ans'[Main].seq
        BY <1>2 DEF Covered
    <2>1. c # Main /\ at[Main] = "read" /\ ans'[Main] = ans[Main]
        BY <1>3, <1>10 DEF Callers
    <2>2. k \in acked
        BY <2>1, <1>2, <1>6, <1>24
    <2> QED
        BY <2>1, <2>2 DEF IInv, Covered
<1>26. CASE at[c] = "read"
    <2>1. c = Main /\ HandsOff(c, res) /\ ~stopped /\ call[c].op = "read"
        BY <1>6, <1>7, <1>8, <1>26 DEF IInv, Quiet, AgentPlaces, OpAt
    <2>2. ans[c] # NoAnswer /\ res = ans[c] /\ res.seq \in 0 .. Len(log) /\ acked' = acked
        BY <2>1, <1>2, <1>4 DEF IInv, Replied
    <2>3. handoff' = NoHandoff \/ handoff' = Prepass(res.seq)
        BY <2>1 DEF HandsOff
    <2>4. at'[Main] = "stop"
        BY <2>1, <1>10, <1>26 DEF HandsOff, IInv, TypeOK
    <2>5. Prepass(res.seq).head = res.seq
        BY DEF Prepass
    <2>6. Early'
        BY <2>2, <2>3, <2>4, <2>5, <1>2 DEF Early
    <2>7. HandoffIsComplete'
        <3> SUFFICES ASSUME handoff' # NoHandoff PROVE HandoffIsComplete'
            BY DEF HandoffIsComplete
        <3>1. /\ handoff'.head = res.seq
              /\ handoff'.clusters = {Cluster(res.seq, log[i].what) : i \in Open(res.seq)}
              /\ handoff'.unreviewed = {a \in Agents : status[a] = "failed"}
            BY <2>3 DEF Prepass
        <3>2. ASSUME NEW k \in acked, k.entry.by \notin loose \cup {Main}, k.entry.kind = "note"
              PROVE  \/ \E cl \in handoff'.clusters :
                            cl.what = k.entry.what /\ k.entry.by \in cl.authors /\ k.seq \in cl.seqs
                     \/ \E j \in 1 .. handoff'.head : log[j].kind = "resolve" /\ log[j].ref = k.seq
            <4>1. k.seq \in 1 .. Len(log) /\ log[k.seq] = k.entry
                BY DEF IInv, AckedIsLogged
            <4>2. log[k.seq] \in Entry /\ Len(log) \in Nat
                BY <4>1, <1>1, Lens, Zenon DEF TypeOK
            <4>3. k.entry.by \in Agents \ loose
                BY <4>1, <4>2, <3>2, Entries DEF Callers
            <4>4. k.seq <= res.seq
                BY <4>3, <2>1, <2>2, <1>26 DEF IInv, Covered
            <4>5. k.seq \in 1 .. res.seq
                BY <4>1, <4>2, <4>4, <2>2
            <4>6. CASE \E j \in 1 .. res.seq : log[j].kind = "resolve" /\ log[j].ref = k.seq
                BY <4>6, <3>1
            <4>7. CASE ~ \E j \in 1 .. res.seq : log[j].kind = "resolve" /\ log[j].ref = k.seq
                <5>1. k.seq \in Open(res.seq)
                    BY <4>1, <4>5, <4>7, <3>2 DEF Open
                <5>2. Cluster(res.seq, log[k.seq].what) \in handoff'.clusters
                    BY <5>1, <3>1
                <5>3. LET cl == Cluster(res.seq, log[k.seq].what) IN
                      cl.what = k.entry.what /\ k.entry.by \in cl.authors /\ k.seq \in cl.seqs
                    BY <5>1, <4>1 DEF Cluster
                <5> QED BY <5>2, <5>3
            <4> QED BY <4>6, <4>7
        <3>3. \A i \in Open(res.seq) : log[i].by # Main
            BY DEF Open
        <3>4. ASSUME NEW cl \in handoff'.clusters PROVE Main \notin cl.authors
            <4>1. PICK w : cl = Cluster(res.seq, w)
                BY <3>1
            <4> QED BY <4>1, <3>3 DEF Cluster
        <3> QED
            BY <3>1, <3>2, <3>4, <2>2, <1>2 DEF HandoffIsComplete
    <2> QED
        BY <2>6, <2>7, <1>11, <1>12, <1>13, <1>14, <1>15, <1>18, <1>19, <1>20, <1>22,
           <1>23, <1>25 DEF IInv
<1>27. CASE at[c] # "read"
    <2>1. handoff' = handoff /\ at'[Main] = at[Main]
        BY <1>8, <1>10, <1>27 DEF SeedGoesOn, DeltaIsIn, GoesToWork
    <2>2. Early'
        BY <2>1, <1>2 DEF IInv, Early
    <2>3. HandoffIsComplete'
        <3> SUFFICES ASSUME handoff # NoHandoff PROVE HandoffIsComplete'
            BY <2>1 DEF HandoffIsComplete
        <3>1. at[Main] \in {"stop", "drain", "end"}
            BY DEF IInv, Early
        <3>2. c \in loose
            BY <3>1, <1>7, <1>24
        <3>3. \A k \in acked' : k.entry.by \notin loose \cup {Main} => k \in acked
            BY <3>2, <1>2, <1>6
        <3> QED
            BY <3>3, <2>1, <1>2 DEF IInv, HandoffIsComplete
    <2> QED
        BY <2>2, <2>3, <1>11, <1>12, <1>13, <1>14, <1>15, <1>18, <1>19, <1>20, <1>22,
           <1>23, <1>25 DEF IInv
<1> QED BY <1>26, <1>27

LEMMA NextKeeps == IInv /\ [Next]_vars => IInv'
<1> SUFFICES ASSUME IInv, [Next]_vars PROVE IInv'
    OBVIOUS
<1>1. CASE UNCHANGED vars
    <2>1. TypeOK' /\ Places' /\ Quiet'
        BY <1>1 DEF vars, IInv, TypeOK, Places, Fits, Quiet
    <2>2. Requests' /\ Replied' /\ AckedIsLogged' /\ Apart' /\ Resolved'
        BY <1>1 DEF vars, IInv, Requests, Replied, AckedIsLogged, Apart, Resolved
    <2>3. Marked' /\ NothingSkipped' /\ ToldOnce'
        BY <1>1 DEF vars, IInv, Marked, NothingSkipped, ToldOnce, Given
    <2>4. Joined' /\ Covered' /\ Early' /\ HandoffIsComplete'
        BY <1>1 DEF vars, IInv, Joined, Covered, Early, HandoffIsComplete
    <2> QED BY <2>1, <2>2, <2>3, <2>4 DEF IInv
<1>2. CASE Handle
    <2>1. Stores(Head(reqs)) \/ Shows(Head(reqs)) \/ Tells(Head(reqs))
        BY <1>2 DEF Handle
    <2> QED BY <2>1, <1>2, StoreKeeps, ShowKeeps, TellKeeps
<1>3. ASSUME NEW c \in Callers, CallStep(c) PROVE IInv'
    BY <1>3, Endings, SendKeeps, ReturnsKeeps
<1>4. ASSUME NEW c, NEW place, NEW request, Moving(c, place, request) PROVE IInv'
    BY <1>4, MovingKeeps
<1>5. CASE Pausing
    BY <1>5, PausingKeeps
<1>6. TypeOK /\ Places
    BY DEF IInv
<1> QED
    BY <1>1, <1>2, <1>3, <1>4, <1>5, <1>6, Steps

(* The invariant the others follow from holds of every behaviour of the bus  *)
(* and of the round that owns it, cancellations and loose children included. *)
THEOREM Inductive == Spec => []IInv
<1>1. Init => IInv
    BY InitIInv
<1>2. IInv /\ [Next]_vars => IInv'
    BY NextKeeps
<1> QED BY <1>1, <1>2, PTL DEF Spec

(* Every variable keeps its type, a caller has at most one request out, and  *)
(* the request channel (notebus.go:303) holds no more than its capacity.     *)
THEOREM TypeCorrect == Spec => []TypeOK
<1>1. IInv => TypeOK
    BY DEF IInv
<1> QED BY <1>1, Inductive, PTL

(* What Append returned a seq for (notebus.go:429-461) is in the log at that *)
(* seq and at no other caller's, whoever gave up or was refused meanwhile.   *)
THEOREM Acknowledged == Spec => []AckedIsLogged
<1>1. IInv => AckedIsLogged
    BY DEF IInv
<1> QED BY <1>1, Inductive, PTL

(* No note falls between two deltas of a child (notebus.go:538-562).         *)
THEOREM Complete == Spec => []NothingSkipped
<1>1. IInv => NothingSkipped
    BY DEF IInv
<1> QED BY <1>1, Inductive, PTL

(* No note is given to a child twice, over any number of Steps.              *)
THEOREM Once == Spec => []ToldOnce
<1>1. IInv => ToldOnce
    BY DEF IInv
<1> QED BY <1>1, Inductive, PTL

(* The hand-off (group_reconcile_handoff.go:23-43) misses no note of a child *)
(* the parent waited for, however many children there are.                   *)
THEOREM HandedOff == Spec => []HandoffIsComplete
<1>1. IInv => HandoffIsComplete
    BY DEF IInv
<1> QED BY <1>1, Inductive, PTL
-----------------------------------------------------------------------------
(* No call is lost: what GroupEnds rests on.                                 *)

Asked(c) == \E i \in DOMAIN reqs : reqs[i].from = c
NoneIsLost == \A c \in Callers : call[c].io = "waiting" /\ ans[c] = NoAnswer => Asked(c)
OwnerStays == running \/ stopped \/ cancelled

(* A caller of the group that is in a call is not forgotten: the bus is not  *)
(* stopped, its owner runs unless the turn was cancelled, and a request that *)
(* was sent is in the channel or answered.  Only a child that was let go can *)
(* be in a call of a stopped bus (Delta and HeadSeq watch stopCh only while  *)
(* they send, notebus.go:336-395).                                           *)
CallsAreTended ==
    \A c \in Callers \ loose : call[c] # NoCall =>
        /\ ~stopped /\ (running \/ cancelled)
        /\ call[c].io = "waiting" /\ ans[c] = NoAnswer => Asked(c)

(* The owner answers the request it takes from the channel.                  *)
LEMMA HandleAnswers ==
    ASSUME IInv, Handle, NEW b, b = Head(reqs).from
    PROVE  /\ \A c \in Callers : c # b => ans'[c] = ans[c]
           /\ b \in Callers => ans'[b] # NoAnswer
<1> DEFINE r == Head(reqs)
           n == Len(log)
<1>1. TypeOK /\ r \in RequestType
    BY Handled DEF IInv
<1>2. n \in Nat /\ n + 1 \in Nat
    <2>1. n \in Nat
        BY <1>1, Lens, Zenon DEF TypeOK
    <2> HIDE DEF n
    <2> QED BY <2>1
<1>3. \E s \in Nat : \E d \in SUBSET Nat : Replies(r, s, d)
    <2>1. CASE Stores(r)
        BY <2>1, <1>2, {} \in SUBSET Nat DEF Stores
    <2>2. CASE Shows(r)
        BY <2>2, <1>2, {} \in SUBSET Nat DEF Shows
    <2>3. CASE Tells(r)
        <3>1. r.of \in Agents
            <4>1. /\ r.from \in Callers /\ r.of = r.from
                  /\ call[r.from].io = "waiting" /\ call[r.from].op = "delta"
                BY <2>3, Handled DEF Tells
            <4>2. call[r.from] # NoCall
                BY <4>1 DEF NoCall, Asks
            <4>3. OpAt(at[r.from]) = "delta"
                BY <4>1, <4>2 DEF IInv, Places, Fits
            <4>4. r.from # Main
                BY <4>3 DEF IInv, Places, MainPlaces, OpAt
            <4> QED BY <4>1, <4>4 DEF Callers
        <3>2. wm[r.of] \in Nat
            BY <3>1, <1>1 DEF TypeOK
        <3>3. Fresh(r.of) \in SUBSET Nat
            BY <3>2, <1>2 DEF Fresh
        <3> QED
            BY <2>3, <3>3, <1>2 DEF Tells
    <2> QED
        BY <2>1, <2>2, <2>3, Handled
<1>4. PICK s \in Nat, d \in SUBSET Nat : Replies(r, s, d)
    BY <1>3
<1>5. r.from = b
    OBVIOUS
<1> HIDE DEF r
<1> QED
    BY <1>1, <1>4, <1>5, Reply

(* A request stays in the channel until the owner takes it or its caller     *)
(* gives it up.                                                              *)
LEMMA LostKeeps ==
    ASSUME IInv, [Next]_vars, NoneIsLost
    PROVE  NoneIsLost'
<1> USE NoteBusAssumption
<1>1. CASE UNCHANGED vars
    BY <1>1 DEF vars, NoneIsLost, Asked
<1>2. CASE Handle
    <2>1. PICK b : b = Head(reqs).from
        OBVIOUS
    <2>2. /\ \A c \in Callers : c # b => ans'[c] = ans[c]
          /\ b \in Callers => ans'[b] # NoAnswer
        BY <1>2, <2>1, HandleAnswers
    <2>3. call' = call /\ reqs' = Tail(reqs) /\ reqs # <<>> /\ reqs \in Seq(RequestType)
        BY <1>2 DEF Handle, callers, IInv, TypeOK, RequestType
    <2>4. /\ Head(reqs) = reqs[1] /\ DOMAIN reqs = 1 .. Len(reqs) /\ Len(reqs) \in Nat
          /\ DOMAIN reqs' = 1 .. Len(reqs) - 1
          /\ \A i \in 1 .. Len(reqs) - 1 : reqs'[i] = reqs[i + 1]
        BY <2>3, Tails
    <2>5. ASSUME NEW c \in Callers, call'[c].io = "waiting", ans'[c] = NoAnswer
          PROVE  Asked(c)'
        <3>1. c # b /\ ans[c] = NoAnswer /\ call[c].io = "waiting"
            BY <2>5, <2>2, <2>3
        <3>2. PICK i \in DOMAIN reqs : reqs[i].from = c
            BY <3>1 DEF NoneIsLost, Asked
        <3>3. i # 1
            BY <3>1, <3>2, <2>1, <2>4
        <3>4. i - 1 \in 1 .. Len(reqs) - 1 /\ (i - 1) + 1 = i
            BY <3>2, <3>3, <2>4
        <3>5. i - 1 \in DOMAIN reqs' /\ reqs'[i - 1] = reqs[i]
            BY <3>4, <2>4
        <3> QED
            BY <3>2, <3>5 DEF Asked
    <2> QED
        BY <2>5 DEF NoneIsLost
<1>3. ASSUME NEW c \in Callers, Send(c)
      PROVE  NoneIsLost'
    <2>1. /\ reqs' = Append(reqs, Request(c)) /\ ans' = ans
          /\ call' = [call EXCEPT ![c].io = "waiting"]
        BY <1>3 DEF Send
    <2>2. reqs \in Seq(RequestType) /\ Request(c) \in RequestType
        <3>1. call[c] # NoCall
            BY <1>3 DEF Send, NoCall, Asks
        <3>2. Fits(c) /\ TypeOK
            BY DEF IInv, Places
        <3> QED
            BY <3>1, <3>2 DEF Request, RequestType, TypeOK, Fits
    <2>3. /\ Len(reqs) \in Nat /\ DOMAIN reqs = 1 .. Len(reqs)
          /\ DOMAIN reqs' = 1 .. Len(reqs) + 1 /\ reqs'[Len(reqs) + 1] = Request(c)
          /\ \A i \in 1 .. Len(reqs) : reqs'[i] = reqs[i]
        BY <2>1, <2>2, Appends
    <2>4. \A d \in Callers : d # c => call'[d] = call[d]
        BY <2>1 DEF IInv, TypeOK
    <2>5. ASSUME NEW d \in Callers, call'[d].io = "waiting", ans'[d] = NoAnswer
          PROVE  Asked(d)'
        <3>1. CASE d = c
            BY <3>1, <2>3 DEF Asked, Request
        <3>2. CASE d # c
            <4>1. PICK i \in DOMAIN reqs : reqs[i].from = d
                BY <3>2, <2>1, <2>4, <2>5 DEF NoneIsLost, Asked
            <4>2. i \in DOMAIN reqs' /\ reqs'[i] = reqs[i]
                BY <4>1, <2>3
            <4> QED
                BY <4>1, <4>2 DEF Asked
        <3> QED BY <3>1, <3>2
    <2> QED
        BY <2>5 DEF NoneIsLost
<1>4. ASSUME NEW c \in Callers, NEW res, Returns(c, res), Ending(c, res)
      PROVE  NoneIsLost'
    <2>1. /\ \A d \in Callers : d # c => call'[d] = call[d] /\ ans'[d] = ans[d]
          /\ call'[c] \in {NoCall, Asks("read")}
        <3>1. call \in [Callers -> CallType] /\ ans \in [Callers -> [seq : Int, delta : SUBSET Nat]]
            BY DEF IInv, TypeOK, CallType
        <3>2. ans' = [ans EXCEPT ![c] = NoAnswer]
            BY <1>4 DEF Returns
        <3>3. \/ call' = [call EXCEPT ![c] = NoCall]
              \/ call' = [call EXCEPT ![c] = Asks("read")]
            <4>1. SeedGoesOn(c, res) \/ DeltaIsIn(c, res) \/ GoesToWork(c, res) \/ HandsOff(c, res)
                BY <1>4 DEF Returns
            <4>2. SeedGoesOn(c, res) \/ GoesToWork(c, res) \/ HandsOff(c, res) =>
                      call' = [call EXCEPT ![c] = NoCall]
                BY DEF SeedGoesOn, GoesToWork, HandsOff
            <4>3. DeltaIsIn(c, res) =>
                      call' = [call EXCEPT ![c] = IF res.delta = {} THEN NoCall ELSE Asks("read")]
                BY DEF DeltaIsIn
            <4> QED
                BY <4>1, <4>2, <4>3
        <3> QED
            BY <3>1, <3>2, <3>3
    <2>2. call'[c].io # "waiting"
        BY <2>1 DEF NoCall, Asks
    <2>3. ASSUME NEW d \in Callers, call'[d].io = "waiting", ans'[d] = NoAnswer
          PROVE  Asked(d)'
        <3>1. d # c /\ call[d].io = "waiting" /\ ans[d] = NoAnswer
            BY <2>1, <2>2, <2>3
        <3>2. PICK i \in DOMAIN reqs : reqs[i].from = d
            BY <3>1 DEF NoneIsLost, Asked
        <3>3. DOMAIN reqs' = DOMAIN reqs
            <4>1. reqs \in Seq(RequestType)
                BY DEF IInv, TypeOK, RequestType
            <4>2. reqs' \in Seq(RequestType) /\ Len(reqs') = Len(reqs)
                BY <1>4 DEF Ending
            <4>3. DOMAIN reqs = 1 .. Len(reqs)
                BY <4>1, Lens
            <4>4. DOMAIN reqs' = 1 .. Len(reqs')
                BY <4>2, Lens
            <4> QED
                BY <4>2, <4>3, <4>4
        <3>4. reqs'[i].from = d
            BY <3>1, <3>2, <1>4 DEF Ending
        <3> QED
            BY <3>2, <3>3, <3>4 DEF Asked
    <2> QED
        BY <2>3 DEF NoneIsLost
<1>5. ASSUME NEW c, NEW place, NEW request, Moving(c, place, request)
      PROVE  NoneIsLost'
    <2>1. /\ c \in Callers /\ call' = [call EXCEPT ![c] = request]
          /\ reqs' = reqs /\ ans' = ans
          /\ request = NoCall \/ request.io = "sending"
        BY <1>5 DEF Moving, Moves
    <2>2. request.io # "waiting"
        BY <2>1 DEF NoCall, Asks
    <2>3. call \in [Callers -> CallType]
        BY DEF IInv, TypeOK, CallType
    <2>4. \A d \in Callers : call'[d].io = "waiting" => call'[d] = call[d]
        BY <2>1, <2>2, <2>3
    <2> QED
        BY <2>1, <2>4 DEF NoneIsLost, Asked
<1>6. CASE Pausing
    BY <1>6 DEF Pausing, NoneIsLost, Asked
<1>7. TypeOK /\ Places
    BY DEF IInv
<1> QED
    BY <1>1, <1>2, <1>3, <1>4, <1>5, <1>6, <1>7, Steps, Endings

(* The owner leaves a bus that is stopped or whose turn was cancelled, and   *)
(* neither is undone.                                                        *)
LEMMA OwnerKeeps ==
    ASSUME OwnerStays, [Next]_vars
    PROVE  OwnerStays'
<1>1. CASE UNCHANGED vars
    BY <1>1 DEF vars, OwnerStays
<1>2. CASE Handle \/ Leave \/ Cancel
    BY <1>2 DEF Handle, Leave, Cancel, OwnerStays
<1>3. CASE MainStep
    BY <1>3 DEF MainStep, SeedNext, FanOut, Join, Stop, Drained, Moves, OwnerStays
<1>4. ASSUME NEW c \in Callers, CallStep(c)
      PROVE  UNCHANGED <<running, stopped, cancelled>>
    BY <1>4 DEF CallStep, Send, SendRefused, Answered, GivesUp, Returns
<1>5. ASSUME NEW a \in Agents, ChildStep(a) \/ Detach(a) \/ Post(a)
      PROVE  UNCHANGED <<running, stopped, cancelled>>
    BY <1>5 DEF ChildStep, Dispatch, Skip, StepEnds, Retry, ChildEnds, Detach, Post, Moves
<1> QED
    BY <1>1, <1>2, <1>3, <1>4, <1>5 DEF Next, OwnerStays

(* No caller the parent waits for is left in a call nobody will answer       *)
(* (notebus.go:336-395, 429-484): what the round's end rests on, for every   *)
(* group of children and every capacity of the channel.                      *)
THEOREM Tended == Spec => []CallsAreTended
<1>1. Init => NoneIsLost /\ OwnerStays
    <2> SUFFICES ASSUME Init PROVE NoneIsLost /\ OwnerStays
        OBVIOUS
    <2>1. running
        BY Zenon DEF Init
    <2>2. \A c \in Callers : call[c].io # "waiting"
        BY DEF Init, NoCall, Asks
    <2> QED BY <2>1, <2>2 DEF NoneIsLost, OwnerStays
<1>2. IInv /\ NoneIsLost /\ OwnerStays /\ [Next]_vars => NoneIsLost' /\ OwnerStays'
    BY LostKeeps, OwnerKeeps
<1>3. IInv /\ NoneIsLost /\ OwnerStays => CallsAreTended
    <2> SUFFICES ASSUME IInv, NoneIsLost, OwnerStays,
                        NEW c \in Callers \ loose, call[c] # NoCall
                 PROVE  ~stopped
        BY DEF CallsAreTended, NoneIsLost, OwnerStays
    <2> SUFFICES ASSUME stopped PROVE FALSE
        OBVIOUS
    <2>1. OpAt(at[c]) # "none"
        BY DEF IInv, Places, Fits
    <2>2. at[Main] \in {"drain", "end"}
        BY DEF IInv, Quiet
    <2>3. CASE c = Main
        BY <2>1, <2>2, <2>3 DEF OpAt
    <2>4. CASE c # Main
        <3>1. c \in Agents \ loose
            BY <2>4 DEF Callers
        <3>2. at[c] \in {"over", "skipped"}
            BY <3>1, <2>2 DEF IInv, Joined
        <3> QED
            BY <3>2, <2>1 DEF OpAt
    <2> QED BY <2>3, <2>4
<1> QED BY <1>1, <1>2, <1>3, Inductive, PTL DEF Spec
=============================================================================
