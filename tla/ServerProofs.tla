---------------------------- MODULE ServerProofs ----------------------------
(***************************************************************************)
(* Proofs about CodexPool, for any number of turns, deltas, disturbances   *)
(* and any room in the channel, and about AuthGuard, for any number of     *)
(* users, turns and tokens and any threshold.                              *)
(*                                                                         *)
(* The invariant of CodexPool has three parts.  PoolTypes are the types.   *)
(* Asks says what the requests on their way, the responses in the output   *)
(* and the replies say of what was applied and run: an id stands for one   *)
(* call, and each turn/start and turn/steer is for something not yet done  *)
(* that nothing else in the pipe asks for.  Tells says what lines are left *)
(* of which turn: none of the turns before the current one, unless a turn  *)
(* was left adrift, and nothing of a turn after its completion.            *)
(***************************************************************************)
EXTENDS MCServers, FiniteSetTheorems, SequenceTheorems, TLAPS

-----------------------------------------------------------------------------
(* CodexPool: the invariant. *)

\* What is in the pipes to and from the server.
Elems(s) == {s[i] : i \in 1 .. Len(s)}
In == Elems(server.in)
Out == Elems(server.out)
StartIn(t) == \E r \in In : r.method = "start" /\ r.turn = t
SteerIn(n) == \E r \in In : r.method = "steer" /\ r.what = n

\* Two requests for the same: to begin a turn, or to apply a follow-up.
SameWork(r, s) ==
    /\ r.method = s.method
    /\ \/ r.method = "start" /\ r.turn = s.turn
       \/ r.method = "steer" /\ r.what = s.what

Distinct(s) == \A i, j \in 1 .. Len(s) : i < j => ~SameWork(s[i], s[j])

\* Nothing follows of a turn that was completed.
Follows(l, m) == m.type = "completed" /\ l.type \in {"delta", "completed"} /\ l.n = m.n
Ordered(s) == \A i, j \in 1 .. Len(s) : i < j => ~Follows(s[j], s[i])

Methods == {"start", "steer", "interrupt", "approval"}
Requests == [method : Methods, id : Nat, turn : Nat, what : Nat]
LineTypes == {"response", "started", "delta", "completed", "approval"}
Lines == [type : LineTypes, n : Nat, good : BOOLEAN]
TaskPlaces == {"idle", "begin", "starting", "oneshot", "take"} \union Listening
Active == {"starting", "take"} \union Listening

HandleTypes ==
    [proc : Nat, slot : Nat, active : Nat, text : SUBSET Nat, failed : BOOLEAN,
     approval : Nat, closing : BOOLEAN]
ServerTypes ==
    [up : BOOLEAN, in : Seq(Requests), turn : Nat, emitted : Nat, asking : Nat, out : Seq(Lines)]
CallTypes == [id : Nat, reply : Replies]
TaskTypes == [at : TaskPlaces, proc : Nat]
ResultTypes == [kind : {"none", "ok", "failed", "error", "unknown"}, text : SUBSET Nat]
SteerTypes == [n : Nat, at : {"idle", "aim", "asking"}, proc : Nat, aim : Nat]
Outcomes == {"accepted", "noActiveTurn", "rejected", "outcomeUnknown"}

PoolTypes ==
    /\ turn \in Nat /\ turn <= Turns /\ cancelled \subseteq 1 .. turn
    /\ returned \in [Ids -> ResultTypes] /\ task \in TaskTypes
    /\ present \in BOOLEAN /\ handle \in HandleTypes /\ reader \in {"read", "push", "gone"}
    /\ call \in [Callers -> CallTypes] /\ asked \in Nat
    /\ server \in ServerTypes
    /\ steer \in SteerTypes /\ steer.n <= Disturbances /\ outcome \in Seq(Outcomes)
    /\ approvals \in [asked : Nat, given : Nat] /\ exits \in Nat
    /\ applied \in [Followups -> Nat] /\ runs \in [Ids -> Nat]

\* Requests on their way: of ids that were given out, each for something that was not
\* done yet and is asked for once.
RequestsOnce ==
    /\ Distinct(server.in)
    /\ \A r \in In : r.id \in 1 .. asked
    /\ \A t \in Nat : StartIn(t) =>
          /\ t \in Ids /\ t <= turn /\ runs[t] = 0
          /\ t = turn => task.at \notin {"begin", "oneshot"}
    /\ \A n \in Nat : SteerIn(n) =>
          /\ n \in 1 .. steer.n /\ applied[n] = 0
          /\ n = steer.n => steer.at # "aim"
    /\ \A r \in In : r.method = "steer" => r.turn # 0
    /\ ~server.up => server.in = << >> /\ server.turn = 0

\* A turn/start, a turn/steer that was refused: nothing of it is left.
NotStarted(t) == runs[t] = 0 /\ ~StartIn(t)
NotApplied(n) == applied[n] = 0 /\ ~SteerIn(n)

\* Requests, responses and replies belong to the call with their id.
CallsAnswered ==
    /\ \A w \in Callers : call[w].id <= asked
    /\ \A r \in In : At("starting") /\ r.id = call["turn"].id => r.method = "start" /\ r.turn = turn
    /\ \A r \in In : r.id = call["steer"].id => r.method = "steer" /\ r.what = steer.n
    /\ \A l \in Out : l.type = "response" =>
          /\ l.n \in 1 .. asked
          /\ At("starting") /\ l.n = call["turn"].id /\ ~l.good => NotStarted(turn)
          /\ l.n = call["steer"].id => IF l.good THEN applied[steer.n] # 0 ELSE NotApplied(steer.n)
    /\ At("starting") => /\ call["turn"].reply = "error" => NotStarted(turn)
                         /\ call["turn"].reply = "eof" =>
                               turn \in crossed /\ reader = "gone" /\ ~server.up
    /\ call["steer"].id # 0 => steer.at = "asking"
    /\ steer.at = "asking" =>
          /\ steer.n >= 1
          /\ call["steer"].reply = "ok" => applied[steer.n] # 0
          /\ call["steer"].reply = "error" => NotApplied(steer.n)

OutcomesTrue ==
    /\ Len(outcome) + (IF steer.at = "idle" THEN 0 ELSE 1) = steer.n
    /\ \A n \in 1 .. Len(outcome) :
          /\ outcome[n] \in {"rejected", "noActiveTurn"} => NotApplied(n)
          /\ outcome[n] = "accepted" => applied[n] # 0
    /\ \A n \in Followups : n > steer.n => applied[n] = 0
    /\ steer.at = "aim" => applied[steer.n] = 0

RunsCounted ==
    /\ \A t \in Ids : /\ t > turn => runs[t] = 0
                      /\ runs[t] <= 1 \/ (Astra /\ t \in crossed)
    /\ At("begin") => runs[turn] = 0
    /\ At("oneshot") => /\ runs[turn] = 0 \/ (Astra /\ turn \in crossed)
                        /\ ~server.up /\ reader = "gone"
    /\ server.turn # 0 => server.turn \in Ids /\ runs[server.turn] > 0
    /\ ~At("idle") => turn \in Ids

Asks == RequestsOnce /\ CallsAnswered /\ OutcomesTrue /\ RunsCounted

\* The server has something left to do or to say of turn n.
HasLine(type, n) == \E l \in Out : l.type = type /\ l.n = n
Left(n) == StartIn(n) \/ server.turn = n \/ HasLine("delta", n) \/ HasLine("completed", n)

LinesOrdered ==
    /\ \A l \in Out : l.type \in {"delta", "completed"} => l.n \in Ids /\ runs[l.n] > 0
    /\ \A l \in Out : l.type = "completed" => l.n \in ended /\ server.turn # l.n
    /\ Ordered(server.out)

ProcessKnown ==
    /\ ~present => reader = "gone"
    /\ present /\ ~handle.closing => reader # "gone"
    /\ present /\ reader = "gone" => handle.failed
    /\ task.at \in Active => task.proc = handle.proc
    /\ task.at \in {"drain", "interrupting", "asking"} => turn \in cancelled
    /\ At("take") => turn \in cancelled \/ ~present \/ handle.slot # turn

\* What a process that is read has left of earlier turns is of ones after a turn adrift.
LeftIsAdrift ==
    reader # "gone" => \A n \in Ids : Left(n) /\ (n < turn \/ At("idle")) => AdriftUpTo(n)

ClosedIsOver ==
    present /\ reader # "gone" /\ task.at \in Active /\ handle.slot # turn =>
        (turn \in ended /\ ~Left(turn)) \/ AdriftUpTo(turn)

MayAnswer(t, u) == u = t \/ (u < t /\ AdriftUpTo(u))
TextsKnown ==
    /\ task.at \in Active => \A u \in handle.text : MayAnswer(turn, u)
    /\ \A t \in Ids : \A u \in returned[t].text : MayAnswer(t, u)
    /\ \A t \in Ids : returned[t].kind = "ok" => t \in ended \/ AdriftUpTo(t)
    /\ \A t \in Ids : t > turn \/ (t = turn /\ ~At("idle")) => returned[t].kind = "none"

Tells == LinesOrdered /\ ProcessKnown /\ LeftIsAdrift /\ ClosedIsOver /\ TextsKnown

-----------------------------------------------------------------------------
(* The types. *)

LEMMA FreshType ==
    ASSUME NEW h \in HandleTypes, turn \in Nat
    PROVE  /\ Fresh(h) \in HandleTypes
           /\ Fresh(h).proc = h.proc /\ Fresh(h).slot = turn /\ Fresh(h).text = {}
           /\ Fresh(h).closing = h.closing /\ Fresh(h).failed = FALSE
  BY DEF Fresh, HandleTypes

LEMMA ClosedType ==
    ASSUME NEW h \in HandleTypes
    PROVE  /\ Closed(h) \in HandleTypes
           /\ Closed(h).proc = h.proc /\ Closed(h).slot = 0 /\ Closed(h).text = h.text
           /\ Closed(h).closing = h.closing /\ Closed(h).failed = h.failed
  BY DEF Closed, HandleTypes

LEMMA NewHandleType ==
    ASSUME NEW p \in Nat
    PROVE  /\ NewHandle(p) \in HandleTypes
           /\ NewHandle(p).proc = p /\ NewHandle(p).closing = FALSE
  BY DEF NewHandle, HandleTypes

LEMMA NotedType ==
    ASSUME NEW h \in HandleTypes, NEW line \in Lines
    PROVE  /\ Noted(h, line) \in HandleTypes
           /\ Noted(h, line).proc = h.proc /\ Noted(h, line).closing = h.closing
           /\ Noted(h, line).slot = IF line.type = "completed" THEN 0 ELSE h.slot
           /\ Noted(h, line).text = IF line.type = "delta" THEN h.text \union {line.n} ELSE h.text
           /\ h.failed => Noted(h, line).failed
<1>1. CASE line.type = "started"
  BY <1>1 DEF Noted, HandleTypes, Lines
<1>2. CASE line.type = "delta"
  BY <1>2 DEF Noted, HandleTypes, Lines
<1>3. CASE line.type = "completed"
  <2>1. PICK g : g = [h EXCEPT !.failed = @ \/ ~line.good]
    OBVIOUS
  <2>2. g \in HandleTypes /\ g.proc = h.proc /\ g.closing = h.closing /\ g.text = h.text
        /\ (h.failed => g.failed)
    BY <2>1 DEF HandleTypes, Lines
  <2>. QED BY <1>3, <2>1, <2>2, ClosedType DEF Noted
<1>4. CASE line.type = "approval"
  BY <1>4 DEF Noted, HandleTypes, Lines
<1>5. CASE line.type = "response"
  BY <1>5 DEF Noted
<1>. QED BY <1>1, <1>2, <1>3, <1>4, <1>5 DEF Lines, LineTypes

-----------------------------------------------------------------------------
(* The pipes. *)

LEMMA PipeTypes ==
    ASSUME PoolTypes
    PROVE  /\ server.in \in Seq(Requests) /\ server.out \in Seq(Lines)
           /\ In \subseteq Requests /\ Out \subseteq Lines
<1>1. server.in \in Seq(Requests) /\ server.out \in Seq(Lines)
  BY DEF PoolTypes, ServerTypes
<1>2. \A i \in 1 .. Len(server.in) : server.in[i] \in Requests
  BY <1>1, ElementOfSeq
<1>3. \A i \in 1 .. Len(server.out) : server.out[i] \in Lines
  BY <1>1, ElementOfSeq
<1>. QED BY <1>1, <1>2, <1>3 DEF In, Out, Elems

LEMMA EmptyPipe == Elems(<< >>) = {} /\ Distinct(<< >>) /\ Ordered(<< >>)
<1>1. Len(<< >>) = 0
  BY EmptySeq
<1>. QED BY <1>1 DEF Elems, Distinct, Ordered

LEMMA PipeAppend ==
    ASSUME NEW S, NEW s \in Seq(S), NEW x \in S
    PROVE  /\ Append(s, x) \in Seq(S) /\ Elems(Append(s, x)) = Elems(s) \union {x}
           /\ Distinct(s) /\ (\A y \in Elems(s) : ~SameWork(y, x)) => Distinct(Append(s, x))
           /\ Ordered(s) /\ (\A y \in Elems(s) : ~Follows(x, y)) => Ordered(Append(s, x))
<1>1. PICK t : t = Append(s, x)
  OBVIOUS
<1>2. /\ t \in Seq(S) /\ Len(s) \in Nat /\ Len(t) = Len(s) + 1 /\ t[Len(s) + 1] = x
      /\ \A i \in 1 .. Len(s) : t[i] = s[i]
  BY <1>1, LenProperties, AppendProperties
<1>3. Elems(t) = Elems(s) \union {x}
  BY <1>2 DEF Elems
<1>4. ASSUME NEW i \in 1 .. Len(t), NEW j \in 1 .. Len(t), i < j
      PROVE  /\ i \in 1 .. Len(s) /\ t[i] = s[i] /\ s[i] \in Elems(s)
             /\ (j \in 1 .. Len(s) /\ t[j] = s[j]) \/ t[j] = x
  BY <1>2, <1>4 DEF Elems
<1>5. ASSUME Distinct(s), \A y \in Elems(s) : ~SameWork(y, x) PROVE Distinct(t)
  BY <1>4, <1>5 DEF Distinct
<1>6. ASSUME Ordered(s), \A y \in Elems(s) : ~Follows(x, y) PROVE Ordered(t)
  BY <1>4, <1>6 DEF Ordered
<1>. QED BY <1>1, <1>2, <1>3, <1>5, <1>6

LEMMA PipeTail ==
    ASSUME NEW S, NEW s \in Seq(S), s # << >>
    PROVE  /\ Tail(s) \in Seq(S) /\ Head(s) \in S
           /\ Elems(Tail(s)) \subseteq Elems(s) /\ Head(s) \in Elems(s)
           /\ Elems(s) \subseteq Elems(Tail(s)) \union {Head(s)}
           /\ Distinct(s) => Distinct(Tail(s)) /\ (\A y \in Elems(Tail(s)) : ~SameWork(Head(s), y))
           /\ Ordered(s) => Ordered(Tail(s)) /\ (\A y \in Elems(Tail(s)) : ~Follows(y, Head(s)))
<1>1. PICK t, x : t = Tail(s) /\ x = Head(s)
  OBVIOUS
<1>2. /\ t \in Seq(S) /\ x \in S /\ Len(s) \in Nat /\ Len(t) \in Nat /\ Len(s) = Len(t) + 1
      /\ s[1] = x /\ \A i \in 1 .. Len(t) : t[i] = s[i + 1]
  BY <1>1, LenProperties, HeadTailProperties
<1>3. Elems(t) \subseteq Elems(s) /\ x \in Elems(s)
  BY <1>2 DEF Elems
<1>4. Elems(s) \subseteq Elems(t) \union {x}
  <2>1. \A i \in 1 .. Len(s) : i = 1 \/ (i - 1 \in 1 .. Len(t) /\ s[i] = t[i - 1])
    BY <1>2
  <2>. QED BY <1>2, <2>1 DEF Elems
<1>5. ASSUME NEW i \in 1 .. Len(t), NEW j \in 1 .. Len(t), i < j
      PROVE  /\ i + 1 \in 1 .. Len(s) /\ j + 1 \in 1 .. Len(s) /\ i + 1 < j + 1
             /\ t[i] = s[i + 1] /\ t[j] = s[j + 1]
  BY <1>2, <1>5
<1>6. \A i \in 1 .. Len(t) : 1 \in 1 .. Len(s) /\ i + 1 \in 1 .. Len(s) /\ 1 < i + 1
  BY <1>2
<1>7. ASSUME Distinct(s) PROVE Distinct(t) /\ \A y \in Elems(t) : ~SameWork(x, y)
  <2>1. Distinct(t)
    BY <1>5, <1>7 DEF Distinct
  <2>2. ASSUME NEW i \in 1 .. Len(t) PROVE ~SameWork(x, t[i])
    BY <1>2, <1>6, <1>7 DEF Distinct
  <2>. QED BY <2>1, <2>2 DEF Elems
<1>8. ASSUME Ordered(s) PROVE Ordered(t) /\ \A y \in Elems(t) : ~Follows(y, x)
  <2>1. Ordered(t)
    BY <1>5, <1>8 DEF Ordered
  <2>2. ASSUME NEW i \in 1 .. Len(t) PROVE ~Follows(t[i], x)
    BY <1>2, <1>6, <1>8 DEF Ordered
  <2>. QED BY <2>1, <2>2 DEF Elems
<1>. QED BY <1>1, <1>2, <1>3, <1>4, <1>7, <1>8

\* What the server appends to its output, line by line.
LEMMA PipeConcat ==
    ASSUME NEW S, NEW s \in Seq(S), NEW x \in S, NEW y \in S
    PROVE  /\ s \o << >> = s /\ s \o <<x>> = Append(s, x)
           /\ s \o <<x, y>> = Append(Append(s, x), y)
  OBVIOUS

\* A request that is written, or that nobody reads.
Numbered(r) == [r EXCEPT !.id = asked + 1]

LEMMA RequestSent ==
    ASSUME PoolTypes, NEW caller \in Callers, NEW p, NEW r \in Requests, Request(caller, p, r)
    PROVE  /\ asked' = asked + 1 /\ asked' \in Nat
           /\ Numbered(r) \in Requests /\ Numbered(r).id = asked + 1
           /\ Numbered(r).method = r.method /\ Numbered(r).turn = r.turn /\ Numbered(r).what = r.what
           /\ server' \in ServerTypes /\ call' \in [Callers -> CallTypes]
           /\ \A w \in Callers : w # caller => call'[w] = call[w]
           /\ call'[caller].id = asked + 1
           /\ \/ /\ Reaches(p) /\ call'[caller].reply = "none"
                 /\ server'.in = Append(server.in, Numbered(r)) /\ server'.out = server.out
                 /\ server'.turn = server.turn /\ server'.up = server.up
              \/ ~Reaches(p) /\ server' = server /\ call'[caller].reply \in {"error", "none"}
<1>1. server \in ServerTypes /\ call \in [Callers -> CallTypes] /\ asked \in Nat
  BY DEF PoolTypes
<1>2. /\ Numbered(r) \in Requests /\ Numbered(r).id = asked + 1
      /\ Numbered(r).method = r.method /\ Numbered(r).turn = r.turn /\ Numbered(r).what = r.what
  BY <1>1 DEF Numbered, Requests
<1>3. asked' = asked + 1
  BY DEF Request
<1>4. CASE Reaches(p)
  <2>1. PICK in : in = Append(server.in, Numbered(r))
    OBVIOUS
  <2>2. in \in Seq(Requests)
    BY <1>1, <1>2, <2>1, PipeAppend DEF ServerTypes
  <2>3. server' = [server EXCEPT !.in = in]
        /\ call' = [call EXCEPT ![caller] = [id |-> asked + 1, reply |-> "none"]]
    BY <1>4, <2>1 DEF Request, Numbered
  <2>4. server' \in ServerTypes /\ server'.in = in /\ server'.out = server.out
        /\ server'.turn = server.turn /\ server'.up = server.up
    BY <1>1, <2>2, <2>3 DEF ServerTypes
  <2>5. [id |-> asked + 1, reply |-> "none"] \in CallTypes
    BY <1>1 DEF CallTypes, Replies
  <2>. QED BY <1>1, <1>2, <1>3, <1>4, <2>1, <2>3, <2>4, <2>5
<1>5. CASE ~Reaches(p)
  <2>1. PICK reply \in {"error", "none"} :
            call' = [call EXCEPT ![caller] = [id |-> asked + 1, reply |-> reply]]
    BY <1>5 DEF Request
  <2>2. [id |-> asked + 1, reply |-> reply] \in CallTypes
    BY <1>1 DEF CallTypes, Replies
  <2>3. server' = server
    BY <1>5 DEF Request
  <2>. QED BY <1>1, <1>2, <1>3, <1>5, <2>1, <2>2, <2>3
<1>. QED BY <1>4, <1>5

\* What fail_pending does to a call.
LEMMA PendingFails ==
    ASSUME PoolTypes, NEW reply \in {"eof", "closed"}
    PROVE  /\ FailPending(reply) \in [Callers -> CallTypes]
           /\ \A w \in Callers :
                 /\ FailPending(reply)[w].id = call[w].id
                 /\ FailPending(reply)[w].reply = IF Waits(w) THEN reply ELSE call[w].reply
<1>1. call \in [Callers -> CallTypes]
  BY DEF PoolTypes
<1>2. ASSUME NEW w \in Callers
      PROVE  /\ FailPending(reply)[w] \in CallTypes /\ FailPending(reply)[w].id = call[w].id
             /\ FailPending(reply)[w].reply = IF Waits(w) THEN reply ELSE call[w].reply
  BY <1>1 DEF FailPending, CallTypes, Replies, Waits
<1>3. FailPending(reply) \in [Callers -> CallTypes]
  BY <1>2 DEF FailPending
<1>. QED BY <1>2, <1>3

LEMMA CallForgotten ==
    ASSUME PoolTypes, NEW w \in Callers, Forget(w)
    PROVE  /\ call' \in [Callers -> CallTypes] /\ call'[w].id = 0
           /\ \A v \in Callers : v # w => call'[v] = call[v]
  BY DEF Forget, PoolTypes, CallTypes, NoCall, Replies

LEMMA StoppedType ==
    /\ NoServer \in ServerTypes /\ NoServer.in = << >> /\ NoServer.out = << >>
    /\ NoServer.turn = 0 /\ NoServer.up = FALSE
<1>1. << >> \in Seq(Requests) /\ << >> \in Seq(Lines)
  BY EmptySeq
<1>. QED BY <1>1 DEF NoServer, ServerTypes

LEMMA TypesInit == Init => PoolTypes
<1> SUFFICES ASSUME Init PROVE PoolTypes
  OBVIOUS
<1>2. handle \in HandleTypes
  BY NewHandleType DEF Init
<1>3. server \in ServerTypes
  BY StoppedType DEF Init
<1>4. steer \in SteerTypes /\ steer.n = 0
  BY DEF Init, NoSteer, SteerTypes
<1>5. turn = 0 /\ cancelled = {} /\ present = FALSE /\ asked = 0 /\ reader = "gone" /\ exits = 0
  BY DEF Init
<1>6. returned \in [Ids -> ResultTypes]
  BY DEF Init, Nothing, ResultTypes
<1>7. call \in [Callers -> CallTypes]
  BY DEF Init, NoCall, CallTypes, Replies
<1>8. task \in TaskTypes
  BY DEF Init, TaskTypes, TaskPlaces
<1>9. applied \in [Followups -> Nat] /\ runs \in [Ids -> Nat] /\ approvals \in [asked : Nat, given : Nat]
  BY DEF Init
<1>10. outcome \in Seq(Outcomes)
  BY EmptySeq DEF Init
<1>11. Turns \in Nat /\ Disturbances \in Nat
  BY CodexAssumption
<1>12. turn \in Nat /\ turn <= Turns /\ cancelled \subseteq 1 .. turn
  BY <1>5, <1>11
<1>13. present \in BOOLEAN /\ asked \in Nat /\ reader \in {"read", "push", "gone"} /\ exits \in Nat
  BY <1>5
<1>14. steer.n <= Disturbances
  BY <1>4, <1>11
<1>. QED BY <1>2, <1>3, <1>4, <1>6, <1>7, <1>8, <1>9, <1>10, <1>12, <1>13, <1>14 DEF PoolTypes

LEMMA ReturnTypes ==
    ASSUME PoolTypes, turn \in Ids, NEW kind \in {"ok", "failed", "error", "unknown"},
           NEW text \in SUBSET Nat, Return(kind, text)
    PROVE  /\ returned' \in [Ids -> ResultTypes]
           /\ task' \in TaskTypes /\ task'.at = "idle"
           /\ returned'[turn].kind = kind /\ returned'[turn].text = text
           /\ \A t \in Ids : t # turn => returned'[t] = returned[t]
<1>1. returned \in [Ids -> ResultTypes]
  BY DEF PoolTypes
<1>2. [kind |-> kind, text |-> text] \in ResultTypes
  BY DEF ResultTypes
<1>3. returned' = [returned EXCEPT ![turn] = [kind |-> kind, text |-> text]]
      /\ task' = [at |-> "idle", proc |-> 0]
  BY DEF Return
<1>4. task' \in TaskTypes /\ task'.at = "idle"
  BY <1>3 DEF TaskTypes, TaskPlaces
<1>. QED BY <1>1, <1>2, <1>3, <1>4

LEMMA GotoTypes ==
    ASSUME PoolTypes, NEW place \in TaskPlaces, Goto(place)
    PROVE  task' \in TaskTypes /\ task'.at = place /\ task'.proc = task.proc
  BY DEF PoolTypes, Goto, TaskTypes

LEMMA KillTypes ==
    ASSUME PoolTypes, Kill
    PROVE  /\ handle' \in HandleTypes /\ handle'.proc = handle.proc /\ handle'.text = {}
           /\ server' \in ServerTypes /\ server'.in = << >> /\ server'.out = << >>
           /\ server'.turn = 0 /\ ~server'.up
           /\ present' = FALSE /\ reader' = "gone"
           /\ call' \in [Callers -> CallTypes]
           /\ \A w \in Callers :
                 /\ call'[w].id = call[w].id
                 /\ call'[w].reply = "closed" \/ call'[w].reply = call[w].reply
<1>1. handle.proc \in Nat /\ call \in [Callers -> CallTypes]
  BY DEF PoolTypes, HandleTypes
<1>2. call' = FailPending("closed") \/ call' = call
  BY DEF Kill
<1>3. /\ call' \in [Callers -> CallTypes]
      /\ \A w \in Callers :
            /\ call'[w].id = call[w].id
            /\ call'[w].reply = "closed" \/ call'[w].reply = call[w].reply
  BY <1>1, <1>2, PendingFails
<1>4. handle' = NewHandle(handle.proc) /\ server' = NoServer /\ present' = FALSE /\ reader' = "gone"
  BY DEF Kill
<1>5. handle'.text = {}
  BY <1>4 DEF NewHandle
<1>. QED BY <1>1, <1>3, <1>4, <1>5, NewHandleType, StoppedType

-----------------------------------------------------------------------------
(* Requests and answers: Asks is kept. *)

\* The call of caller w goes on waiting, was answered, failed or is forgotten, and
\* learns nothing from the server.
LearnsNothing(w) ==
    /\ call'[w].id \in {0, call[w].id}
    /\ call'[w].reply \in {"ok", "error"} => call'[w].reply = call[w].reply

\* Pipes keep their requests or lose them with the process.
PipesKept ==
    \/ server'.in = server.in /\ server'.up = server.up /\ server'.turn \in {0, server.turn}
    \/ server'.in = << >> /\ ~server'.up /\ server'.turn = 0

\* The message goes to a process of its own: its turn/start is nowhere.
FellBack ==
    /\ ~server'.up /\ server'.in = << >> /\ reader' = "gone"
    /\ runs[turn] = 0 \/ (Astra /\ turn \in crossed)

\* A step that sends no request and reads no response.
NothingAsked ==
    /\ UNCHANGED <<turn, asked, steer, outcome, applied, runs>> /\ crossed \subseteq crossed'
    /\ PipesKept
    /\ \A l \in Out' : l.type = "response" => l \in Out
    /\ reader = "gone" => reader' = "gone"
    /\ \A w \in Callers : LearnsNothing(w)
    /\ call'["steer"].id = call["steer"].id
    /\ task'.at = "starting" =>
          /\ task.at = "starting" /\ call'["turn"].id = call["turn"].id
          /\ call'["turn"].reply = "eof" =>
                call["turn"].reply = "eof" \/ (turn \in crossed' /\ reader' = "gone" /\ ~server'.up)
    /\ task'.at = "begin" => task.at = "begin"
    /\ task'.at = "oneshot" => task.at = "oneshot" \/ FellBack
    /\ task'.at # "idle" => task.at # "idle"

LEMMA FewerRequests ==
    ASSUME PoolTypes, RequestsOnce, PipesKept
    PROVE  /\ In' \subseteq In /\ Distinct(server.in)'
           /\ ~server'.up => server'.in = << >> /\ server'.turn = 0
           /\ server'.turn # 0 => server'.turn = server.turn
           /\ \A t : StartIn(t)' => StartIn(t)
           /\ \A n : SteerIn(n)' => SteerIn(n)
           /\ ~server.up => ~server'.up
<1>1. CASE server'.in = server.in /\ server'.up = server.up /\ server'.turn \in {0, server.turn}
  <2>1. In' = In
    BY <1>1 DEF In, Elems
  <2>2. Distinct(server.in)'
    BY <1>1 DEF RequestsOnce, Distinct
  <2>. QED BY <1>1, <2>1, <2>2 DEF RequestsOnce, StartIn, SteerIn
<1>2. CASE server'.in = << >> /\ ~server'.up /\ server'.turn = 0
  <2>1. In' = {} /\ Distinct(server.in)'
    BY <1>2, EmptyPipe DEF In
  <2>. QED BY <1>2, <2>1 DEF StartIn, SteerIn
<1>. QED BY <1>1, <1>2 DEF PipesKept

LEMMA AsksStay ==
    ASSUME PoolTypes, Asks, NothingAsked
    PROVE  Asks'
<1>1. RequestsOnce /\ CallsAnswered /\ OutcomesTrue /\ RunsCounted
  BY DEF Asks
<1>2. /\ UNCHANGED <<turn, asked, steer, outcome, applied, runs>> /\ crossed \subseteq crossed'
      /\ \A l \in Out' : l.type = "response" => l \in Out
      /\ reader = "gone" => reader' = "gone"
  BY DEF NothingAsked
<1>3. /\ In' \subseteq In /\ Distinct(server.in)'
      /\ ~server'.up => server'.in = << >> /\ server'.turn = 0
      /\ server'.turn # 0 => server'.turn = server.turn
      /\ \A t : StartIn(t)' => StartIn(t)
      /\ \A n : SteerIn(n)' => SteerIn(n)
      /\ ~server.up => ~server'.up
  BY <1>1, FewerRequests DEF NothingAsked
<1>4. task'.at = "oneshot" => task.at = "oneshot" \/ \A t : ~StartIn(t)'
  <2>1. CASE FellBack
    <3>1. In' = {}
      BY <2>1, EmptyPipe DEF FellBack, In
    <3>. QED BY <3>1 DEF StartIn
  <2>. QED BY <2>1 DEF NothingAsked
<1>5. RequestsOnce'
  <2>1. ASSUME NEW t \in Nat, StartIn(t)'
        PROVE  /\ t \in Ids /\ t <= turn' /\ runs'[t] = 0
               /\ t = turn' => task'.at \notin {"begin", "oneshot"}
    BY <1>1, <1>2, <1>3, <1>4, <2>1 DEF RequestsOnce, NothingAsked
  <2>2. ASSUME NEW n \in Nat, SteerIn(n)'
        PROVE  /\ n \in 1 .. steer'.n /\ applied'[n] = 0
               /\ n = steer'.n => steer'.at # "aim"
    BY <1>1, <1>2, <1>3, <2>2 DEF RequestsOnce
  <2>3. \A r \in In' : r.id \in 1 .. asked' /\ (r.method = "steer" => r.turn # 0)
    BY <1>1, <1>2, <1>3 DEF RequestsOnce
  <2>. QED BY <1>3, <2>1, <2>2, <2>3 DEF RequestsOnce
<1>6. CallsAnswered'
  <2>1. \A w \in Callers : call'[w].id <= asked'
    <3>1. ASSUME NEW w \in Callers PROVE call'[w].id <= asked'
      <4>1. call'[w].id \in {0, call[w].id} /\ call[w].id <= asked /\ asked \in Nat /\ asked' = asked
        BY <1>1, <1>2 DEF CallsAnswered, NothingAsked, LearnsNothing, PoolTypes
      <4>. QED BY <4>1
    <3>. QED BY <3>1
  <2>2. \A t : NotStarted(t) => NotStarted(t)'
    BY <1>2, <1>3 DEF NotStarted
  <2>3. \A n : NotApplied(n) => NotApplied(n)'
    BY <1>2, <1>3 DEF NotApplied
  <2>4. \A r \in In' : At("starting")' /\ r.id = call'["turn"].id => r.method = "start" /\ r.turn = turn'
    BY <1>1, <1>2, <1>3 DEF CallsAnswered, NothingAsked, At
  <2>5. \A r \in In' : r.id = call'["steer"].id => r.method = "steer" /\ r.what = steer'.n
    BY <1>1, <1>2, <1>3 DEF CallsAnswered, NothingAsked
  <2>6. ASSUME NEW l \in Out', l.type = "response"
        PROVE  /\ l.n \in 1 .. asked'
               /\ At("starting")' /\ l.n = call'["turn"].id /\ ~l.good => NotStarted(turn)'
               /\ l.n = call'["steer"].id =>
                     IF l.good THEN applied'[steer'.n] # 0 ELSE NotApplied(steer.n)'
    <3>1. l \in Out
      BY <1>2, <2>6
    <3>2. l.n \in 1 .. asked'
      BY <1>1, <1>2, <2>6, <3>1 DEF CallsAnswered
    <3>3. At("starting")' /\ l.n = call'["turn"].id /\ ~l.good => NotStarted(turn)'
      BY <1>1, <1>2, <2>2, <2>6, <3>1 DEF CallsAnswered, NothingAsked, At
    <3>4. l.n = call'["steer"].id =>
              IF l.good THEN applied'[steer'.n] # 0 ELSE NotApplied(steer.n)'
      BY <1>1, <1>2, <2>3, <2>6, <3>1 DEF CallsAnswered, NothingAsked
    <3>. QED BY <3>2, <3>3, <3>4
  <2>7. At("starting")' => /\ call'["turn"].reply = "error" => NotStarted(turn)'
                           /\ call'["turn"].reply = "eof" =>
                                 turn' \in crossed' /\ reader' = "gone" /\ ~server'.up
    BY <1>1, <1>2, <1>3, <2>2 DEF CallsAnswered, NothingAsked, At, LearnsNothing, Callers
  <2>8. /\ call'["steer"].id # 0 => steer'.at = "asking"
        /\ steer'.at = "asking" =>
              /\ steer'.n >= 1
              /\ call'["steer"].reply = "ok" => applied'[steer'.n] # 0
              /\ call'["steer"].reply = "error" => NotApplied(steer.n)'
    BY <1>1, <1>2, <2>3 DEF CallsAnswered, NothingAsked, LearnsNothing, Callers
  <2>. QED BY <2>1, <2>4, <2>5, <2>6, <2>7, <2>8 DEF CallsAnswered
<1>7. OutcomesTrue'
  <2>1. \A n : NotApplied(n) => NotApplied(n)'
    BY <1>2, <1>3 DEF NotApplied
  <2>. QED BY <1>1, <1>2, <2>1 DEF OutcomesTrue
<1>8. RunsCounted'
  <2>1. \A t \in Ids : /\ t > turn' => runs'[t] = 0
                       /\ runs'[t] <= 1 \/ (Astra /\ t \in crossed')
    BY <1>1, <1>2 DEF RunsCounted
  <2>2. At("begin")' => runs'[turn'] = 0
    BY <1>1, <1>2 DEF RunsCounted, NothingAsked, At
  <2>3. At("oneshot")' => /\ runs'[turn'] = 0 \/ (Astra /\ turn' \in crossed')
                          /\ ~server'.up /\ reader' = "gone"
    BY <1>1, <1>2, <1>3 DEF RunsCounted, NothingAsked, At, FellBack
  <2>4. server'.turn # 0 => server'.turn \in Ids /\ runs'[server'.turn] > 0
    BY <1>1, <1>2, <1>3 DEF RunsCounted
  <2>5. ~At("idle")' => turn' \in Ids
    BY <1>1, <1>2 DEF RunsCounted, NothingAsked, At
  <2>. QED BY <2>1, <2>2, <2>3, <2>4, <2>5 DEF RunsCounted
<1>. QED BY <1>5, <1>6, <1>7, <1>8 DEF Asks

\* A request is written, behind those that are on their way, or nobody reads it.
LEMMA RequestFacts ==
    ASSUME PoolTypes, RequestsOnce, NEW caller \in Callers, NEW p, NEW r \in Requests,
           Request(caller, p, r), \A y \in In : ~SameWork(y, r)
    PROVE  /\ asked \in Nat /\ asked' = asked + 1
           /\ Numbered(r).id = asked + 1 /\ Numbered(r).method = r.method
           /\ Numbered(r).turn = r.turn /\ Numbered(r).what = r.what
           /\ In' = In \/ In' = In \union {Numbered(r)}
           /\ Distinct(server.in)' /\ Out' = Out /\ server'.turn = server.turn
           /\ server'.up = server.up /\ (~server'.up => server'.in = << >> /\ server'.turn = 0)
           /\ call'[caller].id = asked + 1 /\ call'[caller].reply \in {"none", "error"}
           /\ call'[caller].reply = "error" => In' = In
           /\ \A w \in Callers : w # caller => call'[w] = call[w]
<1>1. /\ asked' = asked + 1 /\ asked' \in Nat
      /\ Numbered(r) \in Requests /\ Numbered(r).id = asked + 1
      /\ Numbered(r).method = r.method /\ Numbered(r).turn = r.turn /\ Numbered(r).what = r.what
      /\ \A w \in Callers : w # caller => call'[w] = call[w]
      /\ call'[caller].id = asked + 1
      /\ \/ /\ Reaches(p) /\ call'[caller].reply = "none"
            /\ server'.in = Append(server.in, Numbered(r)) /\ server'.out = server.out
            /\ server'.turn = server.turn /\ server'.up = server.up
         \/ ~Reaches(p) /\ server' = server /\ call'[caller].reply \in {"error", "none"}
  BY RequestSent
<1>2. asked \in Nat
  BY DEF PoolTypes
<1>3. CASE Reaches(p)
  <2>1. PICK x : x = Numbered(r)
    OBVIOUS
  <2>2. \A y \in In : ~SameWork(y, x)
    BY <1>1, <2>1 DEF SameWork
  <2>3. /\ Elems(Append(server.in, x)) = Elems(server.in) \union {x}
        /\ Distinct(Append(server.in, x))
    BY <1>1, <2>1, <2>2, PipeTypes, PipeAppend DEF In, RequestsOnce
  <2>4. PICK in : in = Append(server.in, x)
    OBVIOUS
  <2>5. server'.in = in /\ server'.out = server.out /\ Elems(in) = Elems(server.in) \union {x} /\ Distinct(in)
    BY <1>1, <1>3, <2>1, <2>3, <2>4
  <2>6. In' = In \union {x} /\ Out' = Out
    BY <2>5 DEF In, Out, Elems
  <2>7. Distinct(server.in)'
    BY <2>5 DEF Distinct
  <2>. QED BY <1>1, <1>2, <1>3, <2>1, <2>6, <2>7 DEF Reaches
<1>4. CASE ~Reaches(p)
  <2>1. In' = In /\ Distinct(server.in)' /\ Out' = Out
    BY <1>1, <1>4 DEF In, Out, Elems, Distinct, RequestsOnce
  <2>. QED BY <1>1, <1>2, <1>4, <2>1 DEF RequestsOnce
<1>. QED BY <1>3, <1>4

\* Interrupts and approvals.
LEMMA AsksOther ==
    ASSUME PoolTypes, Asks, NEW caller \in {"turn", "approve"}, NEW p, NEW r \in Requests,
           Request(caller, p, r), r.method \in {"interrupt", "approval"},
           UNCHANGED <<turn, steer, outcome, applied, runs, crossed, reader>>,
           \/ caller = "turn" /\ task.at = "interrupting" /\ task'.at = "asking"
           \/ caller = "approve" /\ task'.at = task.at
    PROVE  Asks'
<1>1. RequestsOnce /\ CallsAnswered /\ OutcomesTrue /\ RunsCounted
  BY DEF Asks
<1>2. /\ asked \in Nat /\ asked' = asked + 1
      /\ Numbered(r).id = asked + 1 /\ Numbered(r).method = r.method
      /\ In' = In \/ In' = In \union {Numbered(r)}
      /\ Distinct(server.in)' /\ Out' = Out /\ server'.turn = server.turn
      /\ server'.up = server.up /\ (~server'.up => server'.in = << >> /\ server'.turn = 0)
      /\ call'[caller].id = asked + 1
      /\ \A w \in Callers : w # caller => call'[w] = call[w]
  <2>1. caller \in Callers /\ \A y \in In : ~SameWork(y, r)
    BY DEF Callers, SameWork
  <2>. QED BY <1>1, <2>1, RequestFacts
<1>3. /\ \A t : StartIn(t)' => StartIn(t)
      /\ \A n : SteerIn(n)' => SteerIn(n)
  BY <1>2 DEF StartIn, SteerIn
<1>4. call'["steer"] = call["steer"]
  BY <1>2 DEF Callers
<1>5. task'.at = "starting" => task.at = "starting" /\ call'["turn"] = call["turn"]
  BY <1>2 DEF Callers
<1>6. task'.at \in {"begin", "oneshot", "idle"} => task'.at = task.at
  OBVIOUS
<1>7. RequestsOnce'
  <2>1. ASSUME NEW t \in Nat, StartIn(t)'
        PROVE  /\ t \in Ids /\ t <= turn' /\ runs'[t] = 0
               /\ t = turn' => task'.at \notin {"begin", "oneshot"}
    BY <1>1, <1>3, <1>6, <2>1 DEF RequestsOnce
  <2>2. ASSUME NEW n \in Nat, SteerIn(n)'
        PROVE  /\ n \in 1 .. steer'.n /\ applied'[n] = 0
               /\ n = steer'.n => steer'.at # "aim"
    BY <1>1, <1>3, <2>2 DEF RequestsOnce
  <2>3. \A q \in In' : q.id \in 1 .. asked'
    BY <1>1, <1>2 DEF RequestsOnce
  <2>4. \A q \in In' : q.method = "steer" => q.turn # 0
    BY <1>1, <1>2 DEF RequestsOnce
  <2>. QED BY <1>2, <2>1, <2>2, <2>3, <2>4 DEF RequestsOnce
<1>8. CallsAnswered'
  <2>1. \A w \in Callers : call'[w].id <= asked'
    <3>1. ASSUME NEW w \in Callers PROVE call'[w].id <= asked'
      <4>1. call[w].id \in Nat /\ call[w].id <= asked
        BY <1>1 DEF CallsAnswered, PoolTypes, CallTypes
      <4>. QED BY <1>2, <4>1
    <3>. QED BY <3>1
  <2>2. \A t : NotStarted(t) => NotStarted(t)'
    BY <1>3 DEF NotStarted
  <2>3. \A n : NotApplied(n) => NotApplied(n)'
    BY <1>3 DEF NotApplied
  <2>4. ASSUME NEW q \in In'
        PROVE  q \in In \/ (q.id = asked + 1 /\ call["turn"].id # q.id /\ call["steer"].id # q.id)
    <3>1. /\ call["turn"].id \in Nat /\ call["turn"].id <= asked
          /\ call["steer"].id \in Nat /\ call["steer"].id <= asked
      BY <1>1 DEF CallsAnswered, PoolTypes, CallTypes, Callers
    <3>. QED BY <1>2, <3>1
  <2>5. \A q \in In' : At("starting")' /\ q.id = call'["turn"].id => q.method = "start" /\ q.turn = turn'
    BY <1>1, <1>5, <2>4 DEF CallsAnswered, At
  <2>6. \A q \in In' : q.id = call'["steer"].id => q.method = "steer" /\ q.what = steer'.n
    BY <1>1, <1>4, <2>4 DEF CallsAnswered
  <2>7. ASSUME NEW l \in Out', l.type = "response"
        PROVE  /\ l.n \in 1 .. asked'
               /\ At("starting")' /\ l.n = call'["turn"].id /\ ~l.good => NotStarted(turn)'
               /\ l.n = call'["steer"].id =>
                     IF l.good THEN applied'[steer'.n] # 0 ELSE NotApplied(steer.n)'
    <3>1. l \in Out /\ l.n \in 1 .. asked
      BY <1>1, <1>2, <2>7 DEF CallsAnswered
    <3>2. At("starting")' /\ l.n = call'["turn"].id /\ ~l.good => NotStarted(turn)'
      BY <1>1, <1>5, <2>2, <2>7, <3>1 DEF CallsAnswered, At
    <3>3. l.n = call'["steer"].id =>
              IF l.good THEN applied'[steer'.n] # 0 ELSE NotApplied(steer.n)'
      BY <1>1, <1>4, <2>3, <2>7, <3>1 DEF CallsAnswered
    <3>. QED BY <1>2, <3>1, <3>2, <3>3
  <2>8. At("starting")' => /\ call'["turn"].reply = "error" => NotStarted(turn)'
                           /\ call'["turn"].reply = "eof" =>
                                 turn' \in crossed' /\ reader' = "gone" /\ ~server'.up
    BY <1>1, <1>2, <1>5, <2>2 DEF CallsAnswered, At
  <2>9. /\ call'["steer"].id # 0 => steer'.at = "asking"
        /\ steer'.at = "asking" =>
              /\ steer'.n >= 1
              /\ call'["steer"].reply = "ok" => applied'[steer'.n] # 0
              /\ call'["steer"].reply = "error" => NotApplied(steer.n)'
    BY <1>1, <1>4, <2>3 DEF CallsAnswered
  <2>. QED BY <2>1, <2>5, <2>6, <2>7, <2>8, <2>9 DEF CallsAnswered
<1>9. OutcomesTrue'
  <2>1. \A n : NotApplied(n) => NotApplied(n)'
    BY <1>3 DEF NotApplied
  <2>. QED BY <1>1, <2>1 DEF OutcomesTrue
<1>10. RunsCounted'
  <2>1. \A t \in Ids : /\ t > turn' => runs'[t] = 0
                       /\ runs'[t] <= 1 \/ (Astra /\ t \in crossed')
    BY <1>1 DEF RunsCounted
  <2>2. /\ At("begin")' => runs'[turn'] = 0
        /\ At("oneshot")' => /\ runs'[turn'] = 0 \/ (Astra /\ turn' \in crossed')
                             /\ ~server'.up /\ reader' = "gone"
    BY <1>1, <1>2, <1>6 DEF RunsCounted, At
  <2>3. server'.turn # 0 => server'.turn \in Ids /\ runs'[server'.turn] > 0
    BY <1>1, <1>2 DEF RunsCounted
  <2>4. ~At("idle")' => turn' \in Ids
    BY <1>1, <1>6 DEF RunsCounted, At
  <2>. QED BY <2>1, <2>2, <2>3, <2>4 DEF RunsCounted
<1>. QED BY <1>7, <1>8, <1>9, <1>10 DEF Asks

\* A follow-up is asked for.
SteerRequest == [method |-> "steer", id |-> 0, turn |-> handle.active, what |-> steer.n]

LEMMA AsksSteer ==
    ASSUME PoolTypes, Asks, steer.at = "aim", NEW p, Request("steer", p, SteerRequest),
           Reaches(p) => handle.active # 0,
           UNCHANGED <<turn, task, outcome, applied, runs, crossed, reader>>,
           steer'.at = "asking", steer'.n = steer.n
    PROVE  Asks'
<1>1. RequestsOnce /\ CallsAnswered /\ OutcomesTrue /\ RunsCounted
  BY DEF Asks
<1>2. PICK n : n = steer.n
  OBVIOUS
<1>3. n \in Nat /\ n \in 1 .. n /\ handle.active \in Nat /\ Len(outcome) + 1 = n /\ Len(outcome) \in Nat
  BY <1>1, <1>2 DEF OutcomesTrue, PoolTypes, SteerTypes, HandleTypes
<1>4. NotApplied(n)
  BY <1>1, <1>2, <1>3 DEF NotApplied, OutcomesTrue, RequestsOnce
<1>5. PICK r : r = SteerRequest
  OBVIOUS
<1>6. r \in Requests /\ r.method = "steer" /\ r.what = n /\ r.turn = handle.active
  BY <1>2, <1>3, <1>5 DEF SteerRequest, Requests, Methods
<1>7. PICK x : x = Numbered(r)
  OBVIOUS
<1>8. "steer" \in Callers /\ \A y \in In : ~SameWork(y, r)
  BY <1>4, <1>6 DEF Callers, SameWork, NotApplied, SteerIn
<1>9. /\ asked \in Nat /\ asked' = asked + 1
      /\ x.id = asked + 1 /\ x.method = "steer" /\ x.turn = handle.active /\ x.what = n
      /\ In' = In \/ In' = In \union {x}
      /\ Distinct(server.in)' /\ Out' = Out /\ server'.turn = server.turn
      /\ server'.up = server.up /\ (~server'.up => server'.in = << >> /\ server'.turn = 0)
      /\ call'["steer"].id = asked + 1 /\ call'["steer"].reply \in {"none", "error"}
      /\ call'["steer"].reply = "error" => In' = In
      /\ \A w \in Callers : w # "steer" => call'[w] = call[w]
  BY <1>1, <1>5, <1>6, <1>7, <1>8, RequestFacts
<1>10. ~Reaches(p) => In' = In
  BY DEF Request, In
<1>11. /\ \A t : StartIn(t)' => StartIn(t)
       /\ \A m : SteerIn(m)' => SteerIn(m) \/ m = n
  BY <1>9 DEF StartIn, SteerIn
<1>12. call'["turn"] = call["turn"]
  BY <1>9 DEF Callers
<1>13. RequestsOnce'
  <2>1. ASSUME NEW t \in Nat, StartIn(t)'
        PROVE  /\ t \in Ids /\ t <= turn' /\ runs'[t] = 0
               /\ t = turn' => task'.at \notin {"begin", "oneshot"}
    BY <1>1, <1>11, <2>1 DEF RequestsOnce
  <2>2. ASSUME NEW m \in Nat, SteerIn(m)'
        PROVE  /\ m \in 1 .. steer'.n /\ applied'[m] = 0
               /\ m = steer'.n => steer'.at # "aim"
    BY <1>1, <1>2, <1>3, <1>4, <1>11, <2>2 DEF RequestsOnce, NotApplied
  <2>3. \A q \in In' : q.id \in 1 .. asked'
    BY <1>1, <1>9 DEF RequestsOnce
  <2>4. \A q \in In' : q.method = "steer" => q.turn # 0
    BY <1>1, <1>9, <1>10 DEF RequestsOnce
  <2>. QED BY <1>9, <2>1, <2>2, <2>3, <2>4 DEF RequestsOnce
<1>14. CallsAnswered'
  <2>1. \A w \in Callers : call'[w].id <= asked'
    <3>1. ASSUME NEW w \in Callers PROVE call'[w].id <= asked'
      <4>1. call[w].id \in Nat /\ call[w].id <= asked
        BY <1>1 DEF CallsAnswered, PoolTypes, CallTypes
      <4>. QED BY <1>9, <4>1
    <3>. QED BY <3>1
  <2>2. \A t : NotStarted(t) => NotStarted(t)'
    BY <1>11 DEF NotStarted
  <2>3. ASSUME NEW q \in In'
        PROVE  q \in In \/ (q = x /\ call["turn"].id # x.id)
    <3>1. call["turn"].id \in Nat /\ call["turn"].id <= asked
      BY <1>1 DEF CallsAnswered, PoolTypes, CallTypes, Callers
    <3>. QED BY <1>9, <3>1
  <2>4. \A q \in In' : At("starting")' /\ q.id = call'["turn"].id => q.method = "start" /\ q.turn = turn'
    BY <1>1, <1>12, <2>3 DEF CallsAnswered, At
  <2>5. \A q \in In : q.id # asked + 1
    BY <1>1, <1>9 DEF RequestsOnce
  <2>6. \A q \in In' : q.id = call'["steer"].id => q.method = "steer" /\ q.what = steer'.n
    BY <1>2, <1>9, <2>3, <2>5
  <2>7. ASSUME NEW l \in Out', l.type = "response"
        PROVE  /\ l.n \in 1 .. asked'
               /\ At("starting")' /\ l.n = call'["turn"].id /\ ~l.good => NotStarted(turn)'
               /\ l.n # call'["steer"].id
    <3>1. l \in Out /\ l.n \in 1 .. asked
      BY <1>1, <1>9, <2>7 DEF CallsAnswered
    <3>2. At("starting")' /\ l.n = call'["turn"].id /\ ~l.good => NotStarted(turn)'
      BY <1>1, <1>12, <2>2, <2>7, <3>1 DEF CallsAnswered, At
    <3>. QED BY <1>9, <3>1, <3>2
  <2>8. At("starting")' => /\ call'["turn"].reply = "error" => NotStarted(turn)'
                           /\ call'["turn"].reply = "eof" =>
                                 turn' \in crossed' /\ reader' = "gone" /\ ~server'.up
    BY <1>1, <1>9, <1>12, <2>2 DEF CallsAnswered, At
  <2>9. call'["steer"].reply = "error" => NotApplied(steer.n)'
    BY <1>2, <1>4, <1>9 DEF NotApplied, SteerIn
  <2>10. steer'.at = "asking" /\ steer'.n >= 1 /\ call'["steer"].reply # "ok"
    BY <1>2, <1>3, <1>9
  <2>. QED BY <2>1, <2>4, <2>6, <2>7, <2>8, <2>9, <2>10 DEF CallsAnswered
<1>15. OutcomesTrue'
  <2>1. \A m : m # n /\ NotApplied(m) => NotApplied(m)'
    BY <1>11 DEF NotApplied
  <2>2. \A m \in 1 .. Len(outcome) : m # n
    BY <1>3
  <2>. QED BY <1>1, <1>2, <2>1, <2>2 DEF OutcomesTrue
<1>16. RunsCounted'
  <2>1. \A t \in Ids : /\ t > turn' => runs'[t] = 0
                       /\ runs'[t] <= 1 \/ (Astra /\ t \in crossed')
    BY <1>1 DEF RunsCounted
  <2>2. /\ At("begin")' => runs'[turn'] = 0
        /\ At("oneshot")' => /\ runs'[turn'] = 0 \/ (Astra /\ turn' \in crossed')
                             /\ ~server'.up /\ reader' = "gone"
    BY <1>1, <1>9 DEF RunsCounted, At
  <2>3. server'.turn # 0 => server'.turn \in Ids /\ runs'[server'.turn] > 0
    BY <1>1, <1>9 DEF RunsCounted
  <2>4. ~At("idle")' => turn' \in Ids
    BY <1>1 DEF RunsCounted, At
  <2>. QED BY <2>1, <2>2, <2>3, <2>4 DEF RunsCounted
<1>. QED BY <1>13, <1>14, <1>15, <1>16 DEF Asks

\* A turn is begun, with a process that is there or a new one.
LEMMA AsksPrepare ==
    ASSUME PoolTypes, Asks, Prepare
    PROVE  Asks'
<1>1. RequestsOnce /\ CallsAnswered /\ OutcomesTrue /\ RunsCounted
  BY DEF Asks
<1>2. /\ turn \in Ids /\ runs[turn] = 0 /\ At("begin") /\ task'.at = "starting"
      /\ UNCHANGED <<turn, steer, outcome, applied, runs, crossed>>
  BY <1>1 DEF RunsCounted, Prepare, At, steerVars, historyVars
<1>3. NotStarted(turn) /\ turn \in Nat
  BY <1>1, <1>2 DEF NotStarted, RequestsOnce, At, Ids
<1>4. PICK x : x = Numbered(TurnStart)
  OBVIOUS
<1>5. TurnStart \in Requests /\ TurnStart.method = "start" /\ TurnStart.turn = turn
  BY <1>3 DEF TurnStart, Requests, Methods
<1>6. asked \in Nat /\ x \in Requests /\ x.id = asked + 1 /\ x.method = "start" /\ x.turn = turn
  <2>1. asked \in Nat
    BY DEF PoolTypes
  <2>2. PICK r : r = TurnStart
    OBVIOUS
  <2>3. x = [r EXCEPT !.id = asked + 1]
    BY <1>4, <2>2 DEF Numbered
  <2>4. r \in Requests /\ r.method = "start" /\ r.turn = turn
    BY <1>5, <2>2
  <2>. QED BY <2>1, <2>3, <2>4 DEF Requests
\* Either way the request is the only new one, and nothing was answered to it.
<1>7. /\ asked' = asked + 1
      /\ In' \subseteq In \union {x} /\ Distinct(server.in)' /\ Out' \subseteq Out
      /\ server'.turn \in {0, server.turn} /\ (~server'.up => server'.in = << >> /\ server'.turn = 0)
      /\ call'["turn"].id = asked + 1 /\ call'["turn"].reply \in {"none", "error"}
      /\ call'["turn"].reply = "error" => In' = In
      /\ \A w \in Callers : w # "turn" => call'[w] = call[w]
  <2>1. CASE Alive
    <3>1. Request("turn", handle.proc, TurnStart)
      BY <1>2, <2>1 DEF Prepare
    <3>2. "turn" \in Callers /\ \A y \in In : ~SameWork(y, TurnStart)
      BY <1>3, <1>5 DEF Callers, SameWork, NotStarted, StartIn
    <3>. QED BY <1>1, <1>4, <1>5, <3>1, <3>2, RequestFacts
  <2>2. CASE ~Alive
    <3>1. /\ server' = [NewServer EXCEPT !.in = <<x>>] /\ asked' = asked + 1
          /\ call' = [call EXCEPT !["turn"] = [id |-> asked + 1, reply |-> "none"]]
      BY <1>2, <1>4, <2>2 DEF Prepare, Numbered
    <3>2. server'.in = <<x>> /\ server'.up /\ server'.turn = 0 /\ server'.out = << >>
      BY <3>1 DEF NewServer, NoServer
    <3>3. Len(<<x>>) = 1 /\ <<x>>[1] = x
      OBVIOUS
    <3>4. In' = {x} /\ Distinct(server.in)'
      BY <3>2, <3>3 DEF In, Elems, Distinct
    <3>5. Out' = {}
      BY <3>2, EmptyPipe DEF Out
    <3>6. call \in [Callers -> CallTypes] /\ "turn" \in Callers
      BY DEF PoolTypes, Callers
    <3>. QED BY <3>1, <3>2, <3>4, <3>5, <3>6
  <2>. QED BY <2>1, <2>2
<1>8. /\ \A t : StartIn(t)' => StartIn(t) \/ t = turn
      /\ \A n : SteerIn(n)' => SteerIn(n)
  BY <1>6, <1>7 DEF StartIn, SteerIn
<1>9. call'["steer"] = call["steer"]
  BY <1>7 DEF Callers
<1>10. \A n : NotApplied(n) => NotApplied(n)'
  BY <1>2, <1>8 DEF NotApplied
<1>11. RequestsOnce'
  <2>1. ASSUME NEW t \in Nat, StartIn(t)'
        PROVE  /\ t \in Ids /\ t <= turn' /\ runs'[t] = 0
               /\ t = turn' => task'.at \notin {"begin", "oneshot"}
    BY <1>1, <1>2, <1>3, <1>8, <2>1 DEF RequestsOnce
  <2>2. ASSUME NEW n \in Nat, SteerIn(n)'
        PROVE  /\ n \in 1 .. steer'.n /\ applied'[n] = 0
               /\ n = steer'.n => steer'.at # "aim"
    BY <1>1, <1>2, <1>8, <2>2 DEF RequestsOnce
  <2>3. \A q \in In' : q.id \in 1 .. asked'
    BY <1>1, <1>6, <1>7 DEF RequestsOnce
  <2>4. \A q \in In' : q.method = "steer" => q.turn # 0
    BY <1>1, <1>6, <1>7 DEF RequestsOnce
  <2>. QED BY <1>7, <2>1, <2>2, <2>3, <2>4 DEF RequestsOnce
<1>12. CallsAnswered'
  <2>1. \A w \in Callers : call'[w].id <= asked'
    <3>1. ASSUME NEW w \in Callers PROVE call'[w].id <= asked'
      <4>1. call[w].id \in Nat /\ call[w].id <= asked
        BY <1>1 DEF CallsAnswered, PoolTypes, CallTypes
      <4>. QED BY <1>6, <1>7, <4>1
    <3>. QED BY <3>1
  <2>2. ASSUME NEW q \in In'
        PROVE  \/ q \in In /\ q.id # call'["turn"].id
               \/ q = x /\ q.id # call'["steer"].id
    <3>1. call["steer"].id \in Nat /\ call["steer"].id <= asked
      BY <1>1 DEF CallsAnswered, PoolTypes, CallTypes, Callers
    <3>2. \A r \in In : r.id \in 1 .. asked
      BY <1>1 DEF RequestsOnce
    <3>. QED BY <1>6, <1>7, <1>9, <3>1, <3>2
  <2>3. \A q \in In' : At("starting")' /\ q.id = call'["turn"].id => q.method = "start" /\ q.turn = turn'
    BY <1>2, <1>6, <2>2
  <2>4. \A q \in In' : q.id = call'["steer"].id => q.method = "steer" /\ q.what = steer'.n
    BY <1>1, <1>2, <1>9, <2>2 DEF CallsAnswered
  <2>5. ASSUME NEW l \in Out', l.type = "response"
        PROVE  /\ l.n \in 1 .. asked' /\ l.n # call'["turn"].id
               /\ l.n = call'["steer"].id =>
                     IF l.good THEN applied'[steer'.n] # 0 ELSE NotApplied(steer.n)'
    <3>1. l \in Out /\ l.n \in 1 .. asked
      BY <1>1, <1>7, <2>5 DEF CallsAnswered
    <3>2. l.n = call'["steer"].id =>
              IF l.good THEN applied'[steer'.n] # 0 ELSE NotApplied(steer.n)'
      BY <1>1, <1>2, <1>9, <1>10, <2>5, <3>1 DEF CallsAnswered
    <3>. QED BY <1>6, <1>7, <3>1, <3>2
  <2>6. call'["turn"].reply = "error" => NotStarted(turn)'
    BY <1>2, <1>3, <1>7 DEF NotStarted, StartIn
  <2>7. /\ call'["steer"].id # 0 => steer'.at = "asking"
        /\ steer'.at = "asking" =>
              /\ steer'.n >= 1
              /\ call'["steer"].reply = "ok" => applied'[steer'.n] # 0
              /\ call'["steer"].reply = "error" => NotApplied(steer.n)'
    BY <1>1, <1>2, <1>9, <1>10 DEF CallsAnswered
  <2>. QED BY <1>7, <2>1, <2>3, <2>4, <2>5, <2>6, <2>7 DEF CallsAnswered
<1>13. OutcomesTrue'
  BY <1>1, <1>2, <1>10 DEF OutcomesTrue
<1>14. RunsCounted'
  <2>1. \A t \in Ids : /\ t > turn' => runs'[t] = 0
                       /\ runs'[t] <= 1 \/ (Astra /\ t \in crossed')
    BY <1>1, <1>2 DEF RunsCounted
  <2>2. server'.turn # 0 => server'.turn \in Ids /\ runs'[server'.turn] > 0
    BY <1>1, <1>2, <1>7 DEF RunsCounted
  <2>. QED BY <1>2, <2>1, <2>2 DEF RunsCounted, At
<1>. QED BY <1>11, <1>12, <1>13, <1>14 DEF Asks

-----------------------------------------------------------------------------
(* The server reads a request. *)

\* What is left in the pipe of requests when the first one is read.
LEMMA FirstRead ==
    ASSUME PoolTypes, RequestsOnce, server.in # << >>, server'.in = Tail(server.in),
           NEW q, q = Head(server.in)
    PROVE  /\ q \in In /\ q \in Requests /\ In' \subseteq In /\ In \subseteq In' \union {q}
           /\ Distinct(server.in)' /\ \A y \in In' : ~SameWork(q, y)
           /\ \A t : StartIn(t)' => StartIn(t) /\ (q.method = "start" => t # q.turn)
           /\ \A n : SteerIn(n)' => SteerIn(n) /\ (q.method = "steer" => n # q.what)
<1>1. PICK s : s = Tail(server.in)
  OBVIOUS
<1>2. /\ q \in Requests /\ Elems(s) \subseteq Elems(server.in) /\ q \in Elems(server.in)
      /\ Elems(server.in) \subseteq Elems(s) \union {q}
      /\ Distinct(s) /\ \A y \in Elems(s) : ~SameWork(q, y)
  BY <1>1, PipeTypes, PipeTail DEF RequestsOnce
<1>3. In' = Elems(s) /\ In = Elems(server.in) /\ server'.in = s
  BY <1>1 DEF In, Elems
<1>4. Distinct(server.in)'
  BY <1>2, <1>3 DEF Distinct
<1>5. \A t : StartIn(t)' => StartIn(t) /\ (q.method = "start" => t # q.turn)
  BY <1>2, <1>3 DEF StartIn, SameWork
<1>6. \A n : SteerIn(n)' => SteerIn(n) /\ (q.method = "steer" => n # q.what)
  BY <1>2, <1>3 DEF SteerIn, SameWork
<1>. QED BY <1>2, <1>3, <1>4, <1>5, <1>6

\* What the server does with a request: it begins a turn, applies a follow-up, or
\* neither; and it says whether it did.
Does(q, good) ==
    \/ /\ q.method = "start" /\ good
       /\ server'.turn = q.turn /\ runs' = [runs EXCEPT ![q.turn] = @ + 1] /\ applied' = applied
    \/ /\ q.method = "steer" /\ good /\ server.turn = q.turn
       /\ server'.turn = server.turn /\ runs' = runs
       /\ applied' = [applied EXCEPT ![q.what] = server.turn]
    \/ /\ q.method \in {"start", "steer"} => ~good
       /\ server'.turn \in {0, server.turn} /\ runs' = runs /\ applied' = applied

LEMMA AsksRead ==
    ASSUME PoolTypes, Asks, server.up, server.in # << >>, server'.in = Tail(server.in),
           server'.up = server.up, NEW q, q = Head(server.in),
           NEW good \in BOOLEAN, Does(q, good),
           \A l \in Out' : l.type = "response" => l \in Out \/ (l.n = q.id /\ l.good = good),
           UNCHANGED <<turn, task, call, asked, steer, outcome, crossed, reader>>
    PROVE  Asks'
<1>1. RequestsOnce /\ CallsAnswered /\ OutcomesTrue /\ RunsCounted
  BY DEF Asks
<1>2. /\ q \in In /\ q \in Requests /\ In' \subseteq In /\ In \subseteq In' \union {q}
      /\ Distinct(server.in)' /\ \A y \in In' : ~SameWork(q, y)
      /\ \A t : StartIn(t)' => StartIn(t) /\ (q.method = "start" => t # q.turn)
      /\ \A n : SteerIn(n)' => SteerIn(n) /\ (q.method = "steer" => n # q.what)
  BY <1>1, FirstRead
<1>3. /\ runs \in [Ids -> Nat] /\ applied \in [Followups -> Nat] /\ q.turn \in Nat /\ q.what \in Nat
      /\ q.id \in 1 .. asked /\ steer.n \in Nat /\ steer.n <= Disturbances /\ Disturbances \in Nat
  BY <1>1, <1>2, CodexAssumption DEF PoolTypes, Requests, RequestsOnce, SteerTypes
<1>4. q.method = "start" => StartIn(q.turn) /\ q.turn \in Ids /\ q.turn <= turn /\ runs[q.turn] = 0
  BY <1>1, <1>2, <1>3 DEF RequestsOnce, StartIn
<1>5. q.method = "steer" => SteerIn(q.what) /\ q.what \in 1 .. steer.n /\ q.what \in Followups
                            /\ applied[q.what] = 0 /\ q.turn # 0
  BY <1>1, <1>2, <1>3 DEF RequestsOnce, SteerIn, Followups
\* What the step does to the two counts.
<1>6. /\ \A t : t \in Ids /\ (q.method = "start" /\ good => t # q.turn) => runs'[t] = runs[t]
      /\ q.method = "start" /\ good => runs'[q.turn] = 1 /\ server'.turn = q.turn
      /\ ~(q.method = "start" /\ good) => server'.turn \in {0, server.turn}
  BY <1>3, <1>4 DEF Does
<1>7. /\ \A n : n \in Followups /\ (q.method = "steer" /\ good => n # q.what) => applied'[n] = applied[n]
      /\ q.method = "steer" /\ good => applied'[q.what] # 0
  BY <1>3, <1>5 DEF Does
<1>8. \A t : t \in Ids /\ NotStarted(t) => NotStarted(t)'
  BY <1>2, <1>4, <1>6 DEF NotStarted
<1>9. \A n : n \in Followups /\ NotApplied(n) => NotApplied(n)'
  BY <1>2, <1>5, <1>7 DEF NotApplied
<1>10. \A n : n \in Followups /\ applied[n] # 0 => applied'[n] # 0
  BY <1>7
<1>11. q.method = "start" /\ ~good => NotStarted(q.turn)'
  BY <1>2, <1>4, <1>6 DEF NotStarted
<1>12. q.method = "steer" /\ ~good => NotApplied(q.what)'
  BY <1>2, <1>5, <1>7 DEF NotApplied
<1>13. RequestsOnce'
  <2>1. ASSUME NEW t \in Nat, StartIn(t)'
        PROVE  /\ t \in Ids /\ t <= turn' /\ runs'[t] = 0
               /\ t = turn' => task'.at \notin {"begin", "oneshot"}
    BY <1>1, <1>2, <1>6, <2>1 DEF RequestsOnce
  <2>2. ASSUME NEW n \in Nat, SteerIn(n)'
        PROVE  /\ n \in 1 .. steer'.n /\ applied'[n] = 0
               /\ n = steer'.n => steer'.at # "aim"
    <3>1. n \in 1 .. steer.n /\ applied[n] = 0 /\ (n = steer.n => steer.at # "aim")
          /\ (q.method = "steer" => n # q.what)
      BY <1>1, <1>2, <2>2 DEF RequestsOnce
    <3>2. n \in Followups
      BY <1>3, <3>1 DEF Followups
    <3>. QED BY <1>7, <3>1, <3>2
  <2>3. \A r \in In' : r.id \in 1 .. asked' /\ (r.method = "steer" => r.turn # 0)
    BY <1>1, <1>2 DEF RequestsOnce
  <2>. QED BY <1>2, <2>1, <2>2, <2>3 DEF RequestsOnce
<1>14. CallsAnswered'
  <2>1. \A w \in Callers : call'[w].id <= asked'
    BY <1>1 DEF CallsAnswered
  <2>2. \A r \in In' : At("starting")' /\ r.id = call'["turn"].id => r.method = "start" /\ r.turn = turn'
    BY <1>1, <1>2 DEF CallsAnswered, At
  <2>3. \A r \in In' : r.id = call'["steer"].id => r.method = "steer" /\ r.what = steer'.n
    BY <1>1, <1>2 DEF CallsAnswered
  <2>4. call["steer"].id # 0 => steer.n \in Followups
    <3>1. call["steer"].id # 0 => steer.n >= 1
      BY <1>1 DEF CallsAnswered
    <3>. QED BY <1>3, <3>1 DEF Followups
  <2>5. At("starting") => turn \in Ids
    BY <1>1 DEF RunsCounted, At
  <2>6. ASSUME NEW l \in Out', l.type = "response"
        PROVE  /\ l.n \in 1 .. asked'
               /\ At("starting")' /\ l.n = call'["turn"].id /\ ~l.good => NotStarted(turn)'
               /\ l.n = call'["steer"].id =>
                     IF l.good THEN applied'[steer'.n] # 0 ELSE NotApplied(steer.n)'
    <3>1. CASE l \in Out
      <4>1. l.n \in 1 .. asked
        BY <1>1, <2>6, <3>1 DEF CallsAnswered
      <4>2. At("starting")' /\ l.n = call'["turn"].id /\ ~l.good => NotStarted(turn)'
        BY <1>1, <1>8, <2>5, <2>6, <3>1 DEF CallsAnswered, At
      <4>3. l.n = call'["steer"].id =>
                IF l.good THEN applied'[steer'.n] # 0 ELSE NotApplied(steer.n)'
        BY <1>1, <1>9, <1>10, <2>4, <2>6, <3>1, <4>1 DEF CallsAnswered
      <4>. QED BY <4>1, <4>2, <4>3
    <3>2. CASE l.n = q.id /\ l.good = good
      <4>1. At("starting")' /\ l.n = call'["turn"].id /\ ~l.good => NotStarted(turn)'
        BY <1>1, <1>2, <1>11, <3>2 DEF CallsAnswered, At
      <4>2. l.n = call'["steer"].id =>
                IF l.good THEN applied'[steer'.n] # 0 ELSE NotApplied(steer.n)'
        BY <1>1, <1>2, <1>7, <1>12, <3>2 DEF CallsAnswered
      <4>. QED BY <1>3, <3>2, <4>1, <4>2
    <3>. QED BY <2>6, <3>1, <3>2
  <2>7. At("starting")' => /\ call'["turn"].reply = "error" => NotStarted(turn)'
                           /\ call'["turn"].reply = "eof" =>
                                 turn' \in crossed' /\ reader' = "gone" /\ ~server'.up
    BY <1>1, <1>8, <2>5 DEF CallsAnswered, At
  <2>8. /\ call'["steer"].id # 0 => steer'.at = "asking"
        /\ steer'.at = "asking" =>
              /\ steer'.n >= 1
              /\ call'["steer"].reply = "ok" => applied'[steer'.n] # 0
              /\ call'["steer"].reply = "error" => NotApplied(steer.n)'
    <3>1. steer.at = "asking" => steer.n \in Followups
      BY <1>1, <1>3 DEF CallsAnswered, Followups
    <3>. QED BY <1>1, <1>9, <1>10, <3>1 DEF CallsAnswered
  <2>. QED BY <2>1, <2>2, <2>3, <2>6, <2>7, <2>8 DEF CallsAnswered
<1>15. OutcomesTrue'
  <2>1. /\ \A n \in 1 .. Len(outcome) : n \in Followups /\ n < steer.n + 1
        /\ steer.at = "aim" => steer.n \in Followups
    <3>1. Len(outcome) + (IF steer.at = "idle" THEN 0 ELSE 1) = steer.n /\ Len(outcome) \in Nat
      BY <1>1 DEF OutcomesTrue, PoolTypes
    <3>. QED BY <1>3, <3>1 DEF Followups
  <2>2. \A n \in 1 .. Len(outcome') :
            /\ outcome'[n] \in {"rejected", "noActiveTurn"} => NotApplied(n)'
            /\ outcome'[n] = "accepted" => applied'[n] # 0
    BY <1>1, <1>9, <1>10, <2>1 DEF OutcomesTrue
  <2>3. \A n \in Followups : n > steer'.n => applied'[n] = 0
    BY <1>1, <1>3, <1>5, <1>7 DEF OutcomesTrue
  <2>4. steer'.at = "aim" => applied'[steer'.n] = 0
    <3>1. steer.at = "aim" /\ q.method = "steer" => q.what # steer.n
      BY <1>1, <1>3, <1>5 DEF RequestsOnce
    <3>. QED BY <1>1, <1>7, <2>1, <3>1 DEF OutcomesTrue
  <2>. QED BY <1>1, <2>2, <2>3, <2>4 DEF OutcomesTrue
<1>16. RunsCounted'
  <2>1. \A t \in Ids : /\ t > turn' => runs'[t] = 0
                       /\ runs'[t] <= 1 \/ (Astra /\ t \in crossed')
    <3>1. turn \in Nat /\ q.turn \in Nat
      BY <1>3 DEF PoolTypes
    <3>. QED BY <1>1, <1>4, <1>6, <3>1 DEF RunsCounted, Ids
  <2>2. At("begin")' => runs'[turn'] = 0
    <3>1. At("begin") => turn \in Ids /\ (q.method = "start" => q.turn # turn)
      BY <1>1, <1>3, <1>4 DEF RequestsOnce, RunsCounted, At
    <3>. QED BY <1>1, <1>6, <3>1 DEF RunsCounted, At
  <2>3. ~At("oneshot")'
    BY <1>1 DEF RunsCounted, At
  <2>4. server'.turn # 0 => server'.turn \in Ids /\ runs'[server'.turn] > 0
    BY <1>1, <1>4, <1>6 DEF RunsCounted
  <2>5. ~At("idle")' => turn' \in Ids
    BY <1>1 DEF RunsCounted, At
  <2>. QED BY <2>1, <2>2, <2>3, <2>4, <2>5 DEF RunsCounted
<1>. QED BY <1>13, <1>14, <1>15, <1>16 DEF Asks

-----------------------------------------------------------------------------
(* Follow-ups, the begin of a turn, a run of its own, and responses. *)

\* A follow-up is taken up, or its outcome is known.
LEMMA AsksOutcome ==
    ASSUME PoolTypes, Asks,
           UNCHANGED <<turn, task, asked, server, applied, runs, crossed, reader>>,
           call'["steer"].id = 0, \A w \in Callers : w # "steer" => call'[w] = call[w],
           \/ /\ steer.at = "idle" /\ steer'.at = "aim" /\ steer'.n = steer.n + 1
              /\ steer.n + 1 \in Followups /\ outcome' = outcome
           \/ /\ steer'.at = "idle" /\ steer'.n \in {steer.n, steer.n + 1} /\ Len(outcome) + 1 = steer'.n
              /\ \E o \in Outcomes :
                    /\ outcome' = Append(outcome, o)
                    /\ o \in {"rejected", "noActiveTurn"} => NotApplied(steer'.n)
                    /\ o = "accepted" => applied[steer'.n] # 0
    PROVE  Asks'
<1>1. RequestsOnce /\ CallsAnswered /\ OutcomesTrue /\ RunsCounted
  BY DEF Asks
<1>2. /\ In' = In /\ Out' = Out
      /\ \A t : (StartIn(t)' <=> StartIn(t)) /\ (NotStarted(t)' <=> NotStarted(t))
      /\ \A n : (SteerIn(n)' <=> SteerIn(n)) /\ (NotApplied(n)' <=> NotApplied(n))
  BY DEF In, Out, StartIn, SteerIn, NotStarted, NotApplied
<1>3. steer.n \in Nat /\ steer.n <= steer'.n /\ steer'.n \in Nat /\ outcome \in Seq(Outcomes)
      /\ Len(outcome) \in Nat
  BY DEF PoolTypes, SteerTypes
<1>4. call'["turn"] = call["turn"]
  BY DEF Callers
<1>5. RequestsOnce'
  <2>1. Distinct(server.in)'
    BY <1>1 DEF RequestsOnce, Distinct
  <2>2. ASSUME NEW n \in Nat, SteerIn(n)'
        PROVE  /\ n \in 1 .. steer'.n /\ applied'[n] = 0
               /\ n = steer'.n => steer'.at # "aim"
    <3>1. n \in 1 .. steer.n /\ applied[n] = 0
      BY <1>1, <1>2, <2>2 DEF RequestsOnce
    <3>. QED BY <1>3, <3>1
  <2>3. \A t \in Nat : StartIn(t)' =>
            /\ t \in Ids /\ t <= turn' /\ runs'[t] = 0
            /\ t = turn' => task'.at \notin {"begin", "oneshot"}
    BY <1>1, <1>2 DEF RequestsOnce
  <2>4. /\ \A r \in In' : r.id \in 1 .. asked' /\ (r.method = "steer" => r.turn # 0)
        /\ ~server'.up => server'.in = << >> /\ server'.turn = 0
    BY <1>1, <1>2 DEF RequestsOnce
  <2>. QED BY <2>1, <2>2, <2>3, <2>4 DEF RequestsOnce
<1>6. CallsAnswered'
  <2>1. \A w \in Callers : call'[w].id <= asked'
    <3>1. ASSUME NEW w \in Callers PROVE call'[w].id <= asked'
      <4>1. call[w].id <= asked /\ asked \in Nat
        BY <1>1 DEF CallsAnswered, PoolTypes
      <4>. QED BY <4>1
    <3>. QED BY <3>1
  <2>2. \A r \in In' : At("starting")' /\ r.id = call'["turn"].id => r.method = "start" /\ r.turn = turn'
    BY <1>1, <1>2, <1>4 DEF CallsAnswered, At
  <2>3. \A r \in In' : r.id # call'["steer"].id
    BY <1>1, <1>2 DEF RequestsOnce
  <2>4. ASSUME NEW l \in Out', l.type = "response"
        PROVE  /\ l.n \in 1 .. asked' /\ l.n # call'["steer"].id
               /\ At("starting")' /\ l.n = call'["turn"].id /\ ~l.good => NotStarted(turn)'
    BY <1>1, <1>2, <1>4, <2>4 DEF CallsAnswered, At
  <2>5. At("starting")' => /\ call'["turn"].reply = "error" => NotStarted(turn)'
                           /\ call'["turn"].reply = "eof" =>
                                 turn' \in crossed' /\ reader' = "gone" /\ ~server'.up
    BY <1>1, <1>2, <1>4 DEF CallsAnswered, At
  <2>. QED BY <2>1, <2>2, <2>3, <2>4, <2>5 DEF CallsAnswered
<1>7. OutcomesTrue'
  <2>1. CASE /\ steer.at = "idle" /\ steer'.at = "aim" /\ steer'.n = steer.n + 1
             /\ steer.n + 1 \in Followups /\ outcome' = outcome
    <3>1. applied'[steer'.n] = 0
      BY <1>1, <1>3, <2>1 DEF OutcomesTrue
    <3>2. \A n \in Followups : n > steer'.n => applied'[n] = 0
      BY <1>1, <1>3 DEF OutcomesTrue, Followups
    <3>. QED BY <1>1, <1>2, <1>3, <2>1, <3>1, <3>2 DEF OutcomesTrue
  <2>2. CASE steer'.at = "idle" /\ Len(outcome) + 1 = steer'.n
    <3>1. PICK o \in Outcomes :
              /\ outcome' = Append(outcome, o)
              /\ o \in {"rejected", "noActiveTurn"} => NotApplied(steer'.n)
              /\ o = "accepted" => applied[steer'.n] # 0
      BY <2>2
    <3>2. PICK s : s = Append(outcome, o)
      OBVIOUS
    <3>3. /\ Len(s) = Len(outcome) + 1 /\ s[Len(outcome) + 1] = o
          /\ \A n \in 1 .. Len(outcome) : s[n] = outcome[n]
      BY <1>3, <3>2, AppendProperties
    <3>4. \A n \in Followups : n > steer'.n => applied'[n] = 0
      BY <1>1, <1>3 DEF OutcomesTrue, Followups
    <3>5. ASSUME NEW n \in 1 .. Len(s)
          PROVE  /\ s[n] \in {"rejected", "noActiveTurn"} => NotApplied(n)'
                 /\ s[n] = "accepted" => applied'[n] # 0
      <4>1. n \in 1 .. Len(outcome) \/ n = Len(outcome) + 1
        BY <1>3, <3>3
      <4>. QED BY <1>1, <1>2, <2>2, <3>1, <3>3, <4>1 DEF OutcomesTrue
    <3>6. outcome' = s
      BY <3>1, <3>2
    <3>. QED BY <1>3, <2>2, <3>3, <3>4, <3>5, <3>6 DEF OutcomesTrue
  <2>. QED BY <2>1, <2>2
<1>8. RunsCounted'
  BY <1>1 DEF RunsCounted, At
<1>. QED BY <1>5, <1>6, <1>7, <1>8 DEF Asks

LEMMA AsksStartTurn ==
    ASSUME PoolTypes, Asks, StartTurn
    PROVE  Asks'
<1>1. RequestsOnce /\ CallsAnswered /\ OutcomesTrue /\ RunsCounted
  BY DEF Asks
<1>2. /\ turn' = turn + 1 /\ turn < Turns /\ task'.at = "begin" /\ turn \in Nat /\ Turns \in Nat
      /\ UNCHANGED <<call, asked, server, reader, steer, outcome, applied, runs, crossed>>
  BY CodexAssumption DEF StartTurn, Goto, PoolTypes, TaskTypes, handleVars, callVars, steerVars, historyVars
<1>3. /\ In' = In /\ Out' = Out
      /\ \A t : (StartIn(t)' <=> StartIn(t))
      /\ \A n : (SteerIn(n)' <=> SteerIn(n)) /\ (NotApplied(n)' <=> NotApplied(n))
  BY <1>2 DEF In, Out, StartIn, SteerIn, NotApplied
<1>4. turn' \in Ids /\ runs'[turn'] = 0
  BY <1>1, <1>2 DEF RunsCounted, Ids
<1>5. RequestsOnce'
  <2>1. Distinct(server.in)'
    BY <1>1, <1>2 DEF RequestsOnce, Distinct
  <2>2. ASSUME NEW t \in Nat, StartIn(t)'
        PROVE  t \in Ids /\ t <= turn' /\ runs'[t] = 0 /\ t # turn'
    <3>1. t \in Ids /\ t <= turn /\ runs[t] = 0
      BY <1>1, <1>3, <2>2 DEF RequestsOnce
    <3>. QED BY <1>2, <3>1
  <2>3. /\ \A n \in Nat : SteerIn(n)' =>
              /\ n \in 1 .. steer'.n /\ applied'[n] = 0
              /\ n = steer'.n => steer'.at # "aim"
        /\ \A r \in In' : r.id \in 1 .. asked' /\ (r.method = "steer" => r.turn # 0)
        /\ ~server'.up => server'.in = << >> /\ server'.turn = 0
    BY <1>1, <1>2, <1>3 DEF RequestsOnce
  <2>. QED BY <2>1, <2>2, <2>3 DEF RequestsOnce
<1>6. CallsAnswered'
  BY <1>1, <1>2, <1>3 DEF CallsAnswered, At
<1>7. OutcomesTrue'
  BY <1>1, <1>2, <1>3 DEF OutcomesTrue
<1>8. RunsCounted'
  <2>1. \A t \in Ids : /\ t > turn' => runs'[t] = 0
                       /\ runs'[t] <= 1 \/ (Astra /\ t \in crossed')
    BY <1>1, <1>2 DEF RunsCounted, Ids
  <2>2. server'.turn # 0 => server'.turn \in Ids /\ runs'[server'.turn] > 0
    BY <1>1, <1>2 DEF RunsCounted
  <2>. QED BY <1>2, <1>4, <2>1, <2>2 DEF RunsCounted, At
<1>. QED BY <1>5, <1>6, <1>7, <1>8 DEF Asks

LEMMA AsksOneShot ==
    ASSUME PoolTypes, Asks, OneShot
    PROVE  Asks'
<1>1. RequestsOnce /\ CallsAnswered /\ OutcomesTrue /\ RunsCounted
  BY DEF Asks
<1>2. /\ turn \in Ids /\ At("oneshot") /\ task'.at = "idle"
      /\ runs' = [runs EXCEPT ![turn] = @ + 1] /\ runs \in [Ids -> Nat] /\ turn \in Nat
      /\ UNCHANGED <<turn, call, asked, server, reader, steer, outcome, applied, crossed>>
  BY <1>1 DEF RunsCounted, OneShot, Return, At, PoolTypes, handleVars, callVars, steerVars
<1>3. /\ In' = In /\ Out' = Out
      /\ \A t : (StartIn(t)' <=> StartIn(t))
      /\ \A n : (SteerIn(n)' <=> SteerIn(n)) /\ (NotApplied(n)' <=> NotApplied(n))
  BY <1>2 DEF In, Out, StartIn, SteerIn, NotApplied
<1>4. \A t \in Ids : runs'[t] = IF t = turn THEN runs[t] + 1 ELSE runs[t]
  BY <1>2
<1>5. RequestsOnce'
  <2>1. Distinct(server.in)'
    BY <1>1, <1>2 DEF RequestsOnce, Distinct
  <2>2. ASSUME NEW t \in Nat, StartIn(t)'
        PROVE  t \in Ids /\ t <= turn' /\ runs'[t] = 0 /\ t # turn'
    <3>1. t \in Ids /\ t <= turn /\ runs[t] = 0 /\ t # turn
      BY <1>1, <1>2, <1>3, <2>2 DEF RequestsOnce, At
    <3>. QED BY <1>2, <1>4, <3>1
  <2>3. /\ \A n \in Nat : SteerIn(n)' =>
              /\ n \in 1 .. steer'.n /\ applied'[n] = 0
              /\ n = steer'.n => steer'.at # "aim"
        /\ \A r \in In' : r.id \in 1 .. asked' /\ (r.method = "steer" => r.turn # 0)
        /\ ~server'.up => server'.in = << >> /\ server'.turn = 0
    BY <1>1, <1>2, <1>3 DEF RequestsOnce
  <2>. QED BY <2>1, <2>2, <2>3 DEF RequestsOnce
<1>6. CallsAnswered'
  BY <1>1, <1>2, <1>3 DEF CallsAnswered, At
<1>7. OutcomesTrue'
  BY <1>1, <1>2, <1>3 DEF OutcomesTrue
<1>8. RunsCounted'
  <2>1. ASSUME NEW t \in Ids
        PROVE  /\ t > turn' => runs'[t] = 0
               /\ runs'[t] <= 1 \/ (Astra /\ t \in crossed')
    <3>1. /\ t > turn => runs[t] = 0
          /\ runs[t] <= 1 \/ (Astra /\ t \in crossed)
          /\ runs[turn] = 0 \/ (Astra /\ turn \in crossed)
      BY <1>1, <1>2 DEF RunsCounted
    <3>2. CASE t = turn
      BY <1>2, <1>4, <3>1, <3>2
    <3>3. CASE t # turn
      BY <1>2, <1>4, <3>1, <3>3
    <3>. QED BY <3>2, <3>3
  <2>2. server'.turn = 0
    BY <1>1, <1>2 DEF RunsCounted, RequestsOnce, At
  <2>. QED BY <1>2, <2>1, <2>2 DEF RunsCounted, At
<1>. QED BY <1>5, <1>6, <1>7, <1>8 DEF Asks

\* A line is read: only a response, to the call with its id, matters here.
LEMMA LineRead ==
    ASSUME PoolTypes, ReadLine, NEW line, line = Head(server.out)
    PROVE  /\ line \in Lines /\ line \in Out /\ Out' \subseteq Out /\ Out \subseteq Out' \union {line}
           /\ server' \in ServerTypes /\ server'.in = server.in /\ server'.turn = server.turn
           /\ server'.up = server.up
           /\ Ordered(server.out) =>
                 Ordered(server.out)' /\ \A l \in Out' : ~Follows(l, line)
           /\ handle' \in HandleTypes
           /\ call' \in [Callers -> CallTypes]
           /\ \A w \in Callers :
                 \/ call'[w] = call[w]
                 \/ /\ line.type = "response" /\ call[w].id = line.n /\ Waits(w)
                    /\ call'[w].id = call[w].id
                    /\ call'[w].reply = IF line.good THEN "ok" ELSE "error"
<1>1. /\ server.out \in Seq(Lines) /\ server.out # << >> /\ server \in ServerTypes
      /\ handle \in HandleTypes /\ call \in [Callers -> CallTypes]
  BY DEF PoolTypes, ServerTypes, ReadLine
<1>2. PICK s : s = Tail(server.out)
  OBVIOUS
<1>3. /\ s \in Seq(Lines) /\ line \in Lines /\ Elems(s) \subseteq Elems(server.out)
      /\ line \in Elems(server.out) /\ Elems(server.out) \subseteq Elems(s) \union {line}
      /\ Ordered(server.out) => Ordered(s) /\ \A y \in Elems(s) : ~Follows(y, line)
  BY <1>1, <1>2, PipeTail
<1>4. server' = [server EXCEPT !.out = s]
  BY <1>2 DEF ReadLine
<1>5. /\ server' \in ServerTypes /\ server'.in = server.in /\ server'.turn = server.turn
      /\ server'.up = server.up /\ server'.out = s
  BY <1>1, <1>3, <1>4 DEF ServerTypes
<1>6. Out' = Elems(s) /\ Out = Elems(server.out) /\ (Ordered(s) => Ordered(server.out)')
  BY <1>5 DEF Out, Elems, Ordered
<1>7. handle' \in HandleTypes
  <2>1. handle' = Noted(handle, line)
    BY DEF ReadLine
  <2>. QED BY <1>1, <1>3, <2>1, NotedType
<1>8. call' = [w \in Callers |->
                 IF line.type = "response" /\ call[w].id = line.n /\ Waits(w)
                   THEN [call[w] EXCEPT !.reply = IF line.good THEN "ok" ELSE "error"]
                   ELSE call[w]]
  BY DEF ReadLine
<1>9. ASSUME NEW w \in Callers
      PROVE  /\ call'[w] \in CallTypes
             /\ \/ call'[w] = call[w]
                \/ /\ line.type = "response" /\ call[w].id = line.n /\ Waits(w)
                   /\ call'[w].id = call[w].id
                   /\ call'[w].reply = IF line.good THEN "ok" ELSE "error"
  <2>1. CASE line.type = "response" /\ call[w].id = line.n /\ Waits(w)
    <3>1. PICK reply \in {"ok", "error"} : reply = IF line.good THEN "ok" ELSE "error"
      OBVIOUS
    <3>2. call'[w] = [call[w] EXCEPT !.reply = reply] /\ call[w] \in CallTypes
      BY <1>1, <1>8, <2>1, <3>1
    <3>3. call'[w] \in CallTypes /\ call'[w].id = call[w].id /\ call'[w].reply = reply
      BY <3>2 DEF CallTypes, Replies
    <3>. QED BY <2>1, <3>1, <3>3
  <2>2. CASE ~(line.type = "response" /\ call[w].id = line.n /\ Waits(w))
    <3>1. call'[w] = call[w]
      BY <1>8, <2>2
    <3>. QED BY <1>1, <3>1
  <2>. QED BY <2>1, <2>2
<1>10. call' \in [Callers -> CallTypes]
  BY <1>8, <1>9
<1>. QED BY <1>3, <1>5, <1>6, <1>7, <1>9, <1>10

LEMMA AsksLine ==
    ASSUME PoolTypes, Asks, ReadLine
    PROVE  Asks'
<1>1. RequestsOnce /\ CallsAnswered /\ OutcomesTrue /\ RunsCounted
  BY DEF Asks
<1>2. PICK line : line = Head(server.out)
  OBVIOUS
<1>3. /\ UNCHANGED <<turn, task, asked, steer, outcome, applied, runs, crossed>>
      /\ reader = "read" /\ reader' \in {"read", "push"}
  BY DEF ReadLine, steerVars, historyVars
<1>4. /\ line \in Out /\ Out' \subseteq Out
      /\ server'.in = server.in /\ server'.turn = server.turn /\ server'.up = server.up
      /\ \A w \in Callers :
            \/ call'[w] = call[w]
            \/ /\ line.type = "response" /\ call[w].id = line.n /\ Waits(w)
               /\ call'[w].id = call[w].id
               /\ call'[w].reply = IF line.good THEN "ok" ELSE "error"
  BY <1>2, LineRead
<1>5. /\ In' = In
      /\ \A t : (StartIn(t)' <=> StartIn(t)) /\ (NotStarted(t)' <=> NotStarted(t))
      /\ \A n : (SteerIn(n)' <=> SteerIn(n)) /\ (NotApplied(n)' <=> NotApplied(n))
  BY <1>3, <1>4 DEF In, StartIn, SteerIn, NotStarted, NotApplied
<1>6. \A w \in Callers : call'[w].id = call[w].id
  BY <1>4
<1>7. call'["turn"].id = call["turn"].id /\ call'["steer"].id = call["steer"].id
  BY <1>6 DEF Callers
<1>8. RequestsOnce'
  <2>1. Distinct(server.in)'
    BY <1>1, <1>4 DEF RequestsOnce, Distinct
  <2>. QED BY <1>1, <1>3, <1>4, <1>5, <2>1 DEF RequestsOnce
<1>9. CallsAnswered'
  <2>1. \A w \in Callers : call'[w].id <= asked'
    BY <1>1, <1>3, <1>6 DEF CallsAnswered
  <2>2. /\ \A r \in In' : At("starting")' /\ r.id = call'["turn"].id => r.method = "start" /\ r.turn = turn'
        /\ \A r \in In' : r.id = call'["steer"].id => r.method = "steer" /\ r.what = steer'.n
    BY <1>1, <1>3, <1>5, <1>7 DEF CallsAnswered, At
  <2>3. ASSUME NEW l \in Out', l.type = "response"
        PROVE  /\ l.n \in 1 .. asked'
               /\ At("starting")' /\ l.n = call'["turn"].id /\ ~l.good => NotStarted(turn)'
               /\ l.n = call'["steer"].id =>
                     IF l.good THEN applied'[steer'.n] # 0 ELSE NotApplied(steer.n)'
    <3>1. l \in Out
      BY <1>4
    <3>2. l.n \in 1 .. asked'
      BY <1>1, <1>3, <2>3, <3>1 DEF CallsAnswered
    <3>3. At("starting")' /\ l.n = call'["turn"].id /\ ~l.good => NotStarted(turn)'
      BY <1>1, <1>3, <1>5, <1>7, <2>3, <3>1 DEF CallsAnswered, At
    <3>4. l.n = call'["steer"].id =>
              IF l.good THEN applied'[steer'.n] # 0 ELSE NotApplied(steer.n)'
      BY <1>1, <1>3, <1>5, <1>7, <2>3, <3>1 DEF CallsAnswered
    <3>. QED BY <3>2, <3>3, <3>4
  <2>4. At("starting")' => /\ call'["turn"].reply = "error" => NotStarted(turn)'
                           /\ call'["turn"].reply # "eof"
    <3>1. CASE call'["turn"] = call["turn"]
      BY <1>1, <1>3, <1>5, <3>1 DEF CallsAnswered, At
    <3>2. CASE /\ line.type = "response" /\ call["turn"].id = line.n
               /\ call'["turn"].reply = IF line.good THEN "ok" ELSE "error"
      BY <1>1, <1>3, <1>4, <1>5, <3>2 DEF CallsAnswered, At
    <3>. QED BY <1>4, <3>1, <3>2 DEF Callers
  <2>5. /\ call'["steer"].id # 0 => steer'.at = "asking"
        /\ steer'.at = "asking" =>
              /\ steer'.n >= 1
              /\ call'["steer"].reply = "ok" => applied'[steer'.n] # 0
              /\ call'["steer"].reply = "error" => NotApplied(steer.n)'
    <3>1. CASE call'["steer"] = call["steer"]
      BY <1>1, <1>3, <1>5, <3>1 DEF CallsAnswered
    <3>2. CASE /\ line.type = "response" /\ call["steer"].id = line.n
               /\ call'["steer"].reply = IF line.good THEN "ok" ELSE "error"
      BY <1>1, <1>3, <1>4, <1>5, <1>7, <3>2 DEF CallsAnswered
    <3>. QED BY <1>4, <3>1, <3>2 DEF Callers
  <2>. QED BY <2>1, <2>2, <2>3, <2>4, <2>5 DEF CallsAnswered
<1>10. OutcomesTrue'
  BY <1>1, <1>3, <1>5 DEF OutcomesTrue
<1>11. RunsCounted'
  <2>1. \A t \in Ids : /\ t > turn' => runs'[t] = 0
                       /\ runs'[t] <= 1 \/ (Astra /\ t \in crossed')
    BY <1>1, <1>3 DEF RunsCounted
  <2>2. /\ At("begin")' => runs'[turn'] = 0
        /\ ~At("oneshot")'
        /\ ~At("idle")' => turn' \in Ids
    BY <1>1, <1>3 DEF RunsCounted, At
  <2>3. server'.turn # 0 => server'.turn \in Ids /\ runs'[server'.turn] > 0
    BY <1>1, <1>3, <1>4 DEF RunsCounted
  <2>. QED BY <2>1, <2>2, <2>3 DEF RunsCounted
<1>. QED BY <1>8, <1>9, <1>10, <1>11 DEF Asks

-----------------------------------------------------------------------------
(* The types are kept. *)

\* The types after a step of the pool task.
LEMMA TypesTask ==
    ASSUME PoolTypes, turn \in Ids,
           \/ Prepare \/ (\E startup \in BOOLEAN : SpawnFails(startup)) \/ Started \/ StartFails
           \/ Interrupt \/ Interrupted \/ Timeout
    PROVE  PoolTypes'
<1>1. /\ turn \in Nat /\ turn <= Turns /\ handle \in HandleTypes /\ call \in [Callers -> CallTypes]
      /\ task \in TaskTypes /\ server \in ServerTypes /\ asked \in Nat
      /\ handle.proc \in Nat /\ handle.active \in Nat /\ "turn" \in Callers
      /\ {"starting", "oneshot", "drain", "asking", "forward"} \subseteq TaskPlaces
  BY DEF PoolTypes, HandleTypes, Callers, TaskPlaces, Listening
<1>2. TurnStart \in Requests
  BY <1>1 DEF TurnStart, Requests, Methods
<1>3. CASE Prepare
  <2>1. CASE Alive
    <3>1. /\ handle' = Fresh(handle) /\ Request("turn", handle.proc, TurnStart)
          /\ task' = [at |-> "starting", proc |-> handle'.proc] /\ present' = TRUE
          /\ UNCHANGED <<turn, cancelled, returned, pipe, reader, steerVars, approvals, exits, historyVars>>
      BY <1>3, <2>1 DEF Prepare
    <3>2. handle' \in HandleTypes /\ handle'.proc \in Nat
      BY <1>1, <3>1, FreshType
    <3>3. server' \in ServerTypes /\ call' \in [Callers -> CallTypes] /\ asked' \in Nat
      BY <1>1, <1>2, <3>1, RequestSent
    <3>4. task' \in TaskTypes
      BY <1>1, <3>1, <3>2 DEF TaskTypes
    <3>. QED BY <3>1, <3>2, <3>3, <3>4 DEF PoolTypes, steerVars, historyVars
  <2>2. CASE ~Alive
    <3>1. PICK start : start = [TurnStart EXCEPT !.id = asked + 1]
      OBVIOUS
    <3>2. /\ handle' = Fresh(NewHandle(handle.proc + 1))
          /\ server' = [NewServer EXCEPT !.in = <<start>>]
          /\ asked' = asked + 1
          /\ call' = [call EXCEPT !["turn"] = [id |-> asked + 1, reply |-> "none"]]
          /\ reader' = "read"
          /\ task' = [at |-> "starting", proc |-> handle'.proc] /\ present' = TRUE
          /\ UNCHANGED <<turn, cancelled, returned, pipe, steerVars, approvals, exits, historyVars>>
      BY <1>3, <2>2, <3>1 DEF Prepare
    <3>3. handle' \in HandleTypes /\ handle'.proc \in Nat
      <4>4. PICK p \in Nat : p = handle.proc + 1
        BY <1>1
      <4>1. PICK h : h = NewHandle(p)
        OBVIOUS
      <4>2. h \in HandleTypes /\ handle' = Fresh(h)
        BY <3>2, <4>4, <4>1, NewHandleType
      <4>3. handle' \in HandleTypes
        BY <1>1, <4>2, FreshType
      <4>. QED BY <4>3 DEF HandleTypes
    <3>4. start \in Requests
      BY <1>1, <1>2, <3>1 DEF Requests
    <3>5. <<start>> \in Seq(Requests)
      BY <3>4
    <3>6. server' \in ServerTypes
      BY <3>2, <3>5, StoppedType DEF NewServer, ServerTypes
    <3>7. [id |-> asked + 1, reply |-> "none"] \in CallTypes
      BY <1>1 DEF CallTypes, Replies
    <3>8. call' \in [Callers -> CallTypes] /\ asked' \in Nat
      BY <1>1, <3>2, <3>7
    <3>9. task' \in TaskTypes
      BY <1>1, <3>2, <3>3 DEF TaskTypes
    <3>. QED BY <3>2, <3>3, <3>6, <3>8, <3>9 DEF PoolTypes, steerVars, historyVars
  <2>. QED BY <2>1, <2>2
<1>4. ASSUME NEW startup \in BOOLEAN, SpawnFails(startup) PROVE PoolTypes'
  <2>1. /\ present' = FALSE /\ handle' = NewHandle(handle.proc) /\ server' = NoServer
        /\ reader' = "gone"
        /\ \/ Goto("oneshot") /\ UNCHANGED returned
           \/ Return("error", {})
        /\ UNCHANGED <<turn, cancelled, lock, callVars, steerVars, approvals, exits, historyVars>>
    BY <1>4 DEF SpawnFails
  <2>2. handle' \in HandleTypes
    BY <1>1, <2>1, NewHandleType
  <2>3. /\ task' \in TaskTypes
        /\ returned' \in [Ids -> ResultTypes]
    BY <1>1, <2>1, GotoTypes, ReturnTypes DEF PoolTypes
  <2>. QED BY <2>1, <2>2, <2>3, StoppedType DEF PoolTypes, callVars, steerVars, historyVars
<1>5. CASE Started
  <2>1. /\ handle' = [handle EXCEPT !.active = turn] \/ handle' = handle
        /\ Forget("turn") /\ Goto("forward")
        /\ UNCHANGED <<turn, cancelled, returned, pipe, present, reader, asked, server,
                       steerVars, approvals, exits, historyVars>>
    BY <1>5 DEF Started
  <2>2. handle' \in HandleTypes
    BY <1>1, <2>1 DEF HandleTypes
  <2>3. task' \in TaskTypes /\ call' \in [Callers -> CallTypes]
    BY <1>1, <2>1, GotoTypes, CallForgotten
  <2>. QED BY <2>1, <2>2, <2>3 DEF PoolTypes, steerVars, historyVars
<1>6. CASE StartFails
  <2>1. /\ Forget("turn")
        /\ \/ Goto("oneshot") /\ UNCHANGED returned
           \/ Return("unknown", {}) \/ Return("error", {})
        /\ UNCHANGED <<turn, cancelled, handleVars, asked, server, steerVars, approvals, exits, historyVars>>
    BY <1>6 DEF StartFails
  <2>2. call' \in [Callers -> CallTypes]
    BY <1>1, <2>1, CallForgotten
  <2>3. /\ task' \in TaskTypes
        /\ returned' \in [Ids -> ResultTypes]
    BY <1>1, <2>1, GotoTypes, ReturnTypes DEF PoolTypes
  <2>. QED BY <2>1, <2>2, <2>3 DEF PoolTypes, handleVars, steerVars, historyVars
<1>7. CASE Interrupt
  <2>1. PICK request : request = [method |-> "interrupt", id |-> 0, turn |-> handle.active, what |-> 0]
    OBVIOUS
  <2>2. request \in Requests
    BY <1>1, <2>1 DEF Requests, Methods
  <2>3. /\ \/ Request("turn", handle.proc, request) /\ Goto("asking")
           \/ Goto("drain") /\ UNCHANGED <<callVars, server>>
        /\ UNCHANGED <<turn, cancelled, returned, pipe, handleVars, steerVars, approvals, exits, historyVars>>
    BY <1>7, <2>1 DEF Interrupt
  <2>4. server' \in ServerTypes /\ call' \in [Callers -> CallTypes] /\ asked' \in Nat
    BY <1>1, <2>2, <2>3, RequestSent DEF callVars
  <2>5. task' \in TaskTypes
    BY <1>1, <2>3, GotoTypes
  <2>. QED BY <2>3, <2>4, <2>5 DEF PoolTypes, handleVars, steerVars, historyVars
<1>8. CASE Interrupted
  <2>1. /\ Forget("turn") /\ Goto("drain")
        /\ UNCHANGED <<turn, cancelled, returned, pipe, handleVars, asked, server, steerVars,
                       approvals, exits, historyVars>>
    BY <1>8 DEF Interrupted
  <2>2. task' \in TaskTypes /\ call' \in [Callers -> CallTypes]
    BY <1>1, <2>1, GotoTypes, CallForgotten
  <2>. QED BY <2>1, <2>2 DEF PoolTypes, handleVars, steerVars, historyVars
<1>9. CASE Timeout
  <2>1. Kill /\ Return("error", {})
        /\ UNCHANGED <<turn, cancelled, lock, asked, steerVars, approvals, exits, historyVars>>
    BY <1>9 DEF Timeout
  <2>2. /\ task' \in TaskTypes
        /\ returned' \in [Ids -> ResultTypes]
    BY <1>1, <2>1, ReturnTypes
  <2>. QED BY <2>1, <2>2, KillTypes DEF PoolTypes, steerVars, historyVars
<1>. QED BY <1>3, <1>4, <1>5, <1>6, <1>7, <1>8, <1>9

LEMMA TypesTurn ==
    ASSUME PoolTypes, ~At("idle") => turn \in Ids,
           StartTurn \/ Cancel \/ OneShot \/ TakeEvent \/ PipeEnds \/ NoticeCancel
           \/ DrainExpires \/ TakeResult
    PROVE  PoolTypes'
<1>1. /\ turn \in Nat /\ turn <= Turns /\ Turns \in Nat /\ cancelled \subseteq 1 .. turn
      /\ handle \in HandleTypes /\ task \in TaskTypes /\ returned \in [Ids -> ResultTypes]
      /\ {"begin", "take", "interrupting"} \subseteq TaskPlaces
  BY CodexAssumption DEF PoolTypes, TaskPlaces, Listening
<1>2. CASE StartTurn
  <2>1. /\ turn' = turn + 1 /\ turn < Turns /\ Goto("begin")
        /\ UNCHANGED <<cancelled, returned, pipe, lock, handleVars, callVars, server,
                       steerVars, approvals, exits, historyVars>>
    BY <1>2 DEF StartTurn
  <2>2. task' \in TaskTypes
    BY <1>1, <2>1, GotoTypes
  <2>3. turn' \in Nat /\ turn' <= Turns /\ cancelled' \subseteq 1 .. turn'
    BY <1>1, <2>1
  <2>. QED BY <2>1, <2>2, <2>3 DEF PoolTypes, handleVars, callVars, steerVars, historyVars
<1>3. CASE Cancel
  <2>1. /\ turn \in Ids /\ cancelled' = cancelled \union {turn}
        /\ UNCHANGED <<turn, returned, task, pipe, lock, handleVars, callVars, server,
                       steerVars, approvals, exits, historyVars>>
    BY <1>3 DEF Cancel
  <2>2. cancelled' \subseteq 1 .. turn
    BY <1>1, <2>1 DEF Ids
  <2>. QED BY <2>1, <2>2 DEF PoolTypes, handleVars, callVars, steerVars, historyVars
<1>4. CASE OneShot
  <2>1. /\ turn \in Ids /\ runs' = [runs EXCEPT ![turn] = @ + 1] /\ Return("ok", {turn})
        /\ UNCHANGED <<turn, cancelled, lock, handleVars, callVars, server, steerVars,
                       approvals, exits, applied, crossed>>
    BY <1>4 DEF OneShot, At
  <2>2. runs' \in [Ids -> Nat]
    BY <2>1 DEF PoolTypes
  <2>3. {turn} \in SUBSET Nat
    BY <1>1
  <2>4. returned' \in [Ids -> ResultTypes] /\ task' \in TaskTypes
    BY <2>1, <2>3, ReturnTypes
  <2>. QED BY <2>1, <2>2, <2>4 DEF PoolTypes, handleVars, callVars, steerVars
<1>5. CASE TakeEvent
  BY <1>5 DEF TakeEvent, PoolTypes, handleVars, callVars, steerVars, historyVars
<1>6. CASE PipeEnds \/ NoticeCancel \/ DrainExpires
  <2>1. /\ Goto("take") \/ Goto("interrupting")
        /\ UNCHANGED <<turn, cancelled, returned, pipe, lock, handleVars, callVars, server,
                       steerVars, approvals, exits, historyVars>>
    BY <1>6 DEF PipeEnds, NoticeCancel, DrainExpires
  <2>2. task' \in TaskTypes
    BY <1>1, <2>1, GotoTypes
  <2>. QED BY <2>1, <2>2 DEF PoolTypes, handleVars, callVars, steerVars, historyVars
<1>7. CASE TakeResult
  <2>1. /\ turn \in Ids
        /\ Return("failed", {}) \/ Return("ok", handle.text) \/ Return("error", {})
        /\ UNCHANGED <<turn, cancelled, lock, handleVars, callVars, server, steerVars,
                       approvals, exits, historyVars>>
    BY <1>7 DEF TakeResult, At
  <2>2. handle.text \in SUBSET Nat /\ {} \in SUBSET Nat
    BY <1>1 DEF HandleTypes
  <2>3. returned' \in [Ids -> ResultTypes] /\ task' \in TaskTypes
    BY <2>1, <2>2, ReturnTypes
  <2>. QED BY <2>1, <2>3 DEF PoolTypes, handleVars, callVars, steerVars, historyVars
<1>. QED BY <1>2, <1>3, <1>4, <1>5, <1>6, <1>7

\* The bound of the disturbances leaves room for one more follow-up.
LEMMA RoomForFollowup ==
    ASSUME PoolTypes, Undisturbed
    PROVE  steer.n + 1 \in Followups /\ steer.n + 1 <= Disturbances
<1>1. IsFiniteSet(1 .. turn) /\ IsFiniteSet(cancelled)
  <2>1. turn \in Nat /\ cancelled \subseteq 1 .. turn
    BY DEF PoolTypes
  <2>2. IsFiniteSet(1 .. turn)
    BY <2>1, FS_Interval
  <2>. QED BY <2>1, <2>2, FS_Subset
<1>2. Cardinality(cancelled) \in Nat
  BY <1>1, FS_CardinalityType
<1>3. steer.n \in Nat /\ approvals.asked \in Nat /\ exits \in Nat /\ Disturbances \in Nat
  BY CodexAssumption DEF PoolTypes, SteerTypes
<1>4. Cardinality(cancelled) + steer.n + approvals.asked + exits < Disturbances
  BY DEF Undisturbed
<1>. QED BY <1>2, <1>3, <1>4 DEF Followups

LEMMA TypesUsers ==
    ASSUME PoolTypes,
           (\E w \in Callers : Expire(w)) \/ PrepareSteer \/ ExecuteSteer \/ Steered
           \/ Approve \/ Approved \/ KillCommand
    PROVE  PoolTypes'
<1>1. /\ handle \in HandleTypes /\ call \in [Callers -> CallTypes] /\ steer \in SteerTypes
      /\ outcome \in Seq(Outcomes) /\ approvals \in [asked : Nat, given : Nat]
      /\ handle.proc \in Nat /\ handle.active \in Nat /\ handle.approval \in Nat
      /\ steer.n \in Nat /\ steer.n <= Disturbances /\ exits \in Nat
      /\ "steer" \in Callers /\ "approve" \in Callers
  BY DEF PoolTypes, HandleTypes, SteerTypes, Callers
<1>2. ASSUME NEW w \in Callers, Expire(w) PROVE PoolTypes'
  <2>1. /\ call' = [call EXCEPT ![w].reply = "timeout"]
        /\ UNCHANGED <<taskVars, lock, handleVars, asked, server, steerVars, approvals,
                       exits, historyVars>>
    BY <1>2 DEF Expire
  <2>2. call' \in [Callers -> CallTypes]
    BY <1>1, <2>1 DEF CallTypes, Replies
  <2>. QED BY <2>1, <2>2 DEF PoolTypes, taskVars, handleVars, steerVars, historyVars
<1>3. CASE PrepareSteer
  <2>1. /\ \/ /\ steer' = [n |-> steer.n + 1, at |-> "aim", proc |-> handle.proc, aim |-> 0]
              /\ UNCHANGED outcome
           \/ /\ steer' = [steer EXCEPT !.n = @ + 1]
              /\ outcome' = Append(outcome, "noActiveTurn")
        /\ UNCHANGED <<taskVars, lock, handleVars, callVars, server, approvals, exits,
                       historyVars>>
    BY <1>3 DEF PrepareSteer
  <2>2. steer' \in SteerTypes /\ steer'.n = steer.n + 1
    <3>1. PICK n \in Nat : n = steer.n + 1
      BY <1>1
    <3>2. \/ steer' = [n |-> n, at |-> "aim", proc |-> handle.proc, aim |-> 0]
          \/ steer' = [steer EXCEPT !.n = n]
      BY <2>1, <3>1
    <3>3. steer \in SteerTypes /\ handle.proc \in Nat
      BY <1>1
    <3>. QED BY <3>1, <3>2, <3>3 DEF SteerTypes
  <2>3. steer.n + 1 <= Disturbances
    BY <1>3, RoomForFollowup DEF PrepareSteer
  <2>4. outcome' \in Seq(Outcomes)
    <3>1. outcome' = outcome \/ outcome' = Append(outcome, "noActiveTurn")
      BY <2>1
    <3>2. outcome \in Seq(Outcomes) /\ "noActiveTurn" \in Outcomes
      BY <1>1 DEF Outcomes
    <3>. QED BY <3>1, <3>2, AppendProperties
  <2>. QED BY <2>1, <2>2, <2>3, <2>4 DEF PoolTypes, taskVars, handleVars, callVars, historyVars
<1>4. CASE ExecuteSteer
  <2>1. /\ \/ /\ steer' = [steer EXCEPT !.at = "idle"]
              /\ outcome' = Append(outcome, "noActiveTurn")
              /\ UNCHANGED <<callVars, server>>
           \/ /\ Request("steer", steer.proc, SteerRequest)
              /\ steer' = [steer EXCEPT !.at = "asking",
                                        !.aim = IF StillHas(steer.proc) THEN handle.active ELSE 0]
              /\ UNCHANGED outcome
        /\ UNCHANGED <<taskVars, lock, handleVars, approvals, exits, historyVars>>
    BY <1>4 DEF ExecuteSteer, SteerRequest
  <2>2. SteerRequest \in Requests
    BY <1>1 DEF SteerRequest, Requests, Methods
  <2>3. server' \in ServerTypes /\ call' \in [Callers -> CallTypes] /\ asked' \in Nat
    <3>1. \/ Request("steer", steer.proc, SteerRequest)
          \/ server' = server /\ call' = call /\ asked' = asked
      BY <2>1 DEF callVars
    <3>2. CASE Request("steer", steer.proc, SteerRequest)
      BY <1>1, <2>2, <3>2, RequestSent
    <3>3. CASE server' = server /\ call' = call /\ asked' = asked
      BY <3>3 DEF PoolTypes
    <3>. QED BY <3>1, <3>2, <3>3
  <2>4. steer' \in SteerTypes /\ steer'.n = steer.n
    <3>1. PICK a \in Nat : \/ steer' = [steer EXCEPT !.at = "idle"]
                          \/ steer' = [steer EXCEPT !.at = "asking", !.aim = a]
      BY <1>1, <2>1
    <3>2. steer \in SteerTypes
      BY <1>1
    <3>3. CASE steer' = [steer EXCEPT !.at = "idle"]
      BY <3>2, <3>3 DEF SteerTypes
    <3>4. CASE steer' = [steer EXCEPT !.at = "asking", !.aim = a]
      BY <3>2, <3>4 DEF SteerTypes
    <3>. QED BY <3>1, <3>3, <3>4
  <2>5. outcome' \in Seq(Outcomes)
    <3>1. outcome' = outcome \/ outcome' = Append(outcome, "noActiveTurn")
      BY <2>1
    <3>2. outcome \in Seq(Outcomes) /\ "noActiveTurn" \in Outcomes
      BY <1>1 DEF Outcomes
    <3>. QED BY <3>1, <3>2, AppendProperties
  <2>. QED BY <1>1, <2>1, <2>3, <2>4, <2>5 DEF PoolTypes, taskVars, handleVars, historyVars
<1>5. CASE Steered
  <2>1. PICK o : o = SteerOutcome(call["steer"].reply)
    OBVIOUS
  <2>2. o \in Outcomes
    BY <2>1 DEF SteerOutcome, Outcomes, Unknown
  <2>3. /\ outcome' = Append(outcome, o)
        /\ steer' = [steer EXCEPT !.at = "idle", !.aim = 0] /\ Forget("steer")
        /\ UNCHANGED <<taskVars, lock, handleVars, asked, server, approvals, exits, historyVars>>
    BY <1>5, <2>1 DEF Steered
  <2>4. steer' \in SteerTypes /\ steer'.n = steer.n
    BY <1>1, <2>3 DEF SteerTypes
  <2>5. outcome' \in Seq(Outcomes)
    BY <1>1, <2>2, <2>3
  <2>6. call' \in [Callers -> CallTypes]
    BY <1>1, <2>3, CallForgotten
  <2>. QED BY <1>1, <2>3, <2>4, <2>5, <2>6 DEF PoolTypes, taskVars, handleVars, historyVars
<1>6. CASE Approve
  <2>1. PICK r : r = [method |-> "approval", id |-> 0, turn |-> 0, what |-> handle.approval]
    OBVIOUS
  <2>2. /\ approvals' = [approvals EXCEPT !.given = @ + 1] /\ Request("approve", handle.proc, r)
        /\ UNCHANGED <<taskVars, handleVars, steerVars, exits, historyVars>>
    BY <1>6, <2>1 DEF Approve
  <2>3. r \in Requests
    BY <1>1, <2>1 DEF Requests, Methods
  <2>4. server' \in ServerTypes /\ call' \in [Callers -> CallTypes] /\ asked' \in Nat
    BY <1>1, <2>2, <2>3, RequestSent
  <2>5. approvals' \in [asked : Nat, given : Nat]
    BY <1>1, <2>2
  <2>. QED BY <2>2, <2>4, <2>5 DEF PoolTypes, taskVars, handleVars, steerVars, historyVars
<1>7. CASE Approved
  <2>1. /\ handle' = [handle EXCEPT !.approval = 0] \/ handle' = handle
        /\ Forget("approve")
        /\ UNCHANGED <<taskVars, present, reader, asked, server, steerVars, approvals, exits,
                       historyVars>>
    BY <1>7 DEF Approved
  <2>2. handle' \in HandleTypes
    BY <1>1, <2>1 DEF HandleTypes
  <2>3. call' \in [Callers -> CallTypes]
    BY <1>1, <2>1, CallForgotten
  <2>. QED BY <2>1, <2>2, <2>3 DEF PoolTypes, taskVars, steerVars, historyVars
<1>8. CASE KillCommand
  <2>1. /\ exits' = exits + 1 /\ Kill
        /\ UNCHANGED <<taskVars, lock, asked, steerVars, approvals, historyVars>>
    BY <1>8 DEF KillCommand
  <2>2. exits' \in Nat
    BY <1>1, <2>1
  <2>3. /\ handle' \in HandleTypes /\ server' \in ServerTypes
        /\ present' \in BOOLEAN /\ reader' \in {"read", "push", "gone"}
        /\ call' \in [Callers -> CallTypes]
    BY <2>1, KillTypes
  <2>. QED BY <2>1, <2>2, <2>3 DEF PoolTypes, taskVars, steerVars, historyVars
<1>. QED BY <1>2, <1>3, <1>4, <1>5, <1>6, <1>7, <1>8

\* What the server writes when it completes its turn.
LEMMA CompletionType ==
    ASSUME PoolTypes, NEW good \in BOOLEAN, NEW s \in Seq(Lines)
    PROVE  /\ s \o Completion(good) \in Seq(Lines)
           /\ server.turn = 0 => s \o Completion(good) = s
           /\ server.turn # 0 => s \o Completion(good) = Append(s, Line("completed", server.turn, good))
<1>1. server.turn \in Nat
  BY DEF PoolTypes, ServerTypes
<1>2. PICK x : x = Line("completed", server.turn, good)
  OBVIOUS
<1>3. x \in Lines
  BY <1>1, <1>2 DEF Line, Lines, LineTypes
<1>4. s \o << >> = s /\ s \o <<x>> = Append(s, x) /\ Append(s, x) \in Seq(Lines)
  BY <1>3, PipeConcat
<1>5. Completion(good) = IF server.turn = 0 THEN << >> ELSE <<x>>
  BY <1>2 DEF Completion
<1>. QED BY <1>2, <1>4, <1>5

\* Lines that say nothing of a turn, and lines of the turn the server works on.
Neutral == {"response", "started", "approval"}

LEMMA NeutralLine ==
    ASSUME NEW s \in Seq(Lines), NEW x \in Lines, x.type \in Neutral
    PROVE  /\ Append(s, x) \in Seq(Lines) /\ Elems(Append(s, x)) = Elems(s) \union {x}
           /\ Ordered(s) => Ordered(Append(s, x))
<1>1. \A y \in Elems(s) : ~Follows(x, y)
  BY DEF Follows, Neutral
<1>. QED BY <1>1, PipeAppend

LEMMA TurnLine ==
    ASSUME NEW s \in Seq(Lines), NEW x \in Lines,
           \A y \in Elems(s) : ~(y.type = "completed" /\ y.n = x.n)
    PROVE  /\ Append(s, x) \in Seq(Lines) /\ Elems(Append(s, x)) = Elems(s) \union {x}
           /\ Ordered(s) => Ordered(Append(s, x))
<1>1. \A y \in Elems(s) : ~Follows(x, y)
  BY DEF Follows
<1>. QED BY <1>1, PipeAppend

LEMMA CompletionLine ==
    ASSUME PoolTypes, NEW good \in BOOLEAN, NEW s \in Seq(Lines),
           LinesOrdered => Ordered(s), \A y \in Elems(s) : y \in Out \/ y.type \in Neutral,
           NEW c, c = s \o Completion(good)
    PROVE  /\ c \in Seq(Lines)
           /\ \A l \in Elems(c) :
                 l \in Elems(s) \/ (server.turn # 0 /\ l.type = "completed" /\ l.n = server.turn)
           /\ LinesOrdered => Ordered(c)
<1>1. CASE server.turn = 0
  BY <1>1, CompletionType
<1>2. CASE server.turn # 0
  <2>1. PICK x : x = Line("completed", server.turn, good)
    OBVIOUS
  <2>2. x \in Lines /\ x.type = "completed" /\ x.n = server.turn
    BY <2>1 DEF Line, Lines, LineTypes, PoolTypes, ServerTypes
  <2>3. c = Append(s, x)
    BY <1>2, <2>1, CompletionType
  <2>4. c \in Seq(Lines) /\ Elems(c) = Elems(s) \union {x}
    BY <2>2, <2>3, PipeAppend
  <2>5. ASSUME LinesOrdered PROVE Ordered(c)
    <3>1. \A y \in Elems(s) : ~(y.type = "completed" /\ y.n = x.n)
      BY <2>2, <2>5 DEF LinesOrdered, Neutral
    <3>. QED BY <2>2, <2>3, <2>5, <3>1, TurnLine
  <2>. QED BY <1>2, <2>2, <2>4, <2>5
<1>. QED BY <1>1, <1>2

\* What the server writes in a step is of the turn it works on; it completes that turn
\* when it leaves it, and the next one is one it was asked for.
Emits ==
    /\ server' \in ServerTypes /\ server'.up = server.up /\ In' \subseteq In
    /\ \A l \in Out' :
          \/ l \in Out
          \/ l.type \in Neutral
          \/ /\ l.type \in {"delta", "completed"} /\ server.turn # 0 /\ l.n = server.turn
             /\ l.type = "completed" => server.turn \in ended' /\ server'.turn # server.turn
    /\ LinesOrdered => Ordered(server.out)'
    /\ server'.turn \in {0, server.turn} \/ StartIn(server'.turn)
    /\ ended \subseteq ended'

LEMMA Reads ==
    ASSUME PoolTypes, Asks, ReadRequest, NEW q, q = Head(server.in)
    PROVE  /\ Emits /\ server'.in = Tail(server.in)
           /\ runs' \in [Ids -> Nat] /\ applied' \in [Followups -> Nat]
           /\ \E good \in BOOLEAN :
                 /\ Does(q, good)
                 /\ \A l \in Out' : l.type = "response" => l \in Out \/ (l.n = q.id /\ l.good = good)
<1>1. /\ server \in ServerTypes /\ server.in \in Seq(Requests) /\ server.in # << >>
      /\ server.out \in Seq(Lines) /\ runs \in [Ids -> Nat] /\ applied \in [Followups -> Nat]
      /\ server.turn \in Nat /\ server.asking \in Nat
  BY DEF PoolTypes, ServerTypes, ReadRequest
<1>2. PICK in : in = Tail(server.in)
  OBVIOUS
<1>3. /\ in \in Seq(Requests) /\ q \in Requests /\ q \in In /\ Elems(in) \subseteq Elems(server.in)
      /\ q.turn \in Nat /\ q.id \in Nat
  <2>1. /\ in \in Seq(Requests) /\ q \in Requests /\ Elems(in) \subseteq Elems(server.in)
        /\ q \in Elems(server.in)
    BY <1>1, <1>2, PipeTail
  <2>2. q.turn \in Nat /\ q.id \in Nat
    BY <2>1 DEF Requests
  <2>. QED BY <2>1, <2>2 DEF In
<1>4. (server.turn # 0 => server.turn \in Ids /\ runs[server.turn] > 0)
      /\ (q.method = "start" => StartIn(q.turn) /\ q.turn \in Ids /\ runs[q.turn] = 0)
  BY <1>3 DEF Asks, RunsCounted, RequestsOnce, StartIn
\* A step that answers and writes nothing else.
<1>5. ASSUME NEW good \in BOOLEAN, NEW asking \in Nat,
             server' = [server EXCEPT !.in = in, !.asking = asking,
                                      !.out = Append(server.out, Response(q, good))],
             ended' = ended
      PROVE  /\ Emits /\ server'.in = in /\ server'.turn = server.turn
             /\ \A l \in Out' : l.type = "response" => l \in Out \/ (l.n = q.id /\ l.good = good)
  <2>1. PICK x : x = Response(q, good)
    OBVIOUS
  <2>2. x \in Lines /\ x.type = "response" /\ x.n = q.id /\ x.good = good
    BY <1>3, <2>1 DEF Response, Line, Lines, LineTypes
  <2>3. PICK out : out = Append(server.out, x)
    OBVIOUS
  <2>4. out \in Seq(Lines) /\ Elems(out) = Elems(server.out) \union {x}
        /\ (Ordered(server.out) => Ordered(out))
    BY <1>1, <2>2, <2>3, NeutralLine DEF Neutral
  <2>5. server' = [server EXCEPT !.in = in, !.asking = asking, !.out = out]
    BY <1>5, <2>1, <2>3
  <2>6. /\ server' \in ServerTypes /\ server'.in = in /\ server'.out = out
        /\ server'.turn = server.turn /\ server'.up = server.up
    BY <1>1, <1>3, <2>4, <2>5 DEF ServerTypes
  <2>7. In' \subseteq In /\ Out' = Out \union {x} /\ (LinesOrdered => Ordered(server.out)')
    BY <1>3, <2>4, <2>6 DEF In, Out, Elems, Ordered, LinesOrdered
  <2>. QED BY <1>5, <2>2, <2>6, <2>7 DEF Emits, Neutral
<1>6. CASE ReadStart
  <2>1. CASE /\ server' = [server EXCEPT !.in = Tail(@), !.out = Append(@, Response(q, FALSE))]
             /\ UNCHANGED <<runs, ended>>
    <3>1. server' = [server EXCEPT !.in = in, !.asking = server.asking,
                                   !.out = Append(server.out, Response(q, FALSE))]
      BY <1>1, <1>2, <2>1 DEF ServerTypes
    <3>2. q.method = "start" /\ applied' = applied
      BY <1>6 DEF ReadStart
    <3>3. Does(q, FALSE)
      BY <1>1, <1>5, <2>1, <3>1, <3>2 DEF Does
    <3>. QED BY <1>1, <1>2, <1>5, <2>1, <3>1, <3>2, <3>3
  <2>2. CASE /\ server' = [server EXCEPT !.in = Tail(@), !.turn = q.turn, !.emitted = 0,
                              !.asking = 0,
                              !.out = @ \o Completion(TRUE)
                                        \o <<Response(q, TRUE), Line("started", q.turn, TRUE)>>]
             /\ runs' = [runs EXCEPT ![q.turn] = @ + 1]
             /\ Completed
    <3>1. PICK c : c = server.out \o Completion(TRUE)
      OBVIOUS
    <3>2. /\ c \in Seq(Lines)
          /\ \A l \in Elems(c) :
                l \in Out \/ (server.turn # 0 /\ l.type = "completed" /\ l.n = server.turn)
          /\ LinesOrdered => Ordered(c)
      <4>1. (LinesOrdered => Ordered(server.out)) /\ Out = Elems(server.out)
        BY DEF LinesOrdered, Out
      <4>. QED BY <1>1, <3>1, <4>1, CompletionLine
    <3>3. PICK x, y : x = Response(q, TRUE) /\ y = Line("started", q.turn, TRUE)
      OBVIOUS
    <3>4. /\ x \in Lines /\ x.type = "response" /\ x.n = q.id /\ x.good = TRUE
          /\ y \in Lines /\ y.type = "started"
      BY <1>3, <3>3 DEF Response, Line, Lines, LineTypes
    <3>5. PICK d : d = Append(c, x)
      OBVIOUS
    <3>6. d \in Seq(Lines) /\ Elems(d) = Elems(c) \union {x} /\ (Ordered(c) => Ordered(d))
      BY <3>2, <3>4, <3>5, NeutralLine DEF Neutral
    <3>7. PICK out : out = Append(d, y)
      OBVIOUS
    <3>8. out \in Seq(Lines) /\ Elems(out) = Elems(d) \union {y} /\ (Ordered(d) => Ordered(out))
      BY <3>4, <3>6, <3>7, NeutralLine DEF Neutral
    <3>9. c \o <<x, y>> = out
      BY <3>2, <3>4, <3>5, <3>7, PipeConcat
    <3>10. server' = [server EXCEPT !.in = in, !.turn = q.turn, !.emitted = 0, !.asking = 0, !.out = out]
      BY <1>2, <2>2, <3>1, <3>3, <3>9
    <3>11. /\ server' \in ServerTypes /\ server'.in = in /\ server'.out = out
           /\ server'.turn = q.turn /\ server'.up = server.up
      <4>1. server \in ServerTypes /\ in \in Seq(Requests) /\ q.turn \in Nat /\ out \in Seq(Lines)
        BY <1>1, <1>3, <3>8
      <4>2. PICK n \in Nat : n = q.turn
        BY <4>1
      <4>3. server' = [server EXCEPT !.in = in, !.turn = n, !.emitted = 0, !.asking = 0, !.out = out]
        BY <3>10, <4>2
      <4>4. PICK mid : mid = [server EXCEPT !.in = in, !.turn = n]
        OBVIOUS
      <4>5. mid \in ServerTypes /\ mid.in = in /\ mid.turn = n /\ mid.up = server.up
        BY <4>1, <4>4 DEF ServerTypes
      <4>6. server' = [mid EXCEPT !.emitted = 0, !.asking = 0, !.out = out]
        BY <4>1, <4>3, <4>4 DEF ServerTypes
      <4>. QED BY <4>1, <4>2, <4>5, <4>6 DEF ServerTypes
    <3>12. In' \subseteq In /\ Out' = Elems(c) \union {x, y} /\ (LinesOrdered => Ordered(server.out)')
      <4>1. Out' = Elems(out) /\ In' = Elems(in) /\ In = Elems(server.in)
        BY <3>11 DEF In, Out, Elems
      <4>2. Elems(out) = Elems(c) \union {x, y} /\ (LinesOrdered => Ordered(out))
        BY <3>2, <3>6, <3>8
      <4>3. Ordered(out) => Ordered(server.out)'
        BY <3>11 DEF Ordered
      <4>. QED BY <1>3, <4>1, <4>2, <4>3
    <3>13. q.method = "start" /\ applied' = applied
      BY <1>6 DEF ReadStart
    <3>14. ended \subseteq ended' /\ (server.turn # 0 => server.turn \in ended' /\ server'.turn # server.turn)
      BY <1>4, <2>2, <3>11, <3>13 DEF Completed
    <3>15. Emits
      BY <1>4, <3>2, <3>4, <3>11, <3>12, <3>13, <3>14 DEF Emits, Neutral
    <3>16. Does(q, TRUE)
      BY <2>2, <3>11, <3>13 DEF Does
    <3>17. \A l \in Out' : l.type = "response" => l \in Out \/ (l.n = q.id /\ l.good = TRUE)
      BY <3>2, <3>4, <3>12
    <3>18. runs' \in [Ids -> Nat] /\ applied' \in [Followups -> Nat]
      BY <1>1, <1>4, <2>2, <3>13
    <3>. QED BY <1>2, <3>11, <3>15, <3>16, <3>17, <3>18
  <2>. QED BY <1>6, <2>1, <2>2 DEF ReadStart
<1>7. CASE ReadSteer
  <2>1. PICK good \in {FALSE, server.turn = q.turn} :
          /\ server' = [server EXCEPT !.in = Tail(@), !.out = Append(@, Response(q, good))]
          /\ applied' = IF good THEN [applied EXCEPT ![q.what] = server.turn] ELSE applied
    BY <1>7 DEF ReadSteer
  <2>2. good \in BOOLEAN /\ q.method = "steer" /\ UNCHANGED <<runs, ended>>
    BY <1>7 DEF ReadSteer
  <2>3. server' = [server EXCEPT !.in = in, !.asking = server.asking,
                                 !.out = Append(server.out, Response(q, good))]
    BY <1>1, <1>2, <2>1 DEF ServerTypes
  <2>4. Does(q, good)
    <3>1. server'.turn = server.turn
      BY <1>1, <1>5, <2>2, <2>3
    <3>2. CASE good = TRUE
      <4>1. server.turn = q.turn /\ applied' = [applied EXCEPT ![q.what] = server.turn]
        BY <2>1, <3>2
      <4>. QED BY <2>2, <3>1, <3>2, <4>1 DEF Does
    <3>3. CASE good = FALSE
      BY <2>1, <2>2, <3>1, <3>3 DEF Does
    <3>. QED BY <2>2, <3>2, <3>3
  <2>5. runs' \in [Ids -> Nat] /\ applied' \in [Followups -> Nat]
    <3>1. applied' = applied \/ applied' = [applied EXCEPT ![q.what] = server.turn]
      BY <2>1
    <3>. QED BY <1>1, <2>2, <3>1
  <2>6. /\ Emits /\ server'.in = in
        /\ \A l \in Out' : l.type = "response" => l \in Out \/ (l.n = q.id /\ l.good = good)
    BY <1>1, <1>5, <2>2, <2>3
  <2>. QED BY <1>2, <2>2, <2>4, <2>5, <2>6
<1>8. CASE ReadApproval
  <2>1. PICK fits \in BOOLEAN : fits <=> server.asking = q.what
    OBVIOUS
  <2>2. (server.asking = q.what) = fits
    BY <2>1
  <2>3. PICK asking \in Nat : asking = IF fits THEN 0 ELSE server.asking
    BY <1>1
  <2>4. server' = [server EXCEPT !.in = in, !.asking = asking,
                                 !.out = Append(server.out, Response(q, fits))]
    BY <1>2, <1>8, <2>2, <2>3 DEF ReadApproval
  <2>5. q.method = "approval" /\ UNCHANGED <<runs, ended, applied>>
    BY <1>8 DEF ReadApproval
  <2>6. Does(q, fits)
    BY <1>1, <1>5, <2>4, <2>5 DEF Does
  <2>. QED BY <1>1, <1>2, <1>5, <2>4, <2>5, <2>6
<1>9. CASE ReadInterrupt
  <2>1. q.method = "interrupt" /\ UNCHANGED <<runs, applied>>
    BY <1>9 DEF ReadInterrupt
  <2>2. CASE server.turn # q.turn
    <3>1. Response(q, server.turn = q.turn) = Response(q, FALSE)
      BY <2>2
    <3>2. (server.out \o <<Response(q, FALSE)>>) \o << >> = Append(server.out, Response(q, FALSE))
      <4>1. PICK x : x = Response(q, FALSE)
        OBVIOUS
      <4>2. x \in Lines
        BY <1>3, <4>1 DEF Response, Line, Lines, LineTypes
      <4>3. server.out \o <<x>> = Append(server.out, x) /\ Append(server.out, x) \in Seq(Lines)
        BY <1>1, <4>2, PipeConcat
      <4>4. Append(server.out, x) \o << >> = Append(server.out, x)
        BY <4>2, <4>3, PipeConcat
      <4>. QED BY <4>1, <4>3, <4>4
    <3>3. server' = [server EXCEPT !.in = in, !.turn = server.turn, !.asking = server.asking,
                                   !.out = Append(server.out, Response(q, FALSE))]
      BY <1>2, <1>9, <2>2, <3>1, <3>2 DEF ReadInterrupt
    <3>4. server' = [server EXCEPT !.in = in, !.asking = server.asking,
                                   !.out = Append(server.out, Response(q, FALSE))]
      BY <1>1, <3>3 DEF ServerTypes
    <3>5. ended' = ended
      BY <1>9, <2>2 DEF ReadInterrupt
    <3>6. Does(q, FALSE)
      BY <1>1, <1>5, <2>1, <3>4, <3>5 DEF Does
    <3>. QED BY <1>1, <1>2, <1>5, <2>1, <3>4, <3>5, <3>6
  <2>3. CASE server.turn = q.turn
    <3>1. PICK x : x = Response(q, TRUE)
      OBVIOUS
    <3>2. x \in Lines /\ x.type = "response" /\ x.n = q.id /\ x.good = TRUE
      BY <1>3, <3>1 DEF Response, Line, Lines, LineTypes
    <3>3. PICK d : d = Append(server.out, x)
      OBVIOUS
    <3>4. d \in Seq(Lines) /\ Elems(d) = Elems(server.out) \union {x}
          /\ (Ordered(server.out) => Ordered(d)) /\ server.out \o <<x>> = d
      BY <1>1, <3>2, <3>3, NeutralLine, PipeConcat DEF Neutral
    <3>5. PICK out : out = d \o Completion(TRUE)
      OBVIOUS
    <3>6. /\ out \in Seq(Lines)
          /\ \A l \in Elems(out) :
                l \in Elems(d) \/ (server.turn # 0 /\ l.type = "completed" /\ l.n = server.turn)
          /\ LinesOrdered => Ordered(out)
      <4>1. (LinesOrdered => Ordered(d)) /\ \A y \in Elems(d) : y \in Out \/ y.type \in Neutral
        BY <3>2, <3>4 DEF LinesOrdered, Out, Neutral
      <4>2. d \in Seq(Lines)
        BY <3>4
      <4>. QED BY <3>5, <4>1, <4>2, CompletionLine
    <3>7. Response(q, server.turn = q.turn) = x
      BY <2>3, <3>1
    <3>8. server' = [server EXCEPT !.in = in, !.turn = 0, !.asking = 0, !.out = out]
      BY <1>2, <1>9, <2>3, <3>4, <3>5, <3>7 DEF ReadInterrupt
    <3>9. /\ server' \in ServerTypes /\ server'.in = in /\ server'.out = out
          /\ server'.turn = 0 /\ server'.up = server.up
      BY <1>1, <1>3, <3>6, <3>8 DEF ServerTypes
    <3>10. In' \subseteq In /\ Out' = Elems(out) /\ Out = Elems(server.out)
           /\ (LinesOrdered => Ordered(server.out)')
      BY <1>3, <3>6, <3>9 DEF In, Out, Elems, Ordered
    <3>11. ended' = ended \union ({server.turn} \ {0})
      BY <1>9, <2>3 DEF ReadInterrupt, Completed
    <3>12. Emits
      BY <3>2, <3>4, <3>6, <3>9, <3>10, <3>11 DEF Emits, Neutral
    <3>13. Does(q, TRUE)
      BY <2>1, <3>9 DEF Does
    <3>14. \A l \in Out' : l.type = "response" => l \in Out \/ (l.n = q.id /\ l.good = TRUE)
      BY <3>2, <3>4, <3>6, <3>10
    <3>. QED BY <1>1, <1>2, <2>1, <3>9, <3>12, <3>13, <3>14
  <2>. QED BY <2>2, <2>3
<1>. QED BY <1>6, <1>7, <1>8, <1>9 DEF ReadRequest

\* The turn goes on, or ends, at the server.
LEMMA Works ==
    ASSUME PoolTypes, Asks, EmitDelta \/ AskApproval \/ \E good \in BOOLEAN : CompleteTurn(good)
    PROVE  /\ Emits /\ server'.in = server.in /\ server'.turn \in {0, server.turn}
           /\ \A l \in Out' : l.type = "response" => l \in Out
           /\ approvals' \in [asked : Nat, given : Nat]
           /\ UNCHANGED <<taskVars, lock, handleVars, callVars, steerVars, exits,
                          applied, runs, crossed>>
<1>1. /\ server \in ServerTypes /\ server.out \in Seq(Lines) /\ server.turn \in Nat
      /\ approvals \in [asked : Nat, given : Nat] /\ approvals.asked + 1 \in Nat
      /\ Out = Elems(server.out) /\ server.emitted + 1 \in Nat
  BY DEF PoolTypes, ServerTypes, Out
\* One line that says no turn is over.
<1>2. ASSUME NEW emitted \in Nat, NEW asking \in Nat, NEW x \in Lines,
             x.type = "approval" \/ (x.type = "delta" /\ server.turn # 0 /\ x.n = server.turn),
             server' = [server EXCEPT !.emitted = emitted, !.asking = asking,
                                      !.out = Append(server.out, x)],
             ended' = ended
      PROVE  /\ Emits /\ server'.in = server.in /\ server'.turn = server.turn
             /\ \A l \in Out' : l.type = "response" => l \in Out
  <2>1. PICK out : out = Append(server.out, x)
    OBVIOUS
  <2>2. out \in Seq(Lines) /\ Elems(out) = Elems(server.out) \union {x}
    BY <1>1, <2>1, PipeAppend
  <2>3. ASSUME LinesOrdered PROVE Ordered(out)
    <3>1. CASE x.type = "approval"
      BY <1>1, <2>1, <2>3, <3>1, NeutralLine DEF Neutral, LinesOrdered
    <3>2. CASE x.type = "delta" /\ server.turn # 0 /\ x.n = server.turn
      <4>1. \A y \in Elems(server.out) : ~(y.type = "completed" /\ y.n = x.n)
        BY <1>1, <2>3, <3>2 DEF LinesOrdered
      <4>2. Ordered(server.out)
        BY <2>3 DEF LinesOrdered
      <4>. QED BY <1>1, <2>1, <4>1, <4>2, TurnLine
    <3>. QED BY <1>2, <3>1, <3>2
  <2>4. server' = [server EXCEPT !.emitted = emitted, !.asking = asking, !.out = out]
    BY <1>2, <2>1
  <2>5. /\ server' \in ServerTypes /\ server'.in = server.in /\ server'.out = out
        /\ server'.turn = server.turn /\ server'.up = server.up
    BY <1>1, <2>2, <2>4 DEF ServerTypes
  <2>6. In' = In /\ Out' = Elems(out) /\ (Ordered(out) => Ordered(server.out)')
    BY <2>5 DEF In, Out, Elems, Ordered
  <2>7. \A l \in Out' : l \in Out \/ l = x
    BY <1>1, <2>2, <2>6
  <2>8. LinesOrdered => Ordered(server.out)'
    BY <2>3, <2>6
  <2>. QED BY <1>2, <2>5, <2>6, <2>7, <2>8 DEF Emits, Neutral
<1>3. CASE EmitDelta
  <2>1. PICK x : x = Line("delta", server.turn, TRUE)
    OBVIOUS
  <2>2. x \in Lines /\ x.type = "delta" /\ x.n = server.turn
    BY <1>1, <2>1 DEF Line, Lines, LineTypes
  <2>3. /\ server.turn # 0
        /\ server' = [server EXCEPT !.emitted = @ + 1, !.out = Append(@, x)]
        /\ UNCHANGED <<taskVars, lock, handleVars, callVars, steerVars, approvals, exits, historyVars>>
    BY <1>3, <2>1 DEF EmitDelta
  <2>4. PICK emitted \in Nat : emitted = server.emitted + 1
    BY <1>1
  <2>8. PICK asking \in Nat : asking = server.asking
    BY <1>1 DEF ServerTypes
  <2>5. server' = [server EXCEPT !.emitted = emitted, !.asking = asking, !.out = Append(server.out, x)]
    BY <1>1, <2>3, <2>4, <2>8 DEF ServerTypes
  <2>6. ended' = ended
    BY <2>3 DEF historyVars
  <2>7. /\ Emits /\ server'.in = server.in /\ server'.turn = server.turn
        /\ \A l \in Out' : l.type = "response" => l \in Out
    <3>1. x.type = "approval" \/ (x.type = "delta" /\ server.turn # 0 /\ x.n = server.turn)
      BY <2>2, <2>3
    <3>. QED BY <1>2, <2>2, <2>5, <2>6, <3>1
  <2>. QED BY <1>1, <2>3, <2>7 DEF historyVars
<1>4. CASE AskApproval
  <2>1. PICK x : x = Line("approval", approvals.asked + 1, TRUE)
    OBVIOUS
  <2>2. x \in Lines /\ x.type = "approval"
    BY <1>1, <2>1 DEF Line, Lines, LineTypes
  <2>3. /\ approvals' = [approvals EXCEPT !.asked = @ + 1]
        /\ server' = [server EXCEPT !.asking = approvals.asked + 1, !.out = Append(@, x)]
        /\ UNCHANGED <<taskVars, lock, handleVars, callVars, steerVars, exits, historyVars>>
    BY <1>4, <2>1 DEF AskApproval
  <2>4. PICK emitted \in Nat : emitted = server.emitted
    BY <1>1 DEF ServerTypes
  <2>8. PICK asking \in Nat : asking = approvals.asked + 1
    BY <1>1
  <2>5. server' = [server EXCEPT !.emitted = emitted, !.asking = asking, !.out = Append(server.out, x)]
    BY <1>1, <2>3, <2>4, <2>8 DEF ServerTypes
  <2>6. ended' = ended /\ approvals' \in [asked : Nat, given : Nat]
    BY <1>1, <2>3 DEF historyVars
  <2>7. /\ Emits /\ server'.in = server.in /\ server'.turn = server.turn
        /\ \A l \in Out' : l.type = "response" => l \in Out
    <3>1. x.type = "approval" \/ (x.type = "delta" /\ server.turn # 0 /\ x.n = server.turn)
      BY <2>2, <2>3
    <3>. QED BY <1>2, <2>2, <2>5, <2>6, <3>1
  <2>. QED BY <1>1, <2>3, <2>6, <2>7 DEF historyVars
<1>5. ASSUME NEW good \in BOOLEAN, CompleteTurn(good)
      PROVE  /\ Emits /\ server'.in = server.in /\ server'.turn = 0
             /\ \A l \in Out' : l.type = "response" => l \in Out
  <2>1. PICK out : out = server.out \o Completion(good)
    OBVIOUS
  <2>2. /\ out \in Seq(Lines)
        /\ \A l \in Elems(out) :
              l \in Out \/ (server.turn # 0 /\ l.type = "completed" /\ l.n = server.turn)
        /\ LinesOrdered => Ordered(out)
    <3>1. (LinesOrdered => Ordered(server.out)) /\ Out = Elems(server.out) /\ server.out \in Seq(Lines)
      BY <1>1 DEF LinesOrdered
    <3>. QED BY <2>1, <3>1, CompletionLine
  <2>3. /\ server.turn # 0 /\ server' = [server EXCEPT !.turn = 0, !.asking = 0, !.out = out]
        /\ ended' = ended \union ({server.turn} \ {0})
    BY <1>5, <2>1 DEF CompleteTurn, Completed
  <2>4. /\ server' \in ServerTypes /\ server'.in = server.in /\ server'.out = out
        /\ server'.turn = 0 /\ server'.up = server.up
    BY <1>1, <2>2, <2>3 DEF ServerTypes
  <2>5. In' = In /\ Out' = Elems(out) /\ (Ordered(out) => Ordered(server.out)')
    BY <2>4 DEF In, Out, Elems, Ordered
  <2>. QED BY <2>2, <2>3, <2>4, <2>5 DEF Emits, Neutral
<1>6. ASSUME NEW good \in BOOLEAN, CompleteTurn(good)
      PROVE  UNCHANGED <<taskVars, lock, handleVars, callVars, steerVars, approvals, exits,
                         applied, runs, crossed>>
  BY <1>6 DEF CompleteTurn
<1>. QED BY <1>1, <1>3, <1>4, <1>5, <1>6

\* What the server writes keeps the lines in order, and it has nothing left to say that
\* it had not before.
LEMMA ServerTells ==
    ASSUME PoolTypes, Asks, LinesOrdered, Emits, runs' \in [Ids -> Nat],
           \A t \in Ids : runs[t] > 0 => runs'[t] > 0
    PROVE  LinesOrdered' /\ \A n \in Ids : Left(n)' => Left(n)
<1>1. /\ \A l \in Out : l.type \in {"delta", "completed"} => l.n \in Ids /\ runs[l.n] > 0
      /\ \A l \in Out : l.type = "completed" => l.n \in ended /\ server.turn # l.n
  BY DEF LinesOrdered
<1>2. server.turn # 0 => server.turn \in Ids /\ runs[server.turn] > 0
  BY DEF Asks, RunsCounted
<1>3. \A t : StartIn(t) => t \in Ids /\ runs[t] = 0
  BY PipeTypes DEF Asks, RequestsOnce, StartIn, Requests
<1>4. /\ In' \subseteq In
      /\ \A l \in Out' :
            \/ l \in Out
            \/ l.type \in Neutral
            \/ /\ l.type \in {"delta", "completed"} /\ server.turn # 0 /\ l.n = server.turn
               /\ l.type = "completed" => server.turn \in ended' /\ server'.turn # server.turn
      /\ Ordered(server.out)'
      /\ server'.turn \in {0, server.turn} \/ StartIn(server'.turn)
      /\ ended \subseteq ended'
  BY DEF Emits
<1>5. \A l \in Out' : l.type \in {"delta", "completed"} =>
          /\ l.n \in Ids /\ runs[l.n] > 0
          /\ (l \in Out \/ l.n = server.turn)
  BY <1>1, <1>2, <1>4 DEF Neutral
<1>6. \A l \in Out' : l.type = "completed" => l.n \in ended' /\ server'.turn # l.n
  <2>1. ASSUME NEW l \in Out', l.type = "completed" PROVE l.n \in ended' /\ server'.turn # l.n
    <3>1. l.n \in Ids /\ runs[l.n] > 0 /\ 0 \notin Ids
      BY <1>5, <2>1 DEF Ids
    <3>2. l.n \in ended' /\ (server'.turn = server.turn => server'.turn # l.n)
      BY <1>1, <1>4, <2>1 DEF Neutral
    <3>. QED BY <1>3, <1>4, <3>1, <3>2
  <2>. QED BY <2>1
<1>7. LinesOrdered'
  BY <1>4, <1>5, <1>6 DEF LinesOrdered
<1>8. ASSUME NEW n \in Ids, Left(n)' PROVE Left(n)
  <2>1. n # 0
    BY DEF Ids
  <2>2. StartIn(n)' => StartIn(n)
    BY <1>4 DEF StartIn
  <2>3. server'.turn = n => server.turn = n \/ StartIn(n)
    BY <1>4, <2>1
  <2>4. HasLine("delta", n)' => HasLine("delta", n) \/ server.turn = n
    BY <1>5 DEF HasLine
  <2>5. HasLine("completed", n)' => HasLine("completed", n) \/ server.turn = n
    BY <1>5 DEF HasLine
  <2>. QED BY <1>8, <2>2, <2>3, <2>4, <2>5 DEF Left
<1>. QED BY <1>7, <1>8

-----------------------------------------------------------------------------
(* The types of the server's and the reader's steps, and of every step. *)

LEMMA TypesServer ==
    ASSUME PoolTypes, Asks, ServerStep \/ Reap \/ ReaderStep
    PROVE  PoolTypes'
<1>1. /\ handle \in HandleTypes /\ call \in [Callers -> CallTypes] /\ server \in ServerTypes
      /\ exits \in Nat
  BY DEF PoolTypes
<1>2. CASE ReadRequest
  <2>1. /\ server' \in ServerTypes /\ runs' \in [Ids -> Nat] /\ applied' \in [Followups -> Nat]
    BY <1>2, Reads DEF Emits
  <2>2. UNCHANGED <<taskVars, lock, handleVars, callVars, steerVars, approvals, exits, crossed>>
    BY <1>2 DEF ReadRequest
  <2>. QED BY <2>1, <2>2 DEF PoolTypes, taskVars, handleVars, callVars, steerVars
<1>3. CASE EmitDelta \/ AskApproval \/ \E good \in BOOLEAN : CompleteTurn(good)
  <2>1. /\ server' \in ServerTypes /\ approvals' \in [asked : Nat, given : Nat]
        /\ UNCHANGED <<taskVars, lock, handleVars, callVars, steerVars, exits,
                       applied, runs, crossed>>
    BY <1>3, Works DEF Emits
  <2>. QED BY <2>1 DEF PoolTypes, taskVars, handleVars, callVars, steerVars
<1>4. CASE Exit
  <2>1. << >> \in Seq(Requests)
    BY EmptySeq
  <2>2. /\ server' = [server EXCEPT !.up = FALSE, !.in = << >>, !.turn = 0, !.asking = 0]
        /\ exits' = exits + 1
        /\ UNCHANGED <<taskVars, lock, handleVars, callVars, steerVars, approvals, historyVars>>
    BY <1>4 DEF Exit
  <2>3. server' \in ServerTypes
    BY <1>1, <2>1, <2>2 DEF ServerTypes
  <2>4. exits' \in Nat
    BY <1>1, <2>2
  <2>. QED BY <2>2, <2>3, <2>4 DEF PoolTypes, taskVars, handleVars, callVars, steerVars, historyVars
<1>5. CASE Reap
  <2>1. /\ handle' = [handle EXCEPT !.closing = TRUE]
        /\ UNCHANGED <<taskVars, lock, present, reader, callVars, server, steerVars, approvals,
                       exits, historyVars>>
    BY <1>5 DEF Reap
  <2>2. handle' \in HandleTypes
    BY <1>1, <2>1 DEF HandleTypes
  <2>. QED BY <2>1, <2>2 DEF PoolTypes, taskVars, callVars, steerVars, historyVars
<1>6. CASE ReadLine
  <2>1. server' \in ServerTypes /\ handle' \in HandleTypes /\ call' \in [Callers -> CallTypes]
    BY <1>6, LineRead
  <2>2. /\ reader' \in {"read", "push", "gone"}
        /\ UNCHANGED <<turn, cancelled, returned, task, lock, present, asked, steerVars,
                       approvals, exits, historyVars>>
    BY <1>6 DEF ReadLine
  <2>. QED BY <2>1, <2>2 DEF PoolTypes, steerVars, historyVars
<1>7. CASE PushEvent
  <2>1. /\ reader' \in {"read", "push", "gone"}
        /\ UNCHANGED <<turn, cancelled, returned, task, lock, present, handle, callVars, server,
                       steerVars, approvals, exits, historyVars>>
    BY <1>7 DEF PushEvent
  <2>. QED BY <2>1 DEF PoolTypes, callVars, steerVars, historyVars
<1>8. ASSUME NEW reply \in {"eof", "closed"}, ReaderStops(reply) PROVE PoolTypes'
  <2>1. /\ handle' = [Closed(handle) EXCEPT !.failed = TRUE, !.closing = TRUE]
        /\ call' = FailPending(reply) /\ reader' \in {"read", "push", "gone"}
        /\ UNCHANGED <<taskVars, lock, present, asked, server, steerVars, approvals, exits,
                       applied, runs, ended>>
    BY <1>8 DEF ReaderStops
  <2>2. PICK h : h = Closed(handle)
    OBVIOUS
  <2>3. h \in HandleTypes
    BY <1>1, <2>2, ClosedType
  <2>4. handle' \in HandleTypes
    BY <2>1, <2>2, <2>3 DEF HandleTypes
  <2>5. call' \in [Callers -> CallTypes]
    BY <2>1, PendingFails
  <2>. QED BY <2>1, <2>4, <2>5 DEF PoolTypes, taskVars, steerVars
<1>. QED BY <1>2, <1>3, <1>4, <1>5, <1>6, <1>7, <1>8 DEF ServerStep, ReaderStep

LEMMA TypesNext ==
    ASSUME PoolTypes, Asks, [Next]_vars
    PROVE  PoolTypes'
<1>1. ~At("idle") => turn \in Ids
  BY DEF Asks, RunsCounted
<1>2. ASSUME \/ Prepare \/ (\E startup \in BOOLEAN : SpawnFails(startup)) \/ Started \/ StartFails
             \/ Interrupt \/ Interrupted \/ Timeout
      PROVE  PoolTypes'
  <2>1. ~At("idle")
    BY <1>2 DEF Prepare, SpawnFails, Started, StartFails, Interrupt, Interrupted, Timeout, At
  <2>2. turn \in Ids
    BY <1>1, <2>1
  <2>. QED BY <1>2, <2>2, TypesTask
<1>3. ASSUME StartTurn \/ Cancel \/ OneShot \/ TakeEvent \/ PipeEnds \/ NoticeCancel
             \/ DrainExpires \/ TakeResult
      PROVE  PoolTypes'
  BY <1>1, <1>3, TypesTurn
<1>4. ASSUME (\E w \in Callers : Expire(w)) \/ PrepareSteer \/ ExecuteSteer \/ Steered
             \/ Approve \/ Approved \/ KillCommand
      PROVE  PoolTypes'
  BY <1>4, TypesUsers
<1>5. ASSUME ServerStep \/ Reap \/ ReaderStep PROVE PoolTypes'
  BY <1>5, TypesServer
<1>6. ASSUME UNCHANGED vars PROVE PoolTypes'
  BY <1>6 DEF vars, PoolTypes, taskVars, handleVars, callVars, steerVars, historyVars
<1>7. CASE Next
  BY <1>2, <1>3, <1>4, <1>5, <1>7 DEF Next, TaskStep
<1>. QED BY <1>6, <1>7

-----------------------------------------------------------------------------
(* Asks is kept by every step. *)

\* Steps that have nothing to do with requests.
LEMMA AsksQuiet ==
    ASSUME PoolTypes, Asks,
           UNCHANGED <<turn, asked, call, server, steer, outcome, applied, runs, crossed>>,
           reader = "gone" => reader' = "gone",
           task'.at \in {task.at, "take", "drain", "interrupting", "forward", "idle"},
           task'.at # "idle" => task.at # "idle"
    PROVE  Asks'
<1>1. Out' = Out
  BY DEF Out
<1>2. \A w \in Callers : LearnsNothing(w)
  BY DEF LearnsNothing
<1>3. PipesKept
  BY DEF PipesKept
<1>. QED BY <1>1, <1>2, <1>3, AsksStay DEF NothingAsked

LEMMA AsksTurn ==
    ASSUME PoolTypes, Asks,
           Cancel \/ TakeEvent \/ PipeEnds \/ NoticeCancel \/ DrainExpires \/ TakeResult
           \/ Reap \/ PushEvent \/ UNCHANGED vars
    PROVE  Asks'
<1>1. CASE Cancel
  BY <1>1, AsksQuiet DEF Cancel, handleVars, callVars, steerVars, historyVars
<1>2. CASE TakeEvent
  BY <1>2, AsksQuiet DEF TakeEvent, handleVars, callVars, steerVars, historyVars
<1>3. CASE PipeEnds
  <2>1. task'.at = "take" /\ task.at # "idle"
    BY <1>3, GotoTypes DEF PipeEnds, TaskPlaces
  <2>. QED BY <1>3, <2>1, AsksQuiet DEF PipeEnds, handleVars, callVars, steerVars, historyVars
<1>4. CASE NoticeCancel
  <2>1. task'.at = "interrupting" /\ task.at # "idle"
    BY <1>4, GotoTypes DEF NoticeCancel, At, TaskPlaces, Listening
  <2>. QED BY <1>4, <2>1, AsksQuiet DEF NoticeCancel, handleVars, callVars, steerVars, historyVars
<1>5. CASE DrainExpires
  <2>1. task'.at = "take" /\ task.at # "idle"
    BY <1>5, GotoTypes DEF DrainExpires, At, TaskPlaces
  <2>. QED BY <1>5, <2>1, AsksQuiet DEF DrainExpires, handleVars, callVars, steerVars, historyVars
<1>6. CASE TakeResult
  <2>1. task'.at = "idle"
    BY <1>6 DEF TakeResult, Return
  <2>. QED BY <1>6, <2>1, AsksQuiet DEF TakeResult, handleVars, callVars, steerVars, historyVars
<1>7. CASE Reap
  BY <1>7, AsksQuiet DEF Reap, taskVars, callVars, steerVars, historyVars
<1>8. CASE PushEvent
  BY <1>8, AsksQuiet DEF PushEvent, callVars, steerVars, historyVars
<1>9. CASE UNCHANGED vars
  BY <1>9, AsksQuiet DEF vars, taskVars, handleVars, callVars, steerVars, historyVars
<1>. QED BY <1>1, <1>2, <1>3, <1>4, <1>5, <1>6, <1>7, <1>8, <1>9

\* Calls that end, with or without a process that goes.
LEMMA AsksEnd ==
    ASSUME PoolTypes, Asks,
           (\E startup \in BOOLEAN : SpawnFails(startup)) \/ Started \/ StartFails \/ Interrupted
           \/ Timeout \/ (\E w \in Callers : Expire(w)) \/ Approved \/ KillCommand
    PROVE  Asks'
<1>1. RequestsOnce /\ CallsAnswered /\ RunsCounted
  BY DEF Asks
<1>2. /\ {"turn", "steer", "approve"} = Callers /\ {"oneshot", "drain", "forward"} \subseteq TaskPlaces
  BY DEF Callers, TaskPlaces, Listening
\* Forgetting a call teaches nobody anything.
<1>4. ASSUME NEW v \in {"turn", "approve"}, Forget(v)
      PROVE  /\ \A w \in Callers : LearnsNothing(w)
             /\ call'["steer"] = call["steer"] /\ (v # "turn" => call'["turn"] = call["turn"])
  <2>1. /\ v \in Callers /\ call'[v] = NoCall /\ \A w \in Callers : w # v => call'[w] = call[w]
    BY <1>2, <1>4 DEF Forget, PoolTypes
  <2>. QED BY <1>2, <2>1 DEF LearnsNothing, NoCall
\* A process that is killed.
<1>5. ASSUME Kill
      PROVE  /\ PipesKept /\ Out' = {} /\ reader' = "gone"
             /\ \A w \in Callers : LearnsNothing(w) /\ call'[w].id = call[w].id
             /\ \A w \in Callers : call'[w].reply = "eof" => call[w].reply = "eof"
  <2>1. /\ server'.in = << >> /\ server'.out = << >> /\ server'.turn = 0 /\ ~server'.up
        /\ reader' = "gone"
        /\ \A w \in Callers :
              /\ call'[w].id = call[w].id
              /\ call'[w].reply = "closed" \/ call'[w].reply = call[w].reply
    BY <1>5, KillTypes
  <2>. QED BY <2>1, EmptyPipe DEF PipesKept, Out, LearnsNothing
<1>6. ASSUME NEW startup \in BOOLEAN, SpawnFails(startup) PROVE Asks'
  <2>1. /\ server' = NoServer /\ reader' = "gone"
        /\ UNCHANGED <<turn, cancelled, lock, callVars, steerVars, approvals, exits, historyVars>>
        /\ At("begin") /\ (task'.at = "oneshot" \/ task'.at = "idle")
    BY <1>2, <1>6, GotoTypes DEF SpawnFails, Return
  <2>2. PipesKept /\ Out' = {} /\ server'.in = << >> /\ ~server'.up
    BY <2>1, StoppedType, EmptyPipe DEF PipesKept, Out
  <2>3. FellBack
    BY <1>1, <2>1, <2>2 DEF FellBack, RunsCounted
  <2>4. \A w \in Callers : LearnsNothing(w)
    BY <2>1 DEF LearnsNothing, callVars
  <2>. QED BY <2>1, <2>2, <2>3, <2>4, AsksStay DEF NothingAsked, At, callVars, steerVars, historyVars
<1>7. CASE Started
  <2>1. /\ task'.at = "forward" /\ At("starting") /\ Forget("turn")
        /\ UNCHANGED <<turn, cancelled, returned, pipe, present, reader, asked, server,
                       steerVars, approvals, exits, historyVars>>
    BY <1>2, <1>7, GotoTypes DEF Started
  <2>2. PipesKept /\ Out' = Out
    BY <2>1 DEF PipesKept, Out
  <2>3. \A w \in Callers : LearnsNothing(w)
    BY <1>4, <2>1
  <2>4. call'["steer"] = call["steer"]
    BY <1>4, <2>1
  <2>. QED BY <2>1, <2>2, <2>3, <2>4, AsksStay DEF NothingAsked, At, steerVars, historyVars
<1>8. CASE StartFails
  <2>1. /\ At("starting") /\ Forget("turn") /\ Answered("turn")
        /\ UNCHANGED <<turn, cancelled, handleVars, asked, server, steerVars, approvals, exits,
                       historyVars>>
        /\ (task'.at = "oneshot" /\ call["turn"].reply = "eof") \/ task'.at = "idle"
    BY <1>2, <1>8, GotoTypes DEF StartFails, Return, FallsBack
  <2>2. PipesKept /\ Out' = Out
    BY <2>1 DEF PipesKept, Out
  <2>3. (\A w \in Callers : LearnsNothing(w)) /\ call'["steer"] = call["steer"]
    BY <1>4, <2>1
  <2>4. task'.at = "oneshot" => FellBack
    <3>1. SUFFICES ASSUME task'.at = "oneshot" PROVE FellBack
      OBVIOUS
    <3>2. turn \in crossed /\ reader = "gone" /\ ~server.up /\ turn \in Ids
      BY <1>1, <2>1, <3>1 DEF CallsAnswered, RunsCounted, At
    <3>3. runs[turn] = 0 \/ Astra
      BY <1>8, <3>1 DEF StartFails, FallsBack, Return
    <3>. QED BY <1>1, <2>1, <3>2, <3>3 DEF FellBack, RequestsOnce, handleVars
  <2>. QED BY <2>1, <2>2, <2>3, <2>4, AsksStay DEF NothingAsked, At, handleVars, steerVars, historyVars
<1>9. CASE Interrupted
  <2>1. /\ task'.at = "drain" /\ At("asking") /\ Forget("turn")
        /\ UNCHANGED <<turn, cancelled, returned, pipe, handleVars, asked, server, steerVars,
                       approvals, exits, historyVars>>
    BY <1>2, <1>9, GotoTypes DEF Interrupted
  <2>2. PipesKept /\ Out' = Out
    BY <2>1 DEF PipesKept, Out
  <2>3. (\A w \in Callers : LearnsNothing(w)) /\ call'["steer"] = call["steer"]
    BY <1>4, <2>1
  <2>. QED BY <2>1, <2>2, <2>3, AsksStay DEF NothingAsked, At, handleVars, steerVars, historyVars
<1>10. CASE Timeout
  <2>1. /\ task'.at = "idle" /\ Kill
        /\ UNCHANGED <<turn, cancelled, lock, asked, steerVars, approvals, exits, historyVars>>
    BY <1>10 DEF Timeout, Return
  <2>. QED BY <1>2, <1>5, <2>1, AsksStay DEF NothingAsked, steerVars, historyVars
<1>11. CASE KillCommand
  <2>1. /\ Kill
        /\ UNCHANGED <<taskVars, lock, asked, steerVars, approvals, historyVars>>
    BY <1>11 DEF KillCommand
  <2>. QED BY <1>2, <1>5, <2>1, AsksStay DEF NothingAsked, taskVars, steerVars, historyVars
<1>12. ASSUME NEW v \in Callers, Expire(v) PROVE Asks'
  <2>1. /\ call' = [call EXCEPT ![v].reply = "timeout"]
        /\ UNCHANGED <<taskVars, lock, handleVars, asked, server, steerVars, approvals,
                       exits, historyVars>>
    BY <1>12 DEF Expire
  <2>2. \A w \in Callers : /\ call'[w].id = call[w].id
                           /\ call'[w].reply = "timeout" \/ call'[w].reply = call[w].reply
    <3>1. ASSUME NEW w \in Callers
          PROVE  /\ call'[w].id = call[w].id
                 /\ call'[w].reply = "timeout" \/ call'[w].reply = call[w].reply
      <4>1. call[w] \in CallTypes /\ call[v] \in CallTypes /\ call \in [Callers -> CallTypes]
        BY DEF PoolTypes
      <4>. QED BY <2>1, <4>1 DEF CallTypes
    <3>. QED BY <3>1
  <2>3. \A w \in Callers : LearnsNothing(w)
    BY <2>2 DEF LearnsNothing
  <2>4. PipesKept /\ Out' = Out
    BY <2>1 DEF PipesKept, Out
  <2>. QED BY <1>2, <2>1, <2>2, <2>3, <2>4, AsksStay
       DEF NothingAsked, taskVars, handleVars, steerVars, historyVars
<1>13. CASE Approved
  <2>1. /\ Forget("approve")
        /\ UNCHANGED <<taskVars, present, reader, asked, server, steerVars, approvals, exits,
                       historyVars>>
    BY <1>13 DEF Approved
  <2>2. PipesKept /\ Out' = Out
    BY <2>1 DEF PipesKept, Out
  <2>3. (\A w \in Callers : LearnsNothing(w)) /\ call'["steer"] = call["steer"]
        /\ call'["turn"] = call["turn"]
    BY <1>4, <2>1
  <2>. QED BY <2>1, <2>2, <2>3, AsksStay DEF NothingAsked, taskVars, steerVars, historyVars
<1>. QED BY <1>6, <1>7, <1>8, <1>9, <1>10, <1>11, <1>12, <1>13

\* Steps of the server and of the reader.
LEMMA AsksServer ==
    ASSUME PoolTypes, Asks, ServerStep \/ ReadLine \/ \E reply \in {"eof", "closed"} : ReaderStops(reply)
    PROVE  Asks'
<1>1. CASE ReadRequest
  <2>1. PICK q : q = Head(server.in)
    OBVIOUS
  <2>2. /\ Emits /\ server'.in = Tail(server.in)
        /\ \E good \in BOOLEAN :
              /\ Does(q, good)
              /\ \A l \in Out' : l.type = "response" => l \in Out \/ (l.n = q.id /\ l.good = good)
    BY <1>1, <2>1, Reads
  <2>3. PICK good \in BOOLEAN :
              /\ Does(q, good)
              /\ \A l \in Out' : l.type = "response" => l \in Out \/ (l.n = q.id /\ l.good = good)
    BY <2>2
  <2>4. /\ server.up /\ server.in # << >> /\ server'.up = server.up
        /\ UNCHANGED <<turn, task, call, asked, steer, outcome, crossed, reader>>
    BY <1>1, <2>2 DEF ReadRequest, Emits, taskVars, handleVars, callVars, steerVars
  <2>. QED BY <2>1, <2>2, <2>3, <2>4, AsksRead
<1>2. CASE EmitDelta \/ AskApproval \/ \E good \in BOOLEAN : CompleteTurn(good)
  <2>1. /\ Emits /\ server'.in = server.in /\ server'.turn \in {0, server.turn}
        /\ \A l \in Out' : l.type = "response" => l \in Out
        /\ UNCHANGED <<taskVars, lock, handleVars, callVars, steerVars, exits,
                       applied, runs, crossed>>
    BY <1>2, Works
  <2>2. PipesKept
    BY <2>1 DEF Emits, PipesKept
  <2>3. \A w \in Callers : LearnsNothing(w)
    BY <2>1 DEF LearnsNothing, callVars
  <2>. QED BY <2>1, <2>2, <2>3, AsksStay DEF NothingAsked, taskVars, handleVars, callVars, steerVars
<1>3. CASE Exit
  <2>1. /\ server' = [server EXCEPT !.up = FALSE, !.in = << >>, !.turn = 0, !.asking = 0]
        /\ UNCHANGED <<taskVars, lock, handleVars, callVars, steerVars, approvals, historyVars>>
    BY <1>3 DEF Exit
  <2>2. ~server'.up /\ server'.in = << >> /\ server'.turn = 0 /\ server'.out = server.out
    BY <2>1 DEF PoolTypes, ServerTypes
  <2>3. PipesKept /\ Out' = Out
    BY <2>2 DEF PipesKept, Out
  <2>4. \A w \in Callers : LearnsNothing(w)
    BY <2>1 DEF LearnsNothing, callVars
  <2>. QED BY <2>1, <2>3, <2>4, AsksStay
       DEF NothingAsked, taskVars, handleVars, callVars, steerVars, historyVars
<1>4. ASSUME NEW reply \in {"eof", "closed"}, ReaderStops(reply) PROVE Asks'
  <2>1. /\ call' = FailPending(reply) /\ reader' = "gone"
        /\ (reply = "eof" /\ ~server.up) \/ reply = "closed"
        /\ crossed' = IF At("starting") /\ Waits("turn") THEN crossed \union {turn} ELSE crossed
        /\ UNCHANGED <<taskVars, lock, present, asked, server, steerVars, approvals, exits,
                       applied, runs, ended>>
    BY <1>4 DEF ReaderStops
  <2>2. \A w \in Callers : /\ call'[w].id = call[w].id
                           /\ call'[w].reply = IF Waits(w) THEN reply ELSE call[w].reply
    BY <2>1, PendingFails
  <2>3. \A w \in Callers : LearnsNothing(w)
    BY <2>2 DEF LearnsNothing
  <2>4. PipesKept /\ Out' = Out
    BY <2>1 DEF PipesKept, Out
  <2>5. task'.at = "starting" /\ call'["turn"].reply = "eof" =>
            call["turn"].reply = "eof" \/ (turn \in crossed' /\ reader' = "gone" /\ ~server'.up)
    BY <2>1, <2>2 DEF taskVars, At, Callers
  <2>. QED BY <2>1, <2>2, <2>3, <2>4, <2>5, AsksStay DEF NothingAsked, taskVars, steerVars, Callers
<1>5. CASE ReadLine
  BY <1>5, AsksLine
<1>. QED BY <1>1, <1>2, <1>3, <1>4, <1>5 DEF ServerStep

\* Steps of the ingress worker and of the main loop that ask, and the interrupt.
LEMMA AsksUsers ==
    ASSUME PoolTypes, Asks, PrepareSteer \/ ExecuteSteer \/ Steered \/ Approve \/ Interrupt
    PROVE  Asks'
<1>1. RequestsOnce /\ CallsAnswered /\ OutcomesTrue /\ steer \in SteerTypes /\ outcome \in Seq(Outcomes)
      /\ steer.n \in Nat /\ Len(outcome) \in Nat /\ handle.active \in Nat /\ handle.approval \in Nat
  <2>1. steer \in SteerTypes /\ outcome \in Seq(Outcomes) /\ handle \in HandleTypes
    BY DEF PoolTypes
  <2>. QED BY <2>1, LenProperties DEF Asks, SteerTypes, HandleTypes
<1>2. CASE PrepareSteer
  <2>1. /\ steer.at = "idle" /\ steer.n + 1 \in Followups
        /\ UNCHANGED <<taskVars, lock, handleVars, callVars, server, approvals, exits, historyVars>>
    BY <1>2, RoomForFollowup DEF PrepareSteer
  <2>2. call'["steer"].id = 0
    BY <1>1, <2>1 DEF CallsAnswered, callVars
  <2>3. Len(outcome) = steer.n
    BY <1>1, <2>1 DEF OutcomesTrue
  <2>4. CASE /\ steer' = [n |-> steer.n + 1, at |-> "aim", proc |-> handle.proc, aim |-> 0]
             /\ UNCHANGED outcome
    BY <2>1, <2>2, <2>4, AsksOutcome DEF taskVars, handleVars, callVars, historyVars
  <2>5. CASE /\ steer' = [steer EXCEPT !.n = @ + 1]
             /\ outcome' = Append(outcome, "noActiveTurn")
    <3>1. steer'.at = "idle" /\ steer'.n = steer.n + 1
      BY <1>1, <2>1, <2>5 DEF SteerTypes
    <3>2. NotApplied(steer'.n)
      <4>1. applied[steer.n + 1] = 0
        BY <1>1, <2>1 DEF OutcomesTrue
      <4>2. ~SteerIn(steer.n + 1)
        BY <1>1 DEF RequestsOnce
      <4>. QED BY <3>1, <4>1, <4>2 DEF NotApplied
    <3>3. Len(outcome) + 1 = steer'.n
      BY <2>3, <3>1
    <3>4. \E o \in Outcomes :
                    /\ outcome' = Append(outcome, o)
                    /\ o \in {"rejected", "noActiveTurn"} => NotApplied(steer'.n)
                    /\ o = "accepted" => applied[steer'.n] # 0
      BY <2>5, <3>2 DEF Outcomes
    <3>. QED BY <2>1, <2>2, <3>1, <3>3, <3>4, AsksOutcome DEF taskVars, handleVars, callVars, historyVars
  <2>. QED BY <1>2, <2>4, <2>5 DEF PrepareSteer
<1>3. CASE ExecuteSteer
  <2>1. steer.at = "aim" /\ UNCHANGED <<taskVars, lock, handleVars, approvals, exits, historyVars>>
    BY <1>3 DEF ExecuteSteer
  <2>2. CASE /\ steer' = [steer EXCEPT !.at = "idle"]
             /\ outcome' = Append(outcome, "noActiveTurn")
             /\ UNCHANGED <<callVars, server>>
    <3>1. steer'.at = "idle" /\ steer'.n = steer.n /\ Len(outcome) + 1 = steer'.n
      BY <1>1, <2>1, <2>2 DEF SteerTypes, OutcomesTrue
    <3>2. call'["steer"].id = 0
      BY <1>1, <2>1, <2>2 DEF CallsAnswered, callVars
    <3>3. NotApplied(steer'.n)
      BY <1>1, <2>1, <3>1 DEF OutcomesTrue, RequestsOnce, NotApplied
    <3>4. \E o \in Outcomes :
                    /\ outcome' = Append(outcome, o)
                    /\ o \in {"rejected", "noActiveTurn"} => NotApplied(steer'.n)
                    /\ o = "accepted" => applied[steer'.n] # 0
      BY <2>2, <3>3 DEF Outcomes
    <3>. QED BY <2>1, <2>2, <3>1, <3>2, <3>4, AsksOutcome DEF taskVars, handleVars, callVars, historyVars
  <2>3. CASE /\ StillHas(steer.proc) => handle.active # 0
             /\ Request("steer", steer.proc, [method |-> "steer", id |-> 0,
                                              turn |-> handle.active, what |-> steer.n])
             /\ steer' = [steer EXCEPT !.at = "asking",
                                       !.aim = IF StillHas(steer.proc) THEN handle.active ELSE 0]
             /\ UNCHANGED outcome
    <3>1. steer'.at = "asking" /\ steer'.n = steer.n
      BY <1>1, <2>3 DEF SteerTypes
    <3>2. Reaches(steer.proc) => handle.active # 0
      BY <2>3 DEF Reaches, StillHas
    <3>3. Request("steer", steer.proc, SteerRequest)
      BY <2>3 DEF SteerRequest
    <3>. QED BY <2>1, <2>3, <3>1, <3>2, <3>3, AsksSteer DEF taskVars, handleVars, historyVars
  <2>. QED BY <1>3, <2>2, <2>3 DEF ExecuteSteer
<1>4. CASE Steered
  <2>1. /\ steer.at = "asking" /\ Answered("steer") /\ Forget("steer")
        /\ outcome' = Append(outcome, SteerOutcome(call["steer"].reply))
        /\ steer' = [steer EXCEPT !.at = "idle", !.aim = 0]
        /\ UNCHANGED <<taskVars, lock, handleVars, asked, server, approvals, exits, historyVars>>
    BY <1>4 DEF Steered
  <2>2. steer'.at = "idle" /\ steer'.n = steer.n /\ Len(outcome) + 1 = steer'.n
    BY <1>1, <2>1 DEF SteerTypes, OutcomesTrue
  <2>3. call'["steer"].id = 0 /\ \A w \in Callers : w # "steer" => call'[w] = call[w]
    BY <2>1 DEF Forget, PoolTypes, NoCall, Callers
  <2>4. PICK reply \in Replies : reply = call["steer"].reply /\ reply # "none"
    BY <2>1 DEF Answered, PoolTypes, CallTypes, Callers
  <2>5. /\ reply = "ok" => applied[steer'.n] # 0
        /\ reply = "error" => NotApplied(steer'.n)
    BY <1>1, <2>1, <2>2, <2>4 DEF CallsAnswered
  <2>6. SteerOutcome(reply) = IF reply = "ok" THEN "accepted"
                              ELSE IF Unknown(reply) THEN "outcomeUnknown" ELSE "rejected"
    BY DEF SteerOutcome, Unknown
  <2>7. \E o \in Outcomes :
                    /\ outcome' = Append(outcome, o)
                    /\ o \in {"rejected", "noActiveTurn"} => NotApplied(steer'.n)
                    /\ o = "accepted" => applied[steer'.n] # 0
    <3>1. reply \in {"ok", "error", "eof", "closed", "timeout"}
      BY <2>4 DEF Replies
    <3>. QED BY <2>1, <2>4, <2>5, <2>6, <3>1 DEF Outcomes, Unknown
  <2>. QED BY <2>1, <2>2, <2>3, <2>7, AsksOutcome DEF taskVars, handleVars, historyVars
<1>5. CASE Approve
  <2>1. PICK r : r = [method |-> "approval", id |-> 0, turn |-> 0, what |-> handle.approval]
    OBVIOUS
  <2>2. r \in Requests /\ r.method = "approval"
    BY <1>1, <2>1 DEF Requests, Methods
  <2>3. /\ Request("approve", handle.proc, r)
        /\ UNCHANGED <<taskVars, handleVars, steerVars, exits, historyVars>>
    BY <1>5, <2>1 DEF Approve
  <2>. QED BY <2>2, <2>3, AsksOther DEF taskVars, handleVars, steerVars, historyVars
<1>6. CASE Interrupt
  <2>1. /\ At("interrupting")
        /\ UNCHANGED <<turn, cancelled, returned, pipe, handleVars, steerVars, approvals, exits,
                       historyVars>>
    BY <1>6 DEF Interrupt
  <2>2. CASE Goto("drain") /\ UNCHANGED <<lock, callVars, server>>
    <3>1. task'.at = "drain"
      BY <2>2, GotoTypes DEF TaskPlaces, Listening
    <3>. QED BY <2>1, <2>2, <3>1, AsksQuiet DEF At, handleVars, callVars, steerVars, historyVars
  <2>3. CASE /\ Request("turn", handle.proc,
                        [method |-> "interrupt", id |-> 0, turn |-> handle.active, what |-> 0])
             /\ Goto("asking")
    <3>1. task'.at = "asking"
      BY <2>3, GotoTypes DEF TaskPlaces, Listening
    <3>2. PICK r : r = [method |-> "interrupt", id |-> 0, turn |-> handle.active, what |-> 0]
      OBVIOUS
    <3>3. r \in Requests /\ r.method = "interrupt" /\ Request("turn", handle.proc, r)
      BY <1>1, <2>3, <3>2 DEF Requests, Methods
    <3>. QED BY <2>1, <3>1, <3>3, AsksOther DEF At, handleVars, steerVars, historyVars
  <2>. QED BY <1>6, <2>2, <2>3 DEF Interrupt
<1>. QED BY <1>2, <1>3, <1>4, <1>5, <1>6

LEMMA AsksNext ==
    ASSUME PoolTypes, Asks, [Next]_vars
    PROVE  Asks'
<1>1. CASE Next
  <2>1. ASSUME StartTurn \/ Prepare \/ OneShot PROVE Asks'
    BY <2>1, AsksStartTurn, AsksPrepare, AsksOneShot
  <2>2. ASSUME Cancel \/ TakeEvent \/ PipeEnds \/ NoticeCancel \/ DrainExpires \/ TakeResult
               \/ Reap \/ PushEvent
        PROVE  Asks'
    BY <2>2, AsksTurn
  <2>3. ASSUME (\E startup \in BOOLEAN : SpawnFails(startup)) \/ Started \/ StartFails
               \/ Interrupted \/ Timeout \/ (\E w \in Callers : Expire(w)) \/ Approved \/ KillCommand
        PROVE  Asks'
    BY <2>3, AsksEnd
  <2>4. ASSUME ServerStep \/ ReadLine \/ \E reply \in {"eof", "closed"} : ReaderStops(reply)
        PROVE  Asks'
    BY <2>4, AsksServer
  <2>5. ASSUME PrepareSteer \/ ExecuteSteer \/ Steered \/ Approve \/ Interrupt PROVE Asks'
    BY <2>5, AsksUsers
  <2>. QED BY <1>1, <2>1, <2>2, <2>3, <2>4, <2>5 DEF Next, TaskStep, ReaderStep
<1>2. CASE UNCHANGED vars
  BY <1>2, AsksTurn
<1>. QED BY <1>1, <1>2

LEMMA AsksInit == Init => Asks
<1> SUFFICES ASSUME Init PROVE Asks
  OBVIOUS
<1>1. server.in = << >> /\ server.out = << >> /\ server.turn = 0
  BY StoppedType DEF Init
<1>2. In = {} /\ Out = {} /\ Distinct(server.in)
  BY <1>1, EmptyPipe DEF In, Out
<1>3. /\ turn = 0 /\ task.at = "idle" /\ asked = 0 /\ outcome = << >> /\ steer = NoSteer
      /\ call = [w \in Callers |-> NoCall]
      /\ applied = [n \in Followups |-> 0] /\ runs = [t \in Ids |-> 0]
  BY DEF Init
<1>4. steer.n = 0 /\ steer.at = "idle" /\ \A w \in Callers : call[w].id = 0
  BY <1>3 DEF NoSteer, NoCall
<1>5. RequestsOnce
  BY <1>1, <1>2, <1>3 DEF RequestsOnce, StartIn, SteerIn
<1>6. CallsAnswered
  BY <1>2, <1>3, <1>4 DEF CallsAnswered, At, Callers
<1>7. OutcomesTrue
  <2>1. Len(outcome) = 0
    BY <1>3, EmptySeq
  <2>. QED BY <1>3, <1>4, <2>1 DEF OutcomesTrue
<1>8. RunsCounted
  <2>1. \A t \in Ids : runs[t] = 0
    BY <1>3
  <2>. QED BY <1>1, <1>3, <2>1 DEF RunsCounted, At
<1>. QED BY <1>5, <1>6, <1>7, <1>8 DEF Asks

-----------------------------------------------------------------------------
(* What the lines tell, and what turns return: Tells is kept. *)

\* Nothing that is adrift, over or said is taken back.
Grows ==
    /\ turn' = turn /\ cancelled \subseteq cancelled' /\ ended \subseteq ended'
    /\ \A t \in Ids : returned[t].kind = "unknown" => returned'[t].kind = "unknown"

LEMMA AdriftGrows ==
    ASSUME cancelled \subseteq cancelled',
           \A t \in Ids : returned[t].kind = "unknown" => returned'[t].kind = "unknown"
    PROVE  /\ \A t : AdriftUpTo(t) => AdriftUpTo(t)'
           /\ \A t, u : MayAnswer(t, u) => MayAnswer(t, u)'
<1>1. \A u \in Adrift : u \in Adrift'
  BY DEF Adrift
<1>2. \A t : AdriftUpTo(t) => AdriftUpTo(t)'
  BY <1>1 DEF AdriftUpTo
<1>. QED BY <1>2 DEF MayAnswer

LEMMA AdriftAbove ==
    ASSUME NEW t \in Nat, NEW u \in Nat, u <= t, AdriftUpTo(u)
    PROVE  AdriftUpTo(t)
<1>1. PICK v \in Adrift : v <= u
  BY DEF AdriftUpTo
<1>2. v \in Nat
  BY <1>1 DEF Adrift, Ids
<1>3. v <= t
  BY <1>1, <1>2
<1>. QED BY <1>1, <1>3 DEF AdriftUpTo

LEMMA CancelledIsAdrift ==
    ASSUME turn \in Ids, turn \in cancelled
    PROVE  AdriftUpTo(turn)
<1>1. turn \in Adrift /\ turn <= turn
  BY DEF Adrift, Ids
<1>. QED BY <1>1 DEF AdriftUpTo

\* Lines are kept or lost, and the server leaves its turn or keeps it.
LEMMA LinesStay ==
    ASSUME LinesOrdered, server'.out \in {server.out, << >>}, server'.turn \in {0, server.turn},
           \A t \in Ids : runs[t] > 0 => runs'[t] > 0, ended \subseteq ended'
    PROVE  /\ LinesOrdered' /\ Out' \subseteq Out
           /\ \A n \in Ids : (StartIn(n)' => StartIn(n)) => (Left(n)' => Left(n))
<1>1. Out' \subseteq Out /\ Ordered(server.out)'
  <2>1. CASE server'.out = server.out
    BY <2>1 DEF Out, Elems, Ordered, LinesOrdered
  <2>2. CASE server'.out = << >>
    BY <2>2, EmptyPipe DEF Out
  <2>. QED BY <2>1, <2>2
<1>2. \A l \in Out' : l.type \in {"delta", "completed"} => l.n \in Ids /\ runs'[l.n] > 0
  BY <1>1 DEF LinesOrdered
<1>3. \A l \in Out' : l.type = "completed" => l.n \in ended' /\ server'.turn # l.n
  <2>1. ASSUME NEW l \in Out', l.type = "completed" PROVE l.n \in ended' /\ server'.turn # l.n
    <3>1. l.n \in ended /\ server.turn # l.n /\ l.n \in Ids
      BY <1>1, <2>1 DEF LinesOrdered
    <3>2. l.n # 0
      BY <3>1 DEF Ids
    <3>. QED BY <3>1, <3>2
  <2>. QED BY <2>1
<1>4. LinesOrdered'
  BY <1>1, <1>2, <1>3 DEF LinesOrdered
<1>5. ASSUME NEW n \in Ids, StartIn(n)' => StartIn(n), Left(n)' PROVE Left(n)
  <2>1. n # 0
    BY DEF Ids
  <2>2. /\ HasLine("delta", n)' => HasLine("delta", n)
        /\ HasLine("completed", n)' => HasLine("completed", n)
    BY <1>1 DEF HasLine
  <2>3. server'.turn = n => server.turn = n
    BY <2>1
  <2>. QED BY <1>5, <2>2, <2>3 DEF Left
<1>. QED BY <1>1, <1>4, <1>5

\* A step after which no more is left to say, no more text is there, and no slot was closed.
LEMMA TellsStay ==
    ASSUME PoolTypes, Asks, Tells, LinesOrdered', ProcessKnown', Grows, returned' = returned,
           \A n \in Ids : Left(n)' => Left(n),
           present' => present, reader' # "gone" => reader # "gone",
           handle'.text \subseteq handle.text,
           task'.at \in Active => task.at \in Active,
           task'.at = "idle" <=> task.at = "idle",
           present' /\ reader' # "gone" /\ task'.at \in Active =>
              (handle'.slot # turn => handle.slot # turn)
    PROVE  Tells'
<1>1. LeftIsAdrift /\ ClosedIsOver /\ TextsKnown
  BY DEF Tells
<1>2. /\ turn' = turn /\ cancelled \subseteq cancelled' /\ ended \subseteq ended'
      /\ \A t \in Ids : returned[t].kind = "unknown" => returned'[t].kind = "unknown"
  BY DEF Grows
<1>3. /\ \A t : AdriftUpTo(t) => AdriftUpTo(t)'
      /\ \A t, u : MayAnswer(t, u) => MayAnswer(t, u)'
  BY <1>2, AdriftGrows
<1>4. LeftIsAdrift'
  BY <1>1, <1>2, <1>3 DEF LeftIsAdrift, At
<1>5. ClosedIsOver'
  <2>1. SUFFICES ASSUME present', reader' # "gone", task'.at \in Active, handle'.slot # turn'
                 PROVE  (turn' \in ended' /\ ~Left(turn)') \/ AdriftUpTo(turn)'
    BY DEF ClosedIsOver
  <2>2. (turn \in ended /\ ~Left(turn)) \/ AdriftUpTo(turn)
    BY <1>1, <1>2, <2>1 DEF ClosedIsOver
  <2>3. turn \in Ids
    BY <2>1 DEF Asks, RunsCounted, At, Active, Listening
  <2>4. CASE AdriftUpTo(turn)
    <3>1. PICK n : n = turn
      OBVIOUS
    <3>2. n = turn' /\ AdriftUpTo(n)'
      BY <1>2, <1>3, <2>4, <3>1
    <3>. QED BY <3>2 DEF AdriftUpTo, Adrift
  <2>5. CASE turn \in ended /\ ~Left(turn)
    <3>1. PICK n \in Ids : n = turn
      BY <2>3
    <3>2. n = turn' /\ ~Left(n)'
      BY <1>2, <2>5, <3>1
    <3>3. ~Left(turn)'
      BY <3>2 DEF Left, StartIn, HasLine
    <3>. QED BY <1>2, <2>5, <3>3
  <2>. QED BY <2>2, <2>4, <2>5
<1>6. TextsKnown'
  <2>1. task'.at \in Active => \A u \in handle'.text : MayAnswer(turn, u)'
    <3>1. SUFFICES ASSUME task'.at \in Active, NEW u \in handle'.text PROVE MayAnswer(turn, u)'
      OBVIOUS
    <3>2. MayAnswer(turn, u)
      BY <1>1, <3>1 DEF TextsKnown
    <3>3. PICK n : n = turn
      OBVIOUS
    <3>4. n = turn' /\ MayAnswer(n, u)'
      BY <1>2, <1>3, <3>2, <3>3
    <3>. QED BY <3>4 DEF MayAnswer
  <2>2. \A t \in Ids : \A u \in returned'[t].text : MayAnswer(t, u)'
    BY <1>1, <1>3 DEF TextsKnown
  <2>3. \A t \in Ids : returned'[t].kind = "ok" => t \in ended' \/ AdriftUpTo(t)'
    BY <1>1, <1>2, <1>3 DEF TextsKnown
  <2>4. \A t \in Ids : t > turn' \/ (t = turn' /\ ~At("idle")') => returned'[t].kind = "none"
    BY <1>1, <1>2 DEF TextsKnown, At
  <2>. QED BY <2>1, <2>2, <2>3, <2>4 DEF TextsKnown
<1>. QED BY <1>4, <1>5, <1>6 DEF Tells

\* Nothing is left of a turn that the server never began.
LEMMA NotStartedIsOver ==
    ASSUME Asks, LinesOrdered, NEW t \in Ids, NotStarted(t)
    PROVE  ~Left(t)
<1>1. runs[t] = 0 /\ ~StartIn(t) /\ t # 0
  BY DEF NotStarted, Ids
<1>2. server.turn # t
  BY <1>1 DEF Asks, RunsCounted
<1>3. ~HasLine("delta", t) /\ ~HasLine("completed", t)
  BY <1>1 DEF LinesOrdered, HasLine
<1>. QED BY <1>1, <1>2, <1>3 DEF Left

\* The pool task returns.
LEMMA ReturnTells ==
    ASSUME PoolTypes, Asks, Tells, LinesOrdered', ProcessKnown', ~At("idle"),
           NEW kind \in {"ok", "failed", "error", "unknown"}, NEW text \in SUBSET Nat,
           Return(kind, text), \A u \in text : MayAnswer(turn, u),
           kind = "ok" => turn \in ended' \/ AdriftUpTo(turn),
           turn' = turn, cancelled \subseteq cancelled', ended \subseteq ended',
           \A n \in Ids : Left(n)' => Left(n),
           reader' # "gone" => reader # "gone",
           reader' # "gone" /\ Left(turn) => AdriftUpTo(turn) \/ kind = "unknown"
    PROVE  Tells'
<1>1. LeftIsAdrift /\ TextsKnown /\ turn \in Ids
  BY DEF Tells, Asks, RunsCounted
<1>2. /\ task'.at = "idle" /\ returned'[turn].kind = kind /\ returned'[turn].text = text
      /\ \A t \in Ids : t # turn => returned'[t] = returned[t]
  BY <1>1, ReturnTypes
<1>3. returned[turn].kind = "none"
  BY <1>1 DEF TextsKnown
<1>4. /\ \A t : AdriftUpTo(t) => AdriftUpTo(t)'
      /\ \A t, u : MayAnswer(t, u) => MayAnswer(t, u)'
  <2>1. \A t \in Ids : returned[t].kind = "unknown" => returned'[t].kind = "unknown"
    BY <1>2, <1>3
  <2>. QED BY <2>1, AdriftGrows
<1>5. PICK m \in Ids : m = turn
  BY <1>1
<1>6. kind = "unknown" => AdriftUpTo(m)'
  <2>1. kind = "unknown" => m \in Adrift' /\ m <= m
    BY <1>2, <1>5 DEF Adrift, Ids
  <2>. QED BY <2>1 DEF AdriftUpTo
<1>7. LeftIsAdrift'
  <2>1. SUFFICES ASSUME reader' # "gone", NEW n \in Ids, Left(n)', n < turn' \/ At("idle")'
                 PROVE  AdriftUpTo(n)'
    BY DEF LeftIsAdrift
  <2>2. Left(n) /\ reader # "gone"
    BY <2>1
  <2>3. CASE n = m
    BY <1>4, <1>5, <1>6, <2>1, <2>2, <2>3
  <2>4. CASE n < turn
    BY <1>1, <1>4, <2>2, <2>4 DEF LeftIsAdrift
  <2>5. CASE n > turn
    <3>1. ~Left(n)
      <4>1. runs[n] = 0 /\ turn \in Nat
        BY <2>5 DEF Asks, RunsCounted, PoolTypes
      <4>2. ~StartIn(n)
        BY <2>5, <4>1 DEF Asks, RequestsOnce, Ids
      <4>. QED BY <4>1, <4>2, NotStartedIsOver DEF NotStarted, Tells
    <3>. QED BY <2>2, <3>1
  <2>6. n \in Nat /\ turn \in Nat
    BY DEF Ids, PoolTypes
  <2>. QED BY <1>5, <2>3, <2>4, <2>5, <2>6
<1>8. ClosedIsOver'
  BY <1>2 DEF ClosedIsOver, Active, Listening
<1>9. TextsKnown'
  <2>1. task'.at \notin Active
    BY <1>2 DEF Active, Listening
  <2>2. ASSUME NEW t \in Ids, NEW u \in returned'[t].text PROVE MayAnswer(t, u)'
    <3>1. MayAnswer(t, u)
      BY <1>1, <1>2, <2>2 DEF TextsKnown
    <3>. QED BY <1>4, <3>1
  <2>3. ASSUME NEW t \in Ids, returned'[t].kind = "ok" PROVE t \in ended' \/ AdriftUpTo(t)'
    <3>1. t \in ended' \/ AdriftUpTo(t)
      BY <1>1, <1>2, <2>3 DEF TextsKnown
    <3>. QED BY <1>4, <3>1
  <2>4. ASSUME NEW t \in Ids, t > turn' \/ (t = turn' /\ ~At("idle")') PROVE returned'[t].kind = "none"
    <3>1. t > turn /\ t # turn
      BY <1>2, <2>4 DEF At, Ids, PoolTypes
    <3>. QED BY <1>1, <1>2, <3>1 DEF TextsKnown
  <2>. QED BY <2>1, <2>2, <2>3, <2>4 DEF TextsKnown
<1>. QED BY <1>7, <1>8, <1>9 DEF Tells

\* The handle stays that of its process, and a slot once closed stays closed; or the
\* process is gone.
HandleStays ==
    /\ handle'.proc = handle.proc
    /\ \/ /\ present' = present /\ (reader' = "gone" <=> reader = "gone")
          /\ handle.closing => handle'.closing
          /\ handle.failed => handle'.failed
          /\ handle'.slot \in {handle.slot, 0}
       \/ reader' = "gone" /\ ~present'
       \/ /\ reader' = "gone" /\ present' = present
          /\ handle'.closing /\ handle'.failed /\ handle'.slot = 0

\* The pool task goes on as it is known to.
Draining == {"drain", "interrupting", "asking"}
TaskGoes ==
    /\ task'.at \in Active => task.at \in Active /\ task'.proc = task.proc
    /\ task'.at \in Draining => task.at \in Draining \/ turn \in cancelled
    /\ task'.at = "take" => task.at = "take" \/ turn \in cancelled \/ ~present \/ handle.slot # turn

LEMMA ProcessStays ==
    ASSUME PoolTypes, Asks, ProcessKnown, turn' = turn, cancelled \subseteq cancelled',
           HandleStays, TaskGoes
    PROVE  ProcessKnown'
<1>1. task'.at \in Active => turn # 0
  BY DEF TaskGoes, Asks, RunsCounted, At, Ids, Active, Listening
<1>2. /\ ~present' => reader' = "gone"
      /\ present' /\ ~handle'.closing => reader' # "gone"
      /\ present' /\ reader' = "gone" => handle'.failed
  BY DEF PoolTypes, HandleStays, ProcessKnown, HandleTypes
<1>3. task'.at \in Active => task'.proc = handle'.proc
  BY DEF TaskGoes, HandleStays, ProcessKnown
<1>4. task'.at \in Draining => turn' \in cancelled'
  BY DEF TaskGoes, ProcessKnown, Draining
<1>5. At("take")' => turn' \in cancelled' \/ ~present' \/ handle'.slot # turn'
  <2>1. SUFFICES ASSUME task'.at = "take", present', turn \notin cancelled PROVE handle'.slot # turn
    BY DEF At
  <2>2. turn # 0
    BY <1>1, <2>1 DEF Active
  <2>3. present => handle.slot # turn
    BY <2>1 DEF TaskGoes, ProcessKnown, At
  <2>4. \/ present' = present /\ handle'.slot \in {handle.slot, 0}
        \/ handle'.slot = 0
    BY <2>1 DEF HandleStays
  <2>5. CASE present' = present /\ handle'.slot \in {handle.slot, 0}
    BY <2>1, <2>2, <2>3, <2>5
  <2>6. CASE handle'.slot = 0
    BY <2>2, <2>6
  <2>. QED BY <2>4, <2>5, <2>6
<1>. QED BY <1>2, <1>3, <1>4, <1>5 DEF ProcessKnown, Draining

\* A step that closes no slot that goes on being read, adds no text and returns nothing.
LEMMA TellsQuiet ==
    ASSUME PoolTypes, Asks, Tells, UNCHANGED <<turn, runs, returned>>,
           cancelled \subseteq cancelled', ended \subseteq ended',
           server'.out \in {server.out, << >>}, server'.turn \in {0, server.turn},
           \A n : StartIn(n)' => StartIn(n),
           HandleStays, TaskGoes, handle'.text \subseteq handle.text,
           reader' = "gone" \/ handle'.slot = handle.slot,
           task'.at = "idle" <=> task.at = "idle"
    PROVE  Tells'
<1>1. LinesOrdered' /\ \A n \in Ids : Left(n)' => Left(n)
  BY LinesStay DEF Tells
<1>2. ProcessKnown'
  BY ProcessStays DEF Tells
<1>3. /\ present' => present
      /\ reader' # "gone" => reader # "gone"
      /\ present' /\ reader' # "gone" /\ task'.at \in Active =>
            (handle'.slot # turn => handle.slot # turn)
  BY DEF HandleStays, PoolTypes
<1>4. Grows
  BY DEF Grows
<1>5. task'.at \in Active => task.at \in Active
  BY DEF TaskGoes
<1>. QED BY <1>1, <1>2, <1>3, <1>4, <1>5, TellsStay

\* A request that begins no turn.
LEMMA RequestTells ==
    ASSUME PoolTypes, NEW caller \in Callers, NEW p, NEW r \in Requests, Request(caller, p, r),
           r.method # "start"
    PROVE  /\ \A n : StartIn(n)' => StartIn(n)
           /\ server'.out = server.out /\ server'.turn = server.turn
<1>1. PICK x : x = Numbered(r)
  OBVIOUS
<1>2. /\ x \in Requests /\ x.method = r.method
      /\ \/ server'.in = Append(server.in, x) /\ server'.out = server.out /\ server'.turn = server.turn
         \/ server' = server
  BY <1>1, RequestSent
<1>3. CASE server' = server
  BY <1>3 DEF StartIn, In
<1>4. CASE server'.in = Append(server.in, x) /\ server'.out = server.out /\ server'.turn = server.turn
  <2>1. Elems(Append(server.in, x)) = Elems(server.in) \union {x}
    BY <1>2, PipeTypes, PipeAppend
  <2>2. PICK in : in = Append(server.in, x)
    OBVIOUS
  <2>3. In' = Elems(in) /\ In = Elems(server.in)
    BY <1>4, <2>2 DEF In, Elems
  <2>4. In' = In \union {x}
    BY <2>1, <2>2, <2>3
  <2>. QED BY <1>2, <1>4, <2>4 DEF StartIn
<1>. QED BY <1>2, <1>3, <1>4

\* Steps of the pool task that return nothing.
LEMMA TellsTurn ==
    ASSUME PoolTypes, Asks, Tells,
           Cancel \/ TakeEvent \/ PipeEnds \/ NoticeCancel \/ DrainExpires \/ Started
           \/ Interrupt \/ Interrupted
    PROVE  Tells'
<1>1. /\ handle \in HandleTypes /\ ProcessKnown /\ handle.active \in Nat
      /\ {"take", "forward", "drain", "asking", "interrupting"} \subseteq TaskPlaces \intersect Active
  BY DEF PoolTypes, HandleTypes, Tells, TaskPlaces, Active, Listening
<1>2. ASSUME UNCHANGED <<present, handle, reader>> PROVE HandleStays /\ handle'.slot = handle.slot
  BY <1>2 DEF HandleStays
<1>3. ASSUME server' = server
      PROVE  /\ server'.out \in {server.out, << >>} /\ server'.turn \in {0, server.turn}
             /\ \A n : StartIn(n)' => StartIn(n)
  BY <1>3 DEF StartIn, In
<1>4. CASE Cancel
  <2>1. /\ cancelled' = cancelled \union {turn}
        /\ UNCHANGED <<turn, returned, task, pipe, lock, handleVars, callVars, server,
                       steerVars, approvals, exits, historyVars>>
    BY <1>4 DEF Cancel
  <2>2. TaskGoes
    BY <2>1 DEF TaskGoes
  <2>. QED BY <1>2, <1>3, <2>1, <2>2, TellsQuiet DEF handleVars, historyVars
<1>5. CASE TakeEvent
  <2>1. UNCHANGED <<turn, cancelled, returned, task, lock, handleVars, callVars, server,
                    steerVars, approvals, exits, historyVars>>
    BY <1>5 DEF TakeEvent
  <2>2. TaskGoes
    BY <2>1 DEF TaskGoes
  <2>. QED BY <1>2, <1>3, <2>1, <2>2, TellsQuiet DEF handleVars, historyVars
<1>6. CASE PipeEnds
  <2>1. /\ task.at \in {"forward", "drain"} /\ ~SlotOpen /\ Goto("take")
        /\ UNCHANGED <<turn, cancelled, returned, pipe, lock, handleVars, callVars, server,
                       steerVars, approvals, exits, historyVars>>
    BY <1>6 DEF PipeEnds
  <2>2. task'.at = "take" /\ task'.proc = task.proc
    BY <1>1, <2>1, GotoTypes
  <2>3. TaskGoes
    BY <1>1, <2>1, <2>2 DEF TaskGoes, ProcessKnown, SlotOpen, Draining
  <2>. QED BY <1>2, <1>3, <2>1, <2>2, <2>3, TellsQuiet DEF handleVars, historyVars
<1>7. CASE NoticeCancel
  <2>1. /\ At("forward") /\ turn \in cancelled /\ Goto("interrupting")
        /\ UNCHANGED <<turn, cancelled, returned, pipe, lock, handleVars, callVars, server,
                       steerVars, approvals, exits, historyVars>>
    BY <1>7 DEF NoticeCancel
  <2>2. task'.at = "interrupting" /\ task'.proc = task.proc
    BY <1>1, <2>1, GotoTypes
  <2>3. TaskGoes
    BY <1>1, <2>1, <2>2 DEF TaskGoes, At
  <2>. QED BY <1>2, <1>3, <2>1, <2>2, <2>3, TellsQuiet DEF At, handleVars, historyVars
<1>8. CASE DrainExpires
  <2>1. /\ At("drain") /\ Goto("take")
        /\ UNCHANGED <<turn, cancelled, returned, pipe, lock, handleVars, callVars, server,
                       steerVars, approvals, exits, historyVars>>
    BY <1>8 DEF DrainExpires
  <2>2. task'.at = "take" /\ task'.proc = task.proc
    BY <1>1, <2>1, GotoTypes
  <2>3. TaskGoes
    BY <1>1, <2>1, <2>2 DEF TaskGoes, ProcessKnown, At, Draining
  <2>. QED BY <1>2, <1>3, <2>1, <2>2, <2>3, TellsQuiet DEF At, handleVars, historyVars
<1>9. CASE Started
  <2>1. /\ At("starting") /\ Goto("forward")
        /\ handle' = [handle EXCEPT !.active = turn] \/ handle' = handle
        /\ UNCHANGED <<turn, cancelled, returned, pipe, present, reader, asked, server,
                       steerVars, approvals, exits, historyVars>>
    BY <1>9 DEF Started
  <2>2. task'.at = "forward" /\ task'.proc = task.proc
    BY <1>1, <2>1, GotoTypes
  <2>3. TaskGoes
    BY <1>1, <2>1, <2>2 DEF TaskGoes, At, Active, Draining
  <2>4. HandleStays /\ handle'.slot = handle.slot /\ handle'.text = handle.text
    BY <1>1, <2>1 DEF HandleStays, HandleTypes
  <2>. QED BY <1>3, <2>1, <2>2, <2>3, <2>4, TellsQuiet DEF At, historyVars
<1>10. CASE Interrupted
  <2>1. /\ At("asking") /\ Goto("drain")
        /\ UNCHANGED <<turn, cancelled, returned, pipe, handleVars, asked, server, steerVars,
                       approvals, exits, historyVars>>
    BY <1>10 DEF Interrupted
  <2>2. task'.at = "drain" /\ task'.proc = task.proc
    BY <1>1, <2>1, GotoTypes
  <2>3. TaskGoes
    BY <1>1, <2>1, <2>2 DEF TaskGoes, At, Draining
  <2>. QED BY <1>2, <1>3, <2>1, <2>2, <2>3, TellsQuiet DEF At, handleVars, historyVars
<1>11. CASE Interrupt
  <2>1. /\ At("interrupting")
        /\ UNCHANGED <<turn, cancelled, returned, pipe, handleVars, steerVars, approvals, exits,
                       historyVars>>
    BY <1>11 DEF Interrupt
  <2>2. CASE /\ Request("turn", handle.proc,
                        [method |-> "interrupt", id |-> 0, turn |-> handle.active, what |-> 0])
             /\ Goto("asking")
    <3>1. PICK r : r = [method |-> "interrupt", id |-> 0, turn |-> handle.active, what |-> 0]
      OBVIOUS
    <3>2. r \in Requests /\ r.method # "start" /\ Request("turn", handle.proc, r) /\ "turn" \in Callers
      BY <1>1, <2>2, <3>1 DEF Requests, Methods, Callers
    <3>3. /\ \A n : StartIn(n)' => StartIn(n)
          /\ server'.out = server.out /\ server'.turn = server.turn
      BY <3>2, RequestTells
    <3>4. task'.at = "asking" /\ task'.proc = task.proc
      BY <1>1, <2>2, GotoTypes
    <3>5. TaskGoes
      BY <1>1, <2>1, <3>4 DEF TaskGoes, At, Draining
    <3>. QED BY <1>2, <2>1, <3>3, <3>4, <3>5, TellsQuiet DEF At, handleVars, historyVars
  <2>3. CASE Goto("drain") /\ UNCHANGED <<lock, callVars, server>>
    <3>1. task'.at = "drain" /\ task'.proc = task.proc
      BY <1>1, <2>3, GotoTypes
    <3>2. TaskGoes
      BY <1>1, <2>1, <3>1 DEF TaskGoes, At, Draining
    <3>. QED BY <1>2, <1>3, <2>1, <2>3, <3>1, <3>2, TellsQuiet DEF At, handleVars, historyVars
  <2>. QED BY <1>11, <2>2, <2>3 DEF Interrupt
<1>. QED BY <1>4, <1>5, <1>6, <1>7, <1>8, <1>9, <1>10, <1>11

\* Steps of others that leave the pool task where it is.
LEMMA TellsOthers ==
    ASSUME PoolTypes, Asks, Tells,
           (\E w \in Callers : Expire(w)) \/ PrepareSteer \/ ExecuteSteer \/ Steered \/ Approve
           \/ Approved \/ KillCommand \/ Exit \/ Reap \/ PushEvent
           \/ (\E reply \in {"eof", "closed"} : ReaderStops(reply)) \/ UNCHANGED vars
    PROVE  Tells'
<1>1. /\ handle \in HandleTypes /\ handle.active \in Nat /\ handle.approval \in Nat /\ steer.n \in Nat
      /\ server \in ServerTypes
  BY DEF PoolTypes, HandleTypes, SteerTypes
<1>2. ASSUME UNCHANGED <<present, handle, reader>> PROVE HandleStays /\ handle'.slot = handle.slot
  BY <1>2 DEF HandleStays
<1>3. ASSUME server' = server
      PROVE  /\ server'.out \in {server.out, << >>} /\ server'.turn \in {0, server.turn}
             /\ \A n : StartIn(n)' => StartIn(n)
  BY <1>3 DEF StartIn, In
<1>4. ASSUME task' = task PROVE TaskGoes
  BY <1>4 DEF TaskGoes
<1>5. ASSUME UNCHANGED <<taskVars, handleVars, server, historyVars>> PROVE Tells'
  BY <1>2, <1>3, <1>4, <1>5, TellsQuiet DEF taskVars, handleVars, historyVars
<1>6. CASE (\E w \in Callers : Expire(w)) \/ PrepareSteer \/ Steered \/ UNCHANGED vars
  BY <1>5, <1>6 DEF Expire, PrepareSteer, Steered, vars
<1>7. ASSUME NEW caller \in Callers, NEW p, NEW r \in Requests, Request(caller, p, r),
             r.method # "start", UNCHANGED <<taskVars, handleVars, historyVars>>
      PROVE  Tells'
  <2>1. /\ \A n : StartIn(n)' => StartIn(n)
        /\ server'.out = server.out /\ server'.turn = server.turn
    BY <1>7, RequestTells
  <2>. QED BY <1>2, <1>4, <1>7, <2>1, TellsQuiet DEF taskVars, handleVars, historyVars
<1>8. CASE ExecuteSteer
  <2>1. UNCHANGED <<taskVars, lock, handleVars, approvals, exits, historyVars>>
    BY <1>8 DEF ExecuteSteer
  <2>2. CASE UNCHANGED <<callVars, server>>
    BY <1>5, <2>1, <2>2
  <2>3. CASE Request("steer", steer.proc, SteerRequest)
    <3>1. PICK r : r = SteerRequest
      OBVIOUS
    <3>2. r \in Requests /\ r.method # "start" /\ "steer" \in Callers
      BY <1>1, <3>1 DEF SteerRequest, Requests, Methods, Callers
    <3>. QED BY <1>7, <2>1, <2>3, <3>1, <3>2
  <2>. QED BY <1>8, <2>2, <2>3 DEF ExecuteSteer, SteerRequest
<1>9. CASE Approve
  <2>1. PICK r : r = [method |-> "approval", id |-> 0, turn |-> 0, what |-> handle.approval]
    OBVIOUS
  <2>2. r \in Requests /\ r.method # "start" /\ "approve" \in Callers
    BY <1>1, <2>1 DEF Requests, Methods, Callers
  <2>3. /\ Request("approve", handle.proc, r)
        /\ UNCHANGED <<taskVars, handleVars, steerVars, exits, historyVars>>
    BY <1>9, <2>1 DEF Approve
  <2>. QED BY <1>7, <2>2, <2>3
<1>10. CASE Approved
  <2>1. /\ handle' = [handle EXCEPT !.approval = 0] \/ handle' = handle
        /\ UNCHANGED <<taskVars, present, reader, asked, server, steerVars, approvals, exits,
                       historyVars>>
    BY <1>10 DEF Approved
  <2>2. HandleStays /\ handle'.slot = handle.slot /\ handle'.text = handle.text
    BY <1>1, <2>1 DEF HandleStays, HandleTypes
  <2>. QED BY <1>3, <1>4, <2>1, <2>2, TellsQuiet DEF taskVars, historyVars
<1>11. CASE KillCommand
  <2>1. /\ Kill
        /\ UNCHANGED <<taskVars, lock, asked, steerVars, approvals, historyVars>>
    BY <1>11 DEF KillCommand
  <2>2. /\ handle'.proc = handle.proc /\ handle'.text = {} /\ present' = FALSE /\ reader' = "gone"
        /\ server'.in = << >> /\ server'.out = << >> /\ server'.turn = 0
    BY <2>1, KillTypes
  <2>3. \A n : ~StartIn(n)'
    BY <2>2, EmptyPipe DEF StartIn, In
  <2>4. HandleStays
    BY <2>2 DEF HandleStays
  <2>. QED BY <1>4, <2>1, <2>2, <2>3, <2>4, TellsQuiet DEF taskVars, historyVars
<1>12. CASE Exit
  <2>1. /\ server' = [server EXCEPT !.up = FALSE, !.in = << >>, !.turn = 0, !.asking = 0]
        /\ UNCHANGED <<taskVars, lock, handleVars, callVars, steerVars, approvals, historyVars>>
    BY <1>12 DEF Exit
  <2>2. server'.in = << >> /\ server'.turn = 0 /\ server'.out = server.out
    BY <1>1, <2>1 DEF ServerTypes
  <2>3. \A n : ~StartIn(n)'
    BY <2>2, EmptyPipe DEF StartIn, In
  <2>. QED BY <1>2, <1>4, <2>1, <2>2, <2>3, TellsQuiet DEF taskVars, handleVars, historyVars
<1>13. CASE Reap
  <2>1. /\ handle' = [handle EXCEPT !.closing = TRUE]
        /\ UNCHANGED <<taskVars, lock, present, reader, callVars, server, steerVars, approvals,
                       exits, historyVars>>
    BY <1>13 DEF Reap
  <2>2. HandleStays /\ handle'.slot = handle.slot /\ handle'.text = handle.text
    BY <1>1, <2>1 DEF HandleStays, HandleTypes
  <2>. QED BY <1>3, <1>4, <2>1, <2>2, TellsQuiet DEF taskVars, historyVars
<1>14. CASE PushEvent
  <2>1. /\ reader = "push" /\ reader' = "read"
        /\ UNCHANGED <<turn, cancelled, returned, task, lock, present, handle, callVars, server,
                       steerVars, approvals, exits, historyVars>>
    BY <1>14 DEF PushEvent
  <2>2. HandleStays
    BY <2>1 DEF HandleStays
  <2>. QED BY <1>3, <1>4, <2>1, <2>2, TellsQuiet DEF historyVars
<1>15. ASSUME NEW reply \in {"eof", "closed"}, ReaderStops(reply) PROVE Tells'
  <2>1. /\ handle' = [Closed(handle) EXCEPT !.failed = TRUE, !.closing = TRUE]
        /\ reader' = "gone"
        /\ UNCHANGED <<taskVars, lock, present, asked, server, steerVars, approvals, exits,
                       applied, runs, ended>>
    BY <1>15 DEF ReaderStops
  <2>2. PICK h : h = Closed(handle)
    OBVIOUS
  <2>3. h \in HandleTypes /\ h.proc = handle.proc /\ h.slot = 0 /\ h.text = handle.text
    BY <1>1, <2>2, ClosedType
  <2>4. HandleStays /\ handle'.text = handle.text
    BY <2>1, <2>2, <2>3 DEF HandleStays, HandleTypes
  <2>. QED BY <1>3, <1>4, <2>1, <2>4, TellsQuiet DEF taskVars
<1>. QED BY <1>6, <1>8, <1>9, <1>10, <1>11, <1>12, <1>13, <1>14, <1>15

\* What the server does.
LEMMA TellsServer ==
    ASSUME PoolTypes, Asks, Tells,
           ReadRequest \/ EmitDelta \/ AskApproval \/ \E good \in BOOLEAN : CompleteTurn(good)
    PROVE  Tells'
<1>1. /\ Emits /\ runs' \in [Ids -> Nat] /\ \A t \in Ids : runs[t] > 0 => runs'[t] > 0
      /\ UNCHANGED <<taskVars, handleVars>>
  <2>1. runs \in [Ids -> Nat]
    BY DEF PoolTypes
  <2>2. CASE ReadRequest
    <3>1. PICK q : q = Head(server.in)
      OBVIOUS
    <3>2. Emits /\ runs' \in [Ids -> Nat] /\ \E good \in BOOLEAN : Does(q, good)
      BY <2>2, <3>1, Reads
    <3>3. runs' = [runs EXCEPT ![q.turn] = @ + 1] \/ runs' = runs
      BY <3>2 DEF Does
    <3>4. UNCHANGED <<taskVars, handleVars>>
      BY <2>2 DEF ReadRequest
    <3>. QED BY <2>1, <3>2, <3>3, <3>4
  <2>3. CASE EmitDelta \/ AskApproval \/ \E good \in BOOLEAN : CompleteTurn(good)
    BY <2>1, <2>3, Works
  <2>. QED BY <2>2, <2>3
<1>2. LinesOrdered' /\ \A n \in Ids : Left(n)' => Left(n)
  BY <1>1, ServerTells DEF Tells
<1>3. HandleStays /\ TaskGoes
  BY <1>1 DEF HandleStays, TaskGoes, taskVars, handleVars
<1>4. ProcessKnown'
  BY <1>1, <1>3, ProcessStays DEF Tells, taskVars
<1>5. Grows
  BY <1>1 DEF Grows, Emits, taskVars
<1>. QED BY <1>1, <1>2, <1>4, <1>5, TellsStay DEF taskVars, handleVars

\* What the reader takes of it: text of the current turn or of one after a turn adrift,
\* and a completion of either.
LEMMA TellsLine ==
    ASSUME PoolTypes, Asks, Tells, ReadLine
    PROVE  Tells'
<1>1. PICK line : line = Head(server.out)
  OBVIOUS
<1>2. /\ line \in Lines /\ line \in Out /\ Out' \subseteq Out
      /\ server'.in = server.in /\ server'.turn = server.turn
      /\ Ordered(server.out)' /\ \A l \in Out' : ~Follows(l, line)
  BY <1>1, LineRead DEF Tells, LinesOrdered
<1>3. /\ handle \in HandleTypes /\ turn \in Nat /\ runs \in [Ids -> Nat] /\ line.n \in Nat
      /\ LinesOrdered /\ ProcessKnown /\ LeftIsAdrift /\ ClosedIsOver /\ TextsKnown
  BY <1>2 DEF PoolTypes, Tells, Lines
<1>4. /\ reader = "read" /\ reader' \in {"read", "push"} /\ handle' = Noted(handle, line)
      /\ UNCHANGED <<turn, cancelled, returned, task, present, runs, ended>>
  BY <1>1 DEF ReadLine, historyVars
<1>5. /\ handle'.proc = handle.proc /\ handle'.closing = handle.closing
      /\ handle'.slot = IF line.type = "completed" THEN 0 ELSE handle.slot
      /\ handle'.text = IF line.type = "delta" THEN handle.text \union {line.n} ELSE handle.text
      /\ handle.failed => handle'.failed
  BY <1>2, <1>3, <1>4, NotedType
<1>6. LinesOrdered'
  BY <1>2, <1>3, <1>4 DEF LinesOrdered
<1>7. \A n : StartIn(n)' <=> StartIn(n)
  BY <1>2 DEF StartIn, In
<1>8. \A n : Left(n)' => Left(n)
  BY <1>2, <1>7 DEF Left, HasLine
<1>9. HandleStays /\ TaskGoes
  BY <1>4, <1>5 DEF HandleStays, TaskGoes
<1>10. ProcessKnown'
  BY <1>3, <1>4, <1>9, ProcessStays
<1>11. Grows
  BY <1>4 DEF Grows
<1>12. CASE line.type \in Neutral
  BY <1>3, <1>4, <1>5, <1>6, <1>8, <1>10, <1>11, <1>12, TellsStay DEF Neutral
\* The line is of the current turn, or of an earlier one that is left to be said.
<1>13. ASSUME line.type \in {"delta", "completed"}
       PROVE  /\ line.n \in Ids /\ runs[line.n] > 0 /\ (line.n = turn \/ line.n < turn)
              /\ line.n < turn => AdriftUpTo(line.n)
  <2>1. line.n \in Ids /\ runs[line.n] > 0
    BY <1>2, <1>3, <1>13 DEF LinesOrdered
  <2>2. ~(line.n > turn)
    <3>1. line.n > turn => runs[line.n] = 0
      BY <2>1 DEF Asks, RunsCounted
    <3>. QED BY <2>1, <3>1
  <2>3. Left(line.n)
    BY <1>2, <1>13 DEF Left, HasLine
  <2>4. line.n < turn => AdriftUpTo(line.n)
    BY <1>3, <1>4, <2>1, <2>3 DEF LeftIsAdrift
  <2>. QED BY <1>3, <2>1, <2>2, <2>4
<1>14. /\ \A t : AdriftUpTo(t) <=> AdriftUpTo(t)'
       /\ \A t, u : MayAnswer(t, u) <=> MayAnswer(t, u)'
  BY <1>4 DEF AdriftUpTo, MayAnswer, Adrift
<1>15. LeftIsAdrift'
  BY <1>3, <1>4, <1>8, <1>14 DEF LeftIsAdrift, At
<1>16. CASE line.type \in {"delta", "completed"}
  <2>1. ClosedIsOver'
    <3>1. SUFFICES ASSUME present, task.at \in Active, handle'.slot # turn
                   PROVE  (turn \in ended /\ ~Left(turn)') \/ AdriftUpTo(turn)
      BY <1>4 DEF ClosedIsOver, AdriftUpTo, Adrift
    <3>2. PICK m \in Ids : m = turn
      BY <3>1 DEF Asks, RunsCounted, At, Active, Listening
    <3>3. CASE handle.slot # turn
      <4>1. (turn \in ended /\ ~Left(m)) \/ AdriftUpTo(turn)
        BY <1>3, <1>4, <3>1, <3>2, <3>3 DEF ClosedIsOver
      <4>2. ~Left(m) => ~Left(turn)'
        BY <1>4, <1>8, <3>2 DEF Left, StartIn, HasLine
      <4>. QED BY <4>1, <4>2
    <3>4. CASE handle.slot = turn
      <4>1. line.type = "completed"
        BY <1>5, <3>1, <3>4
      <4>2. CASE line.n < turn
        BY <1>3, <1>13, <1>16, <4>2, AdriftAbove
      <4>3. CASE line.n = turn
        <5>1. turn \in ended /\ server'.turn # turn
          BY <1>2, <1>3, <4>1, <4>3 DEF LinesOrdered
        <5>2. ~StartIn(turn)
          BY <1>3, <1>13, <1>16, <4>3 DEF Asks, RequestsOnce
        <5>3. ~StartIn(turn)'
          BY <1>4, <5>2, <1>2 DEF StartIn, In
        <5>4. \A l \in Out' : ~(l.type \in {"delta", "completed"} /\ l.n = turn)
          BY <1>2, <4>1, <4>3 DEF Follows
        <5>5. ~Left(turn)'
          BY <1>4, <5>1, <5>3, <5>4 DEF Left, HasLine
        <5>. QED BY <5>1, <5>5
      <4>. QED BY <1>13, <1>16, <4>2, <4>3
    <3>. QED BY <3>3, <3>4
  <2>2. TextsKnown'
    <3>1. task'.at \in Active => \A u \in handle'.text : MayAnswer(turn, u)
      <4>1. SUFFICES ASSUME task.at \in Active, NEW u \in handle'.text PROVE MayAnswer(turn, u)
        BY <1>4
      <4>2. CASE u \in handle.text
        BY <1>3, <4>1, <4>2 DEF TextsKnown
      <4>3. CASE u = line.n
        BY <1>13, <1>16, <4>3 DEF MayAnswer
      <4>. QED BY <1>5, <4>2, <4>3
    <3>2. /\ \A t \in Ids : \A u \in returned[t].text : MayAnswer(t, u)
          /\ \A t \in Ids : returned[t].kind = "ok" => t \in ended \/ AdriftUpTo(t)
          /\ \A t \in Ids : t > turn \/ (t = turn /\ ~At("idle")) => returned[t].kind = "none"
      BY <1>3 DEF TextsKnown
    <3>. QED BY <1>4, <3>1, <3>2 DEF TextsKnown, At, MayAnswer, AdriftUpTo, Adrift
  <2>. QED BY <1>6, <1>10, <1>15, <2>1, <2>2 DEF Tells
<1>. QED BY <1>2, <1>12, <1>16 DEF Lines, LineTypes, Neutral

\* A turn is begun, by the gateway and at its process.
LEMMA TellsStartTurn ==
    ASSUME PoolTypes, Asks, Tells, StartTurn
    PROVE  Tells'
<1>1. /\ LinesOrdered /\ ProcessKnown /\ LeftIsAdrift /\ ClosedIsOver /\ TextsKnown /\ turn \in Nat
  BY DEF PoolTypes, Tells
<1>2. /\ turn' = turn + 1 /\ task.at = "idle" /\ task'.at = "begin"
      /\ UNCHANGED <<cancelled, returned, handle, present, reader, server, runs, ended>>
  <2>1. task'.at = "begin"
    BY GotoTypes DEF StartTurn, TaskPlaces
  <2>. QED BY <2>1 DEF StartTurn, At, handleVars, historyVars
<1>3. /\ \A t : AdriftUpTo(t) <=> AdriftUpTo(t)'
      /\ \A t, u : MayAnswer(t, u) <=> MayAnswer(t, u)'
      /\ \A t : Left(t) <=> Left(t)'
  BY <1>2 DEF AdriftUpTo, MayAnswer, Adrift, Left, StartIn, HasLine, In, Out
<1>4. LinesOrdered'
  BY <1>1, <1>2 DEF LinesOrdered, Out
<1>5. ProcessKnown'
  BY <1>1, <1>2 DEF ProcessKnown, At, Active, Listening
<1>6. LeftIsAdrift'
  BY <1>1, <1>2, <1>3 DEF LeftIsAdrift, At
<1>7. ClosedIsOver'
  BY <1>2 DEF ClosedIsOver, Active, Listening
<1>8. TextsKnown'
  <2>1. task'.at \notin Active
    BY <1>2 DEF Active, Listening
  <2>2. /\ \A t \in Ids : \A u \in returned'[t].text : MayAnswer(t, u)'
        /\ \A t \in Ids : returned'[t].kind = "ok" => t \in ended' \/ AdriftUpTo(t)'
    BY <1>1, <1>2, <1>3 DEF TextsKnown
  <2>3. ASSUME NEW t \in Ids, t > turn' \/ (t = turn' /\ ~At("idle")') PROVE returned'[t].kind = "none"
    <3>1. t > turn
      BY <1>1, <1>2, <2>3 DEF Ids
    <3>. QED BY <1>1, <1>2, <3>1 DEF TextsKnown
  <2>. QED BY <2>1, <2>2, <2>3 DEF TextsKnown
<1>. QED BY <1>4, <1>5, <1>6, <1>7, <1>8 DEF Tells

LEMMA TellsPrepare ==
    ASSUME PoolTypes, Asks, Tells, Prepare
    PROVE  Tells'
<1>1. /\ LinesOrdered /\ ProcessKnown /\ LeftIsAdrift /\ TextsKnown /\ turn \in Nat
      /\ handle \in HandleTypes /\ asked \in Nat
  BY DEF PoolTypes, Tells
<1>2. /\ task.at = "begin" /\ present' = TRUE /\ task' = [at |-> "starting", proc |-> handle'.proc]
      /\ UNCHANGED <<turn, cancelled, returned, runs, ended>> /\ turn \in Ids
  BY DEF Prepare, At, historyVars, Asks, RunsCounted
\* What is left at the process, and who reads it.
<1>3. /\ LinesOrdered' /\ handle'.slot = turn /\ handle'.text = {}
      /\ reader' # "gone"
      /\ \A n \in Ids : n # turn /\ Left(n)' => reader # "gone" /\ Left(n)
  <2>1. CASE Alive /\ handle' = Fresh(handle) /\ Request("turn", handle.proc, TurnStart)
             /\ UNCHANGED reader
    <3>1. handle'.slot = turn /\ handle'.text = {} /\ reader # "gone"
      BY <1>1, <2>1, FreshType DEF ProcessKnown, Alive
    <3>2. PICK r, x : r = TurnStart /\ x = Numbered(r)
      OBVIOUS
    <3>3. r \in Requests /\ r.turn = turn /\ "turn" \in Callers
      BY <1>1, <3>2 DEF TurnStart, Requests, Methods, Callers
    <3>4. /\ x \in Requests /\ x.turn = turn
          /\ \/ server'.in = Append(server.in, x) /\ server'.out = server.out /\ server'.turn = server.turn
             \/ server' = server
      BY <2>1, <3>2, <3>3, RequestSent
    <3>5. \A n : StartIn(n)' => StartIn(n) \/ n = turn
      <4>1. CASE server' = server
        BY <4>1 DEF StartIn, In
      <4>2. CASE server'.in = Append(server.in, x)
        <5>1. Elems(Append(server.in, x)) = Elems(server.in) \union {x}
          BY <3>4, PipeTypes, PipeAppend
        <5>2. PICK in : in = Append(server.in, x)
          OBVIOUS
        <5>3. In' = Elems(in) /\ In = Elems(server.in)
          BY <4>2, <5>2 DEF In, Elems
        <5>. QED BY <3>4, <5>1, <5>2, <5>3 DEF StartIn
      <4>. QED BY <3>4, <4>1, <4>2
    <3>6. /\ server'.out \in {server.out, << >>} /\ server'.turn \in {0, server.turn}
      BY <3>4
    <3>7. /\ LinesOrdered'
          /\ \A n \in Ids : (StartIn(n)' => StartIn(n)) => (Left(n)' => Left(n))
      BY <1>1, <1>2, <3>6, LinesStay
    <3>. QED BY <2>1, <3>1, <3>5, <3>7
  <2>2. CASE /\ handle' = Fresh(NewHandle(handle.proc + 1))
             /\ server' = [NewServer EXCEPT !.in = <<[TurnStart EXCEPT !.id = asked + 1]>>]
             /\ reader' = "read"
    <3>1. PICK h : h = NewHandle(handle.proc + 1)
      OBVIOUS
    <3>2. h \in HandleTypes
      <4>1. PICK p \in Nat : p = handle.proc + 1
        BY <1>1 DEF HandleTypes
      <4>. QED BY <3>1, <4>1, NewHandleType
    <3>3. handle'.slot = turn /\ handle'.text = {}
      BY <1>1, <2>2, <3>1, <3>2, FreshType
    <3>4. PICK x : x = [TurnStart EXCEPT !.id = asked + 1]
      OBVIOUS
    <3>5. x.turn = turn
      BY <3>4 DEF TurnStart
    <3>6. server'.in = <<x>> /\ server'.out = << >> /\ server'.turn = 0
      BY <2>2, <3>4 DEF NewServer, NoServer
    <3>7. \A n : StartIn(n)' => n = turn
      BY <3>5, <3>6 DEF StartIn, In, Elems
    <3>8. Out' = {} /\ Ordered(server.out)'
      <4>1. Out' = Elems(<< >>)
        BY <3>6 DEF Out, Elems
      <4>2. Ordered(<< >>) => Ordered(server.out)'
        BY <3>6 DEF Ordered
      <4>. QED BY <4>1, <4>2, EmptyPipe
    <3>9. LinesOrdered'
      BY <3>8 DEF LinesOrdered
    <3>10. \A n \in Ids : n # turn => ~Left(n)'
      BY <3>6, <3>7, <3>8 DEF Left, HasLine, Ids
    <3>. QED BY <2>2, <3>3, <3>9, <3>10
  <2>. QED BY <2>1, <2>2 DEF Prepare
<1>4. /\ \A t : AdriftUpTo(t) <=> AdriftUpTo(t)'
      /\ \A t, u : MayAnswer(t, u) <=> MayAnswer(t, u)'
  BY <1>2 DEF AdriftUpTo, MayAnswer, Adrift
<1>5. task'.at = "starting" /\ task'.proc = handle'.proc
  BY <1>2
<1>6. ProcessKnown'
  BY <1>2, <1>3, <1>5 DEF ProcessKnown, At
<1>7. LeftIsAdrift'
  <2>1. SUFFICES ASSUME NEW n \in Ids, Left(n)', n < turn PROVE AdriftUpTo(n)'
    BY <1>2, <1>5 DEF LeftIsAdrift, At
  <2>2. n # turn
    BY <1>1, <2>1 DEF Ids
  <2>3. reader # "gone" /\ Left(n)
    BY <1>3, <2>1, <2>2
  <2>. QED BY <1>1, <1>4, <2>1, <2>3 DEF LeftIsAdrift
<1>8. ClosedIsOver'
  BY <1>2, <1>3 DEF ClosedIsOver
<1>9. TextsKnown'
  <2>1. /\ \A t \in Ids : \A u \in returned'[t].text : MayAnswer(t, u)'
        /\ \A t \in Ids : returned'[t].kind = "ok" => t \in ended' \/ AdriftUpTo(t)'
        /\ \A t \in Ids : t > turn' \/ (t = turn' /\ ~At("idle")') => returned'[t].kind = "none"
    BY <1>1, <1>2, <1>4 DEF TextsKnown, At
  <2>. QED BY <1>3, <2>1 DEF TextsKnown
<1>. QED BY <1>3, <1>6, <1>7, <1>8, <1>9 DEF Tells

\* A turn returns, or goes to a process of its own.
LEMMA TellsReturn ==
    ASSUME PoolTypes, Asks, Tells,
           (\E startup \in BOOLEAN : SpawnFails(startup)) \/ StartFails \/ OneShot \/ Timeout
           \/ TakeResult
    PROVE  Tells'
<1>1. /\ LinesOrdered /\ ProcessKnown /\ LeftIsAdrift /\ ClosedIsOver /\ TextsKnown /\ turn \in Nat
      /\ handle \in HandleTypes /\ handle.text \in SUBSET Nat /\ handle.proc \in Nat
      /\ runs \in [Ids -> Nat] /\ "oneshot" \in TaskPlaces
  BY DEF PoolTypes, Tells, HandleTypes, TaskPlaces
<1>2. ~At("idle") /\ turn \in Ids
  <2>1. ~At("idle")
    BY DEF SpawnFails, StartFails, OneShot, Timeout, TakeResult, At
  <2>. QED BY <2>1 DEF Asks, RunsCounted
\* The process, the lines and the handle are left as they are.
<1>3. ASSUME UNCHANGED <<handleVars, server>>, \A t \in Ids : runs[t] > 0 => runs'[t] > 0,
             ended \subseteq ended'
      PROVE  LinesOrdered' /\ (\A n \in Ids : Left(n)' => Left(n)) /\ HandleStays
  <2>1. \A n : StartIn(n)' => StartIn(n)
    BY <1>3 DEF StartIn, In
  <2>2. LinesOrdered' /\ \A n \in Ids : Left(n)' => Left(n)
    BY <1>1, <1>3, <2>1, LinesStay
  <2>. QED BY <1>3, <2>2 DEF HandleStays, handleVars
\* The process is gone.
<1>4. ASSUME server'.in = << >>, server'.out = << >>, server'.turn = 0, present' = FALSE,
             reader' = "gone", handle'.proc = handle.proc, UNCHANGED <<runs, ended>>
      PROVE  LinesOrdered' /\ (\A n \in Ids : Left(n)' => Left(n)) /\ HandleStays
  <2>1. \A n : ~StartIn(n)'
    BY <1>4, EmptyPipe DEF StartIn, In
  <2>2. LinesOrdered' /\ \A n \in Ids : Left(n)' => Left(n)
    BY <1>1, <1>4, <2>1, LinesStay
  <2>. QED BY <1>4, <2>2 DEF HandleStays
<1>5. ASSUME NEW kind, NEW text, Return(kind, text) PROVE TaskGoes
  BY <1>5 DEF TaskGoes, Return, Active, Listening, Draining
<1>6. ASSUME NEW startup \in BOOLEAN, SpawnFails(startup) PROVE Tells'
  <2>1. /\ present' = FALSE /\ handle' = NewHandle(handle.proc) /\ server' = NoServer
        /\ reader' = "gone" /\ task.at = "begin"
        /\ UNCHANGED <<turn, cancelled, lock, callVars, steerVars, approvals, exits, historyVars>>
        /\ \/ Goto("oneshot") /\ UNCHANGED <<returned, pipe>>
           \/ Return("error", {})
    BY <1>6 DEF SpawnFails, At
  <2>2. /\ handle'.proc = handle.proc /\ handle'.text = {}
        /\ server'.in = << >> /\ server'.out = << >> /\ server'.turn = 0
    BY <1>1, <2>1, NewHandleType, StoppedType DEF NewHandle
  <2>3. LinesOrdered' /\ (\A n \in Ids : Left(n)' => Left(n)) /\ HandleStays
    BY <1>4, <2>1, <2>2 DEF historyVars
  <2>4. CASE Goto("oneshot") /\ UNCHANGED <<returned, pipe>>
    <3>1. task'.at = "oneshot"
      BY <1>1, <2>4, GotoTypes
    <3>2. TaskGoes
      BY <3>1 DEF TaskGoes, Active, Listening, Draining
    <3>3. \A n : ~StartIn(n)'
      BY <2>2, EmptyPipe DEF StartIn, In
    <3>. QED BY <1>2, <2>1, <2>2, <2>3, <2>4, <3>1, <3>2, <3>3, TellsQuiet DEF historyVars, At
  <2>5. CASE Return("error", {})
    <3>1. ProcessKnown'
      BY <1>1, <1>5, <2>1, <2>3, <2>5, ProcessStays
    <3>. QED BY <1>2, <2>1, <2>3, <2>5, <3>1, ReturnTells DEF historyVars
  <2>. QED BY <2>1, <2>4, <2>5
<1>7. CASE StartFails
  <2>1. /\ At("starting") /\ Answered("turn") /\ call["turn"].reply # "ok"
        /\ UNCHANGED <<turn, cancelled, handleVars, asked, server, steerVars, approvals, exits,
                       historyVars>>
        /\ \/ Goto("oneshot") /\ UNCHANGED <<returned, pipe>>
           \/ Return(IF Unknown(call["turn"].reply) THEN "unknown" ELSE "error", {})
    BY <1>7 DEF StartFails
  <2>2. LinesOrdered' /\ (\A n \in Ids : Left(n)' => Left(n)) /\ HandleStays
    BY <1>3, <2>1 DEF historyVars
  <2>3. CASE Goto("oneshot") /\ UNCHANGED <<returned, pipe>>
    <3>1. task'.at = "oneshot"
      BY <1>1, <2>3, GotoTypes
    <3>2. TaskGoes
      BY <3>1 DEF TaskGoes, Active, Listening, Draining
    <3>3. \A n : StartIn(n)' => StartIn(n)
      BY <2>1 DEF StartIn, In
    <3>. QED BY <1>2, <2>1, <2>2, <2>3, <3>1, <3>2, <3>3, TellsQuiet DEF historyVars, handleVars, At
  <2>4. CASE Return(IF Unknown(call["turn"].reply) THEN "unknown" ELSE "error", {})
    <3>1. ProcessKnown'
      BY <1>1, <1>5, <2>1, <2>2, <2>4, ProcessStays
    <3>2. PICK kind \in {"unknown", "error"} :
              kind = IF Unknown(call["turn"].reply) THEN "unknown" ELSE "error"
      OBVIOUS
    <3>3. kind = "error" => ~Left(turn)
      <4>1. SUFFICES ASSUME kind = "error" PROVE ~Left(turn)
        OBVIOUS
      <4>2. call["turn"].reply = "error"
        BY <2>1, <3>2, <4>1 DEF Answered, Unknown, PoolTypes, CallTypes, Replies, Callers
      <4>3. NotStarted(turn)
        BY <2>1, <4>2 DEF Asks, CallsAnswered
      <4>. QED BY <1>1, <1>2, <4>3, NotStartedIsOver
    <3>4. Return(kind, {}) /\ kind # "ok"
      BY <2>4, <3>2
    <3>. QED BY <1>2, <2>1, <2>2, <3>1, <3>2, <3>3, <3>4, ReturnTells DEF historyVars, handleVars
  <2>. QED BY <2>1, <2>3, <2>4
<1>8. CASE OneShot
  <2>1. /\ At("oneshot") /\ runs' = [runs EXCEPT ![turn] = @ + 1]
        /\ ended' = ended \union {turn} /\ Return("ok", {turn})
        /\ UNCHANGED <<turn, cancelled, lock, handleVars, callVars, server, steerVars,
                       approvals, exits, applied, crossed>>
    BY <1>8 DEF OneShot
  <2>2. \A t \in Ids : runs[t] > 0 => runs'[t] > 0
    BY <1>1, <1>2, <2>1
  <2>3. LinesOrdered' /\ (\A n \in Ids : Left(n)' => Left(n)) /\ HandleStays
    BY <1>3, <2>1, <2>2
  <2>4. ProcessKnown'
    BY <1>1, <1>5, <2>1, <2>3, ProcessStays
  <2>5. reader = "gone" /\ reader' = reader
    BY <2>1 DEF Asks, RunsCounted, handleVars
  <2>6. \A u \in {turn} : MayAnswer(turn, u)
    BY DEF MayAnswer
  <2>7. {turn} \in SUBSET Nat
    BY <1>1
  <2>. QED BY <1>2, <2>1, <2>3, <2>4, <2>5, <2>6, <2>7, ReturnTells
<1>9. CASE Timeout
  <2>1. /\ Kill /\ Return("error", {})
        /\ UNCHANGED <<turn, cancelled, lock, asked, steerVars, approvals, exits, historyVars>>
    BY <1>9 DEF Timeout
  <2>2. /\ handle'.proc = handle.proc /\ present' = FALSE /\ reader' = "gone"
        /\ server'.in = << >> /\ server'.out = << >> /\ server'.turn = 0
    BY <2>1, KillTypes
  <2>3. LinesOrdered' /\ (\A n \in Ids : Left(n)' => Left(n)) /\ HandleStays
    BY <1>4, <2>1, <2>2 DEF historyVars
  <2>4. ProcessKnown'
    BY <1>1, <1>5, <2>1, <2>3, ProcessStays
  <2>. QED BY <1>2, <2>1, <2>2, <2>3, <2>4, ReturnTells DEF historyVars
<1>10. CASE TakeResult
  <2>1. /\ At("take")
        /\ \/ present /\ handle.failed /\ Return("failed", {})
           \/ present /\ ~handle.failed /\ Return("ok", handle.text)
           \/ ~present /\ Return("error", {})
        /\ UNCHANGED <<turn, cancelled, lock, handleVars, callVars, server, steerVars,
                       approvals, exits, historyVars>>
    BY <1>10 DEF TakeResult
  <2>2. LinesOrdered' /\ (\A n \in Ids : Left(n)' => Left(n)) /\ HandleStays
    BY <1>3, <2>1 DEF historyVars
  <2>3. task.at \in Active
    BY <2>1 DEF At, Active
  <2>4. present /\ reader # "gone" => (turn \in ended /\ ~Left(turn)) \/ AdriftUpTo(turn)
    <3>1. SUFFICES ASSUME present, reader # "gone" PROVE (turn \in ended /\ ~Left(turn)) \/ AdriftUpTo(turn)
      OBVIOUS
    <3>2. turn \in cancelled \/ handle.slot # turn
      BY <1>1, <2>1, <3>1 DEF ProcessKnown
    <3>3. CASE turn \in cancelled
      BY <1>2, <3>3, CancelledIsAdrift
    <3>4. CASE handle.slot # turn
      BY <1>1, <2>3, <3>1, <3>4 DEF ClosedIsOver
    <3>. QED BY <3>2, <3>3, <3>4
  <2>5. reader # "gone" => present
    BY <1>1 DEF ProcessKnown, PoolTypes
  <2>6. reader' # "gone" => reader # "gone" /\ (Left(turn) => AdriftUpTo(turn))
    BY <2>1, <2>4, <2>5 DEF handleVars
  <2>7. \A u \in handle.text : MayAnswer(turn, u)
    BY <1>1, <2>3 DEF TextsKnown
  <2>8. present /\ ~handle.failed => turn \in ended \/ AdriftUpTo(turn)
    BY <1>1, <2>4 DEF ProcessKnown
  <2>9. PICK kind \in {"failed", "ok", "error"}, text \in SUBSET Nat :
            /\ Return(kind, text) /\ \A u \in text : MayAnswer(turn, u)
            /\ kind = "ok" => turn \in ended \/ AdriftUpTo(turn)
    BY <1>1, <2>1, <2>7, <2>8
  <2>10. ProcessKnown'
    BY <1>1, <1>5, <2>1, <2>2, <2>9, ProcessStays
  <2>11. UNCHANGED <<turn, cancelled, ended>>
    BY <2>1 DEF historyVars
  <2>. QED BY <1>2, <2>2, <2>6, <2>9, <2>10, <2>11, ReturnTells
<1>. QED BY <1>6, <1>7, <1>8, <1>9, <1>10

LEMMA TellsNext ==
    ASSUME PoolTypes, Asks, Tells, [Next]_vars
    PROVE  Tells'
<1>1. CASE Next
  <2>1. ASSUME Cancel \/ TakeEvent \/ PipeEnds \/ NoticeCancel \/ DrainExpires \/ Started
               \/ Interrupt \/ Interrupted
        PROVE  Tells'
    BY <2>1, TellsTurn
  <2>2. ASSUME (\E w \in Callers : Expire(w)) \/ PrepareSteer \/ ExecuteSteer \/ Steered \/ Approve
               \/ Approved \/ KillCommand \/ Exit \/ Reap \/ PushEvent
               \/ (\E reply \in {"eof", "closed"} : ReaderStops(reply))
        PROVE  Tells'
    BY <2>2, TellsOthers
  <2>3. ASSUME ReadRequest \/ EmitDelta \/ AskApproval \/ \E good \in BOOLEAN : CompleteTurn(good)
        PROVE  Tells'
    BY <2>3, TellsServer
  <2>4. ASSUME (\E startup \in BOOLEAN : SpawnFails(startup)) \/ StartFails \/ OneShot \/ Timeout
               \/ TakeResult
        PROVE  Tells'
    BY <2>4, TellsReturn
  <2>5. ASSUME StartTurn \/ Prepare \/ ReadLine PROVE Tells'
    BY <2>5, TellsStartTurn, TellsPrepare, TellsLine
  <2>. QED BY <1>1, <2>1, <2>2, <2>3, <2>4, <2>5 DEF Next, TaskStep, ServerStep, ReaderStep
<1>2. CASE UNCHANGED vars
  BY <1>2, TellsOthers
<1>. QED BY <1>1, <1>2

LEMMA TellsInit == Init => Tells
<1> SUFFICES ASSUME Init PROVE Tells
  OBVIOUS
<1>1. Out = {} /\ Ordered(server.out)
  <2>1. server.out = << >>
    BY StoppedType DEF Init
  <2>. QED BY <2>1, EmptyPipe DEF Out
<1>2. /\ task.at = "idle" /\ ~present /\ reader = "gone"
      /\ \A t \in Ids : returned[t].kind = "none" /\ returned[t].text = {}
  BY DEF Init, Nothing
<1>3. LinesOrdered
  BY <1>1 DEF LinesOrdered
<1>4. ProcessKnown
  BY <1>2 DEF ProcessKnown, At, Active, Listening
<1>5. LeftIsAdrift /\ ClosedIsOver
  BY <1>2 DEF LeftIsAdrift, ClosedIsOver
<1>6. TextsKnown
  BY <1>2 DEF TextsKnown, At, Active, Listening
<1>. QED BY <1>3, <1>4, <1>5, <1>6 DEF Tells

-----------------------------------------------------------------------------
(* The theorems. *)

\* What holds whenever a step begins: the types, what is asked, and what is told.
THEOREM PoolHolds == Spec => [](PoolTypes /\ Asks /\ Tells)
<1>1. Init => PoolTypes /\ Asks /\ Tells
  BY TypesInit, AsksInit, TellsInit
<1>2. PoolTypes /\ Asks /\ Tells /\ [Next]_vars => (PoolTypes /\ Asks /\ Tells)'
  BY TypesNext, AsksNext, TellsNext
<1>. QED BY <1>1, <1>2, PTL DEF Spec

\* A follow-up that goes back to the queue was not applied, and one that is settled was.
THEOREM NoFollowupTwice == Spec => []RequeuedWasNotApplied
<1>1. Asks => RequeuedWasNotApplied
  BY DEF Asks, OutcomesTrue, NotApplied, RequeuedWasNotApplied
<1>. QED BY <1>1, PoolHolds, PTL

\* A message is run once, unless an Astra process died with its turn/start unanswered.
THEOREM MessageRunsOnce == Spec => []RunsOnce
<1>1. PoolTypes /\ Asks => RunsOnce
  <2>1. SUFFICES ASSUME PoolTypes, Asks, NEW t \in Ids, runs[t] > 1 PROVE Astra /\ t \in crossed
    BY DEF RunsOnce
  <2>2. runs[t] \in Nat /\ (runs[t] <= 1 \/ (Astra /\ t \in crossed))
    BY <2>1 DEF PoolTypes, Asks, RunsCounted
  <2>. QED BY <2>1, <2>2
<1>. QED BY <1>1, PoolHolds, PTL

\* A turn answers with text of its own message only, unless an earlier one was left adrift.
THEOREM AnswersOwnText == Spec => []OnlyAdriftMixesIn
<1>1. Tells => OnlyAdriftMixesIn
  BY DEF Tells, TextsKnown, MayAnswer, OnlyAdriftMixesIn
<1>. QED BY <1>1, PoolHolds, PTL

\* A turn is not reported as answered while the server still works on it, unless it was
\* cancelled or an earlier one was left adrift.
THEOREM AnswersWhenDone == Spec => []AnsweredIsComplete
<1>1. Tells => AnsweredIsComplete
  BY DEF Tells, TextsKnown, AnsweredIsComplete
<1>. QED BY <1>1, PoolHolds, PTL

\* A behaviour of the two servers together is one of each.
THEOREM EachServerAlone == ServersSpec => Spec /\ AuthSpec
<1>1. ServersInit => Init /\ AuthInit
  BY DEF ServersInit
<1>2. [ServersNext]_<<answering, vars, authVars>> => [Next]_vars /\ [AuthNext]_authVars
  BY DEF ServersNext
<1>. QED BY <1>1, <1>2, PTL DEF ServersSpec, Spec, AuthSpec

-----------------------------------------------------------------------------
(* AuthGuard. *)

(***************************************************************************)
(* The types.                                                              *)
(***************************************************************************)

UserTypes == [at : AuthPlaces, why : {"turn", "renew", "give_up", "auth"},
              tok : AnyToken, doc : Documents]

\* An idle user has nothing; a turn that has not failed yet is no renewal.
IdleHasNothing == \A c \in Users : UserAt(c, "idle") => user[c] = AuthIdle
TurnsAreTurns ==
    \A c \in Users : user[c].at \in {"get", "read", "validate", "run"} => user[c].why = "turn"

AuthTypes == AuthTypeOK /\ IdleHasNothing /\ TurnsAreTurns

LEMMA IdleType == AuthIdle \in UserTypes /\ AuthIdle.at = "idle" /\ EmptyFile \in Documents
    BY DEF AuthIdle, UserTypes, AuthPlaces, AnyToken, Documents, EmptyFile, NoAuthToken

LEMMA AuthTypeStart == AuthInit => AuthTypes
<1> SUFFICES ASSUME AuthInit PROVE AuthTypes
    OBVIOUS
<1>1. user \in [Users -> UserTypes] /\ IdleHasNothing /\ TurnsAreTurns
    BY IdleType DEF AuthInit, IdleHasNothing, TurnsAreTurns, UserAt
<1>2. 1 \in AuthTokens
    BY AuthAssumption DEF AuthTokens
<1>3. shared \in AnyToken /\ credentials \in Documents /\ issued \in AuthTokens
    BY <1>2 DEF AuthInit, AnyToken, Documents
<1> QED
    BY <1>1, <1>3 DEF AuthInit, AuthTypes, AuthTypeOK, UserTypes

LEMMA AuthTypeStep == AuthTypes /\ [AuthNext]_authVars => AuthTypes'
<1> SUFFICES ASSUME AuthTypes, [AuthNext]_authVars PROVE AuthTypes'
    OBVIOUS
<1> USE IdleType, AuthAssumption
    DEF AuthTypes, AuthTypeOK, UserTypes, IdleHasNothing, TurnsAreTurns, UserAt, UserGoes,
        UserGoesWith, UserEnds, NewCall, authServer, authHistory, AnyToken, NoAuthToken,
        AuthPlaces, AuthTokens
<1>1. ASSUME NEW c \in Users, TurnRefused(c) PROVE AuthTypes'
    BY <1>1 DEF TurnRefused, CircuitOpen
<1>2. ASSUME NEW c \in Users, TurnBegins(c) PROVE AuthTypes'
  <2>1. user' \in [Users -> UserTypes]
      BY <1>2 DEF TurnBegins
  <2>2. IdleHasNothing'
      BY <1>2 DEF TurnBegins
  <2>3. TurnsAreTurns'
      BY <1>2 DEF TurnBegins, AuthIdle
  <2>4. authCalls' \in Nat /\ failures' \in Nat /\ recent' \in BOOLEAN /\ unanswered' \in Nat
      BY <1>2 DEF TurnBegins, ClearFailures
  <2> QED BY <1>2, <2>1, <2>2, <2>3, <2>4 DEF TurnBegins
<1>3. ASSUME NEW c \in Users, CommandBegins(c) PROVE AuthTypes'
  <2>1. user' \in [Users -> UserTypes]
      BY ZenonT(60), <1>3 DEF CommandBegins
  <2>2. IdleHasNothing'
      BY <1>3 DEF CommandBegins
  <2>3. TurnsAreTurns'
      BY <1>3 DEF CommandBegins, AuthIdle
  <2>4. failures' = 0 /\ recent' = FALSE /\ unanswered' = 0
      BY <1>3 DEF CommandBegins, ClearFailures
  <2>5. authCalls' \in Nat
      BY <1>3 DEF CommandBegins
  <2> QED BY <1>3, <2>1, <2>2, <2>3, <2>4, <2>5 DEF CommandBegins
<1>4. ASSUME NEW c \in Users, GetCached(c) PROVE AuthTypes'
    BY <1>4 DEF GetCached
<1>5. ASSUME NEW c \in Users, ReadCredentials(c) PROVE AuthTypes'
    BY <1>5 DEF ReadCredentials
<1>6. ASSUME NEW c \in Users, Validate(c) PROVE AuthTypes'
    BY <1>6 DEF Validate, Valid
<1>7. ASSUME NEW c \in Users, FillCache(c) PROVE AuthTypes'
    BY <1>7 DEF FillCache
<1>8. ASSUME NEW c \in Users, Login(c) PROVE AuthTypes'
  <2>1. issued + 1 \in AuthTokens
      BY <1>8 DEF Login
  <2>2. user' \in [Users -> UserTypes] /\ issued' \in AuthTokens
      BY ZenonT(60), <1>8, <2>1 DEF Login
  <2>3. IdleHasNothing' /\ TurnsAreTurns'
      BY <1>8 DEF Login
  <2> QED BY <1>8, <2>2, <2>3 DEF Login
<1>9. ASSUME NEW c \in Users, LoginFails(c) PROVE AuthTypes'
    BY <1>9 DEF LoginFails, NotRenewed
<1>10. ASSUME NEW c \in Users, LoadDocument(c) PROVE AuthTypes'
    BY <1>10 DEF LoadDocument
<1>11. ASSUME NEW c \in Users, Truncate(c) PROVE AuthTypes'
    BY <1>11 DEF Truncate
<1>12. ASSUME NEW c \in Users, WriteDocument(c) PROVE AuthTypes'
  <2>1. Saved(c) \in Documents
      BY <1>12 DEF Saved, Documents
  <2>2. PICK place \in {"clear", "cache"} :
            user' = [user EXCEPT ![c].at = place, ![c].doc = EmptyFile]
      BY <1>12 DEF WriteDocument
  <2>4. user' \in [Users -> UserTypes]
    <3>1. user' = [user EXCEPT ![c] = [user[c] EXCEPT !.at = place, !.doc = EmptyFile]]
        BY <2>2
    <3>2. user[c] \in UserTypes /\ place \in AuthPlaces
        OBVIOUS
    <3>3. [user[c] EXCEPT !.at = place, !.doc = EmptyFile] \in UserTypes
        BY <3>2
    <3>4. user \in [Users -> UserTypes]
        OBVIOUS
    <3> DEFINE x == [user[c] EXCEPT !.at = place, !.doc = EmptyFile]
    <3> HIDE DEF UserTypes, AuthTypeOK, x
    <3>5. user' = [user EXCEPT ![c] = x] /\ x \in UserTypes
        BY <3>1, <3>3 DEF x
    <3> QED BY <3>4, <3>5
  <2>3. IdleHasNothing' /\ TurnsAreTurns'
      BY <1>12 DEF WriteDocument
  <2> QED BY <1>12, <2>1, <2>4, <2>3 DEF WriteDocument
<1>13. ASSUME NEW c \in Users, SaveFails(c) PROVE AuthTypes'
    BY <1>13 DEF SaveFails, NotRenewed
<1>14. ASSUME NEW c \in Users, RenewalClears(c) PROVE AuthTypes'
    BY <1>14 DEF RenewalClears, ClearFailures
<1>15. ASSUME NEW c \in Users, RunSucceeds(c) PROVE AuthTypes'
    BY <1>15 DEF RunSucceeds, ClearFailures
<1>16. ASSUME NEW c \in Users, RunFailsOtherwise(c) PROVE AuthTypes'
    BY <1>16 DEF RunFailsOtherwise
<1>17. ASSUME NEW c \in Users, RunIsRefused(c) PROVE AuthTypes'
    BY <1>17 DEF RunIsRefused
<1>18. ASSUME NEW c \in Users, InvalidateToken(c) PROVE AuthTypes'
  <2>1. user' \in [Users -> UserTypes] /\ IdleHasNothing' /\ TurnsAreTurns'
      BY <1>18 DEF InvalidateToken
  <2>2. shared' \in AnyToken /\ overtook' \in BOOLEAN
      BY <1>18 DEF InvalidateToken, Invalidated
  <2>3. refused' \subseteq AuthTokens /\ overtaken' \subseteq Users
      BY <1>18 DEF InvalidateToken
  <2>4. UNCHANGED <<failures, recent, credentials, issued, revoked, authCalls, unanswered,
                    clobbered>>
      BY <1>18 DEF InvalidateToken
  <2> QED BY <2>1, <2>2, <2>3, <2>4
<1>19. CASE Cooldown
    BY <1>19 DEF Cooldown, authServer, authHistory
<1>20. ASSUME NEW t \in AuthTokens, Revoke(t) PROVE AuthTypes'
    BY <1>20 DEF Revoke, authHistory
<1>21. CASE UNCHANGED authVars
    BY <1>21 DEF authVars, authServer, authHistory
<1> QED
    BY <1>1, <1>2, <1>3, <1>4, <1>5, <1>6, <1>7, <1>8, <1>9, <1>10, <1>11,
       <1>12, <1>13, <1>14, <1>15, <1>16, <1>17, <1>18, <1>19, <1>20, <1>21 DEF AuthNext

\* The types, for any number of users, turns and tokens.
THEOREM AuthTypesCorrect == AuthSpec => []AuthTypeOK
<1>1. AuthTypes => AuthTypeOK
    BY DEF AuthTypes
<1> QED BY <1>1, AuthTypeStart, AuthTypeStep, PTL DEF AuthSpec

(***************************************************************************)
(* Tokens.                                                                 *)
(***************************************************************************)

\* A token that a turn was refused with is one that the server issued and revoked.
RefusedIsRevoked == refused \subseteq revoked /\ \A t \in revoked : t <= issued

\* A user that is about to cache a refused token has been overtaken.
FreshUnlessOvertaken ==
    \A c \in Users : HasFresh(c) /\ user[c].tok \in refused => c \in overtaken

TokenInv == RefusedIsRevoked /\ FreshUnlessOvertaken /\ RefusedStaysOut

LEMMA TokenStep == AuthTypes /\ TokenInv /\ [AuthNext]_authVars => TokenInv'
<1> SUFFICES ASSUME AuthTypes /\ TokenInv, [AuthNext]_authVars PROVE TokenInv'
    OBVIOUS
<1> USE AuthAssumption
    DEF AuthTypes, AuthTypeOK, IdleHasNothing, UserTypes, AuthIdle, AuthTokens, AnyToken,
        NoAuthToken, TokenInv, RefusedIsRevoked, FreshUnlessOvertaken,
        RefusedStaysOut,
        HasFresh, UserAt, UserGoes, UserGoesWith, UserEnds, NewCall, authServer, authHistory
<1>1. ASSUME NEW c \in Users, TurnRefused(c) PROVE TokenInv'
    BY <1>1 DEF TurnRefused, CircuitOpen
<1>2. ASSUME NEW c \in Users, TurnBegins(c) PROVE TokenInv'
    BY <1>2 DEF TurnBegins, CircuitOpen
<1>3. ASSUME NEW c \in Users, CommandBegins(c) PROVE TokenInv'
    BY <1>3 DEF CommandBegins, ClearFailures
<1>4. ASSUME NEW c \in Users, GetCached(c) PROVE TokenInv'
    BY <1>4 DEF GetCached
<1>5. ASSUME NEW c \in Users, ReadCredentials(c) PROVE TokenInv'
    BY <1>5 DEF ReadCredentials
<1>6. ASSUME NEW c \in Users, Validate(c) PROVE TokenInv'
    BY <1>6 DEF Validate, Valid
<1>7. ASSUME NEW c \in Users, FillCache(c) PROVE TokenInv'
  <2>1. shared' \in refused' => overtook'
      BY <1>7 DEF FillCache
  <2>2. RefusedIsRevoked'
      BY <1>7 DEF FillCache
  <2>3. FreshUnlessOvertaken'
      BY <1>7 DEF FillCache
  <2> QED BY <2>1, <2>2, <2>3
<1>8. ASSUME NEW c \in Users, Login(c) PROVE TokenInv'
    BY <1>8 DEF Login
<1>9. ASSUME NEW c \in Users, LoginFails(c) PROVE TokenInv'
    BY <1>9 DEF LoginFails, NotRenewed
<1>10. ASSUME NEW c \in Users, LoadDocument(c) PROVE TokenInv'
    BY <1>10 DEF LoadDocument
<1>11. ASSUME NEW c \in Users, Truncate(c) PROVE TokenInv'
    BY <1>11 DEF Truncate
<1>12. ASSUME NEW c \in Users, WriteDocument(c) PROVE TokenInv'
    BY <1>12 DEF WriteDocument, Saved
<1>13. ASSUME NEW c \in Users, SaveFails(c) PROVE TokenInv'
    BY <1>13 DEF SaveFails, NotRenewed
<1>14. ASSUME NEW c \in Users, RenewalClears(c) PROVE TokenInv'
    BY <1>14 DEF RenewalClears, ClearFailures
<1>15. ASSUME NEW c \in Users, RunSucceeds(c) PROVE TokenInv'
    BY <1>15 DEF RunSucceeds, ClearFailures
<1>16. ASSUME NEW c \in Users, RunFailsOtherwise(c) PROVE TokenInv'
    BY <1>16 DEF RunFailsOtherwise
<1>17. ASSUME NEW c \in Users, RunIsRefused(c) PROVE TokenInv'
    BY <1>17 DEF RunIsRefused
<1>18. ASSUME NEW c \in Users, InvalidateToken(c) PROVE TokenInv'
    BY <1>18 DEF InvalidateToken, Invalidated
<1>19. CASE Cooldown
    BY <1>19 DEF Cooldown, authServer, authHistory
<1>20. ASSUME NEW t \in AuthTokens, Revoke(t) PROVE TokenInv'
    BY <1>20 DEF Revoke, authHistory
<1>21. CASE UNCHANGED authVars
    BY <1>21 DEF authVars, authServer, authHistory
<1> QED
    BY <1>1, <1>2, <1>3, <1>4, <1>5, <1>6, <1>7, <1>8, <1>9, <1>10, <1>11,
       <1>12, <1>13, <1>14, <1>15, <1>16, <1>17, <1>18, <1>19, <1>20, <1>21 DEF AuthNext

\* No turn is given a token that a turn was refused with, unless a user that had it
\* before fills the cache late: for any number of turns, commands and tokens.
THEOREM NoRefusedTokenIsServed == AuthSpec => []RefusedStaysOut
<1>1. AuthInit => TokenInv
    BY DEF AuthInit, TokenInv, RefusedIsRevoked, FreshUnlessOvertaken,
           RefusedStaysOut, UserAt, AuthIdle, HasFresh
<1>2. AuthTypes /\ TokenInv /\ [AuthNext]_authVars => (AuthTypes /\ TokenInv)'
    BY AuthTypeStep, TokenStep
<1>3. TokenInv => RefusedStaysOut
    BY DEF TokenInv
<1> QED BY <1>1, <1>2, <1>3, AuthTypeStart, PTL DEF AuthSpec

(***************************************************************************)
(* The file of credentials.                                                *)
(***************************************************************************)

\* Who is about to write has read the other profiles.
DocumentsKeep ==
    \A c \in Users : user[c].at \in {"truncate", "write"} => user[c].doc.others \/ clobbered

FileInv == DocumentsKeep /\ ProfilesKept

LEMMA FileStep == AuthTypes /\ FileInv /\ [AuthNext]_authVars => FileInv'
<1> SUFFICES ASSUME AuthTypes /\ FileInv, [AuthNext]_authVars PROVE FileInv'
    OBVIOUS
<1> USE DEF AuthTypes, AuthTypeOK, UserTypes, Documents, FileInv, DocumentsKeep, ProfilesKept,
        BeingWritten, UserAt, UserGoes, UserGoesWith, UserEnds, NewCall, AuthIdle,
        IdleHasNothing, EmptyFile, authServer, authHistory
<1>1. ASSUME NEW c \in Users, TurnRefused(c) PROVE FileInv'
    BY <1>1 DEF TurnRefused, CircuitOpen
<1>2. ASSUME NEW c \in Users, TurnBegins(c) PROVE FileInv'
    BY <1>2 DEF TurnBegins, CircuitOpen
<1>3. ASSUME NEW c \in Users, CommandBegins(c) PROVE FileInv'
    BY <1>3 DEF CommandBegins, ClearFailures
<1>4. ASSUME NEW c \in Users, GetCached(c) PROVE FileInv'
    BY <1>4 DEF GetCached
<1>5. ASSUME NEW c \in Users, ReadCredentials(c) PROVE FileInv'
    BY <1>5 DEF ReadCredentials
<1>6. ASSUME NEW c \in Users, Validate(c) PROVE FileInv'
  <2>1. DocumentsKeep'
      BY <1>6 DEF Validate
  <2>2. ProfilesKept'
      BY <1>6 DEF Validate
  <2> QED BY <2>1, <2>2
<1>7. ASSUME NEW c \in Users, FillCache(c) PROVE FileInv'
    BY <1>7 DEF FillCache
<1>8. ASSUME NEW c \in Users, Login(c) PROVE FileInv'
    BY <1>8 DEF Login
<1>9. ASSUME NEW c \in Users, LoginFails(c) PROVE FileInv'
    BY <1>9 DEF LoginFails, NotRenewed
<1>10. ASSUME NEW c \in Users, LoadDocument(c) PROVE FileInv'
    BY <1>10 DEF LoadDocument
<1>11. ASSUME NEW c \in Users, Truncate(c) PROVE FileInv'
    BY <1>11 DEF Truncate
<1>12. ASSUME NEW c \in Users, WriteDocument(c) PROVE FileInv'
    BY <1>12 DEF WriteDocument, Saved
<1>13. ASSUME NEW c \in Users, SaveFails(c) PROVE FileInv'
    BY <1>13 DEF SaveFails, NotRenewed
<1>14. ASSUME NEW c \in Users, RenewalClears(c) PROVE FileInv'
    BY <1>14 DEF RenewalClears, ClearFailures
<1>15. ASSUME NEW c \in Users, RunSucceeds(c) PROVE FileInv'
    BY <1>15 DEF RunSucceeds, ClearFailures
<1>16. ASSUME NEW c \in Users, RunFailsOtherwise(c) PROVE FileInv'
    BY <1>16 DEF RunFailsOtherwise
<1>17. ASSUME NEW c \in Users, RunIsRefused(c) PROVE FileInv'
    BY <1>17 DEF RunIsRefused
<1>18. ASSUME NEW c \in Users, InvalidateToken(c) PROVE FileInv'
  <2>1. DocumentsKeep'
      BY SMTT(30), <1>18 DEF InvalidateToken
  <2>2. UNCHANGED <<credentials, clobbered>>
      BY <1>18 DEF InvalidateToken
  <2>3. \A d \in Users : user[d].at = "write" => user'[d] = user[d]
      BY <1>18 DEF InvalidateToken
  <2>4. ProfilesKept'
      BY <2>2, <2>3
  <2> QED BY <2>1, <2>4
<1>19. CASE Cooldown
    BY <1>19 DEF Cooldown, authServer, authHistory
<1>20. ASSUME NEW t \in AuthTokens, Revoke(t) PROVE FileInv'
    BY <1>20 DEF Revoke, authHistory
<1>21. CASE UNCHANGED authVars
    BY <1>21 DEF authVars, authServer, authHistory
<1> QED
    BY <1>1, <1>2, <1>3, <1>4, <1>5, <1>6, <1>7, <1>8, <1>9, <1>10, <1>11,
       <1>12, <1>13, <1>14, <1>15, <1>16, <1>17, <1>18, <1>19, <1>20, <1>21 DEF AuthNext

\* The other profiles survive, for any number of users that renew tokens at once.
THEOREM ProfilesSurvive == AuthSpec => []ProfilesKept
<1>1. AuthInit => FileInv
    BY DEF AuthInit, FileInv, DocumentsKeep, ProfilesKept, AuthIdle
<1>2. AuthTypes /\ FileInv /\ [AuthNext]_authVars => (AuthTypes /\ FileInv)'
    BY AuthTypeStep, FileStep
<1>3. FileInv => ProfilesKept
    BY DEF FileInv
<1> QED BY <1>1, <1>2, <1>3, AuthTypeStart, PTL DEF AuthSpec

(***************************************************************************)
(* The counter of failures.                                                *)
(***************************************************************************)

\* Turns that failed and whose renewal has neither failed nor cleared the counter.
Pending == {c \in Users : user[c].why = "renew" /\ user[c].at # "cache"}

CountInv == failures <= Cardinality(Pending) + unanswered

LEMMA PendingFinite == IsFiniteSet(Pending) /\ Cardinality(Pending) \in Nat
    BY AuthAssumption, FS_Subset, FS_CardinalityType DEF Pending

\* A user that joins or leaves changes their number by one.
LEMMA PendingGrows ==
    ASSUME NEW c \in Users, c \notin Pending, Pending' = Pending \union {c}
    PROVE  Cardinality(Pending') = Cardinality(Pending) + 1
    BY PendingFinite, FS_AddElement

LEMMA PendingShrinks ==
    ASSUME NEW c \in Users, c \in Pending, Pending' = Pending \ {c}
    PROVE  Cardinality(Pending') = Cardinality(Pending) - 1
    BY PendingFinite, FS_RemoveElement

LEMMA CountStep == AuthTypes /\ CountInv /\ [AuthNext]_authVars => CountInv'
<1> SUFFICES ASSUME AuthTypes /\ CountInv, [AuthNext]_authVars PROVE CountInv'
    OBVIOUS
<1> USE DEF AuthTypes, AuthTypeOK, UserTypes, IdleHasNothing, TurnsAreTurns, CountInv, UserAt,
        UserGoes, UserGoesWith, UserEnds, NewCall, AuthIdle, authServer, authHistory
<1>0. Cardinality(Pending)' \in Nat
    BY AuthAssumption, FS_Subset, FS_CardinalityType DEF Pending
<1>1. ASSUME NEW c \in Users, TurnRefused(c) PROVE CountInv'
  <2>1. Pending' = Pending
      BY <1>1 DEF TurnRefused, CircuitOpen, Pending
  <2> QED BY <1>1, <2>1, PendingFinite DEF TurnRefused, CircuitOpen
<1>2. ASSUME NEW c \in Users, TurnBegins(c) PROVE CountInv'
  <2>1. Pending' = Pending
      BY <1>2 DEF TurnBegins, Pending
  <2> QED BY <1>2, <2>1, PendingFinite DEF TurnBegins
<1>3. ASSUME NEW c \in Users, CommandBegins(c) PROVE CountInv'
  <2>1. failures' = 0 /\ unanswered' \in Nat
      BY <1>3 DEF CommandBegins, ClearFailures
  <2> QED BY <2>1, <1>0
<1>4. ASSUME NEW c \in Users, GetCached(c) PROVE CountInv'
  <2>1. Pending' = Pending
      BY <1>4 DEF GetCached, Pending
  <2> QED BY <1>4, <2>1, PendingFinite DEF GetCached
<1>5. ASSUME NEW c \in Users, ReadCredentials(c) PROVE CountInv'
  <2>1. Pending' = Pending
      BY <1>5 DEF ReadCredentials, Pending
  <2> QED BY <1>5, <2>1, PendingFinite DEF ReadCredentials
<1>6. ASSUME NEW c \in Users, Validate(c) PROVE CountInv'
  <2>1. Pending' = Pending
      BY <1>6 DEF Validate, Valid, Pending
  <2> QED BY <1>6, <2>1, PendingFinite DEF Validate, Valid
<1>7. ASSUME NEW c \in Users, FillCache(c) PROVE CountInv'
  <2>1. Pending' = Pending
      BY <1>7 DEF FillCache, Pending
  <2> QED BY <1>7, <2>1, PendingFinite DEF FillCache
<1>8. ASSUME NEW c \in Users, Login(c) PROVE CountInv'
  <2>1. Pending' = Pending
      BY <1>8 DEF Login, Pending
  <2> QED BY <1>8, <2>1, PendingFinite DEF Login
<1>9. ASSUME NEW c \in Users, LoginFails(c) PROVE CountInv'
  <2>1. CASE user[c].why = "renew"
    <3>1. c \in Pending /\ Pending' = Pending \ {c}
        BY <1>9, <2>1 DEF LoginFails, NotRenewed, Pending
    <3>2. failures' = failures /\ unanswered' = unanswered + 1
        BY <1>9, <2>1 DEF LoginFails, NotRenewed
    <3>3. Cardinality(Pending)' = Cardinality(Pending) - 1
        BY <3>1, PendingShrinks
    <3> QED BY <3>2, <3>3, PendingFinite
  <2>2. CASE user[c].why # "renew"
    <3>1. Pending' = Pending
        BY <1>9, <2>2 DEF LoginFails, NotRenewed, Pending
    <3>2. failures' = failures /\ unanswered' = unanswered
        BY <1>9, <2>2 DEF LoginFails, NotRenewed
    <3> QED BY <3>1, <3>2, PendingFinite
  <2> QED BY <2>1, <2>2
<1>10. ASSUME NEW c \in Users, LoadDocument(c) PROVE CountInv'
  <2>1. Pending' = Pending
      BY <1>10 DEF LoadDocument, Pending
  <2> QED BY <1>10, <2>1, PendingFinite DEF LoadDocument
<1>11. ASSUME NEW c \in Users, Truncate(c) PROVE CountInv'
  <2>1. Pending' = Pending
      BY <1>11 DEF Truncate, Pending
  <2> QED BY <1>11, <2>1, PendingFinite DEF Truncate
<1>12. ASSUME NEW c \in Users, WriteDocument(c) PROVE CountInv'
  <2>1. Pending' = Pending
      BY <1>12 DEF WriteDocument, Saved, Pending
  <2> QED BY <1>12, <2>1, PendingFinite DEF WriteDocument, Saved
<1>13. ASSUME NEW c \in Users, SaveFails(c) PROVE CountInv'
  <2>1. CASE user[c].why = "renew"
    <3>1. c \in Pending /\ Pending' = Pending \ {c}
        BY <1>13, <2>1 DEF SaveFails, NotRenewed, Pending
    <3>2. failures' = failures /\ unanswered' = unanswered + 1
        BY <1>13, <2>1 DEF SaveFails, NotRenewed
    <3>3. Cardinality(Pending)' = Cardinality(Pending) - 1
        BY <3>1, PendingShrinks
    <3> QED BY <3>2, <3>3, PendingFinite
  <2>2. CASE user[c].why # "renew"
    <3>1. Pending' = Pending
        BY <1>13, <2>2 DEF SaveFails, NotRenewed, Pending
    <3>2. failures' = failures /\ unanswered' = unanswered
        BY <1>13, <2>2 DEF SaveFails, NotRenewed
    <3> QED BY <3>1, <3>2, PendingFinite
  <2> QED BY <2>1, <2>2
<1>14. ASSUME NEW c \in Users, RenewalClears(c) PROVE CountInv'
  <2>1. failures' = 0 /\ unanswered' \in Nat
      BY <1>14 DEF RenewalClears, ClearFailures
  <2> QED BY <2>1, <1>0
<1>15. ASSUME NEW c \in Users, RunSucceeds(c) PROVE CountInv'
  <2>1. failures' = 0 /\ unanswered' \in Nat
      BY <1>15 DEF RunSucceeds, ClearFailures
  <2> QED BY <2>1, <1>0
<1>16. ASSUME NEW c \in Users, RunFailsOtherwise(c) PROVE CountInv'
  <2>1. Pending' = Pending
      BY <1>16 DEF RunFailsOtherwise, Pending
  <2> QED BY <1>16, <2>1, PendingFinite DEF RunFailsOtherwise
<1>17. ASSUME NEW c \in Users, RunIsRefused(c) PROVE CountInv'
  <2>1. PICK why \in {"renew", "give_up"} :
            /\ user' = [user EXCEPT ![c].at = "invalidate", ![c].why = why]
            /\ unanswered' = IF why = "renew" THEN unanswered ELSE unanswered + 1
      BY <1>17 DEF RunIsRefused
  <2>2. failures' = failures + 1 /\ c \notin Pending
      BY <1>17 DEF RunIsRefused, Pending
  <2>3. CASE why = "renew"
    <3>1. Pending' = Pending \union {c}
        BY <2>1, <2>3 DEF Pending
    <3>2. Cardinality(Pending)' = Cardinality(Pending) + 1
        BY <2>2, <3>1, PendingGrows
    <3> QED BY <2>1, <2>2, <2>3, <3>2, PendingFinite
  <2>4. CASE why = "give_up"
    <3>1. Pending' = Pending
        BY <2>1, <2>2, <2>4 DEF Pending
    <3> QED BY <2>1, <2>2, <2>4, <3>1, PendingFinite
  <2> QED BY <2>3, <2>4
<1>18. ASSUME NEW c \in Users, InvalidateToken(c) PROVE CountInv'
  <2>1. Pending' = Pending
      BY <1>18 DEF InvalidateToken, Invalidated, Pending
  <2> QED BY <1>18, <2>1, PendingFinite DEF InvalidateToken, Invalidated
<1>19. CASE Cooldown
  <2>1. Pending' = Pending /\ UNCHANGED <<failures, unanswered>>
      BY <1>19 DEF Cooldown, authServer, authHistory, Pending
  <2> QED BY <2>1
<1>20. ASSUME NEW t \in AuthTokens, Revoke(t) PROVE CountInv'
  <2>1. Pending' = Pending /\ UNCHANGED <<failures, unanswered>>
      BY <1>20 DEF Revoke, authHistory, Pending
  <2> QED BY <2>1
<1>21. CASE UNCHANGED authVars
  <2>1. Pending' = Pending /\ UNCHANGED <<failures, unanswered>>
      BY <1>21 DEF authVars, authServer, authHistory, Pending
  <2> QED BY <2>1
<1> QED
    BY <1>1, <1>2, <1>3, <1>4, <1>5, <1>6, <1>7, <1>8, <1>9, <1>10, <1>11,
       <1>12, <1>13, <1>14, <1>15, <1>16, <1>17, <1>18, <1>19, <1>20, <1>21 DEF AuthNext

\* The circuit counts only failures that no new token has answered: for any number of
\* turns and any threshold.
THEOREM CircuitCountsUnanswered == AuthSpec => []CountedIsUnanswered
<1>1. AuthInit => CountInv
    BY PendingFinite DEF AuthInit, CountInv
<1>2. AuthTypes /\ CountInv /\ [AuthNext]_authVars => (AuthTypes /\ CountInv)'
    BY AuthTypeStep, CountStep
<1>3. AuthTypes /\ CountInv => CountedIsUnanswered
  <2> SUFFICES ASSUME AuthTypes, CountInv PROVE CountedIsUnanswered
      OBVIOUS
  <2>1. Pending \subseteq Renewing /\ IsFiniteSet(Renewing)
      BY AuthAssumption, FS_Subset DEF Pending, Renewing
  <2>2. Cardinality(Pending) <= Cardinality(Renewing) /\ Cardinality(Renewing) \in Nat
      BY <2>1, FS_Subset, FS_CardinalityType
  <2> QED BY <2>2, PendingFinite DEF CountInv, CountedIsUnanswered, AuthTypes, AuthTypeOK
<1> QED BY <1>1, <1>2, <1>3, AuthTypeStart, PTL DEF AuthSpec
=============================================================================
