------------------------------ MODULE CodexPool ------------------------------
(***************************************************************************)
(* The turns of one conversation on its app server (codex_app_pool.rs, and *)
(* the pool task and the steering branch of runner.rs): the Codex and the  *)
(* Astra profiles.                                                         *)
(*                                                                         *)
(* The pool task of a turn begins it, forwards its events and takes the    *)
(* result; the ingress worker steers it; the main loop answers approvals   *)
(* and kills the process.  They send requests and wait for the responses,  *)
(* the first and the last two with the lock of the pool.  One task reads   *)
(* the server: responses by their id, notifications into the fields of the *)
(* handle, which do not say whose turn they are about.                     *)
(*                                                                         *)
(* The turn id the server gives to the turn of message t is t.  Events     *)
(* carry their turn; the thread id, usage and tool names are left out.     *)
(* The runner that reads progress is in ClaudeTurns.                       *)
(***************************************************************************)
EXTENDS Naturals, Sequences, FiniteSets

CONSTANTS
    Turns,         \* bound: turns that are run
    Astra,         \* the profile is Astra, which may fall back to a one-shot run
    Events,        \* bound: text deltas the server writes for one turn
    Disturbances,  \* bound: cancelled turns, follow-ups, approvals, exits and kills together
    PoolCapacity   \* capacity of the channel of a turn (256)

ASSUME CodexAssumption ==
    /\ {Turns, Events, Disturbances} \subseteq Nat
    /\ Astra \in BOOLEAN
    /\ PoolCapacity \in Nat \ {0}

VARIABLES
    turn,       \* turns begun so far; the last one is the current turn
    cancelled,  \* turns whose token /esc cancelled
    returned,   \* turn -> what its pool task returned
    task,       \* the pool task of the current turn: [at, proc]
    pipe,       \* events in the channel of the current turn
    lock,       \* who awaits a response with the pool's lock: "turn", "approve" or "free"
    present,    \* the pool has a handle for the conversation
    handle,     \* its ProcessHandle
    call,       \* caller -> its request in flight and the response
    asked,      \* requests so far; the last id
    server,     \* the process: [up, in, turn, emitted, asking, out]
    reader,     \* stdout_reader_task: "read", "push" or "gone"
    steer,      \* the follow-up that steers: [n, at, proc, aim]
    outcome,    \* follow-ups -> the CodexSteerOutcome
    approvals,  \* approvals asked for so far, and answers to them: [asked, given]
    exits,      \* exits and kills so far
    applied,    \* the server's turn each follow-up was applied to, or 0
    runs,       \* turn -> how often its message began to run
    ended,      \* turns that were completed
    crossed     \* turns whose server died with their turn/start unanswered

taskVars    == <<turn, cancelled, returned, task, pipe>>
handleVars  == <<present, handle, reader>>
callVars    == <<call, asked>>
steerVars   == <<steer, outcome>>
historyVars == <<applied, runs, ended, crossed>>

vars == <<taskVars, lock, handleVars, callVars, server, steerVars, approvals, exits,
          historyVars>>

Ids == 1 .. Turns
Followups == 1 .. Disturbances
Callers == {"turn", "steer", "approve"}

Nothing == [kind |-> "none", text |-> {}]

\* The handle of a process that is not spawned; process 0 never existed.
NewHandle(p) ==
    [proc |-> p, slot |-> 0, active |-> 0, text |-> {}, failed |-> FALSE,
     approval |-> 0, closing |-> FALSE]

NoServer  == [up |-> FALSE, in |-> << >>, turn |-> 0, emitted |-> 0, asking |-> 0, out |-> << >>]
NewServer == [NoServer EXCEPT !.up = TRUE]

NoCall == [id |-> 0, reply |-> "none"]
NoSteer == [n |-> 0, at |-> "idle", proc |-> 0, aim |-> 0]

Init ==
    /\ turn = 0 /\ cancelled = {} /\ returned = [t \in Ids |-> Nothing]
    /\ task = [at |-> "idle", proc |-> 0] /\ pipe = 0
    /\ lock = "free"
    /\ present = FALSE /\ handle = NewHandle(0) /\ reader = "gone"
    /\ call = [w \in Callers |-> NoCall] /\ asked = 0
    /\ server = NoServer
    /\ steer = NoSteer /\ outcome = << >>
    /\ approvals = [asked |-> 0, given |-> 0] /\ exits = 0
    /\ applied = [n \in Followups |-> 0]
    /\ runs = [t \in Ids |-> 0] /\ ended = {} /\ crossed = {}

\* One more may disturb the turns.
Undisturbed == Cardinality(cancelled) + steer.n + approvals.asked + exits < Disturbances

-----------------------------------------------------------------------------
(* Requests: request_classified.                                           *)

\* A request to process p is written while its writer lives.  Afterwards the
\* channel refuses it, or still takes it and nobody reads it.
Reaches(p) == present /\ handle.proc = p /\ server.up /\ ~handle.closing

Request(caller, p, request) ==
    /\ call[caller].id = 0
    /\ asked' = asked + 1
    /\ \/ /\ Reaches(p)
          /\ server' = [server EXCEPT !.in = Append(@, [request EXCEPT !.id = asked + 1])]
          /\ call' = [call EXCEPT ![caller] = [id |-> asked + 1, reply |-> "none"]]
       \/ /\ ~Reaches(p)
          /\ \E reply \in {"error", "none"} :
                 call' = [call EXCEPT ![caller] = [id |-> asked + 1, reply |-> reply]]
          /\ UNCHANGED server

TurnStart == [method |-> "start", id |-> 0, turn |-> turn, what |-> 0]

Waits(caller)    == call[caller].id # 0 /\ call[caller].reply = "none"
Answered(caller) == call[caller].id # 0 /\ call[caller].reply # "none"
Forget(caller)   == call' = [call EXCEPT ![caller] = NoCall]

\* Whether a failed request may have been received: a response with an error and a
\* closed channel say no.
Unknown_NotOnTimeout(reply) == reply \in {"eof", "closed"}
Unknown(reply) == reply \in {"eof", "closed", "timeout"}

\* APP_SERVER_RPC_TIMEOUT for every request but APPROVAL_RESPONSE_TIMEOUT for approvals.
HasTimeout_SteerOnly(caller) == caller = "steer"
HasTimeout(caller) == caller \in Callers

Expire(caller) ==
    /\ HasTimeout(caller) /\ Waits(caller)
    /\ call' = [call EXCEPT ![caller].reply = "timeout"]
    /\ UNCHANGED <<taskVars, lock, handleVars, asked, server, steerVars, approvals,
                   exits, historyVars>>

\* fail_pending: every waiter learns that there will be no response.
FailPending(reply) ==
    [w \in Callers |-> IF Waits(w) THEN [call[w] EXCEPT !.reply = reply] ELSE call[w]]

-----------------------------------------------------------------------------
(* The pool task: begin_turn.                                              *)

At(place) == task.at = place
Goto(place) == task' = [task EXCEPT !.at = place]
Return(kind, text) ==
    /\ returned' = [returned EXCEPT ![turn] = [kind |-> kind, text |-> text]]
    /\ task' = [at |-> "idle", proc |-> 0]
    /\ pipe' = 0

StartTurn ==
    /\ At("idle")
    /\ turn < Turns
    /\ turn' = turn + 1
    /\ Goto("begin")
    /\ UNCHANGED <<cancelled, returned, pipe, lock, handleVars, callVars, server,
                   steerVars, approvals, exits, historyVars>>

\* /esc or /cancel, while the turn is registered.
Cancel ==
    /\ ~At("idle")
    /\ turn \notin cancelled
    /\ Undisturbed
    /\ cancelled' = cancelled \union {turn}
    /\ UNCHANGED <<turn, returned, task, pipe, lock, handleVars, callVars, server,
                   steerVars, approvals, exits, historyVars>>

Alive == present /\ ~handle.closing

\* A new turn gets its channel, and what the fields say of the last one is cleared.
Fresh_TextKept(h) == [h EXCEPT !.slot = turn, !.active = 0, !.failed = FALSE, !.approval = 0]
Fresh_SlotForgotten(h) == [h EXCEPT !.active = 0, !.text = {}, !.failed = FALSE, !.approval = 0]
Fresh(h) == [h EXCEPT !.slot = turn, !.active = 0, !.text = {}, !.failed = FALSE,
                      !.approval = 0]

\* The handle is used, or replaced by that of a process that answered initialize and
\* thread/resume or thread/start; then turn/start is sent.
Prepare ==
    /\ At("begin")
    /\ lock = "free"
    /\ lock' = "turn"
    /\ present' = TRUE
    /\ \/ /\ Alive
          /\ handle' = Fresh(handle)
          /\ Request("turn", handle.proc, TurnStart)
          /\ UNCHANGED reader
       \/ /\ ~Alive
          /\ handle' = Fresh(NewHandle(handle.proc + 1))
          /\ server' = [NewServer EXCEPT !.in = <<[TurnStart EXCEPT !.id = asked + 1]>>]
          /\ asked' = asked + 1
          /\ call' = [call EXCEPT !["turn"] = [id |-> asked + 1, reply |-> "none"]]
          /\ reader' = "read"
    /\ task' = [at |-> "starting", proc |-> handle'.proc]
    /\ UNCHANGED <<turn, cancelled, returned, pipe, steerVars, approvals, exits,
                   historyVars>>

\* The process cannot be spawned or does not answer.  "startup" are the errors of
\* is_astra_app_server_startup_error.
SpawnFails(startup) ==
    /\ At("begin")
    /\ lock = "free"
    /\ ~Alive
    /\ present' = FALSE
    /\ handle' = NewHandle(handle.proc)
    /\ \/ /\ Astra /\ startup
          /\ Goto("oneshot")
          /\ UNCHANGED <<returned, pipe>>
       \/ /\ ~(Astra /\ startup)
          /\ Return("error", {})
    /\ server' = NoServer
    /\ reader' = "gone"
    /\ UNCHANGED <<turn, cancelled, lock, callVars, steerVars, approvals, exits,
                   historyVars>>

\* The response is there; the reader may be many lines further when the task that
\* waited for it writes the turn id.
Started ==
    /\ At("starting")
    /\ call["turn"].reply = "ok"
    /\ handle' = IF present /\ handle.proc = task.proc THEN [handle EXCEPT !.active = turn]
                                                       ELSE handle
    /\ Forget("turn")
    /\ lock' = "free"
    /\ Goto("forward")
    /\ UNCHANGED <<turn, cancelled, returned, pipe, present, reader, asked, server,
                   steerVars, approvals, exits, historyVars>>

\* Errors of is_astra_app_server_startup_error that turn/start can end with.
FallsBack_OnAny(reply) == Astra
FallsBack(reply) == Astra /\ reply = "eof"

StartFails ==
    /\ At("starting")
    /\ Answered("turn")
    /\ call["turn"].reply # "ok"
    /\ Forget("turn")
    /\ lock' = "free"
    /\ \/ /\ FallsBack(call["turn"].reply)
          /\ Goto("oneshot")
          /\ UNCHANGED <<returned, pipe>>
       \/ /\ ~FallsBack(call["turn"].reply)
          /\ Return(IF Unknown(call["turn"].reply) THEN "unknown" ELSE "error", {})
    /\ UNCHANGED <<turn, cancelled, handleVars, asked, server, steerVars, approvals, exits,
                   historyVars>>

\* run_cli_with_cancel runs the message in a process of its own, which ends.
OneShot ==
    /\ At("oneshot")
    /\ runs' = [runs EXCEPT ![turn] = @ + 1]
    /\ ended' = ended \union {turn}
    /\ Return("ok", {turn})
    /\ UNCHANGED <<turn, cancelled, lock, handleVars, callVars, server, steerVars,
                   approvals, exits, applied, crossed>>

-----------------------------------------------------------------------------
(* The pool task: events, cancellation, deadline and result.               *)

Listening == {"forward", "interrupting", "asking", "drain"}

\* The sender in the slot of process p belongs to the current turn.
SlotOpen == present /\ handle.proc = task.proc /\ handle.slot = turn

TakeEvent ==
    /\ task.at \in {"forward", "drain"}
    /\ pipe > 0
    /\ pipe' = pipe - 1
    /\ UNCHANGED <<turn, cancelled, returned, task, lock, handleVars, callVars, server,
                   steerVars, approvals, exits, historyVars>>

\* No sender is left: the slot was closed, and the reader holds no clone of it.
PipeEnds ==
    /\ task.at \in {"forward", "drain"}
    /\ pipe = 0
    /\ ~SlotOpen /\ reader # "push"
    /\ Goto("take")
    /\ UNCHANGED <<turn, cancelled, returned, pipe, lock, handleVars, callVars, server,
                   steerVars, approvals, exits, historyVars>>

NoticeCancel ==
    /\ At("forward")
    /\ turn \in cancelled
    /\ Goto("interrupting")
    /\ UNCHANGED <<turn, cancelled, returned, pipe, lock, handleVars, callVars, server,
                   steerVars, approvals, exits, historyVars>>

\* interrupt names the turn that is active.
Interrupt ==
    /\ At("interrupting")
    /\ lock = "free"
    /\ \/ /\ present /\ handle.active # 0
          /\ Request("turn", handle.proc,
                     [method |-> "interrupt", id |-> 0, turn |-> handle.active, what |-> 0])
          /\ lock' = "turn"
          /\ Goto("asking")
       \/ /\ ~(present /\ handle.active # 0)
          /\ Goto("drain")
          /\ UNCHANGED <<lock, callVars, server>>
    /\ UNCHANGED <<turn, cancelled, returned, pipe, handleVars, steerVars, approvals, exits,
                   historyVars>>

Interrupted ==
    /\ At("asking")
    /\ Answered("turn")
    /\ Forget("turn")
    /\ lock' = "free"
    /\ Goto("drain")
    /\ UNCHANGED <<turn, cancelled, returned, pipe, handleVars, asked, server, steerVars,
                   approvals, exits, historyVars>>

DrainExpires ==
    /\ At("drain")
    /\ Goto("take")
    /\ UNCHANGED <<turn, cancelled, returned, pipe, lock, handleVars, callVars, server,
                   steerVars, approvals, exits, historyVars>>

\* kill: the handle leaves the pool and its token is cancelled, which ends the
\* process and its tasks and fails what is pending.
Kill ==
    /\ present' = FALSE
    /\ handle' = NewHandle(handle.proc)
    /\ server' = NoServer
    /\ reader' = "gone"
    /\ call' = IF present THEN FailPending("closed") ELSE call

\* The deadline of the turn, cli_timeout.
Timeout ==
    /\ At("forward")
    /\ lock = "free"
    /\ Kill
    /\ Return("error", {})
    /\ UNCHANGED <<turn, cancelled, lock, asked, steerVars, approvals, exits, historyVars>>

\* result: whatever the fields of the handle say now.
TakeResult ==
    /\ At("take")
    /\ lock = "free"
    /\ \/ present /\ handle.failed /\ Return("failed", {})
       \/ present /\ ~handle.failed /\ Return("ok", handle.text)
       \/ ~present /\ Return("error", {})
    /\ UNCHANGED <<turn, cancelled, lock, handleVars, callVars, server, steerVars,
                   approvals, exits, historyVars>>

-----------------------------------------------------------------------------
(* The ingress worker: prepare_steer and execute.                          *)

StillHas(p) == present /\ handle.proc = p

\* The handle is taken under the lock and used without it.
PrepareSteer ==
    /\ steer.at = "idle"
    /\ Undisturbed
    /\ ~At("idle")
    /\ lock = "free"
    /\ \/ /\ present
          /\ steer' = [n |-> steer.n + 1, at |-> "aim", proc |-> handle.proc, aim |-> 0]
          /\ UNCHANGED outcome
       \/ /\ ~present
          /\ steer' = [steer EXCEPT !.n = @ + 1]
          /\ outcome' = Append(outcome, "noActiveTurn")
    /\ UNCHANGED <<taskVars, lock, handleVars, callVars, server, approvals, exits,
                   historyVars>>

\* turn/steer expects the turn that is active; a process that was killed since may
\* have forgotten it or not.
ExecuteSteer ==
    /\ steer.at = "aim"
    /\ \/ /\ ~(StillHas(steer.proc) /\ handle.active # 0)
          /\ steer' = [steer EXCEPT !.at = "idle"]
          /\ outcome' = Append(outcome, "noActiveTurn")
          /\ UNCHANGED <<callVars, server>>
       \/ /\ StillHas(steer.proc) => handle.active # 0
          /\ Request("steer", steer.proc, [method |-> "steer", id |-> 0,
                                           turn |-> handle.active, what |-> steer.n])
          /\ steer' = [steer EXCEPT !.at = "asking",
                                    !.aim = IF StillHas(steer.proc) THEN handle.active ELSE 0]
          /\ UNCHANGED outcome
    /\ UNCHANGED <<taskVars, lock, handleVars, approvals, exits, historyVars>>

SteerOutcome(reply) ==
    CASE reply = "ok" -> "accepted"
      [] Unknown(reply) -> "outcomeUnknown"
      [] OTHER -> "rejected"

Steered ==
    /\ steer.at = "asking"
    /\ Answered("steer")
    /\ outcome' = Append(outcome, SteerOutcome(call["steer"].reply))
    /\ steer' = [steer EXCEPT !.at = "idle", !.aim = 0]
    /\ Forget("steer")
    /\ UNCHANGED <<taskVars, lock, handleVars, asked, server, approvals, exits, historyVars>>

-----------------------------------------------------------------------------
(* The main loop: /approve, /deny, and the commands that kill the process. *)

Approve ==
    /\ lock = "free"
    /\ present /\ handle.approval # 0
    /\ approvals.given < approvals.asked
    /\ approvals' = [approvals EXCEPT !.given = @ + 1]
    /\ Request("approve", handle.proc, [method |-> "approval", id |-> 0, turn |-> 0,
                                        what |-> handle.approval])
    /\ lock' = "approve"
    /\ UNCHANGED <<taskVars, handleVars, steerVars, exits, historyVars>>

\* The approval that was answered is forgotten, and so is one that came since.
Approved ==
    /\ Answered("approve")
    /\ handle' = IF call["approve"].reply = "ok" THEN [handle EXCEPT !.approval = 0]
                                                 ELSE handle
    /\ Forget("approve")
    /\ lock' = "free"
    /\ UNCHANGED <<taskVars, present, reader, asked, server, steerVars, approvals, exits,
                   historyVars>>

KillCommand ==
    /\ lock = "free"
    /\ present
    /\ Undisturbed
    /\ exits' = exits + 1
    /\ Kill
    /\ UNCHANGED <<taskVars, lock, asked, steerVars, approvals, historyVars>>

-----------------------------------------------------------------------------
(* The app server, which is not in the repository.                         *)

Line(type, n, good) == [type |-> type, n |-> n, good |-> good]
Response(request, good) == Line("response", request.id, good)

\* It completes the turn it works on, if any.
Completion(good) == IF server.turn = 0 THEN << >> ELSE <<Line("completed", server.turn, good)>>
Completed == ended' = ended \union ({server.turn} \ {0})

ReadStart ==
    LET request == Head(server.in) IN
    /\ request.method = "start"
    /\ \/ /\ server' = [server EXCEPT !.in = Tail(@), !.turn = request.turn, !.emitted = 0,
                             !.asking = 0,
                             !.out = @ \o Completion(TRUE)
                                       \o <<Response(request, TRUE), Line("started", request.turn, TRUE)>>]
          /\ runs' = [runs EXCEPT ![request.turn] = @ + 1]
          /\ Completed
       \/ /\ server' = [server EXCEPT !.in = Tail(@), !.out = Append(@, Response(request, FALSE))]
          /\ UNCHANGED <<runs, ended>>
    /\ UNCHANGED <<applied>>

ReadSteer ==
    LET request == Head(server.in) IN
    /\ request.method = "steer"
    /\ \E good \in {FALSE, server.turn = request.turn} :
          /\ server' = [server EXCEPT !.in = Tail(@), !.out = Append(@, Response(request, good))]
          /\ applied' = IF good THEN [applied EXCEPT ![request.what] = server.turn] ELSE applied
    /\ UNCHANGED <<runs, ended>>

ReadInterrupt ==
    LET request == Head(server.in)
        fits    == server.turn = request.turn IN
    /\ request.method = "interrupt"
    /\ server' = [server EXCEPT
            !.in = Tail(@),
            !.turn = IF fits THEN 0 ELSE @,
            !.asking = IF fits THEN 0 ELSE @,
            !.out = @ \o <<Response(request, fits)>> \o (IF fits THEN Completion(TRUE) ELSE << >>)]
    /\ IF fits THEN Completed ELSE UNCHANGED ended
    /\ UNCHANGED <<runs, applied>>

ReadApproval ==
    LET request == Head(server.in)
        fits    == server.asking = request.what IN
    /\ request.method = "approval"
    /\ server' = [server EXCEPT !.in = Tail(@),
                                !.asking = IF fits THEN 0 ELSE @,
                                !.out = Append(@, Response(request, fits))]
    /\ UNCHANGED <<runs, ended, applied>>

ReadRequest ==
    /\ server.up
    /\ server.in # << >>
    /\ ReadStart \/ ReadSteer \/ ReadInterrupt \/ ReadApproval
    /\ UNCHANGED <<taskVars, lock, handleVars, callVars, steerVars, approvals, exits, crossed>>

EmitDelta ==
    /\ server.turn # 0
    /\ server.emitted < Events
    /\ server' = [server EXCEPT !.emitted = @ + 1, !.out = Append(@, Line("delta", server.turn, TRUE))]
    /\ UNCHANGED <<taskVars, lock, handleVars, callVars, steerVars, approvals, exits,
                   historyVars>>

AskApproval ==
    /\ Astra
    /\ server.turn # 0 /\ server.asking = 0
    /\ Undisturbed
    /\ approvals' = [approvals EXCEPT !.asked = @ + 1]
    /\ server' = [server EXCEPT !.asking = approvals.asked + 1,
                                !.out = Append(@, Line("approval", approvals.asked + 1, TRUE))]
    /\ UNCHANGED <<taskVars, lock, handleVars, callVars, steerVars, exits, historyVars>>

CompleteTurn(good) ==
    /\ server.turn # 0
    /\ server' = [server EXCEPT !.turn = 0, !.asking = 0, !.out = @ \o Completion(good)]
    /\ Completed
    /\ UNCHANGED <<taskVars, lock, handleVars, callVars, steerVars, approvals, exits,
                   applied, runs, crossed>>

Exit ==
    /\ server.up
    /\ Undisturbed
    /\ exits' = exits + 1
    /\ server' = [server EXCEPT !.up = FALSE, !.in = << >>, !.turn = 0, !.asking = 0]
    /\ UNCHANGED <<taskVars, lock, handleVars, callVars, steerVars, approvals, historyVars>>

-----------------------------------------------------------------------------
(* stdout_reader_task, and the task that waits for the process.            *)

Reap ==
    /\ present /\ ~server.up
    /\ ~handle.closing
    /\ handle' = [handle EXCEPT !.closing = TRUE]
    /\ UNCHANGED <<taskVars, lock, present, reader, callVars, server, steerVars, approvals,
                   exits, historyVars>>

\* The receiver of the slot is dropped when its pool task has returned or fell back.
Receives == handle.slot = turn /\ task.at \in {"starting", "take"} \union Listening
                /\ task.proc = handle.proc

HasRoom == pipe < PoolCapacity

\* turn/completed, whichever turn it is about.
Closed(h) == [h EXCEPT !.slot = 0, !.active = 0, !.approval = 0]

\* What a notification does to the fields.
Noted(h, line) ==
    CASE line.type = "started"   -> [h EXCEPT !.active = line.n]
      [] line.type = "delta"     -> [h EXCEPT !.text = @ \union {line.n}]
      [] line.type = "completed" -> Closed([h EXCEPT !.failed = @ \/ ~line.good])
      [] line.type = "approval"  -> [h EXCEPT !.approval = line.n]
      [] OTHER -> h

ReadLine ==
    LET line == Head(server.out) IN
    /\ reader = "read"
    /\ server.out # << >>
    /\ server' = [server EXCEPT !.out = Tail(@)]
    /\ handle' = Noted(handle, line)
    /\ call' = [w \in Callers |->
                  IF line.type = "response" /\ call[w].id = line.n /\ Waits(w)
                    THEN [call[w] EXCEPT !.reply = IF line.good THEN "ok" ELSE "error"]
                    ELSE call[w]]
    /\ \/ /\ line.type \in {"delta", "approval"} /\ Receives
          /\ \/ HasRoom /\ pipe' = pipe + 1 /\ reader' = "read"
             \/ ~HasRoom /\ reader' = "push" /\ UNCHANGED pipe
       \/ /\ ~(line.type \in {"delta", "approval"} /\ Receives)
          /\ UNCHANGED <<reader, pipe>>
    /\ UNCHANGED <<turn, cancelled, returned, task, lock, present, asked, steerVars,
                   approvals, exits, historyVars>>

\* send_progress waits for room, or until the receiver is dropped.
PushEvent ==
    /\ reader = "push"
    /\ \/ Receives /\ HasRoom /\ pipe' = pipe + 1
       \/ ~Receives /\ UNCHANGED pipe
    /\ reader' = "read"
    /\ UNCHANGED <<turn, cancelled, returned, task, lock, present, handle, callVars, server,
                   steerVars, approvals, exits, historyVars>>

\* mark_process_failed and fail_pending, at the end of the output or because the token
\* was cancelled before the rest was read.
ReaderStops(reply) ==
    /\ reader = "read"
    /\ \/ reply = "eof" /\ ~server.up /\ server.out = << >>
       \/ reply = "closed" /\ handle.closing
    /\ handle' = [Closed(handle) EXCEPT !.failed = TRUE, !.closing = TRUE]
    /\ call' = FailPending(reply)
    /\ crossed' = IF At("starting") /\ Waits("turn") THEN crossed \union {turn} ELSE crossed
    /\ reader' = "gone"
    /\ UNCHANGED <<taskVars, lock, present, asked, server, steerVars, approvals, exits,
                   applied, runs, ended>>

-----------------------------------------------------------------------------

TaskStep ==
    \/ Prepare \/ (\E startup \in BOOLEAN : SpawnFails(startup)) \/ Started
    \/ StartFails \/ OneShot \/ TakeEvent \/ PipeEnds \/ NoticeCancel \/ Interrupt
    \/ Interrupted \/ TakeResult

ReaderStep == ReadLine \/ PushEvent \/ (\E reply \in {"eof", "closed"} : ReaderStops(reply))

ServerStep ==
    \/ ReadRequest \/ EmitDelta \/ AskApproval \/ Exit
    \/ \E good \in BOOLEAN : CompleteTurn(good)

Next ==
    \/ StartTurn \/ Cancel \/ TaskStep \/ DrainExpires \/ Timeout
    \/ (\E w \in Callers : Expire(w))
    \/ PrepareSteer \/ ExecuteSteer \/ Steered
    \/ Approve \/ Approved \/ KillCommand
    \/ ServerStep \/ Reap \/ ReaderStep

Spec == Init /\ [][Next]_vars

\* Tasks run and timers fire; the server, users and exits are not fair.
Fairness ==
    /\ WF_vars(TaskStep) /\ WF_vars(DrainExpires) /\ WF_vars(Timeout)
    /\ \A w \in Callers : WF_vars(Expire(w))
    /\ WF_vars(Steered) /\ WF_vars(Approved)
    /\ WF_vars(Reap) /\ WF_vars(ReaderStep)

FairSpec == Spec /\ Fairness

-----------------------------------------------------------------------------
(* Properties. *)

Replies == {"none", "ok", "error", "eof", "closed", "timeout"}

TypeOK ==
    /\ turn \in 0 .. Turns
    /\ cancelled \subseteq 1 .. turn
    /\ returned \in [Ids -> [kind : {"none", "ok", "failed", "error", "unknown"}, text : SUBSET Ids]]
    /\ task \in [at : {"idle", "begin", "starting", "oneshot", "take"} \union Listening,
                 proc : 0 .. handle.proc]
    /\ pipe \in 0 .. PoolCapacity
    /\ lock \in {"free", "turn", "approve"}
    /\ present \in BOOLEAN
    /\ handle \in [proc : 0 .. turn, slot : 0 .. turn, active : 0 .. turn, text : SUBSET Ids,
                   failed : BOOLEAN, approval : 0 .. approvals.asked, closing : BOOLEAN]
    /\ call \in [Callers -> [id : 0 .. asked, reply : Replies]]
    /\ server.turn \in 0 .. turn /\ server.asking \in 0 .. approvals.asked
    /\ reader \in {"read", "push", "gone"}
    /\ steer \in [n : 0 .. Disturbances, at : {"idle", "aim", "asking"}, proc : 0 .. handle.proc,
                  aim : 0 .. turn]
    /\ outcome \in Seq({"accepted", "noActiveTurn", "rejected", "outcomeUnknown"})
    /\ applied \in [Followups -> 0 .. turn]
    /\ runs \in [Ids -> Nat]

\* A follow-up that goes back to the queue was not applied, and one that is settled was:
\* neither is run twice or dropped.
RequeuedWasNotApplied ==
    \A n \in 1 .. Len(outcome) :
        /\ outcome[n] \in {"rejected", "noActiveTurn"} => applied[n] = 0
        /\ outcome[n] = "accepted" => applied[n] # 0

\* Turns that ended for the gateway while the server may still work on them: cancelled,
\* or begun with a turn/start that was never answered.
Adrift == {t \in Ids : t \in cancelled \/ returned[t].kind = "unknown"}

\* A turn from t on down was left adrift: what the server writes of it closes the slots
\* of later turns, which then end before the server is done with them.
AdriftUpTo(t) == \E u \in Adrift : u <= t

\* A turn answers with text of its own message only, unless an earlier one was left
\* adrift: the fields of the handle do not say which turn they are about.
OnlyAdriftMixesIn ==
    \A t \in Ids : \A u \in returned[t].text : u = t \/ (u < t /\ AdriftUpTo(u))

\* A turn is not reported as answered while the server still works on it, unless it was
\* cancelled or an earlier turn was left adrift, whose completion closes the slot.
AnsweredIsComplete ==
    \A t \in Ids : returned[t].kind = "ok" /\ runs[t] > 0 => t \in ended \/ AdriftUpTo(t)

\* A message is run once, also when its turn/start fails: only the fallback of an Astra
\* process that died with the request unanswered can run it again.
RunsOnce == \A t \in Ids : runs[t] > 1 => Astra /\ t \in crossed

\* A turn that is not cancelled ends, whatever the server does, with channels full and
\* locks held.
TurnEnds ==
    ~At("idle") /\ turn \notin cancelled ~> At("idle") \/ turn \in cancelled
=============================================================================
