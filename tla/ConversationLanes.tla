------------------------- MODULE ConversationLanes -------------------------
(***************************************************************************)
(* How a message becomes at most one CLI turn (runner.rs, commands.rs).    *)
(*                                                                         *)
(* The main loop builds a queued request with its trace row and puts it on *)
(* the ingress lane of its conversation key.  The ingress worker of the    *)
(* key decides, one request at a time, whether the text steers the turn    *)
(* that is running or is queued on the execution lane.  The execution      *)
(* worker runs one turn at a time under a global limit of permits and      *)
(* hands the reply back to the main loop, which also serves /cancel and    *)
(* /esc.  All of them synchronise only through the trace row's status, the *)
(* lane counters and the cancellation token of the running turn.           *)
(*                                                                         *)
(* The channels are the FIFO lanes that LaneChannel implements.  Each      *)
(* action is the code between two awaits that other tasks can observe.     *)
(***************************************************************************)
EXTENDS TraceStatus, Sequences, FiniteSets

CONSTANTS
    Keys,          \* conversation keys (platform, chat, CLI profile)
    BackendOf,     \* key -> "claude", "codex" or "oneshot"
    Sorts,         \* sorts of message: "text", "attachment", "scheduled"
    Permits,       \* max_concurrent_runs
    LaneCapacity,  \* capacity of a lane's channel (128)
    ReplyCapacity, \* capacity of the CLI response channel (64)
    MaxRequests,   \* bound: requests that arrive
    MaxFaults      \* bound: database calls that fail

ASSUME LanesAssumption ==
    /\ BackendOf \in [Keys -> {"claude", "codex", "oneshot"}]
    /\ Sorts \subseteq {"text", "attachment", "scheduled"}
    /\ Permits \in Nat \ {0}
    /\ LaneCapacity \in Nat \ {0}
    /\ ReplyCapacity \in Nat \ {0}
    /\ MaxRequests \in Nat
    /\ MaxFaults \in Nat

VARIABLES
    main,        \* what the main loop is in the middle of: [at, req]
    requests,    \* requests in order of arrival: [key, sort, traced]
    status,      \* request -> status of its trace row, "none" without a row
    faults,      \* database calls that failed so far
    lost,        \* requests one of whose settling writes failed
    ingress,     \* key -> ingress lane
    ing,         \* key -> ingress worker: [at, req, tries]
    waiting,     \* key -> ExecutionLaneState.waiting
    active,      \* key -> ExecutionLaneState.active
    execution,   \* key -> execution lane
    ex,          \* key -> execution worker: [at, req, response]
    interrupted, \* key -> the backend acknowledged an interrupt of the turn
    token,       \* key -> request registered in active_requests, or 0
    cancelFired, \* key -> the running turn's token was cancelled
    handed,      \* key -> requests given to the backend, in order
    reply,       \* request -> what became of its reply
    cancelled    \* requests /cancel reported as cancelled

rowVars  == <<status, faults, lost>>
ingVars  == <<ingress, ing>>
laneVars == <<waiting, active>>
execVars == <<execution, ex>>
turnVars == <<interrupted, token, cancelFired, handed>>
userVars == <<reply, cancelled>>

vars == <<main, requests, rowVars, ingVars, laneVars, execVars, turnVars,
          userVars>>

Ids == 1 .. MaxRequests
Arrived == 1 .. Len(requests)
KeyOf(r) == requests[r].key
Traced(r) == requests[r].traced
Background(r) == requests[r].sort = "scheduled"

\* build_queued_request: steering needs a persistent backend, a text and no
\* attachment; enqueue_scheduled_agent_turn clears it.
Steerable(r) == requests[r].sort = "text" /\ BackendOf[KeyOf(r)] # "oneshot"

IngIdle == [at |-> "idle", req |-> 0, tries |-> 0]
ExIdle == [at |-> "idle", req |-> 0, response |-> "none"]

Replies == {"none", "outbox", "plain", "sent", "unsent", "scheduler"}

Init ==
    /\ main = [at |-> "select", req |-> 0]
    /\ requests = << >>
    /\ status = [r \in Ids |-> "none"]
    /\ faults = 0
    /\ lost = {}
    /\ ingress = [k \in Keys |-> << >>]
    /\ ing = [k \in Keys |-> IngIdle]
    /\ waiting = [k \in Keys |-> 0]
    /\ active = [k \in Keys |-> FALSE]
    /\ execution = [k \in Keys |-> << >>]
    /\ ex = [k \in Keys |-> ExIdle]
    /\ interrupted = [k \in Keys |-> FALSE]
    /\ token = [k \in Keys |-> 0]
    /\ cancelFired = [k \in Keys |-> FALSE]
    /\ handed = [k \in Keys |-> << >>]
    /\ reply = [r \in Ids |-> "none"]
    /\ cancelled = {}

-----------------------------------------------------------------------------
(* Database calls. *)

\* A call that succeeds, or one of the failures that are considered.
Db(ok) ==
    IF ok THEN UNCHANGED faults
          ELSE faults < MaxFaults /\ faults' = faults + 1

\* transition_request_if: compare and set.
Cas(r, from, to) ==
    status' = [status EXCEPT ![r] = IF @ = from THEN to ELSE @]

\* update_request_status: an illegal transition is an error that the callers
\* below ignore, so the row stays as it is.
Update_Unchecked(r, to) == status' = [status EXCEPT ![r] = to]
Update(r, to) ==
    status' = [status EXCEPT ![r] = IF CanTransition(@, to) THEN to ELSE @]

\* A settling write of a request the queue tracks: done, or failed and lost.
Settle(r, to, ok) ==
    IF Traced(r)
      THEN /\ Db(ok)
           /\ IF ok THEN Update(r, to) /\ UNCHANGED lost
                    ELSE UNCHANGED status /\ lost' = lost \union {r}
      ELSE ok /\ UNCHANGED rowVars

-----------------------------------------------------------------------------
(* The main loop. *)

At(place) == main.at = place
GoMain(place, r) == main' = [at |-> place, req |-> r]

\* build_queued_request_with_profile_override.  TraceWriter::begin inserts the
\* row and appends an event; when either fails the request runs untracked, in
\* the second case next to a row nobody will settle.
Arrive(k, sort, row) ==
    LET r == Len(requests) + 1 IN
    /\ At("select")
    /\ r \in Ids
    /\ Db(row = "traced")
    /\ requests' = Append(requests,
                          [key |-> k, sort |-> sort, traced |-> row = "traced"])
    /\ status' = [status EXCEPT ![r] =
                      IF row = "missing" THEN "none" ELSE "accepted"]
    /\ GoMain("offering", r)
    /\ UNCHANGED <<lost, ingVars, laneVars, execVars, turnVars, userVars>>

HasRoom(lane) == Len(lane) < LaneCapacity

\* enqueue_ingress: the main loop itself waits for room on the lane.
PutIngress ==
    LET k == KeyOf(main.req) IN
    /\ At("offering")
    /\ HasRoom(ingress[k])
    /\ ingress' = [ingress EXCEPT ![k] = Append(@, main.req)]
    /\ GoMain("select", 0)
    /\ UNCHANGED <<requests, rowVars, ing, laneVars, execVars, turnVars,
                   userVars>>

\* /cancel, and /esc on a queued request: the row was listed as Accepted ...
CancelList(r) ==
    /\ At("select")
    /\ r \in Arrived
    /\ status[r] = "accepted"
    /\ GoMain("cancelling", r)
    /\ UNCHANGED <<requests, rowVars, ingVars, laneVars, execVars, turnVars,
                   userVars>>

\* ... and cancel_accepted_request fails it only if it still is, then appends an
\* event.  The "all" forms take the token as well, whatever came of it: the
\* request may have begun its turn since the list.
CancelCommit(all, outcome) ==
    LET r == main.req
        won == outcome # "unwritten" /\ status[r] = "accepted" IN
    /\ At("cancelling")
    /\ outcome = "unappended" => won
    /\ Db(outcome = "cancelled")
    /\ status' = [status EXCEPT ![r] = IF won THEN "failed" ELSE @]
    /\ cancelled' = IF won /\ outcome = "cancelled" THEN cancelled \union {r}
                                                   ELSE cancelled
    /\ IF all THEN GoMain("interrupting", r) ELSE GoMain("select", 0)
    /\ UNCHANGED <<requests, lost, ingVars, laneVars, execVars, turnVars, reply>>

\* /esc on a running request with a live token.  One without is being dispatched
\* and is left alone.
EscList(r) ==
    /\ At("select")
    /\ r \in Arrived
    /\ token[KeyOf(r)] = r
    /\ GoMain("escaping", r)
    /\ UNCHANGED <<requests, rowVars, ingVars, laneVars, execVars, turnVars,
                   userVars>>

\* force_fail_request; its turn may be over by now.
EscFail(all, ok) ==
    LET r == main.req
        won == ok /\ ~IsTerminal(status[r]) IN
    /\ At("escaping")
    /\ Db(ok)
    /\ status' = [status EXCEPT ![r] = IF won THEN "failed" ELSE @]
    /\ IF all \/ won THEN GoMain("interrupting", r) ELSE GoMain("select", 0)
    /\ UNCHANGED <<requests, lost, ingVars, laneVars, execVars, turnVars, userVars>>

\* Then the token is taken out of the registry and cancelled, if the turn has
\* not deregistered it in the meantime.
EscToken ==
    LET r == main.req
        k == KeyOf(r) IN
    /\ At("interrupting")
    /\ token' = [token EXCEPT ![k] = IF @ = r THEN 0 ELSE @]
    /\ cancelFired' = [cancelFired EXCEPT ![k] = @ \/ token[k] = r]
    /\ GoMain("select", 0)
    /\ UNCHANGED <<requests, rowVars, ingVars, laneVars, execVars, interrupted,
                   handed, userVars>>

\* deliver_outbound.  mark_outbox_sent tries to complete the request; a plain
\* reply leaves the row alone.  A failed send stays in the outbox.
Deliver(r, sentOk, ok) ==
    /\ At("select")
    /\ reply[r] \in {"outbox", "plain"}
    /\ reply' = [reply EXCEPT ![r] = IF sentOk THEN "sent" ELSE "unsent"]
    /\ IF sentOk /\ reply[r] = "outbox"
         THEN Settle(r, "completed", ok)
         ELSE ok /\ UNCHANGED rowVars
    /\ UNCHANGED <<main, requests, ingVars, laneVars, execVars, turnVars, cancelled>>

RepliesQueued == {r \in Ids : reply[r] \in {"outbox", "plain"}}

\* cli_resp_tx.send waits for room in the response channel.
SendReply(r, response) ==
    /\ Cardinality(RepliesQueued) < ReplyCapacity
    /\ reply' = [reply EXCEPT ![r] = response]

\* outbound_response: the reply enters the outbox, or is sent without it when
\* the request is untracked or the insert fails.
Outbound(r, ok) == IF Traced(r) /\ ok THEN "outbox" ELSE "plain"

-----------------------------------------------------------------------------
(* The ingress worker of key k: run_ingress_worker. *)

IngAt(k, place) == ing[k].at = place
GoIng(k, place) ==
    ing' = [ing EXCEPT ![k] =
              IF place = "idle" THEN IngIdle ELSE [@ EXCEPT !.at = place]]

TakeIngress(k) ==
    /\ IngAt(k, "idle")
    /\ ingress[k] # << >>
    /\ ing' = [ing EXCEPT ![k] =
                  [at |-> "check", req |-> Head(ingress[k]), tries |-> 0]]
    /\ ingress' = [ingress EXCEPT ![k] = Tail(@)]
    /\ UNCHANGED <<main, requests, rowVars, laneVars, execVars, turnVars,
                   userVars>>

\* should_execute_queued: a terminal row is skipped; an untracked request and
\* one whose row cannot be read go on.
ShouldExecute(r, ok) == ~Traced(r) \/ ~ok \/ status[r] = "accepted"

CheckIngress(k, ok) ==
    LET r == ing[k].req IN
    /\ IngAt(k, "check")
    /\ Traced(r) \/ ok
    /\ Db(ok)
    /\ GoIng(k, IF ~ShouldExecute(r, ok) THEN "idle"
                ELSE IF Steerable(r) THEN "probe" ELSE "enqueue")
    /\ UNCHANGED <<main, requests, status, lost, ingress, laneVars, execVars,
                   turnVars, userVars>>

\* ExecutionLaneState::can_steer: nothing may be waiting that the text would
\* overtake.
CanSteer_WhileWaiting(k) == active[k]
CanSteer(k) == active[k] /\ waiting[k] = 0

Probe(k) ==
    /\ IngAt(k, "probe")
    /\ GoIng(k, IF CanSteer(k) /\ Traced(ing[k].req) THEN "claim" ELSE "enqueue")
    /\ UNCHANGED <<main, requests, rowVars, ingress, laneVars, execVars, turnVars,
                   userVars>>

\* claim_for_steer: the compare-and-set that races with /cancel, then an event.
\* A failure of either goes to fail_dispatch.
Claim(k, outcome) ==
    LET r == ing[k].req IN
    /\ IngAt(k, "claim")
    /\ outcome = "unappended" => status[r] = "accepted"
    /\ Db(outcome = "claimed")
    /\ IF outcome = "unread" THEN UNCHANGED status
                             ELSE Cas(r, "accepted", "running")
    /\ GoIng(k, IF outcome = "unread" THEN "failing"
                ELSE IF status[r] # "accepted" THEN "idle"
                ELSE IF outcome = "claimed" THEN "dispatch" ELSE "failing")
    /\ UNCHANGED <<main, requests, lost, ingress, laneVars, execVars, turnVars,
                   userVars>>

\* fail_dispatch
FailDispatch(k, ok) ==
    /\ IngAt(k, "failing")
    /\ Settle(ing[k].req, "failed", ok)
    /\ GoIng(k, "idle")
    /\ UNCHANGED <<main, requests, ingress, laneVars, execVars, turnVars,
                   userVars>>

\* The Claude process is asked to interrupt its turn.  It acknowledges only a
\* turn that is active, within five seconds or later; in every case the request
\* is queued.
SteerClaude(k, acknowledged) ==
    /\ IngAt(k, "dispatch")
    /\ BackendOf[k] = "claude"
    /\ acknowledged => ex[k].at = "turn" /\ ~interrupted[k]
    /\ interrupted' = [interrupted EXCEPT ![k] = @ \/ acknowledged]
    /\ GoIng(k, "release")
    /\ UNCHANGED <<main, requests, rowVars, ingress, laneVars, execVars, token,
                   cancelFired, handed, userVars>>

\* The Codex app server takes the text into the turn that is running, or
\* refuses it, or does not answer in time: then it may have taken it or not.
SteerCodex(k, outcome, applied) ==
    /\ IngAt(k, "dispatch")
    /\ BackendOf[k] = "codex"
    /\ applied => ex[k].at = "turn"
    /\ outcome = "accepted" => applied
    /\ outcome = "refused" => ~applied
    /\ handed' = IF applied
                   THEN [handed EXCEPT ![k] = Append(@, ing[k].req)]
                   ELSE handed
    /\ GoIng(k, CASE outcome = "accepted" -> "completing"
                  [] outcome = "refused" -> "release"
                  [] outcome = "unknown" -> "giveUp")
    /\ UNCHANGED <<main, requests, rowVars, ingress, laneVars, execVars,
                   interrupted, token, cancelFired, userVars>>

CompleteSteer(k, ok) ==
    /\ IngAt(k, "completing")
    /\ Settle(ing[k].req, "completed", ok)
    /\ GoIng(k, "idle")
    /\ UNCHANGED <<main, requests, ingress, laneVars, execVars, turnVars,
                   userVars>>

\* release_steer_claim_for_fallback: two attempts, then the request fails.  A
\* claim that is no longer ours is dropped.
ReleaseClaim(k, ok) ==
    LET r == ing[k].req IN
    /\ IngAt(k, "release")
    /\ Db(ok)
    /\ IF ok THEN Cas(r, "running", "accepted") ELSE UNCHANGED status
    /\ \/ /\ ok
          /\ GoIng(k, IF status[r] = "running" THEN "enqueue" ELSE "idle")
       \/ /\ ~ok
          /\ ing' = [ing EXCEPT
                ![k].tries = @ + 1,
                ![k].at = IF ing[k].tries = 0 THEN "release" ELSE "giveUp"]
    /\ UNCHANGED <<main, requests, lost, ingress, laneVars, execVars, turnVars,
                   userVars>>

GiveUp(k, ok) ==
    /\ IngAt(k, "giveUp")
    /\ Settle(ing[k].req, "failed", ok)
    /\ GoIng(k, "warning")
    /\ UNCHANGED <<main, requests, ingress, laneVars, execVars, turnVars,
                   userVars>>

\* The user is told, and the request is not queued again.
Warn(k, ok) ==
    /\ IngAt(k, "warning")
    /\ Db(ok)
    /\ SendReply(ing[k].req, Outbound(ing[k].req, ok))
    /\ GoIng(k, "idle")
    /\ UNCHANGED <<main, requests, status, lost, ingress, laneVars, execVars,
                   turnVars, cancelled>>

\* enqueue_queued_request counts the request as waiting before it sends it.
CountWaiting(k) ==
    /\ IngAt(k, "enqueue")
    /\ waiting' = [waiting EXCEPT ![k] = @ + 1]
    /\ GoIng(k, "put")
    /\ UNCHANGED <<main, requests, rowVars, ingress, active, execVars, turnVars,
                   userVars>>

PutExecution(k) ==
    /\ IngAt(k, "put")
    /\ HasRoom(execution[k])
    /\ execution' = [execution EXCEPT ![k] = Append(@, ing[k].req)]
    /\ GoIng(k, "idle")
    /\ UNCHANGED <<main, requests, rowVars, ingress, laneVars, ex, turnVars,
                   userVars>>

-----------------------------------------------------------------------------
(* The execution worker of key k: run_conversation_worker. *)

ExAt(k, place) == ex[k].at = place
GoEx(k, place) ==
    ex' = [ex EXCEPT ![k] =
             IF place = "idle" THEN ExIdle ELSE [@ EXCEPT !.at = place]]
Finish(k, response) ==
    ex' = [ex EXCEPT ![k].at = "finished", ![k].response = response]

TakeExecution(k) ==
    /\ ExAt(k, "idle")
    /\ execution[k] # << >>
    /\ ex' = [ex EXCEPT ![k] =
                 [at |-> "dequeued", req |-> Head(execution[k]), response |-> "none"]]
    /\ execution' = [execution EXCEPT ![k] = Tail(@)]
    /\ UNCHANGED <<main, requests, rowVars, ingVars, laneVars, turnVars,
                   userVars>>

\* execution_dequeued
CountDequeued(k) ==
    /\ ExAt(k, "dequeued")
    /\ waiting' = [waiting EXCEPT ![k] = @ - 1]
    /\ GoEx(k, "check")
    /\ UNCHANGED <<main, requests, rowVars, ingVars, active, execution, turnVars,
                   userVars>>

CheckExecution(k, ok) ==
    LET r == ex[k].req IN
    /\ ExAt(k, "check")
    /\ Traced(r) \/ ok
    /\ Db(ok)
    /\ GoEx(k, IF ShouldExecute(r, ok) THEN "permit" ELSE "idle")
    /\ UNCHANGED <<main, requests, status, lost, ingVars, laneVars, execution,
                   turnVars, userVars>>

\* A permit is held until the reply has been handed over.
HoldsPermit_WhileIdle(k) == ex[k].at \notin {"dequeued", "check", "permit"}
HoldsPermit(k) == ex[k].at \in {"start", "prepare", "turn", "finished", "replying"}

\* acquire_owned, execution_started
Start(k) ==
    /\ ExAt(k, "permit")
    /\ Cardinality({j \in Keys : HoldsPermit(j)}) < Permits
    /\ active' = [active EXCEPT ![k] = TRUE]
    /\ GoEx(k, "start")
    /\ UNCHANGED <<main, requests, rowVars, ingVars, waiting, execution, turnVars,
                   userVars>>

\* start_run: the row goes to Running, then the run and an event are stored.
\* Any error, a request cancelled since the check included, ends without reply.
StartRun(k, outcome) ==
    LET r == ex[k].req
        legal == CanTransition(status[r], "running") IN
    /\ ExAt(k, "start")
    /\ outcome = "unrecorded" => Traced(r) /\ legal
    /\ outcome = "unwritten" => Traced(r)
    /\ Db(outcome = "started")
    /\ IF Traced(r) /\ outcome # "unwritten"
         THEN Update(r, "running") ELSE UNCHANGED status
    /\ IF outcome = "started" /\ (Traced(r) => legal)
         THEN GoEx(k, "prepare") ELSE Finish(k, "none")
    /\ UNCHANGED <<main, requests, lost, ingVars, laneVars, execution, turnVars,
                   userVars>>

\* The CLI is missing or its auth circuit is open: no turn begins.
Preflight(k, ok) ==
    LET r == ex[k].req IN
    /\ ExAt(k, "prepare")
    /\ Settle(r, "failed", ok)
    /\ Finish(k, Outbound(r, TRUE))
    /\ UNCHANGED <<main, requests, ingVars, laneVars, execution, turnVars,
                   userVars>>

\* The token is registered and the message given to the backend.
BeginTurn(k) ==
    LET r == ex[k].req IN
    /\ ExAt(k, "prepare")
    /\ token' = [token EXCEPT ![k] = IF Traced(r) THEN r ELSE 0]
    /\ handed' = [handed EXCEPT ![k] = Append(@, r)]
    /\ GoEx(k, "turn")
    /\ UNCHANGED <<main, requests, rowVars, ingVars, laneVars, execution,
                   interrupted, cancelFired, userVars>>

\* What handle_message_inner may do with a turn that is over.  A turn whose
\* token fired ends as cancelled whatever it produced.  "steered" needs the
\* interrupt of a follow-up; "streamed" already delivered its text.
Outcomes(k) ==
    IF cancelFired[k] THEN {"cancelled"}
    ELSE {"answered", "streamed", "error"} \union
         (IF interrupted[k] THEN {"steered"} ELSE {})

\* The outcomes whose reply goes through the outbox while the row stays
\* Running until delivery.  A background answer is completed at once.
OutboxAnswers(r, outcome) == outcome = "answered" /\ ~Background(r)

FinalStatus(outcome) ==
    IF outcome \in {"answered", "streamed"} THEN "completed" ELSE "failed"

Responses(r, outcome) ==
    CASE outcome = "steered" -> {"none"}
      [] outcome = "streamed" -> {"plain", "none"}
      [] outcome = "answered" -> {IF Background(r) THEN "plain" ELSE Outbound(r, TRUE)}
      [] outcome \in {"error", "cancelled"} -> {Outbound(r, TRUE)}

ForgetTurn(k) ==
    /\ token' = [token EXCEPT ![k] = 0]
    /\ cancelFired' = [cancelFired EXCEPT ![k] = FALSE]
    /\ interrupted' = [interrupted EXCEPT ![k] = FALSE]

\* The turn is over: the token is deregistered, the row settled unless the
\* outbox will do it, and the reply chosen.
EndTurn(k, outcome, ok) ==
    LET r == ex[k].req IN
    /\ ExAt(k, "turn")
    /\ outcome \in Outcomes(k)
    /\ ForgetTurn(k)
    /\ IF OutboxAnswers(r, outcome)
         THEN ok /\ UNCHANGED rowVars
         ELSE Settle(r, FinalStatus(outcome), ok)
    /\ \E response \in Responses(r, outcome) : Finish(k, response)
    /\ UNCHANGED <<main, requests, ingVars, laneVars, execution, handed,
                   userVars>>

\* enqueue_outbox failed at the end of a turn: the reply is sent without it.
EndTurnUnstored(k, outcome) ==
    LET r == ex[k].req IN
    /\ ExAt(k, "turn")
    /\ outcome \in Outcomes(k)
    /\ "outbox" \in Responses(r, outcome)
    /\ Db(FALSE)
    /\ ForgetTurn(k)
    /\ IF OutboxAnswers(r, outcome)
         THEN UNCHANGED status /\ lost' = lost \union {r}
         ELSE Update(r, FinalStatus(outcome)) /\ UNCHANGED lost
    /\ Finish(k, "plain")
    /\ UNCHANGED <<main, requests, ingVars, laneVars, execution, handed,
                   userVars>>

\* execution_finished
ActiveAfter_ReplyOnly(k) == [active EXCEPT ![k] = ex[k].response = "none"]
ActiveAfter(k) == [active EXCEPT ![k] = FALSE]

Finished(k) ==
    /\ ExAt(k, "finished")
    /\ active' = ActiveAfter(k)
    /\ GoEx(k, "replying")
    /\ UNCHANGED <<main, requests, rowVars, ingVars, waiting, execution, turnVars,
                   userVars>>

\* A scheduled turn answers its scheduler, with or without a reply.
ReplyScheduler(k) ==
    /\ ExAt(k, "replying")
    /\ Background(ex[k].req)
    /\ reply' = [reply EXCEPT ![ex[k].req] = "scheduler"]
    /\ GoEx(k, "idle")
    /\ UNCHANGED <<main, requests, rowVars, ingVars, laneVars, execution, turnVars,
                   cancelled>>

ReplyUser(k) ==
    /\ ExAt(k, "replying")
    /\ ~Background(ex[k].req)
    /\ ex[k].response # "none"
    /\ SendReply(ex[k].req, ex[k].response)
    /\ GoEx(k, "idle")
    /\ UNCHANGED <<main, requests, rowVars, ingVars, laneVars, execution, turnVars,
                   cancelled>>

NoReply_Silent(k, ok) ==
    /\ ExAt(k, "replying")
    /\ ~Background(ex[k].req)
    /\ ex[k].response = "none"
    /\ GoEx(k, "idle")
    /\ UNCHANGED <<main, requests, rowVars, ingVars, laneVars, execution, turnVars,
                   userVars>>

\* No reply: fail_request_if_active settles the row.
NoReply(k, ok) ==
    /\ ExAt(k, "replying")
    /\ ~Background(ex[k].req)
    /\ ex[k].response = "none"
    /\ Settle(ex[k].req, "failed", ok)
    /\ GoEx(k, "idle")
    /\ UNCHANGED <<main, requests, ingVars, laneVars, execution, turnVars,
                   userVars>>

-----------------------------------------------------------------------------

MainStep ==
    \/ PutIngress
    \/ EscToken
    \/ \E all, ok \in BOOLEAN : EscFail(all, ok)
    \/ \E all \in BOOLEAN, outcome \in {"cancelled", "unwritten", "unappended"} :
           CancelCommit(all, outcome)
    \/ \E r \in Arrived, sentOk, ok \in BOOLEAN : Deliver(r, sentOk, ok)

IngressStep(k) ==
    \/ TakeIngress(k)
    \/ Probe(k)
    \/ CountWaiting(k)
    \/ PutExecution(k)
    \/ \E outcome \in {"claimed", "unread", "unappended"} : Claim(k, outcome)
    \/ \E acknowledged \in BOOLEAN : SteerClaude(k, acknowledged)
    \/ \E outcome \in {"accepted", "refused", "unknown"}, applied \in BOOLEAN :
          SteerCodex(k, outcome, applied)
    \/ \E ok \in BOOLEAN :
          \/ CheckIngress(k, ok) \/ FailDispatch(k, ok) \/ CompleteSteer(k, ok)
          \/ ReleaseClaim(k, ok) \/ GiveUp(k, ok) \/ Warn(k, ok)

ExecutionStep(k) ==
    \/ TakeExecution(k) \/ CountDequeued(k) \/ Start(k) \/ BeginTurn(k)
    \/ Finished(k) \/ ReplyScheduler(k) \/ ReplyUser(k)
    \/ \E outcome \in {"started", "unwritten", "unrecorded"} : StartRun(k, outcome)
    \/ \E ok \in BOOLEAN :
          CheckExecution(k, ok) \/ Preflight(k, ok) \/ NoReply(k, ok)
    \/ \E outcome \in {"answered", "streamed", "error", "cancelled", "steered"} :
          EndTurnUnstored(k, outcome) \/ \E ok \in BOOLEAN : EndTurn(k, outcome, ok)

UserStep ==
    \/ \E k \in Keys, sort \in Sorts, row \in {"traced", "orphan", "missing"} :
          Arrive(k, sort, row)
    \/ \E r \in Arrived : CancelList(r) \/ EscList(r)

Next ==
    \/ MainStep
    \/ UserStep
    \/ \E k \in Keys : IngressStep(k) \/ ExecutionStep(k)

Spec == Init /\ [][Next]_vars

\* Every task that can run does, and a turn ends: cli_timeout bounds it.  What
\* users send, and when, is not fair.
Fairness ==
    /\ WF_vars(MainStep)
    /\ \A k \in Keys : WF_vars(IngressStep(k)) /\ WF_vars(ExecutionStep(k))

FairSpec == Spec /\ Fairness

-----------------------------------------------------------------------------
(* Properties. *)

IngPlaces == {"idle", "check", "probe", "claim", "failing", "dispatch",
              "completing", "release", "giveUp", "warning", "enqueue", "put"}
ExPlaces == {"idle", "dequeued", "check", "permit", "start", "prepare", "turn",
             "finished", "replying"}

TypeOK ==
    /\ main \in [at : {"select", "offering", "cancelling", "escaping", "interrupting"},
                 req : {0} \union Ids]
    /\ requests \in Seq([key : Keys, sort : Sorts, traced : BOOLEAN])
    /\ Len(requests) <= MaxRequests
    /\ status \in [Ids -> RequestStatus \union {"none"}]
    /\ faults \in 0 .. MaxFaults
    /\ lost \subseteq Arrived
    /\ ingress \in [Keys -> Seq(Arrived)]
    /\ ing \in [Keys -> [at : IngPlaces, req : {0} \union Arrived, tries : 0 .. 2]]
    /\ waiting \in [Keys -> 0 .. MaxRequests]
    /\ active \in [Keys -> BOOLEAN]
    /\ execution \in [Keys -> Seq(Arrived)]
    /\ \A k \in Keys : Len(ingress[k]) <= LaneCapacity
                      /\ Len(execution[k]) <= LaneCapacity
    /\ ex \in [Keys -> [at : ExPlaces, req : {0} \union Arrived,
                        response : {"none", "outbox", "plain"}]]
    /\ interrupted \in [Keys -> BOOLEAN]
    /\ token \in [Keys -> {0} \union Arrived]
    /\ cancelFired \in [Keys -> BOOLEAN]
    /\ handed \in [Keys -> Seq(Arrived)]
    /\ reply \in [Ids -> Replies]
    /\ cancelled \subseteq Arrived
    /\ Cardinality(RepliesQueued) <= ReplyCapacity

\* The backend of a conversation receives every message at most once and in
\* the order of arrival, as a turn or as steering: a text never overtakes an
\* attachment or a scheduled turn that is queued before it, and what a codex
\* server may have taken is not queued again.
HandedInArrivalOrder ==
    \A k \in Keys : \A i, j \in DOMAIN handed[k] :
        i < j => handed[k][i] < handed[k][j]

WasHanded(r) == \E i \in DOMAIN handed[KeyOf(r)] : handed[KeyOf(r)][i] = r

\* Once /cancel reported success the request never reaches a backend: "Steering
\* must be claimed atomically so cancellation cannot report success after the
\* app-server request has begun", and start_run refuses a cancelled row.
CancelledNeverHanded ==
    \A r \in Arrived : r \in cancelled /\ Traced(r) => ~WasHanded(r)

\* The counters that can_steer reads are exact whenever it can look: waiting
\* counts what is queued, being queued or just received, active is set while a
\* request is executed, across every early return and error path.
LaneCountersExact ==
    \A k \in Keys :
        /\ waiting[k] = Len(execution[k])
                          + (IF ing[k].at = "put" THEN 1 ELSE 0)
                          + (IF ex[k].at = "dequeued" THEN 1 ELSE 0)
        /\ active[k] <=> ex[k].at \in {"start", "prepare", "turn", "finished"}

InFlight(r) ==
    LET k == KeyOf(r) IN
    \/ main.at # "select" /\ main.req = r
    \/ ing[k].at # "idle" /\ ing[k].req = r
    \/ ex[k].at # "idle" /\ ex[k].req = r
    \/ \E i \in DOMAIN ingress[k] : ingress[k][i] = r
    \/ \E i \in DOMAIN execution[k] : execution[k][i] = r

LeftBehind(r) ==
    /\ Traced(r)
    /\ r \notin lost
    /\ ~InFlight(r)
    /\ reply[r] \in {"none", "sent", "scheduler"}
    /\ ~IsTerminal(status[r])

\* No worker drops a user's request without settling its row, whichever step
\* failed or lost a race, unless the settling write failed itself.  (The row of
\* a reply that could not be sent is settled by the outbox.)
NoneLeftBehind == \A r \in Arrived : LeftBehind(r) => Background(r)

\* A finished row stays as it is: delivery, /cancel, /esc, steering and the end
\* of the turn all write it and none of them resurrects it.
TerminalIsFinal ==
    [][\A r \in Ids : IsTerminal(status[r]) => status'[r] = status[r]]_vars

\* Every tracked request comes to an end and stays there: terminal, or its reply
\* could not be sent, or a settling write failed.
Ended(r) == IsTerminal(status[r]) \/ r \in lost \/ reply[r] \in {"unsent", "scheduler"}

EveryRequestEnds == <>[](\A r \in Arrived : Traced(r) => Ended(r))
=============================================================================
