--------------------------- MODULE OutboxDelivery ---------------------------
(***************************************************************************)
(* The life of a final reply between the end of its turn and the chat: the *)
(* outbox row, the response channel of the process, the send and its       *)
(* acknowledgement in the database, crashes, and what a start of the       *)
(* gateway does with what it finds (runner.rs: outbound_response,          *)
(* deliver_outbound, sweep_stale_traces, replay_retryable_outbox, run;     *)
(* trace_model.rs: TraceWriter and the repository; commands.rs: /retry).   *)
(*                                                                         *)
(* Gateway instances may share the database.  What a process holds in      *)
(* memory is lost when it stops, rows are not.                             *)
(***************************************************************************)
EXTENDS TraceStatus, Sequences, FiniteSets

CONSTANTS
    Instances,    \* gateway processes that share the database
    Replies,      \* requests, each with its final reply
    Queued,       \* those of a platform whose adapter only queues a send (WeCom)
    NoInstance,   \* no worker holds the reply
    NoReply,      \* no delivery in progress
    ReplayLimit,  \* rows a start replays (100)
    MaxCrashes,   \* bound: stops of a process
    MaxFaults     \* bound: database calls that fail

ASSUME OutboxAssumption ==
    /\ ReplayLimit \in Nat \ {0}
    /\ MaxCrashes \in Nat
    /\ MaxFaults \in Nat
    /\ Queued \subseteq Replies
    /\ NoInstance \notin Instances
    /\ IsFiniteSet(Replies) /\ NoReply \notin Replies

VARIABLES
    request,    \* reply -> status of its request, "none" before it runs
    row,        \* reply -> status of its outbox row, "none" before the turn
                \* ends, "unstored" when the insert failed
    retries,    \* reply -> retry_count of the row
    created,    \* reply -> created_at of the row, 0 without one
    dismissed,  \* replies whose row /retry dismiss closed
    worker,     \* reply -> instance whose worker has not handed it over yet
    phase,      \* instance -> "down", "sweep", "list", "replay" or "serve"
    channel,    \* instance -> replies in its response channel
    replay,     \* instance -> rows left of the startup replay
    at,         \* instance -> where it stands in deliver_outbound
    current,    \* instance -> the reply it delivers, or NoReply
    tracked,    \* replies that are carried with their outbox id
    outgoing,   \* instance -> sends in its adapter's own queue
    attempts,   \* reply -> sends started
    shown,      \* reply -> sends after which the chat shows the whole reply
    crashes,    \* stops so far
    faults      \* failed database calls so far

rowVars      == <<request, row, retries, created, dismissed>>
processVars  == <<worker, phase, channel, replay, tracked>>
deliveryVars == <<at, current, outgoing>>
chatVars     == <<attempts, shown>>

vars == <<rowVars, processVars, deliveryVars, chatVars, crashes, faults>>

Places == {"idle", "send", "sent", "complete", "failed"}

Go(i, place) == at' = [at EXCEPT ![i] = place]

Begin(i, r) ==
    /\ at[i] = "idle"
    /\ Go(i, "send")
    /\ current' = [current EXCEPT ![i] = r]

Finish(i) ==
    /\ Go(i, "idle")
    /\ current' = [current EXCEPT ![i] = NoReply]

Db(ok) ==
    IF ok THEN UNCHANGED faults
          ELSE faults < MaxFaults /\ faults' = faults + 1

Init ==
    /\ request = [r \in Replies |-> "none"]
    /\ row = [r \in Replies |-> "none"]
    /\ retries = [r \in Replies |-> 0]
    /\ created = [r \in Replies |-> 0]
    /\ dismissed = {}
    /\ worker = [r \in Replies |-> NoInstance]
    /\ phase = [i \in Instances |-> "sweep"]
    /\ channel = [i \in Instances |-> << >>]
    /\ replay = [i \in Instances |-> {}]
    /\ at = [i \in Instances |-> "idle"]
    /\ current = [i \in Instances |-> NoReply]
    /\ tracked = {}
    /\ outgoing = [i \in Instances |-> << >>]
    /\ attempts = [r \in Replies |-> 0]
    /\ shown = [r \in Replies |-> 0]
    /\ crashes = 0
    /\ faults = 0

-----------------------------------------------------------------------------
(* Workers. *)

\* start_run: a worker of instance i runs the request.
Run(i, r) ==
    /\ phase[i] = "serve"
    /\ request[r] = "none"
    /\ request' = [request EXCEPT ![r] = "running"]
    /\ worker' = [worker EXCEPT ![r] = i]
    /\ UNCHANGED <<row, retries, created, dismissed, phase, channel, replay, tracked,
                   deliveryVars, chatVars, crashes, faults>>

Stored(r) == row[r] \in OutboxStatus
Rows == {r \in Replies : Stored(r)}

\* created_at of the next row: rows are only added.
Now == Cardinality(Rows) + 1

\* When the insert fails, or the event after it, the reply goes out without its
\* outbox id, "falling back to direct send".
WithOutbox(r, logged) == IF logged THEN tracked \union {r} ELSE tracked

\* The end of the turn: finalize_attempt fails the request of a turn that did
\* not succeed (the write may fail), then outbound_response stores the reply.
Store(i, r, status, inserted, logged) ==
    /\ worker[r] = i
    /\ row[r] = "none"
    /\ logged => inserted
    /\ Db(logged)
    /\ request' = [request EXCEPT ![r] = status]
    /\ status \in {request[r]} \union {s \in {"failed"} : CanTransition(request[r], s)}
    /\ row' = [row EXCEPT ![r] = IF inserted THEN "pending" ELSE "unstored"]
    /\ created' = [created EXCEPT ![r] = IF inserted THEN Now ELSE 0]
    /\ tracked' = WithOutbox(r, logged)
    /\ UNCHANGED <<retries, dismissed, worker, phase, channel, replay, deliveryVars,
                   chatVars, crashes>>

\* cli_resp_tx.send
HandOver(i, r) ==
    /\ worker[r] = i
    /\ row[r] # "none"
    /\ channel' = [channel EXCEPT ![i] = Append(@, r)]
    /\ worker' = [worker EXCEPT ![r] = NoInstance]
    /\ UNCHANGED <<rowVars, phase, replay, tracked, deliveryVars, chatVars, crashes,
                   faults>>

-----------------------------------------------------------------------------
(* deliver_outbound, on the main loop or in the startup replay. *)

TakeReply(i) ==
    /\ phase[i] = "serve"
    /\ channel[i] # << >>
    /\ Begin(i, Head(channel[i]))
    /\ channel' = [channel EXCEPT ![i] = Tail(@)]
    /\ UNCHANGED <<rowVars, worker, phase, replay, tracked, outgoing, chatVars, crashes,
                   faults>>

\* Oldest first.  A replayed delivery always carries its outbox id.
TakeReplay(i) ==
    /\ phase[i] = "replay"
    /\ \E r \in replay[i] :
          /\ \A q \in replay[i] : created[r] <= created[q]
          /\ Begin(i, r)
          /\ replay' = [replay EXCEPT ![i] = @ \ {r}]
          /\ tracked' = tracked \union {r}
    /\ UNCHANGED <<rowVars, worker, phase, channel, outgoing, chatVars, crashes, faults>>

AfterSend(acknowledged) == IF acknowledged THEN "sent" ELSE "failed"

\* Without an outbox id the delivery ends with the send.
AfterAnswer(i, acknowledged) ==
    \/ /\ current[i] \in tracked
       /\ Go(i, AfterSend(acknowledged))
       /\ UNCHANGED current
    \/ /\ current[i] \notin tracked
       /\ Finish(i)

\* send_text_to_platform with an adapter that waits for the platform's answer.
\* An error may come after some or all of the chunks were displayed (a lost
\* acknowledgement).
Send(i, acknowledged, displayed) ==
    LET r == current[i] IN
    /\ at[i] = "send"
    /\ r \notin Queued
    /\ acknowledged => displayed
    /\ attempts' = [attempts EXCEPT ![r] = @ + 1]
    /\ shown' = [shown EXCEPT ![r] = IF displayed THEN @ + 1 ELSE @]
    /\ AfterAnswer(i, acknowledged)
    /\ UNCHANGED <<rowVars, processVars, outgoing, crashes, faults>>

\* The WeCom adapter answers as soon as the text is in its outbound channel.
SendQueued(i) ==
    LET r == current[i] IN
    /\ at[i] = "send"
    /\ r \in Queued
    /\ attempts' = [attempts EXCEPT ![r] = @ + 1]
    /\ outgoing' = [outgoing EXCEPT ![i] = Append(@, r)]
    /\ AfterAnswer(i, TRUE)
    /\ UNCHANGED <<rowVars, processVars, shown, crashes, faults>>

\* Its connection task writes the text to the socket.  An error ends the
\* connection and the text that was taken from the channel is gone.
Transmit(i, displayed) ==
    /\ outgoing[i] # << >>
    /\ outgoing' = [outgoing EXCEPT ![i] = Tail(@)]
    /\ shown' = [shown EXCEPT ![Head(outgoing[i])] = IF displayed THEN @ + 1 ELSE @]
    /\ UNCHANGED <<rowVars, processVars, at, current, attempts, crashes, faults>>

\* mark_outbox_sent: the row first.
MarkSent(i, ok) ==
    LET r == current[i]
        marked == ok /\ CanDeliver(row[r], "sent")
    IN
    /\ at[i] = "sent"
    /\ Db(ok)
    /\ row' = [row EXCEPT ![r] = IF marked THEN "sent" ELSE @]
    /\ \/ marked /\ Go(i, "complete") /\ UNCHANGED current
       \/ ~marked /\ Finish(i)
    /\ UNCHANGED <<request, retries, created, dismissed, processVars, outgoing,
                   chatVars, crashes>>

\* Then the event and the request.  An error of complete_request is ignored:
\* the request may have been failed by its turn or by a sweep.
CompleteRequest(i, ok) ==
    LET r == current[i] IN
    /\ at[i] = "complete"
    /\ Db(ok)
    /\ request' = [request EXCEPT ![r] =
                       IF ok /\ CanTransition(@, "completed") THEN "completed" ELSE @]
    /\ Finish(i)
    /\ UNCHANGED <<row, retries, created, dismissed, processVars, outgoing, chatVars,
                   crashes>>

\* update_outbox_status(Failed) counts the attempt, up to the retry limit.
Countable(r) == CanDeliver(row[r], "failed") /\ retries[r] < OutboxMaxRetries

MarkFailed(i, ok) ==
    LET r == current[i]
        counted == ok /\ Countable(r)
    IN
    /\ at[i] = "failed"
    /\ Db(ok)
    /\ row' = [row EXCEPT ![r] = IF counted THEN "failed" ELSE @]
    /\ retries' = [retries EXCEPT ![r] = IF counted THEN @ + 1 ELSE @]
    /\ Finish(i)
    /\ UNCHANGED <<request, created, dismissed, processVars, outgoing, chatVars, crashes>>

-----------------------------------------------------------------------------
(* Start and stop. *)

\* A crash, a kill or a shutdown: the main loop breaks, tasks are dropped.
Stop(i) ==
    /\ phase[i] # "down"
    /\ crashes < MaxCrashes
    /\ crashes' = crashes + 1
    /\ phase' = [phase EXCEPT ![i] = "down"]
    /\ channel' = [channel EXCEPT ![i] = << >>]
    /\ replay' = [replay EXCEPT ![i] = {}]
    /\ outgoing' = [outgoing EXCEPT ![i] = << >>]
    /\ worker' = [r \in Replies |-> IF worker[r] = i THEN NoInstance ELSE worker[r]]
    /\ Finish(i)
    /\ UNCHANGED <<rowVars, tracked, chatVars, faults>>

Boot(i) ==
    /\ phase[i] = "down"
    /\ phase' = [phase EXCEPT ![i] = "sweep"]
    /\ UNCHANGED <<rowVars, worker, channel, replay, tracked, deliveryVars, chatVars,
                   crashes, faults>>

\* sweep_stale_requests fails every unfinished request in the database.
Unfinished(r) == request[r] \in {"accepted", "running"}

Sweep(i, ok) ==
    /\ phase[i] = "sweep"
    /\ Db(ok)
    /\ request' = [r \in Replies |->
                       IF ok /\ Unfinished(r) THEN "failed" ELSE request[r]]
    /\ phase' = [phase EXCEPT ![i] = "list"]
    /\ UNCHANGED <<row, retries, created, dismissed, worker, channel, replay, tracked,
                   deliveryVars, chatVars, crashes>>

\* list_retryable_outbox: the oldest rows, up to a limit.
Retryable_AnyStatus(r) == row[r] \in OutboxStatus /\ retries[r] < OutboxMaxRetries
Retryable_FailedOnly(r) == row[r] = "failed" /\ retries[r] < OutboxMaxRetries
Retryable(r) == row[r] \in {"pending", "failed"} /\ retries[r] < OutboxMaxRetries

OlderRetryable(r) == {q \in Rows : Retryable(q) /\ created[q] < created[r]}

ListRetryable(i, ok) ==
    /\ phase[i] = "list"
    /\ Db(ok)
    /\ replay' = [replay EXCEPT ![i] =
                      {r \in Rows : /\ ok
                                    /\ Retryable(r)
                                    /\ Cardinality(OlderRetryable(r)) < ReplayLimit}]
    /\ phase' = [phase EXCEPT ![i] = "replay"]
    /\ UNCHANGED <<rowVars, worker, channel, tracked, deliveryVars, chatVars, crashes>>

Serve_ReplayAgain(i) ==
    /\ phase[i] = "replay"
    /\ at[i] = "idle"
    /\ replay[i] = {}
    /\ phase' = [phase EXCEPT ![i] = IF \E r \in Rows : Retryable(r) THEN "list" ELSE "serve"]
    /\ UNCHANGED <<rowVars, worker, channel, replay, tracked, deliveryVars, chatVars,
                   crashes, faults>>

Serve(i) ==
    /\ phase[i] = "replay"
    /\ at[i] = "idle"
    /\ replay[i] = {}
    /\ phase' = [phase EXCEPT ![i] = "serve"]
    /\ UNCHANGED <<rowVars, worker, channel, replay, tracked, deliveryVars, chatVars,
                   crashes, faults>>

\* /retry dismiss on the main loop, for a finished request whose row failed and
\* did not expire: dismiss_failed_outbox closes the row without a send.
Dismiss(i, r) ==
    /\ phase[i] = "serve"
    /\ at[i] = "idle"
    /\ IsTerminal(request[r])
    /\ row[r] = "failed"
    /\ Retryable(r)
    /\ row' = [row EXCEPT ![r] = "sent"]
    /\ dismissed' = dismissed \union {r}
    /\ UNCHANGED <<request, retries, created, processVars, deliveryVars, chatVars,
                   crashes, faults>>

-----------------------------------------------------------------------------
Worker(i) == \E r \in Replies :
    \/ HandOver(i, r)
    \/ \E status \in RequestStatus, inserted, logged \in BOOLEAN :
           Store(i, r, status, inserted, logged)

Deliver(i) ==
    \/ TakeReply(i)
    \/ TakeReplay(i)
    \/ SendQueued(i)
    \/ \E acknowledged, displayed \in BOOLEAN : Send(i, acknowledged, displayed)
    \/ \E ok \in BOOLEAN : MarkSent(i, ok) \/ CompleteRequest(i, ok) \/ MarkFailed(i, ok)

Connection(i) == \E displayed \in BOOLEAN : Transmit(i, displayed)

Start(i) ==
    \/ Boot(i)
    \/ \E ok \in BOOLEAN : Sweep(i, ok) \/ ListRetryable(i, ok)
    \/ Serve(i)

Next == \E i \in Instances :
    \/ Worker(i) \/ Deliver(i) \/ Connection(i) \/ Start(i) \/ Stop(i)
    \/ \E r \in Replies : Run(i, r) \/ Dismiss(i, r)

Spec == Init /\ [][Next]_vars

\* Tasks run and a service manager starts the gateway again.  Stops, requests and
\* /retry are up to others.
Fairness ==
    \A i \in Instances :
        /\ WF_vars(Worker(i))
        /\ WF_vars(Deliver(i))
        /\ WF_vars(Connection(i))
        /\ WF_vars(Start(i))

FairSpec == Spec /\ Fairness

-----------------------------------------------------------------------------
(* Properties. *)

TypeOK ==
    /\ request \in [Replies -> RequestStatus \union {"none"}]
    /\ row \in [Replies -> OutboxStatus \union {"none", "unstored"}]
    /\ retries \in [Replies -> 0 .. OutboxMaxRetries]
    /\ created \in [Replies -> Nat]
    /\ dismissed \subseteq Replies
    /\ worker \in [Replies -> Instances \union {NoInstance}]
    /\ phase \in [Instances -> {"down", "sweep", "list", "replay", "serve"}]
    /\ channel \in [Instances -> Seq(Replies)]
    /\ replay \in [Instances -> SUBSET Rows]
    /\ at \in [Instances -> Places]
    /\ current \in [Instances -> Replies \union {NoReply}]
    /\ \A i \in Instances : at[i] = "idle" <=> current[i] = NoReply
    /\ tracked \subseteq Rows
    /\ outgoing \in [Instances -> Seq(Queued)]
    /\ attempts \in [Replies -> Nat]
    /\ shown \in [Replies -> Nat]
    /\ crashes \in 0 .. MaxCrashes
    /\ faults \in 0 .. MaxFaults

Direct == Replies \ Queued

\* Where the adapter waits for the platform, nothing is reported as delivered that
\* the chat never showed: a row is closed as sent, and a request completed by it,
\* only after a send the platform acknowledged, across crashes, failed writes and
\* replays; unless the user dismissed the row.
SettledMeansShown ==
    \A r \in Direct :
        (row[r] = "sent" /\ r \notin dismissed) \/ request[r] = "completed"
            => shown[r] > 0

\* With one gateway on the database, a reply is sent at most once between two
\* starts: neither the worker's hand-over nor the startup replay repeats what
\* the other sends.  Duplicates come from restarts only.
OncePerStart == \A r \in Replies : attempts[r] <= crashes + 1

\* The row stands for the debt of the abstract specification.
Debt(r) ==
    CASE row[r] = "none" -> "none"
      [] row[r] = "unstored" -> IF attempts[r] = 0 THEN "unstored" ELSE "tried"
      [] row[r] = "sent" -> IF r \in dismissed THEN "dismissed" ELSE "sent"
      [] Retryable(r) -> "owed"
      [] OTHER -> "expired"

Reply == INSTANCE DurableReply WITH
             Replies <- Direct,
             debt <- [r \in Direct |-> Debt(r)],
             tries <- [r \in Direct |-> attempts[r]],
             shown <- [r \in Direct |-> shown[r]],
             MaxTries <- OutboxMaxRetries

\* With one gateway on the database and an adapter that waits for the platform,
\* replies are owed, tried and settled as DurableReply says: none is shown after it
\* was settled, and none is given up before it was tried as often as the retry
\* limit allows.
ImplementsDurableReply == Reply!Spec

\* A stored reply is sent at least once in spite of stops: what a crash left
\* behind is found by the next start.  Excepted is what lies beyond the replay
\* limit, or a start whose query (or a worker whose event) failed.
StoredIsTried ==
    \A r \in Replies :
        row[r] = "pending" ~>
            \/ attempts[r] > 0
            \/ faults > 0 \/ Cardinality(Rows) > ReplayLimit
=============================================================================
