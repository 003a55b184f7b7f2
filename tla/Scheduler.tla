------------------------------ MODULE Scheduler ------------------------------
(***************************************************************************)
(* The scheduler (scheduler.rs) and the commands that create and delete    *)
(* its jobs (mcp/tools_cron.rs, commands.rs) on one store.                 *)
(*                                                                         *)
(* A tick reads the due jobs and works through what it read, one after     *)
(* the other, while users change the table and the gateway may stop.       *)
(* Each call of the store is a step and may fail.                          *)
(***************************************************************************)
EXTENDS Integers, FiniteSets

CONSTANTS
    MaxJobs,    \* bound: jobs the chat creates
    Period,     \* time from one run of a cron expression to the next
    Day,        \* the 24 hours of next_run for what is no cron expression
    MaxTime,    \* bound: how long the jobs are watched
    MaxStops,   \* bound: stops of the gateway
    MaxFaults   \* bound: store calls that fail and turns without a response

ASSUME SchedulerAssumption ==
    /\ {Period, Day} \subseteq Nat \ {0}
    /\ {MaxJobs, MaxTime, MaxStops, MaxFaults} \subseteq Nat

VARIABLES
    clock,
    \* gw_cron_jobs: cron_expr and message as the kind of a job, next_run of the jobs
    \* that have a row, else NoRow
    kind, row,
    \* what the chat did with a job: "new", "inserted", "told", "deleted"
    life,
    \* the tick
    pc, batch, job, response,
    \* history: how often the outcome of a job's current run was stored or handed
    \* over (one-shot and polling jobs have one run), one-shot turns that were silent
    shown, silent,
    stops, faults

vars == <<clock, kind, row, life, pc, batch, job, response, shown, silent, stops, faults>>

table == <<kind, row, life>>
tick == <<pc, batch, job, response>>
history == <<shown, silent>>

Jobs == 1..MaxJobs   \* in the order of their creation
Kinds == {"once", "once_exec", "recurring", "polling"}
NoRow == -1
NoJob == 0
Reminder(j) == kind[j] = "once"
OneShot(j) == kind[j] \in {"once", "once_exec"}
HasRow(j) == row[j] # NoRow

\* next_cron_run_str, which falls back to 24 hours for "once" and "once_exec".
NextRun(k) == clock + (IF k \in {"once", "once_exec"} THEN Day ELSE Period)

Due(j) == HasRow(j) /\ row[j] <= clock

\* The tick is at this job.
Working(j) == job = j /\ pc \notin {"idle", "next"}

\* UPDATE ... SET next_run WHERE job_id: a row that is gone stays gone.
WithNextRun_Upsert(j, at) == [row EXCEPT ![j] = at]
WithNextRun(j, at) == [row EXCEPT ![j] = IF HasRow(j) THEN at ELSE NoRow]

\* A store call goes through, or fails.
Works == UNCHANGED faults
Fails == faults < MaxFaults /\ faults' = faults + 1

Init ==
    /\ clock = 0
    /\ kind = [j \in Jobs |-> "none"]
    /\ row = [j \in Jobs |-> NoRow]
    /\ life = [j \in Jobs |-> "new"]
    /\ pc = "idle" /\ batch = {} /\ job = NoJob /\ response = "none"
    /\ shown = [j \in Jobs |-> 0] /\ silent = {}
    /\ stops = 0 /\ faults = 0

\* A unit of time is long: remind_after is through with its two calls in one.
TimePasses ==
    /\ clock < MaxTime
    /\ \A j \in Jobs : life[j] # "inserted"
    /\ clock' = clock + 1
    /\ UNCHANGED <<table, tick, history, stops, faults>>

-----------------------------------------------------------------------------
(* The chat. *)

\* cron_add, and the first half of remind_after.
Create(j) ==
    /\ \A i \in Jobs : life[i] = "new" <=> i >= j
    /\ \E k \in Kinds :
          /\ kind' = [kind EXCEPT ![j] = k]
          /\ row' = [row EXCEPT ![j] = NextRun(k)]
          /\ life' = [life EXCEPT ![j] = IF k \in {"once", "once_exec"} THEN "inserted" ELSE "told"]
    /\ UNCHANGED <<clock, tick, history, stops, faults>>

\* The second half sets the time that was asked for; a failure is not reported.
SetTime(j) ==
    /\ life[j] = "inserted"
    /\ life' = [life EXCEPT ![j] = "told"]
    /\ \/ Works /\ row' = WithNextRun(j, clock + 1)
       \/ Fails /\ UNCHANGED row
    /\ UNCHANGED <<clock, kind, tick, history, stops>>

\* /cron del, /task cancel and cron_delete: the list shows a job at once.
Delete(j) ==
    /\ life[j] \in {"inserted", "told"}
    /\ HasRow(j)
    /\ row' = [row EXCEPT ![j] = NoRow]
    /\ life' = [life EXCEPT ![j] = "deleted"]
    /\ UNCHANGED <<clock, kind, tick, history, stops, faults>>

-----------------------------------------------------------------------------
(* A tick. *)

Poll_ClaimsAll ==
    /\ pc = "idle"
    /\ \E j \in Jobs : Due(j)
    /\ pc' = "next" /\ batch' = {j \in Jobs : Due(j)}
    /\ row' = [j \in Jobs |-> IF Due(j) THEN NextRun(kind[j]) ELSE row[j]]
    /\ UNCHANGED <<clock, kind, life, job, response, history, stops, faults>>
Poll ==
    /\ pc = "idle"
    /\ \E j \in Jobs : Due(j)
    /\ \/ Works /\ pc' = "next" /\ batch' = {j \in Jobs : Due(j)}
       \/ Fails /\ UNCHANGED <<pc, batch>>
    /\ UNCHANGED <<clock, table, job, response, history, stops>>

NextJob ==
    /\ pc = "next" /\ batch # {}
    /\ \E j \in batch :
          /\ job' = j
          /\ batch' = batch \ {j}
          /\ pc' = IF Reminder(j) THEN "store" ELSE "turn"
    /\ UNCHANGED <<clock, table, response, history, stops, faults>>

TickEnds ==
    /\ pc = "next" /\ batch = {}
    /\ pc' = "idle"
    /\ UNCHANGED <<clock, table, batch, job, response, history, stops, faults>>

\* What follows on the response of the turn; without one the job stays as it is
\* and the next tick runs it again.
AfterTurn_Settled(r) == IF r = "visible" THEN "store" ELSE "settle"
AfterTurn(r) == CASE r = "visible" -> "store" [] r = "silent" -> "settle" [] OTHER -> "next"

TurnAnswers ==
    /\ pc = "turn"
    /\ \E r \in {"visible", "silent", "nothing"} :
          /\ IF r = "nothing" THEN Fails ELSE Works
          /\ response' = r
          /\ pc' = AfterTurn(r)
          /\ silent' = IF r = "silent" /\ OneShot(job) THEN silent \union {job} ELSE silent
    /\ UNCHANGED <<clock, table, batch, job, shown, stops>>

\* A turn that fails before its end stores the error as its own reply, and the
\* scheduler stores and sends the same text again.
TurnFails ==
    /\ pc = "turn"
    /\ Fails
    /\ response' = "visible"
    /\ pc' = AfterTurn("visible")
    /\ shown' = [shown EXCEPT ![job] = @ + 1]
    /\ UNCHANGED <<clock, table, batch, job, silent, stops>>

\* enqueue_scheduler_outbox and the message to the main loop; when the store
\* fails the text goes without a row, which the main loop does not see before.
Store ==
    /\ pc = "store"
    /\ \/ Works /\ pc' = "send" /\ shown' = [shown EXCEPT ![job] = @ + 1]
       \/ Fails /\ pc' = "sendPlain" /\ UNCHANGED shown
    /\ UNCHANGED <<clock, table, batch, job, response, silent, stops>>

Send ==
    /\ pc \in {"send", "sendPlain"}
    /\ pc' = "settle"
    /\ shown' = IF pc = "sendPlain" THEN [shown EXCEPT ![job] = @ + 1] ELSE shown
    /\ UNCHANGED <<clock, table, batch, job, response, silent, stops, faults>>

Completed_Kept(j) == kind[j] = "once_exec"
Completed(j) == OneShot(j) \/ (kind[j] = "polling" /\ response = "visible")

Settle ==
    /\ pc = "settle"
    /\ pc' = "next" /\ job' = NoJob /\ response' = "none"
    /\ \/ /\ Works
          /\ row' = IF Completed(job) THEN [row EXCEPT ![job] = NoRow]
                    ELSE WithNextRun(job, NextRun(kind[job]))
          /\ shown' = IF kind[job] = "recurring" THEN [shown EXCEPT ![job] = 0] ELSE shown
       \/ Fails /\ UNCHANGED <<row, shown>>
    /\ UNCHANGED <<clock, kind, life, batch, silent, stops>>

-----------------------------------------------------------------------------
(* The gateway stops and starts again with the next tick. *)

Stop ==
    /\ stops < MaxStops
    /\ stops' = stops + 1
    /\ pc' = "idle" /\ batch' = {} /\ job' = NoJob /\ response' = "none"
    /\ life' = [j \in Jobs |-> IF life[j] = "inserted" THEN "told" ELSE life[j]]
    /\ UNCHANGED <<clock, kind, row, history, faults>>

Tick == Poll \/ NextJob \/ TickEnds \/ TurnAnswers \/ TurnFails \/ Store \/ Send \/ Settle

Next ==
    \/ TimePasses
    \/ \E j \in Jobs : Create(j) \/ SetTime(j) \/ Delete(j)
    \/ Tick
    \/ Stop

Spec == Init /\ [][Next]_vars

\* The interval ticks, and a scheduled turn comes to an end (EveryRequestEnds).
FairSpec == Spec /\ WF_vars(Tick)

-----------------------------------------------------------------------------
(* Properties. *)

TypeOK ==
    /\ clock \in 0..MaxTime
    /\ kind \in [Jobs -> Kinds \union {"none"}] /\ row \in [Jobs -> Int]
    /\ life \in [Jobs -> {"new", "inserted", "told", "deleted"}]
    /\ pc \in {"idle", "next", "turn", "store", "send", "sendPlain", "settle"}
    /\ batch \subseteq Jobs /\ job \in Jobs \union {NoJob}
    /\ pc \notin {"idle", "next"} => job \in Jobs
    /\ response \in {"none", "visible", "silent", "nothing"}
    /\ shown \in [Jobs -> Nat] /\ silent \subseteq Jobs
    /\ stops \in 0..MaxStops /\ faults \in 0..MaxFaults

\* A job only leaves the table when its chat deleted it or an outcome of it is
\* stored, handed over or was silent: a stop, a failing call or a turn without a
\* response never costs a reminder (tick: "will re-fire").
NoneVanishes ==
    \A j \in Jobs :
        ~HasRow(j) /\ life[j] \in {"inserted", "told"} => shown[j] > 0 \/ j \in silent

\* A one-shot job and a polling job show one outcome, and a recurring one shows one
\* each time it was due, but for stops, failing calls and the own replies of turns
\* that failed (delete_cron_job and mark_job_run come after the outcome).
OncePerDue == \A j \in Jobs : shown[j] <= 1 + stops + faults

\* What a chat deleted stays deleted, although the tick that runs it, or the
\* command that creates it, goes on to write the row.
DeletedStaysDeleted == \A j \in Jobs : life[j] = "deleted" => ~HasRow(j)

\* A job that is due is begun, whatever the jobs before it in the tick do, unless
\* its chat deletes it.
DueIsBegun == \A j \in Jobs : Due(j) ~> Working(j) \/ ~HasRow(j)
=============================================================================
