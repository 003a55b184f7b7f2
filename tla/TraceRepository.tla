--------------------------- MODULE TraceRepository ---------------------------
(***************************************************************************)
(* One row of the trace tables and the statements that write it            *)
(* (trace_model.rs, the SQLite and the MySQL repository).                  *)
(*                                                                         *)
(* Most operations read the row, check the transition and write with       *)
(* WHERE status = <what was read>; the others are one UPDATE with a        *)
(* condition of its own.  Callers, in one gateway or in several on the     *)
(* same database, run between the statements of each other.  TraceWriter   *)
(* appends an event once the row is written.                               *)
(***************************************************************************)
EXTENDS TraceStatus, FiniteSets

CONSTANTS
    Callers,
    MaxErrors   \* bound: statements whose connection fails

ASSUME RepositoryAssumption == IsFiniteSet(Callers) /\ MaxErrors \in Nat

VARIABLES
    table,              \* "request", "run" or "outbox"
    status, retries,    \* the row; retry_count of an outbox row
    call, phase,        \* per caller: its operation, and the statement it is at
    seen,               \* per caller: the status it read
    outcome,            \* per caller: how the operation ended
    told,               \* terminal statuses of the row that the events tell of
    toldFailures,       \* OutboxFailed events
    errors

repositoryVars ==
    <<table, status, retries, call, phase, seen, outcome, told, toldFailures, errors>>

row == <<table, status, retries>>

NoCall == "none"

RequestWrites == {"complete_request", "fail_request", "start_run"}
RunWrites == {"succeed_run", "fail_run"}
OutboxWrites == {"mark_sent", "mark_failed"}
ReadFirst == RequestWrites \union RunWrites \union OutboxWrites

\* The operations of one statement, with the statuses in their WHERE.
Conditional == {"claim_accepted", "release_claim", "fail_if_accepted"}
Forced == {"force_fail", "sweep", "dismiss"}

Operations(t) ==
    CASE t = "request" -> RequestWrites \union Conditional \union {"force_fail", "sweep"}
      [] t = "run"     -> RunWrites
      [] t = "outbox"  -> OutboxWrites \union {"dismiss"}

Target(o) ==
    CASE o = "complete_request"                -> "completed"
      [] o \in {"start_run", "claim_accepted"} -> "running"
      [] o = "release_claim"                   -> "accepted"
      [] o = "succeed_run"                     -> "succeeded"
      [] o \in {"mark_sent", "dismiss"}        -> "sent"
      [] OTHER                                 -> "failed"

RepositoryInit ==
    /\ \/ table = "request" /\ status = "accepted"
       \/ table = "run" /\ status = "started"
       \/ table = "outbox" /\ status = "pending"
    /\ retries = 0
    /\ call = [c \in Callers |-> NoCall] /\ phase = [c \in Callers |-> "idle"]
    /\ seen = [c \in Callers |-> "none"] /\ outcome = [c \in Callers |-> "none"]
    /\ told = {} /\ toldFailures = 0 /\ errors = 0

Doing(c, p) == phase[c] = p
Goes(c, p) == phase' = [phase EXCEPT ![c] = p]
Ends(c, o) == Goes(c, "answer") /\ outcome' = [outcome EXCEPT ![c] = o]

CallRepository(c) ==
    /\ Doing(c, "idle")
    /\ \E o \in Operations(table) :
          /\ call' = [call EXCEPT ![c] = o]
          /\ Goes(c, IF o \in ReadFirst THEN "select" ELSE "update")
    /\ UNCHANGED <<row, seen, outcome, told, toldFailures, errors>>

\* can_transition_to of the status that was read, and the check of the retry limit.
LegalRequest(o) == o \in RequestWrites => CanTransition(status, Target(o))
LegalRun(o) == o \in RunWrites => CanFinish(status, Target(o))
LegalOutbox(o) ==
    o \in OutboxWrites =>
        CanDeliver(status, Target(o)) /\ (o = "mark_failed" => retries < OutboxMaxRetries)

Select(c) ==
    /\ Doing(c, "select")
    /\ IF LegalRequest(call[c]) /\ LegalRun(call[c]) /\ LegalOutbox(call[c])
       THEN Goes(c, "update") /\ seen' = [seen EXCEPT ![c] = status] /\ UNCHANGED outcome
       ELSE Ends(c, "refused") /\ UNCHANGED seen
    /\ UNCHANGED <<row, call, told, toldFailures, errors>>

\* WHERE of the UPDATE.
MatchesSeen_ById(c) == TRUE
MatchesSeen(c) == status = seen[c]
MatchesOutbox(c) ==
    MatchesSeen(c) /\ (call[c] = "mark_failed" => retries < OutboxMaxRetries)
MatchesExpected(o) == status = (IF o = "release_claim" THEN "running" ELSE "accepted")
MatchesForced(o) ==
    status \in IF o = "dismiss" THEN {"failed"} ELSE {"accepted", "running"}

Applies(c) ==
    /\ call[c] \in RequestWrites \union RunWrites => MatchesSeen(c)
    /\ call[c] \in OutboxWrites => MatchesOutbox(c)
    /\ call[c] \in Conditional => MatchesExpected(call[c])
    /\ call[c] \in Forced => MatchesForced(call[c])

Write(c) ==
    /\ status' = Target(call[c])
    /\ retries' = IF call[c] = "mark_failed" THEN retries + 1 ELSE retries

\* Only one row affected is a success; a sweep and /retry dismiss leave no event.
Update(c) ==
    /\ Doing(c, "update")
    /\ \/ /\ Applies(c) /\ Write(c)
          /\ outcome' = [outcome EXCEPT ![c] = "done"]
          /\ Goes(c, IF call[c] \in {"sweep", "dismiss"} THEN "answer" ELSE "append")
       \/ ~Applies(c) /\ Ends(c, "refused") /\ UNCHANGED <<status, retries>>
    /\ UNCHANGED <<table, call, seen, told, toldFailures, errors>>

\* The connection fails, before or after the database did what it was asked.
StatementFails(c) ==
    /\ phase[c] \in {"select", "update"}
    /\ errors < MaxErrors /\ errors' = errors + 1
    /\ Ends(c, "error")
    /\ \/ UNCHANGED <<status, retries>>
       \/ Doing(c, "update") /\ Applies(c) /\ Write(c)
    /\ UNCHANGED <<table, call, seen, told, toldFailures>>

Final == {"completed", "succeeded", "sent"}

\* The event of TraceWriter after the write; it may be lost.
AppendEvent(c) ==
    LET ends == Target(call[c]) \in Final \/ (Target(call[c]) = "failed" /\ table # "outbox")
    IN  /\ Doing(c, "append")
        /\ Goes(c, "answer")
        /\ \/ /\ told' = IF ends THEN told \union {Target(call[c])} ELSE told
              /\ toldFailures' = IF call[c] = "mark_failed" THEN toldFailures + 1 ELSE toldFailures
              /\ UNCHANGED errors
           \/ /\ errors < MaxErrors /\ errors' = errors + 1
              /\ UNCHANGED <<told, toldFailures>>
        /\ UNCHANGED <<row, call, seen, outcome>>

Return(c) ==
    /\ Doing(c, "answer")
    /\ Goes(c, "idle")
    /\ call' = [call EXCEPT ![c] = NoCall]
    /\ seen' = [seen EXCEPT ![c] = "none"] /\ outcome' = [outcome EXCEPT ![c] = "none"]
    /\ UNCHANGED <<row, told, toldFailures, errors>>

RepositoryNext ==
    \E c \in Callers :
        \/ CallRepository(c) \/ Select(c) \/ Update(c) \/ StatementFails(c)
        \/ AppendEvent(c) \/ Return(c)

RepositorySpec == RepositoryInit /\ [][RepositoryNext]_repositoryVars

-----------------------------------------------------------------------------
(* Properties. *)

Register == INSTANCE StatusRegister

\* The statements of an operation act like one atomic step: another writer between
\* the SELECT and the UPDATE makes the operation fail, never act on a stale row.
ImplementsRegister == Register!Spec

\* What the events of a row tell is what the row says: a terminal status that was
\* announced stays, whatever operations are still on their way, and no more failures
\* of a reply are announced than it has counted, up to the limit of tries.
EventsTellTheRow ==
    /\ told \subseteq {status}
    /\ toldFailures <= retries /\ retries <= OutboxMaxRetries
=============================================================================
