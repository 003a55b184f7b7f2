---------------------------- MODULE TraceStatus ----------------------------
(***************************************************************************)
(* The statuses of trace requests and outbox rows and the transitions the  *)
(* repository accepts (trace_model.rs).  A transition is one atomic step    *)
(* that happens or fails, which TraceRepository shows of the statements.   *)
(***************************************************************************)
EXTENDS Naturals

RequestStatus == {"accepted", "running", "completed", "failed"}

IsTerminal(s) == s \in {"completed", "failed"}

\* RequestStatus::can_transition_to
CanTransition_FromFailed(from, to) ==
    \/ from = to
    \/ from \in {"accepted", "failed"} /\ to \in {"running", "completed", "failed"}
    \/ from = "running" /\ to \in {"completed", "failed"}

CanTransition(from, to) ==
    \/ from = to
    \/ from = "accepted" /\ to \in {"running", "completed", "failed"}
    \/ from = "running" /\ to \in {"completed", "failed"}

OutboxStatus == {"pending", "sent", "failed"}

\* OutboxStatus::can_transition_to
CanDeliver(from, to) ==
    \/ from = to
    \/ from = "pending" /\ to \in {"sent", "failed"}
    \/ from = "failed" /\ to \in {"sent", "failed"}

OutboxMaxRetries == 3

\* RunStatus::can_transition_to
CanFinish(from, to) == from = to \/ (from = "started" /\ to \in {"succeeded", "failed"})
=============================================================================
