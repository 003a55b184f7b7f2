--------------------------- MODULE StatusRegister ---------------------------
(***************************************************************************)
(* What the writers of a trace row may rely on: however many of them call, *)
(* in one process or in several, each operation changes the row at one     *)
(* instant between its call and its answer, along a legal transition, or   *)
(* it is refused and changes nothing.  Only an error leaves it open        *)
(* whether the row was changed.                                            *)
(***************************************************************************)
EXTENDS TraceStatus

CONSTANTS Callers

VARIABLES table,    \* of the row
          status, retries,
          call,     \* per caller: its operation
          outcome   \* per caller: "none", "done", "refused" or "error"

registerVars == <<table, status, retries, call, outcome>>

NoCall == "none"

Operations(t) ==
    CASE t = "request" -> {"complete_request", "fail_request", "start_run", "claim_accepted",
                           "release_claim", "fail_if_accepted", "force_fail", "sweep"}
      [] t = "run"     -> {"succeed_run", "fail_run"}
      [] t = "outbox"  -> {"mark_sent", "mark_failed", "dismiss"}

\* The status an operation writes.
To(o) ==
    CASE o = "complete_request"               -> "completed"
      [] o \in {"start_run", "claim_accepted"} -> "running"
      [] o = "release_claim"                  -> "accepted"
      [] o = "succeed_run"                    -> "succeeded"
      [] o \in {"mark_sent", "dismiss"}       -> "sent"
      [] OTHER                                -> "failed"

\* The transition an operation may make, whatever the row was when it was called.
Allowed(o) ==
    /\ o \in {"complete_request", "fail_request", "start_run"} => CanTransition(status, To(o))
    /\ o \in {"claim_accepted", "fail_if_accepted"} => status = "accepted"
    /\ o = "release_claim" => status = "running"
    /\ o \in {"force_fail", "sweep"} => ~IsTerminal(status)
    /\ o \in {"succeed_run", "fail_run"} => CanFinish(status, To(o))
    /\ o = "mark_sent" => CanDeliver(status, "sent")
    /\ o = "mark_failed" => CanDeliver(status, "failed") /\ retries < OutboxMaxRetries
    /\ o = "dismiss" => status = "failed"

Changed(o) ==
    /\ Allowed(o)
    /\ status' = To(o)
    /\ retries' = IF o = "mark_failed" THEN retries + 1 ELSE retries

Init ==
    /\ \/ table = "request" /\ status = "accepted"
       \/ table = "run" /\ status = "started"
       \/ table = "outbox" /\ status = "pending"
    /\ retries = 0
    /\ call = [c \in Callers |-> NoCall] /\ outcome = [c \in Callers |-> "none"]

Call(c) ==
    /\ call[c] = NoCall
    /\ \E o \in Operations(table) : call' = [call EXCEPT ![c] = o]
    /\ UNCHANGED <<table, status, retries, outcome>>

Happens(c) ==
    /\ call[c] # NoCall /\ outcome[c] = "none"
    /\ \/ Changed(call[c]) /\ \E o \in {"done", "error"} : outcome' = [outcome EXCEPT ![c] = o]
       \/ /\ \E o \in {"refused", "error"} : outcome' = [outcome EXCEPT ![c] = o]
          /\ UNCHANGED <<status, retries>>
    /\ UNCHANGED <<table, call>>

Answer(c) ==
    /\ outcome[c] # "none"
    /\ call' = [call EXCEPT ![c] = NoCall] /\ outcome' = [outcome EXCEPT ![c] = "none"]
    /\ UNCHANGED <<table, status, retries>>

Next == \E c \in Callers : Call(c) \/ Happens(c) \/ Answer(c)

Spec == Init /\ [][Next]_registerVars
=============================================================================
