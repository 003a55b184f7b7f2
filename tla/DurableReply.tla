---------------------------- MODULE DurableReply ----------------------------
(***************************************************************************)
(* What the outbox promises for a final reply, seen from the chat: once it *)
(* is stored it is owed until it was shown and settled as sent, or every   *)
(* attempt it has failed, or the user dismissed it.  It may be shown more  *)
(* than once, but only while it is owed.  A reply that could not be stored *)
(* is tried once at most.                                                  *)
(***************************************************************************)
EXTENDS Naturals

CONSTANTS Replies, MaxTries

VARIABLES debt,   \* reply -> "none", "owed", "unstored", "tried", "sent",
                  \*          "expired" or "dismissed"
          tries,  \* reply -> how often it was sent
          shown   \* reply -> how often the chat displayed it in full

replyVars == <<debt, tries, shown>>

Init == /\ debt = [r \in Replies |-> "none"]
        /\ tries = [r \in Replies |-> 0]
        /\ shown = [r \in Replies |-> 0]

\* The turn ends: the reply is stored, or only in memory.
Owe(r) == /\ debt[r] = "none"
          /\ \E d \in {"owed", "unstored"} : debt' = [debt EXCEPT ![r] = d]
          /\ UNCHANGED <<tries, shown>>

Try(r) == /\ \/ debt[r] = "owed" /\ UNCHANGED debt
             \/ debt[r] = "unstored" /\ debt' = [debt EXCEPT ![r] = "tried"]
          /\ tries' = [tries EXCEPT ![r] = @ + 1]
          /\ \E more \in {0, 1} : shown' = [shown EXCEPT ![r] = @ + more]

Settle(r) == /\ debt[r] = "owed"
             /\ \/ shown[r] > 0 /\ debt' = [debt EXCEPT ![r] = "sent"]
                \/ tries[r] >= MaxTries /\ debt' = [debt EXCEPT ![r] = "expired"]
                \/ tries[r] > 0 /\ debt' = [debt EXCEPT ![r] = "dismissed"]
             /\ UNCHANGED <<tries, shown>>

Next == \E r \in Replies : Owe(r) \/ Try(r) \/ Settle(r)

Spec == Init /\ [][Next]_replyVars
=============================================================================
