------------------------------ MODULE MCQueues ------------------------------
(* The queue by which a message reaches a worker and the one by which its   *)
(* answer reaches the platform.  A behaviour moves one of the two.          *)
EXTENDS OutboxDelivery, LaneChannel

VARIABLE moving

QueuesInit == moving \in {"lane", "outbox"} /\ LaneInit /\ Init

QueuesNext ==
    /\ UNCHANGED moving
    /\ \/ moving = "lane" /\ LaneNext /\ UNCHANGED vars
       \/ moving = "outbox" /\ Next /\ UNCHANGED laneVars

\* A lane that stays has nothing to do; an outbox that stays would start up.
QueuesSpec ==
    /\ QueuesInit /\ [][QueuesNext]_<<moving, laneVars, vars>>
    /\ LaneFairness
    /\ moving = "outbox" => Fairness
=============================================================================
