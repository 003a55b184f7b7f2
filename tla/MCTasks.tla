------------------------------ MODULE MCTasks ------------------------------
(* The tasks around the lanes: the scheduler, the main loop with the WeCom  *)
(* connection, and the Weixin poller.  A behaviour moves one of the three.  *)
EXTENDS MessageFlow, Scheduler, WeixinPoll

VARIABLE moving

TasksInit == moving \in {"flow", "scheduler", "poller"} /\ FlowInit /\ Init /\ PollInit

TasksNext ==
    /\ UNCHANGED moving
    /\ \/ moving = "flow" /\ FlowNext /\ UNCHANGED <<vars, pollVars>>
       \/ moving = "scheduler" /\ Next /\ UNCHANGED <<flowVars, pollVars>>
       \/ moving = "poller" /\ PollNext /\ UNCHANGED <<flowVars, vars>>

TasksSpec ==
    /\ TasksInit /\ [][TasksNext]_<<moving, flowVars, vars, pollVars>>
    /\ FlowFairness /\ WF_vars(Tick) /\ PollFairness

\* The deduplicators of the two adapters: a message that the server repeats runs
\* again only over another connection, after a restart, or when it was forgotten.
NoneRunsTwice == RunsOncePerLink /\ TakenOncePerStart
=============================================================================
