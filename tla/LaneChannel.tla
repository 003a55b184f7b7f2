---------------------------- MODULE LaneChannel ----------------------------
(***************************************************************************)
(* One lane (ingress or execution) of one conversation key: the map entry  *)
(* with its sender, the bounded tokio channel behind it, and the worker    *)
(* generations that read it (runner.rs: enqueue_lane, receive_from_lane,   *)
(* remove_sender_if_generation).                                           *)
(*                                                                         *)
(* A lane has one producer: the main loop for an ingress lane, the ingress *)
(* worker of the key for its execution lane.  A worker leaves after an     *)
(* idle period; the next message starts a new generation.  The hazards are *)
(* a message that reaches the channel of a worker which is leaving, and    *)
(* two generations that serve the key at once.                             *)
(*                                                                         *)
(* A panic of the code that handles a message ends the worker task: its    *)
(* receiver is dropped and its map entry stays, which is what the second   *)
(* attempt of enqueue_lane recovers from.                                  *)
(***************************************************************************)
EXTENDS Naturals, Sequences

CONSTANTS Capacity,   \* capacity of the tokio channel (128 in the code)
          Messages,   \* bound: messages the producer offers
          MaxPanics   \* bound: worker panics considered

ASSUME LaneAssumption ==
    /\ Capacity \in Nat \ {0}
    /\ Messages \in Nat
    /\ MaxPanics \in Nat

VARIABLES
    entry,     \* generation of the sender in the map, 0 when there is none
    newest,    \* the last generation handed out (next_worker_generation)
    buffer,    \* generation -> messages in its channel, oldest first
    task,      \* generation -> where its task stands
    pc,        \* where the producer stands in enqueue_lane
    offered,   \* messages offered so far; message i is the i-th
    holds,     \* generation whose sender the producer has cloned, or 0
    tries,     \* failed attempts for the current message
    sent,      \* messages whose send returned Ok
    taken,     \* messages handed to a worker's loop body, in order
    refused,   \* messages enqueue_lane gave back to its caller
    panics     \* panics so far

laneVars == <<entry, newest, buffer, task, pc, offered, holds, tries, sent,
          taken, refused, panics>>

\* Every lookup starts at most one generation and a message has two tries.
Generations == 1 .. 2 * Messages

Serving == {"receiving", "timedOut", "handling"}
WorkerStates == Serving \union {"unborn", "leaving", "gone"}
ProducerStates == {"idle", "lookup", "sending", "removing"}

\* The receiver half exists until the task's future is dropped.
ReceiverOpen(g) == task[g] \in Serving \union {"leaving"}

LaneInit ==
    /\ entry = 0
    /\ newest = 0
    /\ buffer = [g \in Generations |-> << >>]
    /\ task = [g \in Generations |-> "unborn"]
    /\ pc = "idle"
    /\ offered = 0
    /\ holds = 0
    /\ tries = 0
    /\ sent = 0
    /\ taken = << >>
    /\ refused = {}
    /\ panics = 0

-----------------------------------------------------------------------------
(* The producer: enqueue_lane. *)

Offer ==
    /\ pc = "idle"
    /\ offered < Messages
    /\ offered' = offered + 1
    /\ tries' = 0
    /\ pc' = "lookup"
    /\ UNCHANGED <<entry, newest, buffer, task, holds, sent, taken, refused,
                   panics>>

\* Under the map's lock: clone the sender that is there, or create a channel,
\* insert its sender and spawn the worker of a new generation.
Lookup ==
    /\ pc = "lookup"
    /\ pc' = "sending"
    /\ \/ /\ entry # 0
          /\ holds' = entry
          /\ UNCHANGED <<entry, newest, task>>
       \/ /\ entry = 0
          /\ newest' = newest + 1
          /\ entry' = newest + 1
          /\ holds' = newest + 1
          /\ task' = [task EXCEPT ![newest + 1] = "receiving"]
    /\ UNCHANGED <<buffer, offered, tries, sent, taken, refused, panics>>

HasRoom(g) == Len(buffer[g]) < Capacity

\* sender.tx.send(queued).await waits for room in the channel.
SendOk ==
    /\ pc = "sending"
    /\ ReceiverOpen(holds)
    /\ HasRoom(holds)
    /\ buffer' = [buffer EXCEPT ![holds] = Append(@, offered)]
    /\ sent' = sent + 1
    /\ holds' = 0
    /\ pc' = "idle"
    /\ UNCHANGED <<entry, newest, task, offered, tries, taken, refused,
                   panics>>

SendError ==
    /\ pc = "sending"
    /\ ~ReceiverOpen(holds)
    /\ pc' = "removing"
    /\ UNCHANGED <<entry, newest, buffer, task, offered, holds, tries, sent,
                   taken, refused, panics>>

\* remove_sender_if_generation: the entry goes only if it is still this one.
WithoutEntry_AnyGeneration(g) == 0
WithoutEntry(g) == IF entry = g THEN 0 ELSE entry

RemoveDead ==
    /\ pc = "removing"
    /\ entry' = WithoutEntry(holds)
    /\ holds' = 0
    /\ tries' = tries + 1
    /\ refused' = IF tries + 1 = 2 THEN refused \union {offered} ELSE refused
    /\ pc' = IF tries + 1 = 2 THEN "idle" ELSE "lookup"
    /\ UNCHANGED <<newest, buffer, task, offered, sent, taken, panics>>

-----------------------------------------------------------------------------
(* The worker of generation g: receive_from_lane and the loop around it. *)

TakeHead(g) ==
    /\ taken' = Append(taken, Head(buffer[g]))
    /\ buffer' = [buffer EXCEPT ![g] = Tail(@)]
    /\ task' = [task EXCEPT ![g] = "handling"]

Receive(g) ==
    /\ task[g] = "receiving"
    /\ buffer[g] # << >>
    /\ TakeHead(g)
    /\ UNCHANGED <<entry, newest, pc, offered, holds, tries, sent, refused,
                   panics>>

\* The timeout is polled after recv, so it fires on an empty channel only.
IdleTimeout(g) ==
    /\ task[g] = "receiving"
    /\ buffer[g] = << >>
    /\ task' = [task EXCEPT ![g] = "timedOut"]
    /\ UNCHANGED <<entry, newest, buffer, pc, offered, holds, tries, sent,
                   taken, refused, panics>>

\* Sender::strong_count: the one in the map and the producer's clone.
StrongCount_MapOnly(g) == IF entry = g THEN 1 ELSE 0
StrongCount(g) == (IF entry = g THEN 1 ELSE 0) + (IF holds = g THEN 1 ELSE 0)

\* Under the map's lock, in the order of the code: leave if the entry is not
\* ours, go on waiting if somebody holds a clone, take what slipped in, else
\* remove the entry and leave.
IdleCheck(g) ==
    /\ task[g] = "timedOut"
    /\ \/ /\ entry = g
          /\ StrongCount(g) > 1
          /\ task' = [task EXCEPT ![g] = "receiving"]
          /\ UNCHANGED <<entry, buffer, taken>>
       \/ /\ entry = g
          /\ StrongCount(g) <= 1
          /\ buffer[g] # << >>
          /\ TakeHead(g)
          /\ UNCHANGED entry
       \/ /\ entry # g \/ (StrongCount(g) <= 1 /\ buffer[g] = << >>)
          /\ task' = [task EXCEPT ![g] = "leaving"]
          /\ entry' = WithoutEntry(g)
          /\ UNCHANGED <<buffer, taken>>
    /\ UNCHANGED <<newest, pc, offered, holds, tries, sent, refused, panics>>

\* The loop body returns and the worker waits again.
Handled(g) ==
    /\ task[g] = "handling"
    /\ task' = [task EXCEPT ![g] = "receiving"]
    /\ UNCHANGED <<entry, newest, buffer, pc, offered, holds, tries, sent,
                   taken, refused, panics>>

\* After the loop: remove the entry if it is ours, drop the receiver with
\* whatever the channel still buffers.
Leave(g) ==
    /\ task[g] = "leaving"
    /\ entry' = WithoutEntry(g)
    /\ buffer' = [buffer EXCEPT ![g] = << >>]
    /\ task' = [task EXCEPT ![g] = "gone"]
    /\ UNCHANGED <<newest, pc, offered, holds, tries, sent, taken, refused,
                   panics>>

Panic(g) ==
    /\ task[g] = "handling"
    /\ panics < MaxPanics
    /\ panics' = panics + 1
    /\ buffer' = [buffer EXCEPT ![g] = << >>]
    /\ task' = [task EXCEPT ![g] = "gone"]
    /\ UNCHANGED <<entry, newest, pc, offered, holds, tries, sent, taken,
                   refused>>

Producer == Offer \/ Lookup \/ SendOk \/ SendError \/ RemoveDead

WorkerStep(g) == Receive(g) \/ IdleCheck(g) \/ Handled(g) \/ Leave(g)

LaneNext ==
    \/ Producer
    \/ \E g \in Generations : WorkerStep(g) \/ IdleTimeout(g) \/ Panic(g)

LaneSpec == LaneInit /\ [][LaneNext]_laneVars

\* Tasks that can run do run.  Nothing makes the idle timer or a panic happen.
\* Offering is up to the users.
LaneFairness ==
    /\ WF_laneVars(Lookup \/ SendOk \/ SendError \/ RemoveDead)
    /\ \A g \in Generations : WF_laneVars(WorkerStep(g))

FairLaneSpec == LaneSpec /\ LaneFairness

-----------------------------------------------------------------------------
(* Properties. *)

LaneTypeOK ==
    /\ entry \in {0} \union Generations
    /\ newest \in {0} \union Generations
    /\ buffer \in [Generations -> Seq(1 .. Messages)]
    /\ \A g \in Generations : Len(buffer[g]) <= Capacity
    /\ task \in [Generations -> WorkerStates]
    /\ pc \in ProducerStates
    /\ offered \in 0 .. Messages
    /\ holds \in {0} \union Generations
    /\ tries \in 0 .. 2
    /\ sent \in 0 .. Messages
    /\ taken \in Seq(1 .. Messages)
    /\ refused \subseteq 1 .. Messages
    /\ panics \in 0 .. MaxPanics

\* At most one worker generation reads the lane of a key, whatever the order
\* of idle exits, panics and new messages: "messages for the same conversation
\* are processed sequentially" rests on it.
OneServer ==
    \A g, h \in Generations :
        task[g] \in Serving /\ task[h] \in Serving => g = h

\* enqueue_lane never gives a message back: a send fails only on a channel
\* whose worker panicked, and the generation started by the second attempt
\* has nothing to panic on before the message arrives.
SecondTrySucceeds == refused = {}

\* The channel of the newest generation is the lane's queue: older ones are
\* empty, and so is that of a worker which left or panicked.
LaneQueue == IF newest = 0 THEN << >> ELSE buffer[newest]

Fifo == INSTANCE FifoLane WITH
            put <- sent, queue <- LaneQueue, crashes <- panics,
            MaxCrashes <- MaxPanics

\* The lane is a FIFO queue with one reader: no message is lost, duplicated or
\* overtaken when a worker times out while a message is being sent to it; only
\* a panic drops what the channel buffers.
ImplementsFifo == Fifo!Spec

\* Without panics every message that is offered is handed to a worker in the
\* end: no message is stranded in a channel nobody reads any more.
OfferedIsTaken ==
    \A m \in 1 .. Messages :
        (offered = m /\ pc = "lookup") ~>
            (panics > 0 \/ \E i \in DOMAIN taken : taken[i] = m)
=============================================================================
