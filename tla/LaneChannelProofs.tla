-------------------------- MODULE LaneChannelProofs --------------------------
(***************************************************************************)
(* LaneChannel keeps one server per lane, never gives a message back to    *)
(* its producer and implements FifoLane, for every capacity, number of     *)
(* messages and number of panics.                                          *)
(*                                                                         *)
(* The argument: every generation but the newest has left or panicked      *)
(* (Ages); a generation that serves is the one in the map (Served), so a   *)
(* new one is started only when nobody serves; a worker that leaves was    *)
(* not held by the producer, and nobody can reach it any more (Leaving);   *)
(* and after a failed send the producer talks to a generation that has not *)
(* handled anything, hence cannot have panicked (Retry).                   *)
(***************************************************************************)
EXTENDS LaneChannel, SequenceTheorems, TLAPS

\* The messages are counted: all that were offered have been sent, but for the
\* one in hand; and no more generations are started than there are attempts.
Counting ==
    /\ tries \in {0, 1}
    /\ refused = {}
    /\ pc = "idle" => sent = offered /\ newest <= 2 * offered
    /\ pc # "idle" => offered >= 1 /\ sent = offered - 1
    /\ pc = "lookup" => newest <= 2 * offered - 2 + tries
    /\ pc \in {"sending", "removing"} => newest <= 2 * offered - 1 + tries

\* Generations are born in order and only the newest may be at work.
Ages ==
    \A g \in Generations :
        /\ g < newest => task[g] \in {"leaving", "gone"}
        /\ g = newest => task[g] # "unborn"
        /\ g > newest => task[g] = "unborn"

\* The map and the producer know the newest generation or none; what serves is
\* in the map.
Served ==
    /\ entry \in {0, newest}
    /\ holds \in {0, newest}
    /\ pc \in {"sending", "removing"} <=> holds # 0
    /\ \A g \in Generations : task[g] \in Serving => entry = g

\* A channel without a reader is empty, and the one of a worker that decided to
\* leave cannot be reached.
Leaving ==
    \A g \in Generations :
        /\ task[g] \in {"unborn", "leaving", "gone"} => buffer[g] = << >>
        /\ task[g] = "leaving" => entry # g /\ holds # g

\* A send that failed met a worker that is gone; the second attempt meets one
\* that has had nothing to do.
Retry ==
    /\ pc = "removing" => task[holds] = "gone" /\ tries = 0
    /\ pc = "lookup" /\ tries = 1 => entry = 0
    /\ pc = "sending" /\ tries = 1 =>
           task[holds] \in {"receiving", "timedOut"} /\ buffer[holds] = << >>

Inv == LaneTypeOK /\ Counting /\ Ages /\ Served /\ Leaving /\ Retry

-----------------------------------------------------------------------------
\* The initial state satisfies the invariant.
LEMMA InvInit == LaneInit => Inv
<1> SUFFICES ASSUME LaneInit PROVE Inv
  OBVIOUS
<1> USE LaneAssumption DEF LaneInit
<1>1. LaneTypeOK
  BY DEF LaneTypeOK, Generations, WorkerStates, ProducerStates
<1>2. Counting /\ Ages /\ Served /\ Leaving /\ Retry
  BY DEF Counting, Ages, Served, Leaving, Retry, Generations, Serving
<1>. QED BY <1>1, <1>2 DEF Inv

\* Taking the head of a channel leaves a shorter, well-typed sequence.
LEMMA TakenHead ==
    ASSUME NEW s \in Seq(1 .. Messages), s # << >>
    PROVE  /\ Head(s) \in 1 .. Messages
           /\ Tail(s) \in Seq(1 .. Messages)
           /\ Len(Tail(s)) = Len(s) - 1
<1>1. Head(s) \in 1 .. Messages /\ Tail(s) \in Seq(1 .. Messages)
  BY HeadTailProperties
<1>2. Len(Tail(s)) = Len(s) - 1
  BY HeadTailProperties
<1>. QED BY <1>1, <1>2

-----------------------------------------------------------------------------
\* Offer preserves the invariant.
LEMMA OfferInv == Inv /\ Offer => Inv'
<1> SUFFICES ASSUME Inv, Offer PROVE Inv'
  OBVIOUS
<1> USE LaneAssumption DEF Inv, Offer
<1>1. LaneTypeOK'
  BY DEF LaneTypeOK, ProducerStates
<1>2. Counting' /\ Ages' /\ Served' /\ Leaving' /\ Retry'
  BY DEF LaneTypeOK, Counting, Ages, Served, Leaving, Retry
<1>. QED BY <1>1, <1>2

\* Lookup preserves the invariant: a generation is started only when no other
\* one serves the lane.
LEMMA LookupInv == Inv /\ Lookup => Inv'
<1> SUFFICES ASSUME Inv, Lookup PROVE Inv'
  OBVIOUS
<1> USE LaneAssumption DEF Inv, Lookup
<1>1. CASE entry # 0
  <2>1. LaneTypeOK'
    BY <1>1 DEF LaneTypeOK, ProducerStates
  <2>2. entry = newest /\ holds' = newest /\ tries = 0
    BY <1>1 DEF Served, Counting, Retry
  <2>3. Counting' /\ Ages' /\ Served'
    BY <1>1, <2>2 DEF LaneTypeOK, Counting, Ages, Served
  <2>4. Leaving' /\ Retry'
    BY <1>1, <2>2 DEF LaneTypeOK, Leaving, Retry
  <2>. QED BY <2>1, <2>3, <2>4
<1>2. CASE entry = 0
  <2>1. newest + 1 \in Generations /\ newest \in Nat
    BY SMTT(30) DEF LaneTypeOK, Counting, Generations
  <2>2. task' = [task EXCEPT ![newest + 1] = "receiving"]
    BY <1>2
  <2>3. LaneTypeOK'
    BY <1>2, <2>1, <2>2 DEF LaneTypeOK, ProducerStates, WorkerStates, Serving
  <2>4. Counting'
    BY <1>2, <2>1 DEF LaneTypeOK, Counting
  <2>5. Ages'
    BY <1>2, <2>1, <2>2 DEF LaneTypeOK, Ages, Served, Serving, WorkerStates, Generations
  <2>6. Served'
    BY <1>2, <2>1, <2>2 DEF LaneTypeOK, Served, Generations
  <2>7. Leaving'
    BY <1>2, <2>1, <2>2 DEF LaneTypeOK, Ages, Leaving, Generations
  <2>8. Retry'
    BY <1>2, <2>1, <2>2 DEF LaneTypeOK, Ages, Counting, Leaving, Retry, Generations
  <2>. QED BY <2>3, <2>4, <2>5, <2>6, <2>7, <2>8
<1>. QED BY <1>1, <1>2

\* SendOk preserves the invariant: the message lands in a channel that is read.
LEMMA SendOkInv == Inv /\ SendOk => Inv'
<1> SUFFICES ASSUME Inv, SendOk PROVE Inv'
  OBVIOUS
<1> USE LaneAssumption DEF Inv, SendOk
<1>1. holds \in Generations /\ holds = newest /\ task[holds] \in Serving
  BY DEF LaneTypeOK, Served, Leaving, ReceiverOpen
<1>2. offered \in 1 .. Messages /\ buffer[holds] \in Seq(1 .. Messages)
  BY <1>1 DEF LaneTypeOK, Counting
<1>3. /\ Append(buffer[holds], offered) \in Seq(1 .. Messages)
      /\ Len(Append(buffer[holds], offered)) = Len(buffer[holds]) + 1
  BY <1>2, AppendProperties
<1>4. Len(buffer[holds]) \in Nat /\ Len(buffer[holds]) < Capacity
  BY <1>2, LenProperties DEF HasRoom
<1>5. buffer' = [buffer EXCEPT ![holds] = Append(buffer[holds], offered)]
  OBVIOUS
<1>6. LaneTypeOK'
  <2>1. buffer' \in [Generations -> Seq(1 .. Messages)]
    BY <1>1, <1>3, <1>5 DEF LaneTypeOK
  <2>2. \A g \in Generations : Len(buffer'[g]) <= Capacity
    BY <1>1, <1>3, <1>4, <1>5 DEF LaneTypeOK
  <2>. QED BY <2>1, <2>2 DEF LaneTypeOK, ProducerStates, Counting
<1>7. Counting' /\ Ages' /\ Served' /\ Retry'
  BY DEF LaneTypeOK, Counting, Ages, Served, Retry
<1>8. Leaving'
  <2>1. holds' = 0 /\ \A g \in Generations : g # holds => buffer'[g] = buffer[g]
    BY <1>5 DEF LaneTypeOK
  <2>2. \A g \in Generations : task'[g] = "leaving" => entry' # g /\ holds' # g
    BY <2>1 DEF Leaving, Generations
  <2>3. \A g \in Generations :
            task'[g] \in {"unborn", "leaving", "gone"} => buffer'[g] = << >>
    BY <1>1, <2>1 DEF Leaving, Serving
  <2>. QED BY <2>2, <2>3 DEF Leaving
<1>. QED BY <1>6, <1>7, <1>8

\* SendError preserves the invariant: it happens on a first attempt only.
LEMMA SendErrorInv == Inv /\ SendError => Inv'
<1> SUFFICES ASSUME Inv, SendError PROVE Inv'
  OBVIOUS
<1> USE LaneAssumption DEF Inv, SendError
<1>1. holds \in Generations /\ task[holds] = "gone"
  BY DEF LaneTypeOK, Served, Ages, ReceiverOpen, WorkerStates
<1>2. tries = 0
  BY <1>1 DEF Counting, Retry
<1>3. LaneTypeOK'
  BY DEF LaneTypeOK, ProducerStates
<1>4. Counting' /\ Ages' /\ Served' /\ Leaving' /\ Retry'
  BY <1>1, <1>2 DEF LaneTypeOK, Counting, Ages, Served, Leaving, Retry
<1>. QED BY <1>3, <1>4

\* RemoveDead preserves the invariant: it removes the entry of the dead worker.
LEMMA RemoveDeadInv == Inv /\ RemoveDead => Inv'
<1> SUFFICES ASSUME Inv, RemoveDead PROVE Inv'
  OBVIOUS
<1> USE LaneAssumption DEF Inv, RemoveDead
<1>1. /\ holds \in Generations /\ holds = newest /\ task[holds] = "gone"
      /\ tries = 0
  BY DEF LaneTypeOK, Served, Retry
<1>2. entry' = 0
  BY <1>1 DEF Served, WithoutEntry
<1>3. pc' = "lookup" /\ tries' = 1 /\ refused' = refused
  BY <1>1
<1>4. LaneTypeOK'
  BY <1>2, <1>3 DEF LaneTypeOK, ProducerStates
<1>5. Counting' /\ Ages' /\ Served' /\ Leaving' /\ Retry'
  BY SMTT(30), <1>1, <1>2, <1>3 DEF LaneTypeOK, Counting, Ages, Served, Leaving, Retry, Serving,
                          Generations
<1>. QED BY <1>4, <1>5

-----------------------------------------------------------------------------
\* Whoever serves is the newest generation.
LEMMA ServingIsNewest ==
    ASSUME Inv, NEW g \in Generations, task[g] \in Serving
    PROVE  g = newest /\ entry = g
BY DEF Inv, Ages, Served, LaneTypeOK, Serving, Generations

\* Taking a message preserves the invariant.
LEMMA TakeHeadInv ==
    ASSUME Inv, NEW g \in Generations, task[g] \in {"receiving", "timedOut"},
           buffer[g] # << >>, TakeHead(g),
           UNCHANGED <<entry, newest, pc, offered, holds, tries, sent, refused, panics>>
    PROVE  Inv'
<1> USE LaneAssumption DEF TakeHead
<1>1. buffer[g] \in Seq(1 .. Messages)
  BY DEF Inv, LaneTypeOK
<1>2. /\ Head(buffer[g]) \in 1 .. Messages
      /\ Tail(buffer[g]) \in Seq(1 .. Messages)
      /\ Len(Tail(buffer[g])) = Len(buffer[g]) - 1
      /\ Len(buffer[g]) \in Nat
  BY <1>1, TakenHead, LenProperties
<1>3. g = newest /\ entry = g
  BY ServingIsNewest DEF Serving
<1>4. LaneTypeOK'
  <2>1. taken' \in Seq(1 .. Messages)
    BY <1>2, AppendProperties DEF Inv, LaneTypeOK
  <2>2. buffer' \in [Generations -> Seq(1 .. Messages)]
    BY <1>2 DEF Inv, LaneTypeOK
  <2>3. \A h \in Generations : Len(buffer'[h]) <= Capacity
    BY <1>2 DEF Inv, LaneTypeOK
  <2>. QED BY <2>1, <2>2, <2>3 DEF Inv, LaneTypeOK, WorkerStates, Serving
<1>5. Counting' /\ Ages' /\ Served'
  BY <1>3 DEF Inv, LaneTypeOK, Counting, Ages, Served, Serving, Generations
<1>6. Leaving' /\ Retry'
  BY <1>3 DEF Inv, LaneTypeOK, Counting, Leaving, Retry, Served, Generations
<1>. QED BY <1>4, <1>5, <1>6 DEF Inv

\* A step that moves the worker of g between serving states and nothing else
\* preserves the invariant.
LEMMA ServingMoveInv ==
    ASSUME Inv, NEW g \in Generations, task[g] \in Serving,
           NEW next \in {"receiving", "timedOut"},
           task' = [task EXCEPT ![g] = next],
           UNCHANGED <<entry, newest, buffer, pc, offered, holds, tries, sent, taken,
                       refused, panics>>
    PROVE  Inv'
<1>1. LaneTypeOK' /\ Counting'
  BY DEF Inv, LaneTypeOK, Counting, WorkerStates, Serving
<1>2. Ages' /\ Served' /\ Leaving' /\ Retry'
  BY ServingIsNewest DEF Inv, LaneTypeOK, Ages, Served, Leaving, Retry, Serving, Generations
<1>. QED BY <1>1, <1>2 DEF Inv

\* A worker that decides to leave takes its entry with it.
LEMMA DecideToLeaveInv ==
    ASSUME Inv, NEW g \in Generations, task[g] = "timedOut",
           StrongCount(g) <= 1, buffer[g] = << >>,
           task' = [task EXCEPT ![g] = "leaving"],
           entry' = WithoutEntry(g),
           UNCHANGED <<newest, buffer, pc, offered, holds, tries, sent, taken, refused,
                       panics>>
    PROVE  Inv'
<1>1. g = newest /\ entry = g
  BY ServingIsNewest DEF Serving
<1>2. entry' = 0 /\ holds # g
  BY <1>1 DEF WithoutEntry, StrongCount, Generations, Inv, Served
<1>3. LaneTypeOK' /\ Counting'
  BY <1>2 DEF Inv, LaneTypeOK, Counting, WorkerStates
<1>4. Ages'
  BY <1>1 DEF Inv, LaneTypeOK, Ages, Generations
<1>5. Served' /\ Leaving' /\ Retry'
  BY <1>1, <1>2 DEF Inv, LaneTypeOK, Ages, Served, Leaving, Retry, Serving, Generations
<1>. QED BY <1>3, <1>4, <1>5 DEF Inv

\* IdleCheck preserves the invariant: its worker is still the one in the map.
LEMMA IdleCheckInv ==
    ASSUME Inv, NEW g \in Generations, IdleCheck(g)
    PROVE  Inv'
<1>1. task[g] = "timedOut" /\ entry = g /\ task[g] \in Serving
  BY ServingIsNewest DEF IdleCheck, Serving
<1>2. CASE StrongCount(g) > 1 /\ task' = [task EXCEPT ![g] = "receiving"]
           /\ UNCHANGED <<entry, buffer, taken>>
  BY <1>1, <1>2, ServingMoveInv DEF IdleCheck
<1>3. CASE buffer[g] # << >> /\ TakeHead(g) /\ UNCHANGED entry
  BY <1>1, <1>3, TakeHeadInv DEF IdleCheck
<1>4. CASE /\ StrongCount(g) <= 1 /\ buffer[g] = << >>
           /\ task' = [task EXCEPT ![g] = "leaving"]
           /\ entry' = WithoutEntry(g)
           /\ UNCHANGED <<buffer, taken>>
  BY <1>1, <1>4, DecideToLeaveInv DEF IdleCheck
<1>. QED BY <1>1, <1>2, <1>3, <1>4 DEF IdleCheck

\* A worker whose task ends drops its channel.
LEMMA GoneInv ==
    ASSUME Inv, NEW g \in Generations,
           \/ task[g] = "leaving" /\ entry' = WithoutEntry(g) /\ panics' = panics
           \/ task[g] = "handling" /\ entry' = entry /\ panics' \in 0 .. MaxPanics,
           task' = [task EXCEPT ![g] = "gone"],
           buffer' = [buffer EXCEPT ![g] = << >>],
           UNCHANGED <<newest, pc, offered, holds, tries, sent, taken, refused>>
    PROVE  Inv'
<1>1. entry' = entry
  BY DEF Inv, Leaving, WithoutEntry
<1>2. task[g] = "handling" => g = newest
  BY ServingIsNewest DEF Serving
<1>3. LaneTypeOK' /\ Counting'
  BY <1>1, EmptySeq, LaneAssumption DEF Inv, LaneTypeOK, Counting, WorkerStates
<1>4. Ages'
  BY <1>2 DEF Inv, LaneTypeOK, Ages, Generations
<1>5. Served' /\ Leaving' /\ Retry'
  BY <1>1, <1>2 DEF Inv, LaneTypeOK, Counting, Ages, Served, Leaving, Retry, Serving, Generations
<1>. QED BY <1>3, <1>4, <1>5 DEF Inv

-----------------------------------------------------------------------------
\* Every step preserves the invariant.
LEMMA InvNext == Inv /\ [LaneNext]_laneVars => Inv'
<1> SUFFICES ASSUME Inv, [LaneNext]_laneVars PROVE Inv'
  OBVIOUS
<1>1. CASE Producer
  BY <1>1, OfferInv, LookupInv, SendOkInv, SendErrorInv, RemoveDeadInv DEF Producer
<1>2. ASSUME NEW g \in Generations, Receive(g) PROVE Inv'
  BY <1>2, TakeHeadInv DEF Receive
<1>3. ASSUME NEW g \in Generations, IdleTimeout(g) PROVE Inv'
  BY <1>3, ServingMoveInv DEF IdleTimeout, Serving
<1>4. ASSUME NEW g \in Generations, IdleCheck(g) PROVE Inv'
  BY <1>4, IdleCheckInv
<1>5. ASSUME NEW g \in Generations, Handled(g) PROVE Inv'
  BY <1>5, ServingMoveInv DEF Handled, Serving
<1>6. ASSUME NEW g \in Generations, Leave(g) PROVE Inv'
  BY <1>6, GoneInv DEF Leave
<1>7. ASSUME NEW g \in Generations, Panic(g) PROVE Inv'
  <2>1. panics' \in 0 .. MaxPanics
    BY <1>7, LaneAssumption DEF Panic, Inv, LaneTypeOK
  <2>. QED BY <1>7, <2>1, GoneInv DEF Panic
<1>8. CASE UNCHANGED laneVars
  BY <1>8 DEF laneVars, Inv, LaneTypeOK, Counting, Ages, Served, Leaving, Retry
<1>. QED BY <1>1, <1>2, <1>3, <1>4, <1>5, <1>6, <1>7, <1>8 DEF LaneNext, WorkerStep

\* The invariant holds in every reachable state.
LEMMA Invariant == LaneSpec => []Inv
BY InvInit, InvNext, PTL DEF LaneSpec

\* Type correctness of the lane for every capacity and number of messages: in
\* particular a channel never exceeds its capacity.
THEOREM TypeCorrect == LaneSpec => []LaneTypeOK
BY Invariant, PTL DEF Inv

\* At most one worker generation serves the lane of a key (run_ingress_worker,
\* run_conversation_worker): the messages of a conversation are processed one
\* at a time whatever the idle timers, panics and new messages do.
THEOREM OneServerAtATime == LaneSpec => []OneServer
<1>1. Inv => OneServer
  BY ServingIsNewest DEF OneServer
<1>. QED BY <1>1, Invariant, PTL

\* enqueue_lane never returns its message: two attempts are enough.
THEOREM TwoTriesAreEnough == LaneSpec => []SecondTrySucceeds
<1>1. Inv => SecondTrySucceeds
  BY DEF Inv, Counting, SecondTrySucceeds
<1>. QED BY <1>1, Invariant, PTL

-----------------------------------------------------------------------------
\* A step of the producer is a Put or invisible.
LEMMA ProducerRefines == Inv /\ Producer => [Fifo!Next]_(Fifo!fifoVars)
<1> SUFFICES ASSUME Inv, Producer PROVE [Fifo!Next]_(Fifo!fifoVars)
  OBVIOUS
<1>1. CASE Offer
  BY <1>1 DEF Offer, Fifo!fifoVars, LaneQueue
<1>2. CASE Lookup
  <2>1. CASE entry # 0
    BY <1>2, <2>1 DEF Lookup, Fifo!fifoVars, LaneQueue
  <2>2. CASE entry = 0
    <3>1. newest + 1 \in Generations /\ newest \in Nat
      BY <1>2, LaneAssumption DEF Lookup, Inv, LaneTypeOK, Counting, Generations
    <3>2. LaneQueue' = << >>
      BY <1>2, <2>2, <3>1 DEF Lookup, LaneQueue, Inv, Ages, Leaving
    <3>3. LaneQueue = << >>
      BY <2>2, <3>1 DEF LaneQueue, Inv, LaneTypeOK, Ages, Served, Leaving, Serving, WorkerStates, Generations
    <3>. QED BY <1>2, <3>2, <3>3 DEF Lookup, Fifo!fifoVars
  <2>. QED BY <2>1, <2>2
<1>3. CASE SendOk
  <2>1. holds \in Generations /\ holds = newest /\ newest # 0
    BY <1>3 DEF SendOk, Inv, LaneTypeOK, Served, Generations
  <2>2. offered = sent + 1
    BY <1>3 DEF SendOk, Inv, LaneTypeOK, Counting
  <2>3. LaneQueue' = Append(LaneQueue, sent + 1)
    BY <1>3, <2>1, <2>2 DEF SendOk, LaneQueue, Inv, LaneTypeOK
  <2>4. Len(LaneQueue) < Capacity
    BY <1>3, <2>1 DEF SendOk, LaneQueue, HasRoom
  <2>5. Fifo!Put
    BY <1>3, <2>3, <2>4 DEF SendOk, Fifo!Put
  <2>. QED BY <2>5 DEF Fifo!Next
<1>4. CASE SendError
  BY <1>4 DEF SendError, Fifo!fifoVars, LaneQueue
<1>5. CASE RemoveDead
  BY <1>5 DEF RemoveDead, Fifo!fifoVars, LaneQueue
<1>. QED BY <1>1, <1>2, <1>3, <1>4, <1>5 DEF Producer

\* Taking the head of the channel that serves is a Take.
LEMMA TakeRefines ==
    ASSUME Inv, NEW g \in Generations, task[g] \in Serving, buffer[g] # << >>,
           TakeHead(g), UNCHANGED <<newest, sent, panics>>
    PROVE  Fifo!Next
<1>1. g = newest /\ newest # 0
  BY ServingIsNewest DEF Generations
<1>2. LaneQueue = buffer[g] /\ LaneQueue' = Tail(buffer[g])
  BY <1>1 DEF LaneQueue, TakeHead, Inv, LaneTypeOK
<1>3. Fifo!Take
  BY <1>2 DEF Fifo!Take, TakeHead
<1>. QED BY <1>3 DEF Fifo!Next

\* A step of a worker is a Take, a Crash or invisible.
LEMMA WorkerRefines ==
    ASSUME Inv, NEW g \in Generations,
           WorkerStep(g) \/ IdleTimeout(g) \/ Panic(g)
    PROVE  [Fifo!Next]_(Fifo!fifoVars)
<1>1. CASE Receive(g)
  BY <1>1, TakeRefines DEF Receive, Serving
<1>2. CASE IdleCheck(g)
  <2>1. CASE TakeHead(g) /\ buffer[g] # << >>
    BY <1>2, <2>1, TakeRefines DEF IdleCheck, Serving
  <2>2. CASE UNCHANGED <<buffer, taken>>
    BY <1>2, <2>2 DEF IdleCheck, Fifo!fifoVars, LaneQueue
  <2>. QED BY <1>2, <2>1, <2>2 DEF IdleCheck
<1>3. CASE Handled(g) \/ IdleTimeout(g)
  BY <1>3 DEF Handled, IdleTimeout, Fifo!fifoVars, LaneQueue
<1>4. CASE Leave(g)
  <2>1. buffer' = buffer
    BY <1>4 DEF Leave, Inv, LaneTypeOK, Leaving
  <2>. QED BY <1>4, <2>1 DEF Leave, Fifo!fifoVars, LaneQueue
<1>5. CASE Panic(g)
  <2>1. g = newest /\ newest # 0
    BY <1>5, ServingIsNewest DEF Panic, Serving, Generations
  <2>2. LaneQueue' = << >>
    BY <1>5, <2>1 DEF Panic, LaneQueue, Inv, LaneTypeOK
  <2>3. Fifo!Crash
    BY <1>5, <2>2 DEF Panic, Fifo!Crash
  <2>. QED BY <2>3 DEF Fifo!Next
<1>. QED BY <1>1, <1>2, <1>3, <1>4, <1>5 DEF WorkerStep

\* The lane with its generations, idle exits and two-attempt send implements the
\* FIFO lane with one reader: nothing is lost, duplicated or overtaken.
THEOREM LaneIsFifo == LaneSpec => ImplementsFifo
<1>1. LaneInit => Fifo!Init
  BY DEF LaneInit, Fifo!Init, LaneQueue
<1>2. Inv /\ [LaneNext]_laneVars => [Fifo!Next]_(Fifo!fifoVars)
  <2>1. Inv /\ LaneNext => [Fifo!Next]_(Fifo!fifoVars)
    BY ProducerRefines, WorkerRefines DEF LaneNext
  <2>2. UNCHANGED laneVars => UNCHANGED Fifo!fifoVars
    BY DEF laneVars, Fifo!fifoVars, LaneQueue
  <2>. QED BY <2>1, <2>2
<1>. QED BY <1>1, <1>2, Invariant, PTL DEF LaneSpec, ImplementsFifo, Fifo!Spec
=============================================================================
