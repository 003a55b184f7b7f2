-------------------------- MODULE ConversationProofs --------------------------
(***************************************************************************)
(* What holds of ConversationLanes for any number of conversations,        *)
(* permits, retries and requests, and whatever step of the way fails: the  *)
(* counters of the lanes are exact, a backend is handed each message once  *)
(* and in order of arrival, and the rows of the requests follow them.      *)
(*                                                                         *)
(* The argument has two layers.  Flow says where the requests of a key are *)
(* and in which order: handed over, running, waiting, dispatching,         *)
(* arriving, offered, each place before the next, and nothing waits while  *)
(* ingress may steer.  None of that reads a row.  Rows adds what a place   *)
(* says of the row of the request in it: open before the turn, running and *)
(* not cancelled from the claim on, settled behind it; a request that is   *)
(* in no place is settled or its reply is with the outbox.                 *)
(*                                                                         *)
(* For either layer a step is one of a few moves (FlowStays, IngressMoves, *)
(* ExecutionMoves; RowsStep, IngressRows, ExecutionRows), and a step of one*)
(* key leaves the others as they are (FlowElsewhere).                      *)
(***************************************************************************)
EXTENDS ConversationLanes, SequenceTheorems, TLAPS

\* The requests of a sequence of identifiers, and that it is in order of arrival.
Elems(s) == {s[i] : i \in 1 .. Len(s)}
Increasing(s) == \A i, j \in 1 .. Len(s) : i < j => s[i] < s[j]
Before(A, B) == \A a \in A, b \in B : a < b

\* Where a request of key k can be.
Running(k) == IF ex[k].at = "idle" THEN {} ELSE {ex[k].req}
Waiting(k) == Elems(execution[k])
Dispatching(k) == IF ing[k].at = "idle" THEN {} ELSE {ing[k].req}
Arriving(k) == Elems(ingress[k])
Offered(k) == {r \in Arrived : main.at = "offering" /\ main.req = r /\ KeyOf(r) = k}
Handed(k) == Elems(handed[k])
OfKey(k) == {r \in Arrived : KeyOf(r) = k}

\* What may still be handed to the backend.
DispatchPlaces == {"check", "probe", "claim", "dispatch", "release", "enqueue", "put"}
RunPlaces == {"dequeued", "check", "permit", "start", "prepare"}
ToDispatch(k) == IF ing[k].at \in DispatchPlaces THEN {ing[k].req} ELSE {}
ToRun(k) == IF ex[k].at \in RunPlaces THEN {ex[k].req} ELSE {}

\* What the two workers of a key may hold, and the types of all that the proofs
\* read.
IngTypes == [at : IngPlaces, req : Nat, tries : Nat]
ExTypes == [at : ExPlaces, req : Nat, response : {"none", "outbox", "plain"}]

LaneTypes ==
    /\ main.at \in {"select", "offering", "cancelling", "escaping", "interrupting"}
    /\ requests \in Seq([key : Keys, sort : Sorts, traced : BOOLEAN])
    /\ Len(requests) <= MaxRequests
    /\ status \in [Ids -> RequestStatus \union {"none"}]
    /\ ingress \in [Keys -> Seq(Nat)] /\ execution \in [Keys -> Seq(Nat)]
    /\ handed \in [Keys -> Seq(Nat)]
    /\ ing \in [Keys -> IngTypes]
    /\ ex \in [Keys -> ExTypes]
    /\ waiting \in [Keys -> Nat]
    /\ active \in [Keys -> BOOLEAN]
    /\ reply \in [Ids -> Replies]

\* A request is on the lanes of its own key.
MainKnows == main.at # "select" => main.req \in Arrived
OnOwnLane(k) ==
    Running(k) \union Waiting(k) \union Dispatching(k) \union Arriving(k) \union Handed(k)
        \subseteq OfKey(k)

\* Along the lanes of a key requests are in order of arrival, each in one place.
InOrder(k) ==
    /\ Increasing(execution[k]) /\ Increasing(ingress[k])
    /\ Before(Running(k), Waiting(k) \union Dispatching(k) \union Arriving(k) \union Offered(k))
    /\ Before(Waiting(k), Dispatching(k) \union Arriving(k) \union Offered(k))
    /\ Before(Dispatching(k), Arriving(k) \union Offered(k))
    /\ Before(Arriving(k), Offered(k))

\* The backend has only what came before all that may still be handed to it.
HandedFirst(k) ==
    /\ Increasing(handed[k])
    /\ Before(Handed(k), ToRun(k) \union Waiting(k) \union ToDispatch(k) \union Arriving(k)
                             \union Offered(k))

\* Nothing waits that a text which steers would overtake.
NothingOvertaken(k) ==
    ing[k].at \in {"claim", "dispatch"} =>
        execution[k] = << >> /\ ex[k].at \notin {"dequeued", "check", "permit"}

\* Both counters, with the request that is between a lane and its count.
WaitingExact(k) ==
    waiting[k] = Len(execution[k]) + (IF ing[k].at = "put" THEN 1 ELSE 0)
                                   + (IF ex[k].at = "dequeued" THEN 1 ELSE 0)
ActiveExact(k) == active[k] <=> ex[k].at \in {"start", "prepare", "turn", "finished"}
Counters(k) == WaitingExact(k) /\ ActiveExact(k)

\* The order of the requests of a key, and of all keys.
FlowOf(k) ==
    OnOwnLane(k) /\ InOrder(k) /\ HandedFirst(k) /\ NothingOvertaken(k) /\ Counters(k)

Flow == LaneTypes /\ MainKnows /\ \A k \in Keys : FlowOf(k)

-----------------------------------------------------------------------------
(* Sequences of requests. *)

\* What a lane holds, before and after it is appended to or its head is taken.
LEMMA ElemsType == ASSUME NEW s \in Seq(Nat) PROVE Elems(s) \subseteq Nat /\ Len(s) \in Nat
BY LenProperties, ElementOfSeq DEF Elems

LEMMA ElemsAppend ==
    ASSUME NEW s \in Seq(Nat), NEW x \in Nat
    PROVE  /\ Append(s, x) \in Seq(Nat) /\ Len(Append(s, x)) = Len(s) + 1
           /\ Elems(Append(s, x)) = Elems(s) \union {x}
           /\ Increasing(s) /\ Before(Elems(s), {x}) => Increasing(Append(s, x))
<1> DEFINE t == Append(s, x)
<1>1. /\ t \in Seq(Nat) /\ Len(t) = Len(s) + 1 /\ Len(s) \in Nat
      /\ \A i \in 1 .. Len(s) : t[i] = s[i]
      /\ t[Len(s) + 1] = x
  BY AppendProperties, LenProperties
<1> HIDE DEF t
<1>2. Elems(t) = Elems(s) \union {x}
  <2>1. ASSUME NEW i \in 1 .. Len(t) PROVE t[i] = x \/ t[i] \in Elems(s)
    <3>1. i \in 1 .. Len(s) \/ i = Len(s) + 1
      BY <1>1
    <3>. QED BY <1>1, <3>1 DEF Elems
  <2>2. ASSUME NEW i \in 1 .. Len(s) PROVE s[i] \in Elems(t)
    <3>1. i \in 1 .. Len(t) /\ t[i] = s[i]
      BY <1>1
    <3>. QED BY <3>1 DEF Elems
  <2>3. x \in Elems(t)
    <3>1. Len(t) \in 1 .. Len(t) /\ t[Len(t)] = x
      BY <1>1
    <3>. QED BY <3>1 DEF Elems
  <2>. QED BY <2>1, <2>2, <2>3 DEF Elems
<1>3. ASSUME Increasing(s), Before(Elems(s), {x}) PROVE Increasing(t)
  <2> SUFFICES ASSUME NEW i \in 1 .. Len(t), NEW j \in 1 .. Len(t), i < j PROVE t[i] < t[j]
    BY DEF Increasing
  <2>1. i \in 1 .. Len(s)
    BY <1>1
  <2>2. CASE j \in 1 .. Len(s)
    BY <1>1, <1>3, <2>1, <2>2 DEF Increasing
  <2>3. CASE j = Len(s) + 1
    BY <1>1, <1>3, <2>1, <2>3 DEF Elems, Before
  <2>. QED BY <1>1, <2>2, <2>3
<1>. QED BY <1>1, <1>2, <1>3 DEF t

LEMMA ElemsTail ==
    ASSUME NEW s \in Seq(Nat), s # << >>
    PROVE  /\ Head(s) \in Nat /\ Tail(s) \in Seq(Nat) /\ Len(Tail(s)) = Len(s) - 1
           /\ Elems(s) = {Head(s)} \union Elems(Tail(s))
           /\ Increasing(s) => Increasing(Tail(s)) /\ Before({Head(s)}, Elems(Tail(s)))
<1> DEFINE t == Tail(s)
<1>1. /\ Head(s) \in Nat /\ t \in Seq(Nat) /\ Len(t) = Len(s) - 1 /\ Len(s) \in Nat \ {0}
      /\ \A i \in 1 .. Len(t) : t[i] = s[i + 1]
      /\ Head(s) = s[1]
  BY HeadTailProperties, EmptySeq, LenProperties
<1> HIDE DEF t
<1>2. ASSUME NEW i \in 1 .. Len(t) PROVE i + 1 \in 1 .. Len(s)
  BY <1>1
<1>3. Elems(s) = {Head(s)} \union Elems(t)
  <2>1. Elems(t) \subseteq Elems(s)
    BY <1>1, <1>2 DEF Elems
  <2>2. Head(s) \in Elems(s)
    BY <1>1 DEF Elems
  <2>3. ASSUME NEW i \in 1 .. Len(s) PROVE s[i] = Head(s) \/ s[i] \in Elems(t)
    <3>1. i = 1 \/ (i - 1 \in 1 .. Len(t) /\ (i - 1) + 1 = i)
      BY <1>1
    <3>. QED BY <1>1, <3>1 DEF Elems
  <2>. QED BY <2>1, <2>2, <2>3 DEF Elems
<1>4. ASSUME Increasing(s) PROVE Increasing(t) /\ Before({Head(s)}, Elems(t))
  <2>1. Increasing(t)
    <3> SUFFICES ASSUME NEW i \in 1 .. Len(t), NEW j \in 1 .. Len(t), i < j PROVE t[i] < t[j]
      BY DEF Increasing
    <3>1. i + 1 < j + 1
      BY <1>1
    <3>. QED BY <1>1, <1>2, <1>4, <3>1 DEF Increasing
  <2>2. ASSUME NEW i \in 1 .. Len(t) PROVE Head(s) < t[i]
    <3>1. 1 \in 1 .. Len(s) /\ 1 < i + 1
      BY <1>1
    <3>. QED BY <1>1, <1>2, <1>4, <3>1 DEF Increasing
  <2>. QED BY <2>1, <2>2 DEF Before, Elems
<1>. QED BY <1>1, <1>3, <1>4 DEF t

-----------------------------------------------------------------------------
(* The places of the workers. *)

\* The workers change places; the request goes along, and other keys stay.
LEMMA IngGoes ==
    ASSUME LaneTypes, NEW k \in Keys, NEW place \in IngPlaces, GoIng(k, place)
    PROVE  /\ ing' \in [Keys -> IngTypes]
           /\ ing'[k].at = place /\ (place # "idle" => ing'[k].req = ing[k].req)
           /\ \A j \in Keys : j # k => ing'[j] = ing[j]
<1>1. ing \in [Keys -> IngTypes]
  BY DEF LaneTypes
<1>2. CASE place = "idle"
  BY <1>1, <1>2 DEF GoIng, IngIdle, IngTypes
<1>3. CASE place # "idle"
  BY <1>1, <1>3 DEF GoIng, IngTypes
<1>. QED BY <1>2, <1>3

LEMMA IngRetries ==
    ASSUME LaneTypes, NEW k \in Keys, NEW place \in IngPlaces,
           ing' = [ing EXCEPT ![k].tries = @ + 1, ![k].at = place]
    PROVE  /\ ing' \in [Keys -> IngTypes]
           /\ ing'[k].at = place /\ ing'[k].req = ing[k].req
           /\ \A j \in Keys : j # k => ing'[j] = ing[j]
<1>1. ing \in [Keys -> IngTypes]
  BY DEF LaneTypes
<1>2. PICK claim : claim = [ing[k] EXCEPT !.tries = @ + 1]
  OBVIOUS
<1>3. claim \in IngTypes /\ claim.req = ing[k].req
  <2>1. ing[k] \in IngTypes
    BY <1>1
  <2>. QED BY <1>2, <2>1 DEF IngTypes
<1>4. /\ [claim EXCEPT !.at = place] \in IngTypes
      /\ [claim EXCEPT !.at = place].at = place /\ [claim EXCEPT !.at = place].req = claim.req
  BY <1>3 DEF IngTypes
<1>5. ing' = [ing EXCEPT ![k] = [claim EXCEPT !.at = place]]
  BY <1>1, <1>2
<1>. QED BY <1>1, <1>3, <1>4, <1>5

LEMMA ExGoes ==
    ASSUME LaneTypes, NEW k \in Keys, NEW place \in ExPlaces, GoEx(k, place)
    PROVE  /\ ex' \in [Keys -> ExTypes]
           /\ ex'[k].at = place
           /\ IF place = "idle" THEN ex'[k] = ExIdle
                                ELSE ex'[k].req = ex[k].req /\ ex'[k].response = ex[k].response
           /\ \A j \in Keys : j # k => ex'[j] = ex[j]
<1>1. ex \in [Keys -> ExTypes]
  BY DEF LaneTypes
<1>2. CASE place = "idle"
  BY <1>1, <1>2 DEF GoEx, ExIdle, ExTypes
<1>3. CASE place # "idle"
  BY <1>1, <1>3 DEF GoEx, ExTypes
<1>. QED BY <1>2, <1>3

LEMMA ExFinishes ==
    ASSUME LaneTypes, NEW k \in Keys, NEW response \in {"none", "outbox", "plain"},
           Finish(k, response)
    PROVE  /\ ex' \in [Keys -> ExTypes]
           /\ ex'[k].at = "finished" /\ ex'[k].req = ex[k].req /\ ex'[k].response = response
           /\ \A j \in Keys : j # k => ex'[j] = ex[j]
<1>1. ex \in [Keys -> ExTypes]
  BY DEF LaneTypes
<1>2. ex[k] \in ExTypes /\ "finished" \in ExPlaces
  BY <1>1 DEF ExPlaces
<1>3. ex' = [ex EXCEPT ![k] = [ex[k] EXCEPT !.at = "finished", !.response = response]]
  BY <1>1 DEF Finish
<1>. QED BY <1>1, <1>2, <1>3 DEF ExTypes

-----------------------------------------------------------------------------
(* How requests move along the lanes of a key. *)

\* The lanes of a key that nothing touches stay as they are, also when a request
\* arrives for another key.
LEMMA FlowElsewhere ==
    ASSUME NEW j \in Keys, FlowOf(j),
           requests' \in Seq([key : Keys, sort : Sorts, traced : BOOLEAN]),
           \A r \in Arrived : r \in Arrived' /\ KeyOf(r)' = KeyOf(r),
           ingress'[j] = ingress[j], execution'[j] = execution[j], handed'[j] = handed[j],
           ing'[j] = ing[j], ex'[j] = ex[j], waiting'[j] = waiting[j], active'[j] = active[j],
           Offered(j)' \subseteq Offered(j)
    PROVE  FlowOf(j)'
<1>1. OnOwnLane(j)'
  BY DEF FlowOf, OnOwnLane, OfKey, Running, Waiting, Dispatching, Arriving, Handed
<1>2. InOrder(j)'
  BY DEF FlowOf, InOrder, Before, Running, Waiting, Dispatching, Arriving
<1>3. HandedFirst(j)'
  BY DEF FlowOf, HandedFirst, Before, ToRun, ToDispatch, Waiting, Arriving, Handed
<1>4. NothingOvertaken(j)' /\ Counters(j)'
  BY DEF FlowOf, NothingOvertaken, Counters, WaitingExact, ActiveExact
<1>. QED BY <1>1, <1>2, <1>3, <1>4 DEF FlowOf

\* A worker that takes nothing and hands nothing on keeps the order.
LEMMA FlowStays ==
    ASSUME NEW k \in Keys, FlowOf(k),
           UNCHANGED requests,
           ingress'[k] = ingress[k], execution'[k] = execution[k], handed'[k] = handed[k],
           Offered(k)' \subseteq Offered(k),
           Running(k)' \subseteq Running(k), ToRun(k)' \subseteq ToRun(k),
           Dispatching(k)' \subseteq Dispatching(k), ToDispatch(k)' \subseteq ToDispatch(k),
           NothingOvertaken(k)', Counters(k)'
    PROVE  FlowOf(k)'
<1>1. OnOwnLane(k)'
  BY DEF FlowOf, OnOwnLane, OfKey, Waiting, Arriving, Handed, Arrived, KeyOf
<1>2. InOrder(k)'
  BY DEF FlowOf, InOrder, Before, Waiting, Arriving
<1>3. HandedFirst(k)'
  BY DEF FlowOf, HandedFirst, Before, Waiting, Arriving, Handed
<1>. QED BY <1>1, <1>2, <1>3 DEF FlowOf

\* A step of the main loop that offers nothing.
LEMMA MainFlow ==
    ASSUME Flow, LaneTypes', MainKnows',
           main'.at # "offering",
           UNCHANGED <<requests, ingress, ing, waiting, active, execution, ex, handed>>
    PROVE  Flow'
<1>1. ASSUME NEW j \in Keys PROVE FlowOf(j)'
  <2>1. Offered(j)' = {}
    BY DEF Offered
  <2>2. requests \in Seq([key : Keys, sort : Sorts, traced : BOOLEAN])
    BY DEF Flow, LaneTypes
  <2>. QED BY <2>1, <2>2, FlowElsewhere DEF Flow, Arrived, KeyOf
<1>. QED BY <1>1 DEF Flow

\* A step of a worker of key k leaves the other keys as they are.
LEMMA WorkerFlow ==
    ASSUME Flow, NEW k \in Keys, LaneTypes', UNCHANGED <<main, requests>>,
           \A j \in Keys : j # k =>
               /\ ingress'[j] = ingress[j] /\ execution'[j] = execution[j] /\ handed'[j] = handed[j]
               /\ ing'[j] = ing[j] /\ ex'[j] = ex[j]
               /\ waiting'[j] = waiting[j] /\ active'[j] = active[j],
           FlowOf(k)'
    PROVE  Flow'
<1>1. ASSUME NEW j \in Keys, j # k PROVE FlowOf(j)'
  <2>1. Offered(j)' = Offered(j)
    BY DEF Offered, Arrived, KeyOf
  <2>2. requests \in Seq([key : Keys, sort : Sorts, traced : BOOLEAN])
    BY DEF Flow, LaneTypes
  <2>. QED BY <1>1, <2>1, <2>2, FlowElsewhere DEF Flow, Arrived, KeyOf
<1>2. MainKnows'
  BY DEF Flow, MainKnows, Arrived
<1>. QED BY <1>1, <1>2 DEF Flow

\* The ingress worker goes on with its request or is done with it.
LEMMA IngressMoves ==
    ASSUME Flow, NEW k \in Keys, NEW place \in IngPlaces, ing' \in [Keys -> IngTypes],
           ing'[k].at = place, place # "idle" => ing'[k].req = ing[k].req,
           \A j \in Keys : j # k => ing'[j] = ing[j],
           ing[k].at # "idle", ing[k].at # "put", place # "put",
           place \in DispatchPlaces => ing[k].at \in DispatchPlaces,
           place \in {"claim", "dispatch"} => ing[k].at = "claim" \/ CanSteer(k),
           status' \in [Ids -> RequestStatus \union {"none"}], reply' \in [Ids -> Replies],
           UNCHANGED <<main, requests, ingress, waiting, active, execution, ex, handed>>
    PROVE  Flow'
<1>1. LaneTypes'
  BY DEF Flow, LaneTypes
<1>2. FlowOf(k) /\ NothingOvertaken(k) /\ Counters(k)
  BY DEF Flow, FlowOf
<1>3. NothingOvertaken(k)'
  <2>1. ASSUME CanSteer(k) PROVE execution[k] = << >> /\ ex[k].at \notin {"dequeued", "check", "permit"}
    <3>1. execution[k] \in Seq(Nat)
      BY DEF Flow, LaneTypes
    <3>2. Len(execution[k]) \in Nat
      BY <3>1, LenProperties
    <3>3. waiting[k] = 0 /\ ex[k].at \in {"start", "prepare", "turn", "finished"}
      BY <2>1, <1>2 DEF CanSteer, Counters, ActiveExact
    <3>4. waiting[k] = Len(execution[k]) + 0 + 0
      BY <1>2, <3>3 DEF Counters, WaitingExact
    <3>5. Len(execution[k]) = 0
      BY <3>2, <3>3, <3>4
    <3>. QED BY <3>1, <3>3, <3>5, EmptySeq
  <2>. QED BY <2>1, <1>2 DEF NothingOvertaken
<1>4. Counters(k)'
  BY <1>2 DEF Counters, WaitingExact, ActiveExact
<1>5. Dispatching(k)' \subseteq Dispatching(k) /\ ToDispatch(k)' \subseteq ToDispatch(k)
  BY DEF Dispatching, ToDispatch, DispatchPlaces
<1>6. Running(k)' = Running(k) /\ ToRun(k)' = ToRun(k) /\ Offered(k)' = Offered(k)
  BY DEF Running, ToRun, Offered, Arrived, KeyOf
<1>7. FlowOf(k)'
  BY <1>2, <1>3, <1>4, <1>5, <1>6, FlowStays
<1>. QED BY <1>1, <1>7, WorkerFlow

\* The execution worker goes on with its request or is done with it.
LEMMA ExecutionMoves ==
    ASSUME Flow, NEW k \in Keys, NEW place \in ExPlaces, ex' \in [Keys -> ExTypes],
           ex'[k].at = place, place # "idle" => ex'[k].req = ex[k].req,
           \A j \in Keys : j # k => ex'[j] = ex[j],
           ex[k].at \notin {"idle", "dequeued"}, place # "dequeued",
           place \in RunPlaces => ex[k].at \in RunPlaces,
           place \in {"check", "permit"} => ex[k].at \in {"check", "permit"},
           active' \in [Keys -> BOOLEAN],
           \A j \in Keys : j # k => active'[j] = active[j],
           active'[k] <=> place \in {"start", "prepare", "turn", "finished"},
           status' \in [Ids -> RequestStatus \union {"none"}], reply' \in [Ids -> Replies],
           UNCHANGED <<main, requests, ingress, ing, waiting, execution, handed>>
    PROVE  Flow'
<1>1. LaneTypes'
  BY DEF Flow, LaneTypes
<1>2. FlowOf(k) /\ NothingOvertaken(k) /\ Counters(k)
  BY DEF Flow, FlowOf
<1>3. NothingOvertaken(k)'
  BY <1>2 DEF NothingOvertaken
<1>4. Counters(k)'
  BY <1>2 DEF Counters, WaitingExact, ActiveExact
<1>5. Running(k)' \subseteq Running(k) /\ ToRun(k)' \subseteq ToRun(k)
  BY DEF Running, ToRun, RunPlaces
<1>6. Dispatching(k)' = Dispatching(k) /\ ToDispatch(k)' = ToDispatch(k) /\ Offered(k)' = Offered(k)
  BY DEF Dispatching, ToDispatch, Offered, Arrived, KeyOf
<1>7. FlowOf(k)'
  BY <1>2, <1>3, <1>4, <1>5, <1>6, FlowStays
<1>. QED BY <1>1, <1>7, WorkerFlow

-----------------------------------------------------------------------------
(* The steps that take a request or hand it on. *)

\* What arrived before stays.
LEMMA RequestsGrow ==
    ASSUME LaneTypes, NEW q \in [key : Keys, sort : Sorts, traced : BOOLEAN],
           requests' = Append(requests, q)
    PROVE  /\ requests' \in Seq([key : Keys, sort : Sorts, traced : BOOLEAN])
           /\ Len(requests) \in Nat /\ Len(requests') = Len(requests) + 1
           /\ Arrived' = Arrived \union {Len(requests) + 1}
           /\ requests'[Len(requests) + 1] = q
           /\ \A r \in Arrived : r \in Arrived' /\ requests'[r] = requests[r]
<1>1. /\ requests' \in Seq([key : Keys, sort : Sorts, traced : BOOLEAN])
      /\ Len(requests) \in Nat /\ Len(requests') = Len(requests) + 1
      /\ \A r \in 1 .. Len(requests) : requests'[r] = requests[r]
      /\ requests'[Len(requests) + 1] = q
  BY AppendProperties, LenProperties DEF LaneTypes
<1>. QED BY <1>1 DEF Arrived

\* A request that arrives comes after all others.
LEMMA ArriveFlow ==
    ASSUME Flow, NEW k \in Keys, NEW sort \in Sorts, NEW row \in {"traced", "orphan", "missing"},
           Arrive(k, sort, row)
    PROVE  Flow'
<1> DEFINE n == Len(requests) + 1
           q == [key |-> k, sort |-> sort, traced |-> row = "traced"]
<1>1. /\ requests' = Append(requests, q) /\ main' = [at |-> "offering", req |-> n]
      /\ n \in Ids /\ main.at = "select"
      /\ status' = [status EXCEPT ![n] = IF row = "missing" THEN "none" ELSE "accepted"]
      /\ UNCHANGED <<ingress, ing, waiting, active, execution, ex, handed, reply>>
  BY DEF Arrive, GoMain, At, ingVars, laneVars, execVars, turnVars, userVars
<1>2. q \in [key : Keys, sort : Sorts, traced : BOOLEAN] /\ LaneTypes
  BY DEF Flow
<1> HIDE DEF q
<1>3. /\ requests' \in Seq([key : Keys, sort : Sorts, traced : BOOLEAN])
      /\ Len(requests) \in Nat /\ Len(requests') = n
      /\ Arrived' = Arrived \union {n} /\ requests'[n] = q
      /\ \A r \in Arrived : r \in Arrived' /\ requests'[r] = requests[r]
  BY <1>1, <1>2, RequestsGrow
<1>4. LaneTypes'
  <2>1. status' \in [Ids -> RequestStatus \union {"none"}]
    BY <1>1, <1>2 DEF LaneTypes, RequestStatus
  <2>2. Len(requests') <= MaxRequests
    BY <1>1, <1>3, LanesAssumption DEF Ids
  <2>. QED BY <1>1, <1>2, <1>3, <2>1, <2>2 DEF LaneTypes
<1>5. MainKnows'
  BY <1>1, <1>3 DEF MainKnows
<1>6. \A r \in Arrived : KeyOf(r)' = KeyOf(r) /\ r < n
  BY <1>3 DEF KeyOf, Arrived
<1>7. ASSUME NEW j \in Keys PROVE FlowOf(j)'
  <2>1. FlowOf(j)
    BY DEF Flow
  <2>2. Offered(j)' \subseteq {n} /\ Offered(j) = {}
    BY <1>1 DEF Offered
  <2>3. OnOwnLane(j)'
    BY <2>1, <1>1, <1>3, <1>6 DEF FlowOf, OnOwnLane, OfKey, Running, Waiting, Dispatching, Arriving, Handed
  <2>4. /\ Running(j)' = Running(j) /\ Waiting(j)' = Waiting(j) /\ Dispatching(j)' = Dispatching(j)
        /\ Arriving(j)' = Arriving(j) /\ Handed(j)' = Handed(j)
        /\ ToRun(j)' = ToRun(j) /\ ToDispatch(j)' = ToDispatch(j)
    BY <1>1 DEF Running, Waiting, Dispatching, Arriving, Handed, ToRun, ToDispatch
  <2>5. \A r \in Running(j) \union Waiting(j) \union Dispatching(j) \union Arriving(j)
                   \union Handed(j) : r < n
    BY <2>1, <1>6 DEF FlowOf, OnOwnLane, OfKey
  <2>6. InOrder(j)'
    BY <2>1, <2>2, <2>4, <2>5, <1>1 DEF FlowOf, InOrder, Before
  <2>7. HandedFirst(j)'
    BY <2>1, <2>2, <2>4, <2>5, <1>1 DEF FlowOf, HandedFirst, Before
  <2>8. NothingOvertaken(j)' /\ Counters(j)'
    BY <2>1, <1>1 DEF FlowOf, NothingOvertaken, Counters, WaitingExact, ActiveExact
  <2>. QED BY <2>3, <2>6, <2>7, <2>8 DEF FlowOf
<1>. QED BY <1>4, <1>5, <1>7 DEF Flow

\* The request that is offered goes to the end of its ingress lane.
LEMMA PutIngressFlow == ASSUME Flow, PutIngress PROVE Flow'
<1>1. PICK q \in Arrived, k \in Keys : q = main.req /\ k = KeyOf(q)
  <2>1. requests \in Seq([key : Keys, sort : Sorts, traced : BOOLEAN])
    BY DEF Flow, LaneTypes
  <2>2. main.req \in 1 .. Len(requests)
    BY DEF Flow, MainKnows, Arrived, PutIngress, At
  <2>3. requests[main.req] \in [key : Keys, sort : Sorts, traced : BOOLEAN]
    BY <2>1, <2>2, ElementOfSeq
  <2>. QED BY <2>2, <2>3 DEF Arrived, KeyOf
<1>2. /\ main.at = "offering" /\ main' = [at |-> "select", req |-> 0]
      /\ ingress' = [ingress EXCEPT ![k] = Append(@, q)]
      /\ UNCHANGED <<requests, status, ing, waiting, active, execution, ex, handed, reply>>
  BY <1>1 DEF PutIngress, GoMain, At, rowVars, laneVars, execVars, turnVars, userVars
<1>3. ingress \in [Keys -> Seq(Nat)] /\ ingress[k] \in Seq(Nat) /\ q \in Nat /\ FlowOf(k)
  BY DEF Flow, LaneTypes, Arrived
<1>4. /\ ingress'[k] = Append(ingress[k], q)
      /\ \A j \in Keys : j # k => ingress'[j] = ingress[j]
  BY <1>2, <1>3
<1>5. Offered(k) = {q}
  BY <1>1, <1>2 DEF Offered
<1>6. \A j \in Keys : Offered(j)' = {}
  BY <1>2 DEF Offered
<1>7. Before(Elems(ingress[k]), {q}) /\ Increasing(ingress[k])
  BY <1>3, <1>5 DEF FlowOf, InOrder, Arriving
<1>8. /\ ingress'[k] \in Seq(Nat) /\ Arriving(k)' = Arriving(k) \union {q}
      /\ Increasing(ingress[k])'
  <2>1. /\ ingress'[k] \in Seq(Nat) /\ Elems(ingress'[k]) = Elems(ingress[k]) \union {q}
        /\ Increasing(ingress'[k])
    BY <1>3, <1>4, <1>7, ElemsAppend
  <2>2. Arriving(k)' = Elems(ingress'[k])
    BY DEF Arriving, Elems
  <2>3. Increasing(ingress[k])'
    BY <2>1 DEF Increasing
  <2>. QED BY <2>1, <2>2, <2>3 DEF Arriving
<1>9. LaneTypes'
  <2>1. ingress' \in [Keys -> Seq(Nat)]
    BY <1>2, <1>3, <1>8, <1>4
  <2>. QED BY <1>2, <2>1 DEF Flow, LaneTypes
<1>10. FlowOf(k)'
  <2>1. /\ Running(k)' = Running(k) /\ Waiting(k)' = Waiting(k) /\ Dispatching(k)' = Dispatching(k)
        /\ Handed(k)' = Handed(k) /\ OfKey(k)' = OfKey(k)
        /\ ToRun(k)' = ToRun(k) /\ ToDispatch(k)' = ToDispatch(k)
    BY <1>2 DEF Running, Waiting, Dispatching, Handed, ToRun, ToDispatch, OfKey, Arrived, KeyOf
  <2>2. OnOwnLane(k)'
    <3>1. q \in OfKey(k)
      BY <1>1 DEF OfKey
    <3>. QED BY <3>1, <1>3, <1>8, <2>1 DEF FlowOf, OnOwnLane
  <2>3. InOrder(k)'
    <3>1. Increasing(execution[k])'
      BY <1>2, <1>3 DEF FlowOf, InOrder, Increasing
    <3>2. \A a \in Running(k) \union Waiting(k) \union Dispatching(k) : a < q
      BY <1>3, <1>5 DEF FlowOf, InOrder, Before
    <3>. QED BY <3>1, <3>2, <1>3, <1>6, <1>8, <2>1 DEF FlowOf, InOrder, Before
  <2>4. HandedFirst(k)'
    <3>1. Increasing(handed[k])'
      BY <1>2, <1>3 DEF FlowOf, HandedFirst, Increasing
    <3>2. \A a \in Handed(k) : a < q
      BY <1>3, <1>5 DEF FlowOf, HandedFirst, Before
    <3>. QED BY <3>1, <3>2, <1>3, <1>6, <1>8, <2>1 DEF FlowOf, HandedFirst, Before
  <2>5. NothingOvertaken(k)' /\ Counters(k)'
    BY <1>2, <1>3 DEF FlowOf, NothingOvertaken, Counters, WaitingExact, ActiveExact
  <2>. QED BY <2>2, <2>3, <2>4, <2>5 DEF FlowOf
<1>11. ASSUME NEW j \in Keys, j # k PROVE FlowOf(j)'
  <2>1. requests \in Seq([key : Keys, sort : Sorts, traced : BOOLEAN]) /\ FlowOf(j)
    BY DEF Flow, LaneTypes
  <2>. QED BY <2>1, <1>2, <1>4, <1>6, <1>11, FlowElsewhere DEF Arrived, KeyOf
<1>. QED BY <1>2, <1>9, <1>10, <1>11 DEF Flow, MainKnows

\* The ingress worker takes the first request of its lane.
LEMMA TakeIngressFlow == ASSUME Flow, NEW k \in Keys, TakeIngress(k) PROVE Flow'
<1>1. PICK q, t : q = Head(ingress[k]) /\ t = Tail(ingress[k])
  OBVIOUS
<1>2. /\ ing[k].at = "idle" /\ ingress[k] # << >>
      /\ ing' = [ing EXCEPT ![k] = [at |-> "check", req |-> q, tries |-> 0]]
      /\ ingress' = [ingress EXCEPT ![k] = t]
      /\ UNCHANGED <<main, requests, status, waiting, active, execution, ex, handed, reply>>
  <2>1. ingress \in [Keys -> Seq(Nat)]
    BY DEF Flow, LaneTypes
  <2>. QED BY <1>1, <2>1 DEF TakeIngress, IngAt, rowVars, laneVars, execVars, turnVars, userVars
<1>3. /\ ing \in [Keys -> IngTypes] /\ ingress \in [Keys -> Seq(Nat)] /\ ingress[k] \in Seq(Nat)
      /\ FlowOf(k) /\ Increasing(ingress[k])
  BY DEF Flow, LaneTypes, FlowOf, InOrder
<1>4. /\ q \in Nat /\ t \in Seq(Nat) /\ Arriving(k) = {q} \union Elems(t)
      /\ Increasing(t) /\ Before({q}, Elems(t))
  BY <1>1, <1>2, <1>3, ElemsTail DEF Arriving
<1>5. /\ ingress'[k] = t /\ ing'[k] = [at |-> "check", req |-> q, tries |-> 0]
      /\ \A j \in Keys : j # k => ing'[j] = ing[j] /\ ingress'[j] = ingress[j]
      /\ ing' \in [Keys -> IngTypes] /\ ingress' \in [Keys -> Seq(Nat)]
  BY <1>2, <1>3, <1>4 DEF IngTypes, IngPlaces
<1>6. LaneTypes'
  BY <1>2, <1>5 DEF Flow, LaneTypes
<1>7. /\ Arriving(k)' = Elems(t) /\ Dispatching(k) = {} /\ Dispatching(k)' = {q}
      /\ ToDispatch(k)' = {q} /\ Increasing(ingress[k])'
  BY <1>2, <1>4, <1>5 DEF Arriving, Dispatching, ToDispatch, DispatchPlaces, Increasing, Elems
<1>8. /\ Running(k)' = Running(k) /\ Waiting(k)' = Waiting(k) /\ Handed(k)' = Handed(k)
      /\ OfKey(k)' = OfKey(k) /\ ToRun(k)' = ToRun(k) /\ Offered(k)' = Offered(k)
  BY <1>2 DEF Running, Waiting, Handed, ToRun, OfKey, Offered, Arrived, KeyOf
<1>9. FlowOf(k)'
  <2>1. OnOwnLane(k)'
    BY <1>3, <1>4, <1>7, <1>8 DEF FlowOf, OnOwnLane
  <2>2. InOrder(k)'
    <3>1. Increasing(execution[k])'
      BY <1>2, <1>3 DEF FlowOf, InOrder, Increasing
    <3>2. InOrder(k)
      BY <1>3 DEF FlowOf
    <3>3. Before(Running(k)', Waiting(k)' \union Dispatching(k)' \union Arriving(k)' \union Offered(k)')
      BY <1>4, <1>7, <1>8, <3>2 DEF InOrder, Before
    <3>4. Before(Waiting(k)', Dispatching(k)' \union Arriving(k)' \union Offered(k)')
      BY <1>4, <1>7, <1>8, <3>2 DEF InOrder, Before
    <3>5. Before(Dispatching(k)', Arriving(k)' \union Offered(k)')
      BY <1>4, <1>7, <1>8, <3>2 DEF InOrder, Before
    <3>6. Before(Arriving(k)', Offered(k)')
      BY <1>4, <1>7, <1>8, <3>2 DEF InOrder, Before
    <3>. QED BY <1>7, <3>1, <3>3, <3>4, <3>5, <3>6 DEF InOrder, Before
  <2>3. HandedFirst(k)'
    <3>1. Increasing(handed[k])'
      BY <1>2, <1>3 DEF FlowOf, HandedFirst, Increasing
    <3>. QED BY <3>1, <1>3, <1>4, <1>7, <1>8 DEF FlowOf, HandedFirst, Before
  <2>4. NothingOvertaken(k)'
    BY <1>5 DEF NothingOvertaken
  <2>5. Counters(k)'
    BY <1>2, <1>3, <1>5 DEF FlowOf, Counters, WaitingExact, ActiveExact
  <2>. QED BY <2>1, <2>2, <2>3, <2>4, <2>5 DEF FlowOf
<1>. QED BY <1>2, <1>5, <1>6, <1>9, WorkerFlow

\* The ingress worker counts its request as waiting before it queues it.
LEMMA CountWaitingFlow == ASSUME Flow, NEW k \in Keys, CountWaiting(k) PROVE Flow'
<1>1. /\ ing[k].at = "enqueue" /\ GoIng(k, "put")
      /\ waiting' = [waiting EXCEPT ![k] = @ + 1]
      /\ UNCHANGED <<main, requests, status, ingress, active, execution, ex, handed, reply>>
  BY DEF CountWaiting, IngAt, rowVars, laneVars, execVars, turnVars, userVars
<1>2. FlowOf(k) /\ waiting \in [Keys -> Nat] /\ LaneTypes /\ Counters(k)
  BY DEF Flow, LaneTypes, FlowOf
<1>3. /\ ing' \in [Keys -> IngTypes] /\ ing'[k].at = "put" /\ ing'[k].req = ing[k].req
      /\ \A j \in Keys : j # k => ing'[j] = ing[j]
  <2>1. "put" \in IngPlaces
    BY DEF IngPlaces
  <2>. QED BY <1>1, <1>2, <2>1, IngGoes
<1>4. /\ waiting' \in [Keys -> Nat] /\ waiting'[k] = waiting[k] + 1
      /\ \A j \in Keys : j # k => waiting'[j] = waiting[j]
  BY <1>1, <1>2
<1>5. LaneTypes'
  BY <1>1, <1>2, <1>3, <1>4 DEF LaneTypes
<1>6. Counters(k)'
  <2>1. Len(execution[k]) \in Nat
    BY <1>2, LenProperties DEF LaneTypes
  <2>2. waiting[k] = Len(execution[k]) + (IF ex[k].at = "dequeued" THEN 1 ELSE 0)
    <3>1. WaitingExact(k)
      BY <1>2 DEF Counters
    <3>2. CASE ex[k].at = "dequeued"
      BY <1>1, <2>1, <3>1, <3>2 DEF WaitingExact
    <3>3. CASE ex[k].at # "dequeued"
      BY <1>1, <2>1, <3>1, <3>3 DEF WaitingExact
    <3>. QED BY <3>2, <3>3
  <2>3. WaitingExact(k)'
    <3>1. CASE ex[k].at = "dequeued"
      BY <1>1, <1>3, <1>4, <2>1, <2>2, <3>1 DEF WaitingExact
    <3>2. CASE ex[k].at # "dequeued"
      BY <1>1, <1>3, <1>4, <2>1, <2>2, <3>2 DEF WaitingExact
    <3>. QED BY <3>1, <3>2
  <2>4. ActiveExact(k)'
    BY <1>1, <1>2 DEF Counters, ActiveExact
  <2>. QED BY <2>3, <2>4 DEF Counters
<1>7. NothingOvertaken(k)'
  BY <1>3 DEF NothingOvertaken
<1>8. Dispatching(k)' \subseteq Dispatching(k) /\ ToDispatch(k)' \subseteq ToDispatch(k)
  BY <1>1, <1>3 DEF Dispatching, ToDispatch, DispatchPlaces
<1>9. Running(k)' = Running(k) /\ ToRun(k)' = ToRun(k) /\ Offered(k)' = Offered(k)
  BY <1>1 DEF Running, ToRun, Offered, Arrived, KeyOf
<1>10. FlowOf(k)'
  BY <1>1, <1>2, <1>6, <1>7, <1>8, <1>9, FlowStays
<1>. QED BY <1>1, <1>3, <1>4, <1>5, <1>10, WorkerFlow

\* The execution worker stops counting the request that it received.
LEMMA CountDequeuedFlow == ASSUME Flow, NEW k \in Keys, CountDequeued(k) PROVE Flow'
<1>1. /\ ex[k].at = "dequeued" /\ GoEx(k, "check")
      /\ waiting' = [waiting EXCEPT ![k] = @ - 1]
      /\ UNCHANGED <<main, requests, status, ingress, ing, active, execution, handed, reply>>
  BY DEF CountDequeued, ExAt, rowVars, ingVars, turnVars, userVars
<1>2. FlowOf(k) /\ waiting \in [Keys -> Nat] /\ LaneTypes /\ Counters(k) /\ NothingOvertaken(k)
  BY DEF Flow, LaneTypes, FlowOf
<1>3. /\ ex' \in [Keys -> ExTypes] /\ ex'[k].at = "check" /\ ex'[k].req = ex[k].req
      /\ \A j \in Keys : j # k => ex'[j] = ex[j]
  <2>1. "check" \in ExPlaces
    BY DEF ExPlaces
  <2>. QED BY <1>1, <1>2, <2>1, ExGoes
<1>4. Len(execution[k]) \in Nat
  BY <1>2, LenProperties DEF LaneTypes
<1>5. waiting[k] = Len(execution[k]) + (IF ing[k].at = "put" THEN 1 ELSE 0) + 1
  BY <1>1, <1>2 DEF Counters, WaitingExact
<1>6. /\ waiting' \in [Keys -> Nat] /\ waiting'[k] = waiting[k] - 1
      /\ \A j \in Keys : j # k => waiting'[j] = waiting[j]
  <2>1. waiting[k] - 1 \in Nat
    <3>1. CASE ing[k].at = "put"
      BY <1>4, <1>5, <3>1
    <3>2. CASE ing[k].at # "put"
      BY <1>4, <1>5, <3>2
    <3>. QED BY <3>1, <3>2
  <2>. QED BY <1>1, <1>2, <2>1
<1>7. LaneTypes'
  BY <1>1, <1>2, <1>3, <1>6 DEF LaneTypes
<1>8. Counters(k)'
  <2>1. WaitingExact(k)'
    <3>1. CASE ing[k].at = "put"
      BY <1>1, <1>3, <1>4, <1>5, <1>6, <3>1 DEF WaitingExact
    <3>2. CASE ing[k].at # "put"
      BY <1>1, <1>3, <1>4, <1>5, <1>6, <3>2 DEF WaitingExact
    <3>. QED BY <3>1, <3>2
  <2>2. ActiveExact(k)'
    BY <1>1, <1>2, <1>3 DEF Counters, ActiveExact
  <2>. QED BY <2>1, <2>2 DEF Counters
<1>9. NothingOvertaken(k)'
  BY <1>1, <1>2 DEF NothingOvertaken
<1>10. Running(k)' \subseteq Running(k) /\ ToRun(k)' \subseteq ToRun(k)
  BY <1>1, <1>3 DEF Running, ToRun, RunPlaces
<1>11. Dispatching(k)' = Dispatching(k) /\ ToDispatch(k)' = ToDispatch(k) /\ Offered(k)' = Offered(k)
  BY <1>1 DEF Dispatching, ToDispatch, Offered, Arrived, KeyOf
<1>12. FlowOf(k)'
  BY <1>1, <1>2, <1>8, <1>9, <1>10, <1>11, FlowStays
<1>. QED BY <1>1, <1>3, <1>6, <1>7, <1>12, WorkerFlow

\* The ingress worker puts its request at the end of the execution lane.
LEMMA PutExecutionFlow == ASSUME Flow, NEW k \in Keys, PutExecution(k) PROVE Flow'
<1>1. PICK q : q = ing[k].req
  OBVIOUS
<1>2. /\ ing[k].at = "put" /\ GoIng(k, "idle")
      /\ execution' = [execution EXCEPT ![k] = Append(@, q)]
      /\ UNCHANGED <<main, requests, status, ingress, waiting, active, ex, handed, reply>>
  <2>1. execution \in [Keys -> Seq(Nat)]
    BY DEF Flow, LaneTypes
  <2>. QED BY <1>1, <2>1 DEF PutExecution, IngAt, rowVars, laneVars, turnVars, userVars
<1>3. /\ FlowOf(k) /\ LaneTypes /\ Counters(k) /\ Increasing(execution[k])
      /\ ing \in [Keys -> IngTypes] /\ execution \in [Keys -> Seq(Nat)] /\ execution[k] \in Seq(Nat)
  BY DEF Flow, LaneTypes, FlowOf, InOrder
<1>4. /\ ing' \in [Keys -> IngTypes] /\ ing'[k].at = "idle"
      /\ \A j \in Keys : j # k => ing'[j] = ing[j]
  <2>1. "idle" \in IngPlaces
    BY DEF IngPlaces
  <2>. QED BY <1>2, <1>3, <2>1, IngGoes
<1>5. q \in Nat /\ Dispatching(k) = {q} /\ ToDispatch(k) = {q}
  BY <1>1, <1>2, <1>3 DEF IngTypes, Dispatching, ToDispatch, DispatchPlaces
<1>6. Before(Elems(execution[k]), {q})
  BY <1>3, <1>5 DEF FlowOf, InOrder, Waiting, Before
<1>7. /\ execution'[k] = Append(execution[k], q) /\ execution'[k] \in Seq(Nat)
      /\ Len(execution'[k]) = Len(execution[k]) + 1 /\ Len(execution[k]) \in Nat
      /\ Waiting(k)' = Waiting(k) \union {q} /\ Increasing(execution[k])'
  <2>1. execution'[k] = Append(execution[k], q)
    BY <1>2, <1>3
  <2>2. /\ execution'[k] \in Seq(Nat)
        /\ Len(execution'[k]) = Len(execution[k]) + 1 /\ Len(execution[k]) \in Nat
        /\ Elems(execution'[k]) = Elems(execution[k]) \union {q} /\ Increasing(execution'[k])
    BY <2>1, <1>3, <1>5, <1>6, ElemsAppend, LenProperties
  <2>3. Waiting(k)' = Elems(execution'[k])
    BY DEF Waiting, Elems
  <2>4. Increasing(execution[k])'
    BY <2>2 DEF Increasing
  <2>. QED BY <2>1, <2>2, <2>3, <2>4 DEF Waiting
<1>8. execution' \in [Keys -> Seq(Nat)] /\ \A j \in Keys : j # k => execution'[j] = execution[j]
  BY <1>2, <1>3, <1>7
<1>9. LaneTypes'
  BY <1>2, <1>3, <1>4, <1>8 DEF LaneTypes
<1>10. Counters(k)'
  <2>1. waiting[k] = Len(execution[k]) + 1 + (IF ex[k].at = "dequeued" THEN 1 ELSE 0)
    BY <1>2, <1>3 DEF Counters, WaitingExact
  <2>2. WaitingExact(k)'
    <3>1. CASE ex[k].at = "dequeued"
      BY <1>2, <1>4, <1>7, <2>1, <3>1 DEF WaitingExact
    <3>2. CASE ex[k].at # "dequeued"
      BY <1>2, <1>4, <1>7, <2>1, <3>2 DEF WaitingExact
    <3>. QED BY <3>1, <3>2
  <2>3. ActiveExact(k)'
    BY <1>2, <1>3 DEF Counters, ActiveExact
  <2>. QED BY <2>2, <2>3 DEF Counters
<1>11. NothingOvertaken(k)'
  BY <1>4 DEF NothingOvertaken
<1>12. /\ Dispatching(k)' = {} /\ ToDispatch(k)' = {}
       /\ Running(k)' = Running(k) /\ Arriving(k)' = Arriving(k) /\ Handed(k)' = Handed(k)
       /\ OfKey(k)' = OfKey(k) /\ ToRun(k)' = ToRun(k) /\ Offered(k)' = Offered(k)
  BY <1>2, <1>4 DEF Dispatching, ToDispatch, DispatchPlaces, Running, Arriving, Handed, ToRun, OfKey,
                    Offered, Arrived, KeyOf
<1>13. OnOwnLane(k)'
  BY <1>3, <1>5, <1>7, <1>12 DEF FlowOf, OnOwnLane
<1>14. InOrder(k)'
  <2>1. Increasing(ingress[k])'
    BY <1>2, <1>3 DEF FlowOf, InOrder, Increasing
  <2>. QED BY <2>1, <1>3, <1>5, <1>7, <1>12 DEF FlowOf, InOrder, Before
<1>15. HandedFirst(k)'
  <2>1. Increasing(handed[k])'
    BY <1>2, <1>3 DEF FlowOf, HandedFirst, Increasing
  <2>. QED BY <2>1, <1>3, <1>5, <1>7, <1>12 DEF FlowOf, HandedFirst, Before
<1>16. FlowOf(k)'
  BY <1>10, <1>11, <1>13, <1>14, <1>15 DEF FlowOf
<1>. QED BY <1>2, <1>4, <1>8, <1>9, <1>16, WorkerFlow

\* The execution worker takes the first request of its lane.
LEMMA TakeExecutionFlow == ASSUME Flow, NEW k \in Keys, TakeExecution(k) PROVE Flow'
<1>1. PICK q, t : q = Head(execution[k]) /\ t = Tail(execution[k])
  OBVIOUS
<1>2. /\ ex[k].at = "idle" /\ execution[k] # << >>
      /\ ex' = [ex EXCEPT ![k] = [at |-> "dequeued", req |-> q, response |-> "none"]]
      /\ execution' = [execution EXCEPT ![k] = t]
      /\ UNCHANGED <<main, requests, status, ingress, ing, waiting, active, handed, reply>>
  <2>1. execution \in [Keys -> Seq(Nat)]
    BY DEF Flow, LaneTypes
  <2>. QED BY <1>1, <2>1 DEF TakeExecution, ExAt, rowVars, ingVars, laneVars, turnVars, userVars
<1>3. /\ ex \in [Keys -> ExTypes] /\ execution \in [Keys -> Seq(Nat)] /\ execution[k] \in Seq(Nat)
      /\ FlowOf(k) /\ Counters(k) /\ NothingOvertaken(k) /\ Increasing(execution[k])
  BY DEF Flow, LaneTypes, FlowOf, InOrder
<1>4. /\ q \in Nat /\ t \in Seq(Nat) /\ Waiting(k) = {q} \union Elems(t)
      /\ Len(t) = Len(execution[k]) - 1 /\ Len(execution[k]) \in Nat
      /\ Increasing(t) /\ Before({q}, Elems(t))
  BY <1>1, <1>2, <1>3, ElemsTail, LenProperties DEF Waiting
<1>5. /\ execution'[k] = t /\ ex'[k] = [at |-> "dequeued", req |-> q, response |-> "none"]
      /\ \A j \in Keys : j # k => ex'[j] = ex[j] /\ execution'[j] = execution[j]
      /\ ex' \in [Keys -> ExTypes] /\ execution' \in [Keys -> Seq(Nat)]
  BY <1>2, <1>3, <1>4 DEF ExTypes, ExPlaces
<1>6. LaneTypes'
  BY <1>2, <1>5 DEF Flow, LaneTypes
<1>7. /\ Waiting(k)' = Elems(t) /\ Running(k) = {} /\ Running(k)' = {q}
      /\ ToRun(k)' = {q} /\ Increasing(execution[k])'
  <2>1. Waiting(k)' = Elems(t) /\ Increasing(execution[k])'
    BY <1>4, <1>5 DEF Waiting, Increasing, Elems
  <2>. QED BY <1>2, <1>5, <2>1 DEF Running, ToRun, RunPlaces
<1>8. /\ Arriving(k)' = Arriving(k) /\ Dispatching(k)' = Dispatching(k) /\ Handed(k)' = Handed(k)
      /\ OfKey(k)' = OfKey(k) /\ ToDispatch(k)' = ToDispatch(k) /\ Offered(k)' = Offered(k)
  BY <1>2 DEF Arriving, Dispatching, Handed, ToDispatch, OfKey, Offered, Arrived, KeyOf
<1>9. OnOwnLane(k)'
  BY <1>3, <1>4, <1>7, <1>8 DEF FlowOf, OnOwnLane
<1>10. InOrder(k)'
  <2>1. Increasing(ingress[k])'
    BY <1>2, <1>3 DEF FlowOf, InOrder, Increasing
  <2>2. InOrder(k)
    BY <1>3 DEF FlowOf
  <2>3. Before(Running(k)', Waiting(k)' \union Dispatching(k)' \union Arriving(k)' \union Offered(k)')
    <3>1. Before({q} \union Elems(t), Dispatching(k) \union Arriving(k) \union Offered(k))
      BY <1>4, <2>2 DEF InOrder
    <3>2. Before({q}, Elems(t))
      BY <1>4
    <3>3. Before({q}, Elems(t) \union Dispatching(k) \union Arriving(k) \union Offered(k))
      BY <3>1, <3>2 DEF Before
    <3>. QED BY <1>7, <1>8, <3>3
  <2>4. Before(Waiting(k)', Dispatching(k)' \union Arriving(k)' \union Offered(k)')
    BY <1>4, <1>7, <1>8, <2>2 DEF InOrder, Before
  <2>5. Before(Dispatching(k)', Arriving(k)' \union Offered(k)')
    BY <1>8, <2>2 DEF InOrder
  <2>6. Before(Arriving(k)', Offered(k)')
    BY <1>8, <2>2 DEF InOrder
  <2>. QED BY <1>7, <2>1, <2>3, <2>4, <2>5, <2>6 DEF InOrder, Before
<1>11. HandedFirst(k)'
  <2>1. Increasing(handed[k])'
    BY <1>2, <1>3 DEF FlowOf, HandedFirst, Increasing
  <2>. QED BY <2>1, <1>3, <1>4, <1>7, <1>8 DEF FlowOf, HandedFirst, Before
<1>12. NothingOvertaken(k)'
  BY <1>2, <1>3 DEF NothingOvertaken
<1>13. Counters(k)'
  <2>1. waiting[k] = Len(execution[k]) + (IF ing[k].at = "put" THEN 1 ELSE 0)
    <3>1. CASE ing[k].at = "put"
      BY <1>2, <1>3, <1>4, <3>1 DEF Counters, WaitingExact
    <3>2. CASE ing[k].at # "put"
      BY <1>2, <1>3, <1>4, <3>2 DEF Counters, WaitingExact
    <3>. QED BY <3>1, <3>2
  <2>2. WaitingExact(k)'
    <3>1. CASE ing[k].at = "put"
      BY <1>2, <1>4, <1>5, <2>1, <3>1 DEF WaitingExact
    <3>2. CASE ing[k].at # "put"
      BY <1>2, <1>4, <1>5, <2>1, <3>2 DEF WaitingExact
    <3>. QED BY <3>1, <3>2
  <2>3. ActiveExact(k)'
    BY <1>2, <1>3, <1>5 DEF Counters, ActiveExact
  <2>. QED BY <2>2, <2>3 DEF Counters
<1>14. FlowOf(k)'
  BY <1>9, <1>10, <1>11, <1>12, <1>13 DEF FlowOf
<1>. QED BY <1>2, <1>5, <1>6, <1>14, WorkerFlow

\* The request goes on to the backend as what the key's backend is given next.
\* It comes after all that the backend has, and before all that it may get.
LEMMA HandOverFlow ==
    ASSUME Flow, NEW k \in Keys, NEW q \in Nat, LaneTypes',
           UNCHANGED <<main, requests, ingress, execution, waiting, active>>,
           handed' = [handed EXCEPT ![k] = Append(@, q)],
           \A j \in Keys : j # k => ing'[j] = ing[j] /\ ex'[j] = ex[j],
           Running(k)' = Running(k), Dispatching(k)' = Dispatching(k),
           q \in OfKey(k), q \in ToRun(k) \union ToDispatch(k),
           Before({q}, ToRun(k)' \union Waiting(k) \union ToDispatch(k)' \union Arriving(k)
                           \union Offered(k)),
           ToRun(k)' \subseteq ToRun(k), ToDispatch(k)' \subseteq ToDispatch(k),
           NothingOvertaken(k)', Counters(k)'
    PROVE  Flow'
<1>1. /\ FlowOf(k) /\ handed \in [Keys -> Seq(Nat)] /\ handed[k] \in Seq(Nat)
      /\ Increasing(handed[k]) /\ Before(Handed(k), {q})
  BY DEF Flow, LaneTypes, FlowOf, HandedFirst, Before
<1>2. /\ handed'[k] = Append(handed[k], q)
      /\ \A j \in Keys : j # k => handed'[j] = handed[j]
  BY <1>1
<1>3. Increasing(handed'[k]) /\ Elems(handed'[k]) = Elems(handed[k]) \union {q}
  BY <1>1, <1>2, ElemsAppend DEF Handed
<1>4. Handed(k)' = Handed(k) \union {q} /\ Increasing(handed[k])'
  <2>1. Handed(k)' = Elems(handed'[k])
    BY DEF Handed, Elems
  <2>2. Increasing(handed[k])'
    BY <1>3 DEF Increasing
  <2>. QED BY <1>3, <2>1, <2>2 DEF Handed
<1>5. /\ Waiting(k)' = Waiting(k) /\ Arriving(k)' = Arriving(k) /\ Offered(k)' = Offered(k)
      /\ OfKey(k)' = OfKey(k)
  BY DEF Waiting, Arriving, Offered, OfKey, Arrived, KeyOf
<1>6. OnOwnLane(k)'
  BY <1>1, <1>4, <1>5 DEF FlowOf, OnOwnLane
<1>7. InOrder(k)'
  <2>1. Increasing(execution[k])' /\ Increasing(ingress[k])'
    BY <1>1 DEF FlowOf, InOrder, Increasing
  <2>. QED BY <1>1, <1>5, <2>1 DEF FlowOf, InOrder
<1>8. HandedFirst(k)'
  <2>1. PICK later : later = ToRun(k)' \union Waiting(k) \union ToDispatch(k)' \union Arriving(k)
                                 \union Offered(k)
    OBVIOUS
  <2>2. Before(Handed(k), later)
    BY <1>1, <2>1 DEF FlowOf, HandedFirst, Before
  <2>3. Before(Handed(k) \union {q}, later)
    BY <2>1, <2>2 DEF Before
  <2>4. Before(Handed(k)', ToRun(k)' \union Waiting(k)' \union ToDispatch(k)' \union Arriving(k)'
                               \union Offered(k)')
    BY <1>4, <1>5, <2>1, <2>3
  <2>. QED BY <1>4, <2>4 DEF HandedFirst, Before
<1>9. FlowOf(k)'
  BY <1>6, <1>7, <1>8 DEF FlowOf
<1>. QED BY <1>2, <1>9, WorkerFlow

\* The turn of a request begins.
LEMMA BeginTurnFlow == ASSUME Flow, NEW k \in Keys, BeginTurn(k) PROVE Flow'
<1>1. PICK q : q = ex[k].req
  OBVIOUS
<1>2. /\ ex[k].at = "prepare" /\ GoEx(k, "turn")
      /\ handed' = [handed EXCEPT ![k] = Append(@, q)]
      /\ UNCHANGED <<main, requests, status, ingress, ing, waiting, active, execution, reply>>
  BY <1>1 DEF BeginTurn, ExAt, rowVars, ingVars, laneVars, userVars
<1>3. /\ FlowOf(k) /\ LaneTypes /\ Counters(k) /\ NothingOvertaken(k)
      /\ ex \in [Keys -> ExTypes] /\ handed \in [Keys -> Seq(Nat)] /\ handed[k] \in Seq(Nat)
  BY DEF Flow, LaneTypes, FlowOf
<1>4. /\ ex' \in [Keys -> ExTypes] /\ ex'[k].at = "turn" /\ ex'[k].req = q
      /\ \A j \in Keys : j # k => ex'[j] = ex[j]
  <2>1. "turn" \in ExPlaces
    BY DEF ExPlaces
  <2>. QED BY <1>1, <1>2, <1>3, <2>1, ExGoes
<1>5. /\ q \in Nat /\ Running(k) = {q} /\ ToRun(k) = {q}
      /\ Running(k)' = {q} /\ ToRun(k)' = {}
  BY <1>1, <1>2, <1>3, <1>4 DEF ExTypes, Running, ToRun, RunPlaces
<1>6. Dispatching(k)' = Dispatching(k) /\ ToDispatch(k)' = ToDispatch(k)
  BY <1>2 DEF Dispatching, ToDispatch
<1>7. q \in OfKey(k)
  BY <1>3, <1>5 DEF FlowOf, OnOwnLane
<1>8. Before({q}, ToRun(k)' \union Waiting(k) \union ToDispatch(k)' \union Arriving(k) \union Offered(k))
  <2>1. ToDispatch(k) \subseteq Dispatching(k)
    BY DEF ToDispatch, Dispatching, DispatchPlaces
  <2>. QED BY <1>3, <1>5, <1>6, <2>1 DEF FlowOf, InOrder, Before
<1>9. LaneTypes'
  <2>1. Append(handed[k], q) \in Seq(Nat)
    BY <1>3, <1>5, ElemsAppend
  <2>. QED BY <1>2, <1>3, <1>4, <2>1 DEF LaneTypes
<1>10. NothingOvertaken(k)' /\ Counters(k)'
  <2>1. WaitingExact(k)'
    BY <1>2, <1>3, <1>4 DEF Counters, WaitingExact
  <2>2. ActiveExact(k)'
    BY <1>2, <1>3, <1>4 DEF Counters, ActiveExact
  <2>3. NothingOvertaken(k)'
    BY <1>2, <1>3, <1>4 DEF NothingOvertaken
  <2>. QED BY <2>1, <2>2, <2>3 DEF Counters
<1>. QED BY <1>2, <1>4, <1>5, <1>6, <1>7, <1>8, <1>9, <1>10, HandOverFlow

\* A text is sent to the Codex server, which takes it into the running turn or not.
LEMMA SteerCodexFlow ==
    ASSUME Flow, NEW k \in Keys, NEW outcome \in {"accepted", "refused", "unknown"},
           NEW applied \in BOOLEAN, SteerCodex(k, outcome, applied)
    PROVE  Flow'
<1>1. PICK q, place : /\ q = ing[k].req
                      /\ place = CASE outcome = "accepted" -> "completing"
                                   [] outcome = "refused" -> "release"
                                   [] outcome = "unknown" -> "giveUp"
  OBVIOUS
<1>2. /\ ing[k].at = "dispatch" /\ GoIng(k, place)
      /\ applied => ex[k].at = "turn" /\ outcome # "refused"
      /\ handed' = IF applied THEN [handed EXCEPT ![k] = Append(@, q)] ELSE handed
      /\ UNCHANGED <<main, requests, status, ingress, waiting, active, execution, ex, reply>>
  BY <1>1 DEF SteerCodex, IngAt, rowVars, laneVars, execVars, userVars
<1>3. /\ place \in {"completing", "release", "giveUp"} /\ place \in IngPlaces
      /\ (outcome # "refused" => place \in {"completing", "giveUp"})
  BY <1>1 DEF IngPlaces
<1>4. /\ FlowOf(k) /\ LaneTypes /\ Counters(k) /\ NothingOvertaken(k)
      /\ ing \in [Keys -> IngTypes] /\ handed \in [Keys -> Seq(Nat)] /\ handed[k] \in Seq(Nat)
  BY DEF Flow, LaneTypes, FlowOf
<1>5. /\ ing' \in [Keys -> IngTypes] /\ ing'[k].at = place /\ ing'[k].req = q
      /\ \A j \in Keys : j # k => ing'[j] = ing[j]
  BY <1>1, <1>2, <1>3, <1>4, IngGoes
<1>6. CASE ~applied
  <2>1. handed' = handed
    BY <1>2, <1>6
  <2>2. ing[k].at \in DispatchPlaces /\ place # "put" /\ place # "idle" /\ place \notin {"claim", "dispatch"}
    BY <1>2, <1>3 DEF DispatchPlaces
  <2>3. status' \in [Ids -> RequestStatus \union {"none"}] /\ reply' \in [Ids -> Replies]
    BY <1>2, <1>4 DEF LaneTypes
  <2>. QED BY <1>1, <1>2, <1>3, <1>5, <2>1, <2>2, <2>3, IngressMoves
<1>7. CASE applied
  <2>1. /\ q \in Nat /\ Dispatching(k) = {q} /\ ToDispatch(k) = {q}
        /\ Dispatching(k)' = {q} /\ ToDispatch(k)' = {}
    BY <1>1, <1>2, <1>3, <1>4, <1>5, <1>7 DEF IngTypes, Dispatching, ToDispatch, DispatchPlaces
  <2>2. /\ Running(k)' = Running(k) /\ ToRun(k)' = {} /\ ToRun(k) = {}
        /\ execution[k] = << >>
    BY <1>2, <1>4, <1>7 DEF Running, ToRun, RunPlaces, NothingOvertaken
  <2>3. Waiting(k) = {}
    <3>1. Len(execution[k]) = 0
      BY <2>2, EmptySeq
    <3>. QED BY <3>1 DEF Waiting, Elems
  <2>4. q \in OfKey(k)
    BY <1>4, <2>1 DEF FlowOf, OnOwnLane
  <2>5. Before({q}, ToRun(k)' \union Waiting(k) \union ToDispatch(k)' \union Arriving(k) \union Offered(k))
    BY <1>4, <2>1, <2>2, <2>3 DEF FlowOf, InOrder, Before
  <2>6. handed' = [handed EXCEPT ![k] = Append(@, q)]
    BY <1>2, <1>7
  <2>7. LaneTypes'
    <3>1. Append(handed[k], q) \in Seq(Nat)
      BY <1>4, <2>1, ElemsAppend
    <3>. QED BY <1>2, <1>4, <1>5, <2>6, <3>1 DEF LaneTypes
  <2>8. NothingOvertaken(k)' /\ Counters(k)'
    <3>1. WaitingExact(k)'
      BY <1>2, <1>3, <1>4, <1>5 DEF Counters, WaitingExact
    <3>2. ActiveExact(k)'
      BY <1>2, <1>4 DEF Counters, ActiveExact
    <3>3. NothingOvertaken(k)'
      BY <1>3, <1>5 DEF NothingOvertaken
    <3>. QED BY <3>1, <3>2, <3>3 DEF Counters
  <2>. QED BY <1>2, <1>5, <2>1, <2>2, <2>4, <2>5, <2>6, <2>7, <2>8, HandOverFlow
<1>. QED BY <1>6, <1>7

-----------------------------------------------------------------------------
(* Every step keeps the requests in order. *)

\* The write that settles a row leaves rows.
LEMMA SettleTypes ==
    ASSUME LaneTypes, NEW r, NEW to \in {"completed", "failed"}, NEW ok \in BOOLEAN, Settle(r, to, ok)
    PROVE  status' \in [Ids -> RequestStatus \union {"none"}]
BY DEF LaneTypes, Settle, Update, RequestStatus, rowVars

\* At the start nothing has arrived.
LEMMA FlowInit == Init => Flow
<1> SUFFICES ASSUME Init PROVE Flow
  OBVIOUS
<1> USE DEF Init
<1>1. << >> \in Seq(Nat) /\ Len(<< >>) = 0 /\ Elems(<< >>) = {}
      /\ << >> \in Seq([key : Keys, sort : Sorts, traced : BOOLEAN])
  <2>1. << >> \in Seq(Nat) /\ Len(<< >>) = 0 /\ << >> \in Seq([key : Keys, sort : Sorts, traced : BOOLEAN])
    BY EmptySeq
  <2>. QED BY <2>1 DEF Elems
<1>2. LaneTypes
  <2>1. ing \in [Keys -> IngTypes] /\ ex \in [Keys -> ExTypes]
    BY DEF IngTypes, ExTypes, IngIdle, ExIdle, IngPlaces, ExPlaces
  <2>. QED BY <1>1, <2>1, LanesAssumption DEF LaneTypes, Replies
<1>3. MainKnows
  BY DEF MainKnows
<1>4. ASSUME NEW k \in Keys PROVE FlowOf(k)
  <2>1. /\ Running(k) = {} /\ Waiting(k) = {} /\ Dispatching(k) = {} /\ Arriving(k) = {}
        /\ Handed(k) = {} /\ Offered(k) = {} /\ ToRun(k) = {} /\ ToDispatch(k) = {}
    BY <1>1 DEF Running, Waiting, Dispatching, Arriving, Handed, Offered, ToRun, ToDispatch,
                ExIdle, IngIdle, RunPlaces, DispatchPlaces
  <2>2. Increasing(execution[k]) /\ Increasing(ingress[k]) /\ Increasing(handed[k])
    BY <1>1 DEF Increasing
  <2>3. OnOwnLane(k) /\ InOrder(k) /\ HandedFirst(k)
    BY <2>1, <2>2 DEF OnOwnLane, InOrder, HandedFirst, Before
  <2>4. NothingOvertaken(k) /\ WaitingExact(k) /\ ActiveExact(k)
    BY <1>1 DEF NothingOvertaken, WaitingExact, ActiveExact, IngIdle, ExIdle
  <2>. QED BY <2>3, <2>4 DEF FlowOf, Counters
<1>. QED BY <1>2, <1>3, <1>4 DEF Flow

\* So do the steps of the main loop, of the user, of the workers, and all of them.
LEMMA MainFlowNext == Flow /\ MainStep => Flow'
<1> SUFFICES ASSUME Flow, MainStep PROVE Flow'
  OBVIOUS
<1>1. LaneTypes /\ MainKnows
  BY DEF Flow
<1> USE DEF At, GoMain, rowVars, ingVars, laneVars, execVars, turnVars, userVars
<1>2. CASE PutIngress
  BY <1>2, PutIngressFlow
<1>3. CASE EscToken
  <2>1. LaneTypes' /\ MainKnows'
    BY <1>1, <1>3 DEF EscToken, LaneTypes, MainKnows
  <2>. QED BY <1>3, <2>1, MainFlow DEF EscToken
<1>4. ASSUME NEW all \in BOOLEAN, NEW ok \in BOOLEAN, EscFail(all, ok) PROVE Flow'
  <2>1. status' \in [Ids -> RequestStatus \union {"none"}]
    BY <1>1, <1>4 DEF EscFail, LaneTypes, RequestStatus
  <2>2. MainKnows' /\ main'.at \in {"select", "interrupting"}
    BY <1>1, <1>4 DEF EscFail, MainKnows, Arrived
  <2>3. LaneTypes'
    BY <1>1, <1>4, <2>1, <2>2 DEF EscFail, LaneTypes
  <2>. QED BY <1>4, <2>2, <2>3, MainFlow DEF EscFail
<1>5. ASSUME NEW all \in BOOLEAN, NEW outcome \in {"cancelled", "unwritten", "unappended"},
             CancelCommit(all, outcome)
      PROVE Flow'
  <2>1. status' \in [Ids -> RequestStatus \union {"none"}]
    BY <1>1, <1>5 DEF CancelCommit, LaneTypes, RequestStatus
  <2>2. MainKnows' /\ main'.at \in {"select", "interrupting"}
    BY <1>1, <1>5 DEF CancelCommit, MainKnows, Arrived
  <2>3. LaneTypes'
    BY <1>1, <1>5, <2>1, <2>2 DEF CancelCommit, LaneTypes
  <2>. QED BY <1>5, <2>2, <2>3, MainFlow DEF CancelCommit
<1>6. ASSUME NEW r \in Arrived, NEW sentOk \in BOOLEAN, NEW ok \in BOOLEAN, Deliver(r, sentOk, ok)
      PROVE Flow'
  <2>1. status' \in [Ids -> RequestStatus \union {"none"}]
    <3>1. CASE sentOk /\ reply[r] = "outbox"
      BY <1>1, <1>6, <3>1, SettleTypes DEF Deliver
    <3>2. CASE ~(sentOk /\ reply[r] = "outbox")
      BY <1>1, <1>6, <3>2 DEF Deliver, LaneTypes
    <3>. QED BY <3>1, <3>2
  <2>2. reply' \in [Ids -> Replies]
    BY <1>1, <1>6 DEF Deliver, LaneTypes, Replies
  <2>3. LaneTypes' /\ MainKnows'
    BY <1>1, <1>6, <2>1, <2>2 DEF Deliver, LaneTypes, MainKnows, Arrived
  <2>. QED BY <1>6, <2>3, MainFlow DEF Deliver
<1>. QED BY <1>2, <1>3, <1>4, <1>5, <1>6 DEF MainStep

LEMMA UserFlowNext == Flow /\ UserStep => Flow'
<1> SUFFICES ASSUME Flow, UserStep PROVE Flow'
  OBVIOUS
<1>1. LaneTypes /\ MainKnows
  BY DEF Flow
<1>2. ASSUME NEW k \in Keys, NEW sort \in Sorts, NEW row \in {"traced", "orphan", "missing"},
             Arrive(k, sort, row)
      PROVE Flow'
  BY <1>2, ArriveFlow
<1>3. ASSUME NEW r \in Arrived, CancelList(r) \/ EscList(r) PROVE Flow'
  <2>1. /\ main' \in {[at |-> "cancelling", req |-> r], [at |-> "escaping", req |-> r]}
        /\ UNCHANGED <<requests, status, ingress, ing, waiting, active, execution, ex, handed, reply>>
    BY <1>3 DEF CancelList, EscList, GoMain, rowVars, ingVars, laneVars, execVars, turnVars, userVars
  <2>2. LaneTypes' /\ MainKnows'
    BY <1>1, <2>1 DEF LaneTypes, MainKnows, Arrived
  <2>. QED BY <2>1, <2>2, MainFlow
<1>. QED BY <1>2, <1>3 DEF UserStep

LEMMA IngressFlowNext == ASSUME Flow, NEW k \in Keys, IngressStep(k) PROVE Flow'
<1>1. /\ LaneTypes /\ ing \in [Keys -> IngTypes] /\ status \in [Ids -> RequestStatus \union {"none"}]
      /\ reply \in [Ids -> Replies]
  BY DEF Flow, LaneTypes
<1>2. ASSUME NEW place \in IngPlaces, place # "put", place \in {"claim", "dispatch"} => ing[k].at = "claim" \/ CanSteer(k),
             GoIng(k, place), ing[k].at \notin {"idle", "put"},
             place \in DispatchPlaces => ing[k].at \in DispatchPlaces,
             status' \in [Ids -> RequestStatus \union {"none"}], reply' \in [Ids -> Replies],
             UNCHANGED <<main, requests, ingress, waiting, active, execution, ex, handed>>
      PROVE Flow'
  <2>1. /\ ing' \in [Keys -> IngTypes] /\ ing'[k].at = place
        /\ (place # "idle" => ing'[k].req = ing[k].req)
        /\ \A j \in Keys : j # k => ing'[j] = ing[j]
    BY <1>1, <1>2, IngGoes
  <2>. QED BY <1>2, <2>1, IngressMoves
<1> USE DEF IngAt, rowVars, ingVars, laneVars, execVars, turnVars, userVars, IngPlaces, DispatchPlaces
<1>3. CASE TakeIngress(k)
  BY <1>3, TakeIngressFlow
<1>4. CASE Probe(k)
  <2>1. PICK place \in {"claim", "enqueue"} : GoIng(k, place) /\ (place = "claim" => CanSteer(k))
    BY <1>4 DEF Probe
  <2>. QED BY <1>1, <1>2, <1>4, <2>1 DEF Probe
<1>5. CASE CountWaiting(k)
  BY <1>5, CountWaitingFlow
<1>6. CASE PutExecution(k)
  BY <1>6, PutExecutionFlow
<1>7. ASSUME NEW outcome \in {"claimed", "unread", "unappended"}, Claim(k, outcome) PROVE Flow'
  <2>1. PICK place \in {"failing", "idle", "dispatch"} : GoIng(k, place)
    BY <1>7 DEF Claim
  <2>2. status' \in [Ids -> RequestStatus \union {"none"}]
    BY <1>1, <1>7 DEF Claim, Cas, RequestStatus
  <2>. QED BY <1>1, <1>2, <1>7, <2>1, <2>2 DEF Claim
<1>8. ASSUME NEW acknowledged \in BOOLEAN, SteerClaude(k, acknowledged) PROVE Flow'
  BY <1>1, <1>2, <1>8 DEF SteerClaude
<1>9. ASSUME NEW outcome \in {"accepted", "refused", "unknown"}, NEW applied \in BOOLEAN,
             SteerCodex(k, outcome, applied)
      PROVE Flow'
  BY <1>9, SteerCodexFlow
<1>10. ASSUME NEW ok \in BOOLEAN, CheckIngress(k, ok) PROVE Flow'
  <2>1. PICK place \in {"idle", "probe", "enqueue"} : GoIng(k, place)
    BY <1>10 DEF CheckIngress
  <2>. QED BY <1>1, <1>2, <1>10, <2>1 DEF CheckIngress
<1>11. ASSUME NEW ok \in BOOLEAN, FailDispatch(k, ok) PROVE Flow'
  <2>1. status' \in [Ids -> RequestStatus \union {"none"}]
    BY <1>1, <1>11, SettleTypes DEF FailDispatch
  <2>. QED BY <1>1, <1>2, <1>11, <2>1 DEF FailDispatch
<1>12. ASSUME NEW ok \in BOOLEAN, CompleteSteer(k, ok) PROVE Flow'
  <2>1. status' \in [Ids -> RequestStatus \union {"none"}]
    BY <1>1, <1>12, SettleTypes DEF CompleteSteer
  <2>. QED BY <1>1, <1>2, <1>12, <2>1 DEF CompleteSteer
<1>13. ASSUME NEW ok \in BOOLEAN, ReleaseClaim(k, ok) PROVE Flow'
  <2>1. status' \in [Ids -> RequestStatus \union {"none"}]
    BY <1>1, <1>13 DEF ReleaseClaim, Cas, RequestStatus
  <2>2. CASE ok
    <3>1. PICK place \in {"enqueue", "idle"} : GoIng(k, place)
      BY <1>13, <2>2 DEF ReleaseClaim
    <3>. QED BY <1>1, <1>2, <1>13, <2>1, <3>1 DEF ReleaseClaim
  <2>3. CASE ~ok
    <3>1. PICK place \in {"release", "giveUp"} :
             ing' = [ing EXCEPT ![k].tries = @ + 1, ![k].at = place]
      BY <1>13, <2>3 DEF ReleaseClaim
    <3>2. /\ ing'[k].at = place /\ ing'[k].req = ing[k].req
          /\ \A j \in Keys : j # k => ing'[j] = ing[j]
          /\ ing' \in [Keys -> IngTypes]
      BY <1>1, <3>1, IngRetries
    <3>. QED BY <1>1, <1>13, <2>1, <3>2, IngressMoves DEF ReleaseClaim
  <2>. QED BY <2>2, <2>3
<1>14. ASSUME NEW ok \in BOOLEAN, GiveUp(k, ok) PROVE Flow'
  <2>1. status' \in [Ids -> RequestStatus \union {"none"}]
    BY <1>1, <1>14, SettleTypes DEF GiveUp
  <2>. QED BY <1>1, <1>2, <1>14, <2>1 DEF GiveUp
<1>15. ASSUME NEW ok \in BOOLEAN, Warn(k, ok) PROVE Flow'
  <2>1. reply' \in [Ids -> Replies]
    BY <1>1, <1>15 DEF Warn, SendReply, Outbound, Replies
  <2>. QED BY <1>1, <1>2, <1>15, <2>1 DEF Warn
<1>. QED BY <1>3, <1>4, <1>5, <1>6, <1>7, <1>8, <1>9, <1>10, <1>11, <1>12, <1>13, <1>14, <1>15
         DEF IngressStep

LEMMA ExecutionFlowNext == ASSUME Flow, NEW k \in Keys, ExecutionStep(k) PROVE Flow'
<1>1. /\ LaneTypes /\ ex \in [Keys -> ExTypes] /\ status \in [Ids -> RequestStatus \union {"none"}]
      /\ reply \in [Ids -> Replies] /\ active \in [Keys -> BOOLEAN] /\ ActiveExact(k)
  BY DEF Flow, LaneTypes, FlowOf, Counters
<1>2. ASSUME NEW place \in ExPlaces, ex' \in [Keys -> ExTypes],
             ex'[k].at = place, place # "idle" => ex'[k].req = ex[k].req,
             \A j \in Keys : j # k => ex'[j] = ex[j],
             ex[k].at \notin {"idle", "dequeued"}, place # "dequeued",
             place \in RunPlaces => ex[k].at \in RunPlaces,
             place \in {"check", "permit"} => ex[k].at \in {"check", "permit"},
             place \in {"start", "prepare", "turn", "finished"}
                 <=> ex[k].at \in {"start", "prepare", "turn", "finished"},
             status' \in [Ids -> RequestStatus \union {"none"}], reply' \in [Ids -> Replies],
             UNCHANGED <<main, requests, ingress, ing, waiting, active, execution, handed>>
      PROVE Flow'
  <2>1. active'[k] <=> place \in {"start", "prepare", "turn", "finished"}
    BY <1>1, <1>2 DEF ActiveExact
  <2>. QED BY <1>1, <1>2, <2>1, ExecutionMoves
<1> USE DEF ExAt, rowVars, ingVars, laneVars, execVars, turnVars, userVars, ExPlaces, RunPlaces
<1>3. ASSUME NEW response \in {"none", "outbox", "plain"}, Finish(k, response),
             ex[k].at \in {"start", "prepare", "turn"},
             status' \in [Ids -> RequestStatus \union {"none"}],
             UNCHANGED <<main, requests, reply, ingress, ing, waiting, active, execution, handed>>
      PROVE Flow'
  <2>1. /\ ex' \in [Keys -> ExTypes] /\ ex'[k].at = "finished" /\ ex'[k].req = ex[k].req
        /\ \A j \in Keys : j # k => ex'[j] = ex[j]
    BY <1>1, <1>3, ExFinishes
  <2>2. reply' \in [Ids -> Replies]
    BY <1>1, <1>3
  <2>. QED BY <1>2, <1>3, <2>1, <2>2
<1>4. CASE TakeExecution(k)
  BY <1>4, TakeExecutionFlow
<1>5. CASE CountDequeued(k)
  BY <1>5, CountDequeuedFlow
<1>6. CASE BeginTurn(k)
  BY <1>6, BeginTurnFlow
<1>7. ASSUME NEW place \in {"start", "replying"}, GoEx(k, place),
             place = "start" => ex[k].at = "permit", place = "replying" => ex[k].at = "finished",
             active' = [active EXCEPT ![k] = (place = "start")],
             UNCHANGED <<main, requests, status, reply, ingress, ing, waiting, execution, handed>>
      PROVE Flow'
  <2>1. /\ ex' \in [Keys -> ExTypes] /\ ex'[k].at = place /\ ex'[k].req = ex[k].req
        /\ \A j \in Keys : j # k => ex'[j] = ex[j]
    BY <1>1, <1>7, ExGoes
  <2>2. /\ active' \in [Keys -> BOOLEAN] /\ (active'[k] <=> place = "start")
        /\ \A j \in Keys : j # k => active'[j] = active[j]
    BY <1>1, <1>7
  <2>3. status' \in [Ids -> RequestStatus \union {"none"}] /\ reply' \in [Ids -> Replies]
    BY <1>1, <1>7
  <2>. QED BY <1>7, <2>1, <2>2, <2>3, ExecutionMoves
<1>8. CASE Start(k)
  BY <1>7, <1>8 DEF Start
<1>9. CASE Finished(k)
  BY <1>7, <1>9 DEF Finished, ActiveAfter
<1>10. ASSUME GoEx(k, "idle"), ex[k].at \in {"check", "replying"},
              status' \in [Ids -> RequestStatus \union {"none"}], reply' \in [Ids -> Replies],
              UNCHANGED <<main, requests, ingress, ing, waiting, active, execution, handed>>
       PROVE Flow'
  <2>1. /\ ex' \in [Keys -> ExTypes] /\ ex'[k].at = "idle"
        /\ \A j \in Keys : j # k => ex'[j] = ex[j]
    BY <1>1, <1>10, ExGoes
  <2>. QED BY <1>2, <1>10, <2>1
<1>11. CASE ReplyScheduler(k)
  <2>1. reply' \in [Ids -> Replies]
    BY <1>1, <1>11 DEF ReplyScheduler, Replies
  <2>. QED BY <1>1, <1>10, <1>11, <2>1 DEF ReplyScheduler
<1>12. CASE ReplyUser(k)
  <2>1. reply' \in [Ids -> Replies]
    BY <1>1, <1>12 DEF ReplyUser, SendReply, Replies, ExTypes
  <2>. QED BY <1>1, <1>10, <1>12, <2>1 DEF ReplyUser
<1>13. ASSUME NEW outcome \in {"started", "unwritten", "unrecorded"}, StartRun(k, outcome) PROVE Flow'
  <2>1. status' \in [Ids -> RequestStatus \union {"none"}]
    BY <1>1, <1>13 DEF StartRun, Update, RequestStatus
  <2>2. CASE Finish(k, "none")
    BY <1>3, <1>13, <2>1, <2>2 DEF StartRun
  <2>3. CASE GoEx(k, "prepare")
    <3>1. /\ ex' \in [Keys -> ExTypes] /\ ex'[k].at = "prepare" /\ ex'[k].req = ex[k].req
          /\ \A j \in Keys : j # k => ex'[j] = ex[j]
      BY <1>1, <2>3, ExGoes
    <3>. QED BY <1>1, <1>2, <1>13, <2>1, <3>1 DEF StartRun
  <2>. QED BY <1>13, <2>2, <2>3 DEF StartRun
<1>14. ASSUME NEW ok \in BOOLEAN, CheckExecution(k, ok) PROVE Flow'
  <2>1. CASE GoEx(k, "idle")
    BY <1>1, <1>10, <1>14, <2>1 DEF CheckExecution
  <2>2. CASE GoEx(k, "permit")
    <3>1. /\ ex' \in [Keys -> ExTypes] /\ ex'[k].at = "permit" /\ ex'[k].req = ex[k].req
          /\ \A j \in Keys : j # k => ex'[j] = ex[j]
      BY <1>1, <2>2, ExGoes
    <3>. QED BY <1>1, <1>2, <1>14, <3>1 DEF CheckExecution
  <2>. QED BY <1>14, <2>1, <2>2 DEF CheckExecution
<1>15. ASSUME NEW ok \in BOOLEAN, Preflight(k, ok) PROVE Flow'
  <2>1. status' \in [Ids -> RequestStatus \union {"none"}]
    BY <1>1, <1>15, SettleTypes DEF Preflight
  <2>2. Outbound(ex[k].req, TRUE) \in {"none", "outbox", "plain"}
    BY DEF Outbound
  <2>. QED BY <1>3, <1>15, <2>1, <2>2 DEF Preflight
<1>16. ASSUME NEW ok \in BOOLEAN, NoReply(k, ok) PROVE Flow'
  <2>1. status' \in [Ids -> RequestStatus \union {"none"}]
    BY <1>1, <1>16, SettleTypes DEF NoReply
  <2>. QED BY <1>1, <1>10, <1>16, <2>1 DEF NoReply
<1>17. ASSUME NEW outcome \in {"answered", "streamed", "error", "cancelled", "steered"},
              EndTurnUnstored(k, outcome)
       PROVE Flow'
  <2>1. status' \in [Ids -> RequestStatus \union {"none"}]
    BY <1>1, <1>17 DEF EndTurnUnstored, Update, FinalStatus, RequestStatus
  <2>. QED BY <1>3, <1>17, <2>1 DEF EndTurnUnstored
<1>18. ASSUME NEW outcome \in {"answered", "streamed", "error", "cancelled", "steered"},
              NEW ok \in BOOLEAN, EndTurn(k, outcome, ok)
       PROVE Flow'
  <2>1. status' \in [Ids -> RequestStatus \union {"none"}]
    <3>1. CASE OutboxAnswers(ex[k].req, outcome)
      BY <1>1, <1>18, <3>1 DEF EndTurn
    <3>2. CASE ~OutboxAnswers(ex[k].req, outcome)
      BY <1>1, <1>18, <3>2, SettleTypes DEF EndTurn, FinalStatus
    <3>. QED BY <3>1, <3>2
  <2>2. PICK response \in Responses(ex[k].req, outcome) : Finish(k, response)
    BY <1>18 DEF EndTurn
  <2>3. response \in {"none", "outbox", "plain"}
    BY <2>2 DEF Responses, Outbound
  <2>. QED BY <1>3, <1>18, <2>1, <2>2, <2>3 DEF EndTurn
<1>. QED BY <1>4, <1>5, <1>6, <1>8, <1>9, <1>11, <1>12, <1>13, <1>14, <1>15, <1>16, <1>17, <1>18
         DEF ExecutionStep

LEMMA FlowNext == Flow /\ [Next]_vars => Flow'
<1> SUFFICES ASSUME Flow, [Next]_vars PROVE Flow'
  OBVIOUS
<1>1. CASE MainStep
  BY <1>1, MainFlowNext
<1>2. CASE UserStep
  BY <1>2, UserFlowNext
<1>3. ASSUME NEW k \in Keys, IngressStep(k) PROVE Flow'
  BY <1>3, IngressFlowNext
<1>4. ASSUME NEW k \in Keys, ExecutionStep(k) PROVE Flow'
  BY <1>4, ExecutionFlowNext
<1>5. CASE UNCHANGED vars
  <2>1. /\ UNCHANGED <<main, requests, ingress, ing, waiting, active, execution, ex, handed, status, reply>>
    BY <1>5 DEF vars, rowVars, ingVars, laneVars, execVars, turnVars, userVars
  <2>2. LaneTypes' /\ MainKnows'
    BY <2>1 DEF Flow, LaneTypes, MainKnows, Arrived
  <2>3. ASSUME NEW k \in Keys PROVE FlowOf(k)'
    <3>1. Offered(k)' = Offered(k) /\ requests \in Seq([key : Keys, sort : Sorts, traced : BOOLEAN])
          /\ FlowOf(k)
      BY <2>1 DEF Flow, LaneTypes, Offered, Arrived, KeyOf
    <3>. QED BY <2>1, <3>1, FlowElsewhere DEF Arrived, KeyOf
  <2>. QED BY <2>2, <2>3 DEF Flow
<1>. QED BY <1>1, <1>2, <1>3, <1>4, <1>5 DEF Next

LEMMA FlowHolds == Spec => []Flow
<1>1. Init => Flow
  BY FlowInit
<1>2. Flow /\ [Next]_vars => Flow'
  BY FlowNext
<1>. QED BY <1>1, <1>2, PTL DEF Spec

\* The counters that decide whether a text may steer are exact, whatever step
\* failed on the way of a request (execution_dequeued, execution_started,
\* execution_finished).
THEOREM CountersAreExact == Spec => []LaneCountersExact
<1>1. Flow => LaneCountersExact
  <2> SUFFICES ASSUME Flow, NEW k \in Keys PROVE WaitingExact(k) /\ ActiveExact(k)
    BY DEF LaneCountersExact, WaitingExact, ActiveExact
  <2>. QED BY DEF Flow, FlowOf, Counters
<1>. QED BY <1>1, FlowHolds, PTL

\* A backend receives each message of a conversation at most once and in order
\* of arrival, for any number of conversations, permits and requests.
THEOREM HandedInOrder == Spec => []HandedInArrivalOrder
<1>1. Flow => HandedInArrivalOrder
  <2> SUFFICES ASSUME Flow, NEW k \in Keys,
                      NEW i \in DOMAIN handed[k], NEW j \in DOMAIN handed[k], i < j
               PROVE  handed[k][i] < handed[k][j]
    BY DEF HandedInArrivalOrder
  <2>1. handed[k] \in Seq(Nat) /\ Increasing(handed[k])
    BY DEF Flow, LaneTypes, FlowOf, HandedFirst
  <2>2. DOMAIN handed[k] = 1 .. Len(handed[k])
    BY <2>1, LenProperties
  <2>. QED BY <2>1, <2>2 DEF Increasing
<1>. QED BY <1>1, FlowHolds, PTL

-----------------------------------------------------------------------------
(* The rows of the requests. *)

\* What the row of a tracked request may be before its turn and from then on,
\* and when nobody has to write it any more.
Open(r) == Traced(r) => status[r] \in {"accepted", "completed", "failed"}
Begun(r) == Traced(r) => status[r] \in {"running", "completed", "failed"} /\ r \notin cancelled
Settled(r) == Traced(r) => IsTerminal(status[r]) \/ r \in lost

\* The requests of key k by what their place says of their rows.
IngHas(k, places) == IF ing[k].at \in places THEN {ing[k].req} ELSE {}
ExHas(k, places) == IF ex[k].at \in places THEN {ex[k].req} ELSE {}
PlainOf(k) == {r \in Running(k) : ex[k].response = "plain" /\ ~Background(r)}

OpenPlaces == {"check", "probe", "claim", "enqueue", "put"}
ClaimedPlaces == {"dispatch", "release", "completing", "giveUp"}
QueuedPlaces == {"dequeued", "check", "permit", "start"}
TurnPlaces == {"prepare", "turn"}

ToBegin(k) == Offered(k) \union Arriving(k) \union Waiting(k) \union IngHas(k, OpenPlaces)
                  \union ExHas(k, QueuedPlaces)
HasBegun(k) == IngHas(k, ClaimedPlaces) \union ExHas(k, TurnPlaces) \union Handed(k)
IsSettled(k) == IngHas(k, {"warning"}) \union PlainOf(k)
OnLanes(k) == Running(k) \union Waiting(k) \union Dispatching(k) \union Arriving(k)
                  \union Offered(k)

\* The row of a request is what its place says.
RowsFollow(k) ==
    /\ \A r \in ToBegin(k) : Open(r)
    /\ \A r \in HasBegun(k) : Begun(r)
    /\ \A r \in IsSettled(k) : Settled(r)

\* Rows begin with the request, and what was cancelled failed.
RowsBegin ==
    /\ \A r \in Ids \ Arrived : status[r] = "none" /\ reply[r] = "none"
    /\ \A r \in Arrived : Traced(r) => status[r] # "none"
    /\ \A r \in cancelled : r \in Ids /\ status[r] = "failed"

\* A tracked request of a user that no worker has any more is settled, or its
\* reply is with the outbox.
Kept(r) == r \in OnLanes(KeyOf(r)) \/ Settled(r) \/ reply[r] \in {"outbox", "unsent"}
NotDropped(r) == Background(r) \/ (Kept(r) /\ (reply[r] = "plain" => Settled(r)))

\* The rows layer of the invariant.
Rows ==
    /\ RowsBegin
    /\ \A k \in Keys : RowsFollow(k)
    /\ \A r \in Arrived : NotDropped(r)

\* A step keeps all of this and no terminal row changes.
RowsKept == Rows' /\ \A r \in Ids : IsTerminal(status[r]) => status'[r] = status[r]

\* A step writes at most the row and the reply of request q, as transitions go.
WritesOnly(q) ==
    /\ \A r \in Ids : r # q => status'[r] = status[r] /\ reply'[r] = reply[r]
    /\ IsTerminal(status[q]) => status'[q] = status[q]
    /\ status[q] # "none" => status'[q] # "none"
    /\ cancelled \subseteq cancelled' /\ cancelled' \ {q} \subseteq cancelled
    /\ q \in cancelled' => status'[q] = "failed"
    /\ lost \subseteq lost'

\* Requests that arrived are numbered within the bound.
LEMMA ArrivedIds == LaneTypes => Arrived \subseteq Ids /\ Len(requests) \in Nat
<1> SUFFICES ASSUME LaneTypes PROVE Arrived \subseteq Ids /\ Len(requests) \in Nat
  OBVIOUS
<1>1. Len(requests) \in Nat /\ Len(requests) <= MaxRequests
  BY LenProperties DEF LaneTypes
<1>. QED BY <1>1, LanesAssumption DEF Arrived, Ids

\* Each key has its own requests.
LEMMA PlacesOfKey ==
    ASSUME Flow, NEW j \in Keys
    PROVE  /\ ToBegin(j) \union HasBegun(j) \union IsSettled(j) \union OnLanes(j) \subseteq OfKey(j)
           /\ OfKey(j) \subseteq Arrived
<1>1. OnOwnLane(j) /\ OfKey(j) \subseteq Arrived
  BY DEF Flow, FlowOf, OfKey
<1>2. ing[j].at # "idle" => ing[j].req \in OfKey(j)
  BY <1>1 DEF OnOwnLane, Dispatching
<1>3. ex[j].at # "idle" => ex[j].req \in OfKey(j)
  BY <1>1 DEF OnOwnLane, Running
<1>4. PlainOf(j) \subseteq OfKey(j) /\ Running(j) \subseteq OfKey(j) /\ Dispatching(j) \subseteq OfKey(j)
  BY <1>1 DEF OnOwnLane, PlainOf
<1>5. Offered(j) \union Arriving(j) \union Waiting(j) \union Handed(j) \subseteq OfKey(j)
  BY <1>1 DEF OnOwnLane, OfKey, Offered
<1>6. /\ IngHas(j, OpenPlaces) \subseteq OfKey(j) /\ IngHas(j, ClaimedPlaces) \subseteq OfKey(j)
      /\ IngHas(j, {"warning"}) \subseteq OfKey(j)
  BY <1>2 DEF IngHas, OpenPlaces, ClaimedPlaces
<1>7. ExHas(j, QueuedPlaces) \subseteq OfKey(j) /\ ExHas(j, TurnPlaces) \subseteq OfKey(j)
  BY <1>3 DEF ExHas, QueuedPlaces, TurnPlaces
<1>. QED BY <1>1, <1>4, <1>5, <1>6, <1>7 DEF ToBegin, HasBegun, IsSettled, OnLanes

\* A step that writes one request's row and moves only that request.
LEMMA RowsStep ==
    ASSUME Flow, Rows, UNCHANGED requests, NEW q \in Arrived, WritesOnly(q),
           \A j \in Keys :
               /\ ToBegin(j)' \subseteq ToBegin(j) \union {q}
               /\ HasBegun(j)' \subseteq HasBegun(j) \union {q}
               /\ IsSettled(j)' \subseteq IsSettled(j) \union {q}
               /\ OnLanes(j) \subseteq OnLanes(j)' \union {q}
               /\ q \in ToBegin(j)' => Open(q)'
               /\ q \in HasBegun(j)' => Begun(q)'
               /\ q \in IsSettled(j)' => Settled(q)',
           NotDropped(q)'
    PROVE  RowsKept
<1>1. /\ LaneTypes /\ Arrived \subseteq Ids /\ Arrived' = Arrived
      /\ \A r \in Arrived : /\ Traced(r)' = Traced(r) /\ Background(r)' = Background(r)
                            /\ KeyOf(r)' = KeyOf(r) /\ KeyOf(r) \in Keys
  <2>1. LaneTypes /\ requests \in Seq([key : Keys, sort : Sorts, traced : BOOLEAN])
    BY DEF Flow, LaneTypes
  <2>2. ASSUME NEW r \in Arrived PROVE KeyOf(r) \in Keys
    <3>1. requests[r] \in [key : Keys, sort : Sorts, traced : BOOLEAN]
      BY <2>1, ElementOfSeq DEF Arrived
    <3>. QED BY <3>1 DEF KeyOf
  <2>. QED BY <2>1, <2>2, ArrivedIds DEF Arrived, Traced, Background, KeyOf
<1>2. \A r \in Ids : IsTerminal(status[r]) => status'[r] = status[r]
  BY DEF WritesOnly
<1>3. RowsBegin'
  <2>1. \A r \in Ids \ Arrived' : status'[r] = "none" /\ reply'[r] = "none"
    BY <1>1 DEF Rows, RowsBegin, WritesOnly
  <2>2. \A r \in Arrived : Traced(r)' => status'[r] # "none"
    BY <1>1 DEF Rows, RowsBegin, WritesOnly
  <2>3. \A r \in cancelled' : r \in Ids /\ status'[r] = "failed"
    <3>1. ASSUME NEW r \in cancelled', r # q PROVE r \in Ids /\ status'[r] = "failed"
      BY <3>1 DEF Rows, RowsBegin, WritesOnly
    <3>. QED BY <1>1, <3>1 DEF WritesOnly
  <2>. QED BY <1>1, <2>1, <2>2, <2>3 DEF RowsBegin
<1>4. ASSUME NEW r \in Arrived, r # q
      PROVE  (Open(r) => Open(r)') /\ (Begun(r) => Begun(r)') /\ (Settled(r) => Settled(r)')
  <2>1. status'[r] = status[r] /\ (r \in cancelled' => r \in cancelled) /\ (r \in lost => r \in lost')
    BY <1>1, <1>4 DEF WritesOnly
  <2>2. Traced(r)' = Traced(r)
    BY <1>1
  <2>3. Open(r) => Open(r)'
    BY <2>1, <2>2 DEF Open
  <2>4. Begun(r) => Begun(r)'
    BY <2>1, <2>2 DEF Begun
  <2>5. Settled(r) => Settled(r)'
    BY <2>1, <2>2 DEF Settled
  <2>. QED BY <2>3, <2>4, <2>5
<1>5. ASSUME NEW j \in Keys PROVE RowsFollow(j)'
  <2>1. ToBegin(j) \union HasBegun(j) \union IsSettled(j) \subseteq Arrived
    BY PlacesOfKey
  <2>2. RowsFollow(j)
    BY DEF Rows
  <2>3. ASSUME NEW r \in ToBegin(j)' PROVE Open(r)'
    BY <1>4, <2>1, <2>2, <2>3 DEF RowsFollow
  <2>4. ASSUME NEW r \in HasBegun(j)' PROVE Begun(r)'
    BY <1>4, <2>1, <2>2, <2>4 DEF RowsFollow
  <2>5. ASSUME NEW r \in IsSettled(j)' PROVE Settled(r)'
    BY <1>4, <2>1, <2>2, <2>5 DEF RowsFollow
  <2>. QED BY <2>3, <2>4, <2>5 DEF RowsFollow
<1>6. ASSUME NEW r \in Arrived, r # q PROVE NotDropped(r)'
  <2>1. NotDropped(r) /\ KeyOf(r) \in Keys /\ KeyOf(r)' = KeyOf(r) /\ Background(r)' = Background(r)
    BY <1>1 DEF Rows
  <2>2. reply'[r] = reply[r]
    BY <1>1, <1>6 DEF WritesOnly
  <2>3. r \in OnLanes(KeyOf(r)) => r \in OnLanes(KeyOf(r))'
    <3>1. PICK j \in Keys : j = KeyOf(r) /\ KeyOf(r)' = j
      BY <2>1
    <3>2. r \in OnLanes(j) => r \in OnLanes(j)'
      BY <1>6
    <3>3. OnLanes(KeyOf(r))' = OnLanes(j)'
      BY <3>1
    <3>. QED BY <3>1, <3>2, <3>3
  <2>. QED BY <1>4, <1>6, <2>1, <2>2, <2>3 DEF NotDropped, Kept
<1>. QED BY <1>1, <1>2, <1>3, <1>5, <1>6 DEF RowsKept, Rows

\* A step that moves requests and writes no row.
LEMMA RowsMove ==
    ASSUME Flow, Rows, UNCHANGED <<requests, status, reply, cancelled, lost>>,
           \A j \in Keys : /\ ToBegin(j)' \subseteq ToBegin(j)
                           /\ HasBegun(j)' \subseteq HasBegun(j)
                           /\ IsSettled(j)' \subseteq IsSettled(j)
                           /\ OnLanes(j) \subseteq OnLanes(j)'
    PROVE  RowsKept
<1>1. \A r : Open(r)' = Open(r) /\ Begun(r)' = Begun(r) /\ Settled(r)' = Settled(r)
  BY DEF Open, Begun, Settled, Traced
<1>2. RowsBegin'
  BY DEF Rows, RowsBegin, Arrived, Traced
<1>3. ASSUME NEW j \in Keys PROVE RowsFollow(j)'
  <2>1. RowsFollow(j)
    BY DEF Rows
  <2>2. \A r \in ToBegin(j)' : Open(r)'
    BY <1>1, <2>1 DEF RowsFollow
  <2>3. \A r \in HasBegun(j)' : Begun(r)'
    BY <1>1, <2>1 DEF RowsFollow
  <2>4. \A r \in IsSettled(j)' : Settled(r)'
    BY <1>1, <2>1 DEF RowsFollow
  <2>. QED BY <2>2, <2>3, <2>4 DEF RowsFollow
<1>4. ASSUME NEW r \in Arrived PROVE NotDropped(r)'
  <2>1. PICK j \in Keys : j = KeyOf(r) /\ j = KeyOf(r)'
    <3>1. requests[r] \in [key : Keys, sort : Sorts, traced : BOOLEAN]
      BY ElementOfSeq DEF Arrived, Flow, LaneTypes
    <3>. QED BY <3>1 DEF KeyOf
  <2>2. r \in OnLanes(KeyOf(r)) => r \in OnLanes(KeyOf(r))'
    <3>1. OnLanes(KeyOf(r))' = OnLanes(j)'
      BY <2>1
    <3>. QED BY <2>1, <3>1
  <2>3. NotDropped(r) /\ reply'[r] = reply[r] /\ Background(r)' = Background(r)
    BY DEF Rows, Background
  <2>. QED BY <1>1, <2>2, <2>3 DEF NotDropped, Kept
<1>. QED BY <1>2, <1>3, <1>4 DEF RowsKept, Rows, Arrived

\* The ingress worker of a key goes on with its request q, or is done with it.
LEMMA IngressRows ==
    ASSUME Flow, Rows, NEW k \in Keys, NEW place \in IngPlaces, NEW q,
           q = ing[k].req, ing[k].at # "idle",
           ing'[k].at = place, place # "idle" => ing'[k].req = ing[k].req,
           \A j \in Keys : j # k => ing'[j] = ing[j] /\ handed'[j] = handed[j],
           UNCHANGED <<main, requests, ingress, execution, ex>>,
           WritesOnly(q),
           place \in OpenPlaces => Open(q)', place \in ClaimedPlaces => Begun(q)',
           place = "warning" => Settled(q)',
           Handed(k)' \subseteq Handed(k) \union {q}, q \in Handed(k)' => Begun(q)',
           Background(q) \/ place # "idle" \/ Settled(q)' \/ reply'[q] \in {"outbox", "unsent"},
           Background(q) \/ reply'[q] # "plain" \/ Settled(q)'
    PROVE  RowsKept
<1>1. q \in Arrived /\ q \in OfKey(k) /\ KeyOf(q) = k /\ q \in Nat /\ Dispatching(k) = {q}
  <2>1. Dispatching(k) = {q} /\ OnOwnLane(k)
    BY DEF Dispatching, Flow, FlowOf
  <2>. QED BY <2>1, ArrivedIds DEF OnOwnLane, OfKey, Flow, Arrived
<1>2. q \notin Offered(k) \union Arriving(k) \union Waiting(k) \union Running(k)
  <2>1. InOrder(k)
    BY DEF Flow, FlowOf
  <2>. QED BY <1>1, <2>1 DEF InOrder, Before
<1>3. ASSUME NEW j \in Keys, j # k PROVE q \notin OfKey(j)
  BY <1>1, <1>3 DEF OfKey
<1>4. ASSUME NEW j \in Keys
      PROVE  /\ Offered(j)' = Offered(j) /\ Arriving(j)' = Arriving(j) /\ Waiting(j)' = Waiting(j)
             /\ Running(j)' = Running(j) /\ PlainOf(j)' = PlainOf(j)
             /\ ExHas(j, QueuedPlaces)' = ExHas(j, QueuedPlaces)
             /\ ExHas(j, TurnPlaces)' = ExHas(j, TurnPlaces)
  BY DEF Offered, Arriving, Waiting, Running, PlainOf, ExHas, Arrived, KeyOf, Background, QueuedPlaces,
         TurnPlaces
<1>5. ASSUME NEW j \in Keys, j # k
      PROVE  /\ IngHas(j, OpenPlaces)' = IngHas(j, OpenPlaces)
             /\ IngHas(j, ClaimedPlaces)' = IngHas(j, ClaimedPlaces)
             /\ IngHas(j, {"warning"})' = IngHas(j, {"warning"})
             /\ Handed(j)' = Handed(j) /\ Dispatching(j)' = Dispatching(j)
  BY <1>5 DEF IngHas, Handed, Dispatching, OpenPlaces, ClaimedPlaces
<1>6. /\ IngHas(k, OpenPlaces)' = IF place \in OpenPlaces THEN {q} ELSE {}
      /\ IngHas(k, ClaimedPlaces)' = IF place \in ClaimedPlaces THEN {q} ELSE {}
      /\ IngHas(k, {"warning"})' = IF place = "warning" THEN {q} ELSE {}
      /\ Dispatching(k)' = IF place = "idle" THEN {} ELSE {q}
  BY DEF IngHas, Dispatching, OpenPlaces, ClaimedPlaces
<1>7. ASSUME NEW j \in Keys
      PROVE  /\ ToBegin(j)' \subseteq ToBegin(j) \union {q}
             /\ HasBegun(j)' \subseteq HasBegun(j) \union {q}
             /\ IsSettled(j)' \subseteq IsSettled(j) \union {q}
             /\ OnLanes(j) \subseteq OnLanes(j)' \union {q}
             /\ q \in ToBegin(j)' => Open(q)'
             /\ q \in HasBegun(j)' => Begun(q)'
             /\ q \in IsSettled(j)' => Settled(q)'
  <2>1. CASE j # k
    <3>1. /\ ToBegin(j)' = ToBegin(j) /\ HasBegun(j)' = HasBegun(j) /\ IsSettled(j)' = IsSettled(j)
          /\ OnLanes(j)' = OnLanes(j)
      BY <1>4, <1>5, <2>1 DEF ToBegin, HasBegun, IsSettled, OnLanes
    <3>. QED BY <1>3, <2>1, <3>1, PlacesOfKey
  <2>2. CASE j = k
    <3>1. ToBegin(k)' \subseteq ToBegin(k) \union {q} /\ (q \in ToBegin(k)' => Open(q)')
      <4>1. ExHas(k, QueuedPlaces) \subseteq Running(k)
        BY DEF ExHas, Running, QueuedPlaces
      <4>. QED BY <1>2, <1>4, <1>6, <4>1 DEF ToBegin
    <3>2. HasBegun(k)' \subseteq HasBegun(k) \union {q} /\ (q \in HasBegun(k)' => Begun(q)')
      <4>1. ExHas(k, TurnPlaces) \subseteq Running(k)
        BY DEF ExHas, Running, TurnPlaces
      <4>. QED BY <1>2, <1>4, <1>6, <4>1 DEF HasBegun
    <3>3. IsSettled(k)' \subseteq IsSettled(k) \union {q} /\ (q \in IsSettled(k)' => Settled(q)')
      <4>1. PlainOf(k) \subseteq Running(k)
        BY DEF PlainOf
      <4>. QED BY <1>2, <1>4, <1>6, <4>1 DEF IsSettled
    <3>4. OnLanes(k) \subseteq OnLanes(k)' \union {q}
      BY <1>1, <1>4 DEF OnLanes
    <3>. QED BY <2>2, <3>1, <3>2, <3>3, <3>4
  <2>. QED BY <2>1, <2>2
<1>8. NotDropped(q)'
  <2>1. KeyOf(q)' = k /\ Background(q)' = Background(q)
    BY <1>1 DEF KeyOf, Background
  <2>2. place # "idle" => q \in OnLanes(KeyOf(q))'
    BY <1>6, <2>1 DEF OnLanes
  <2>. QED BY <2>1, <2>2 DEF NotDropped, Kept
<1>. QED BY <1>1, <1>7, <1>8, RowsStep

\* The execution worker of a key goes on with its request q, or is done with it.
LEMMA ExecutionRows ==
    ASSUME Flow, Rows, NEW k \in Keys, NEW place \in ExPlaces, NEW q,
           q = ex[k].req, ex[k].at # "idle",
           ex'[k].at = place, place # "idle" => ex'[k].req = ex[k].req,
           \A j \in Keys : j # k => ex'[j] = ex[j] /\ handed'[j] = handed[j],
           UNCHANGED <<main, requests, ingress, ing, execution>>,
           WritesOnly(q),
           place \in QueuedPlaces => Open(q)', place \in TurnPlaces => Begun(q)',
           place = "idle" \/ ex'[k].response # "plain" \/ Background(q) \/ Settled(q)',
           Handed(k)' \subseteq Handed(k) \union {q}, q \in Handed(k)' => Begun(q)',
           Background(q) \/ place # "idle" \/ Settled(q)' \/ reply'[q] \in {"outbox", "unsent"},
           Background(q) \/ reply'[q] # "plain" \/ Settled(q)'
    PROVE  RowsKept
<1>1. q \in Arrived /\ q \in OfKey(k) /\ KeyOf(q) = k /\ q \in Nat /\ Running(k) = {q}
  <2>1. Running(k) = {q} /\ OnOwnLane(k)
    BY DEF Running, Flow, FlowOf
  <2>. QED BY <2>1, ArrivedIds DEF OnOwnLane, OfKey, Flow, Arrived
<1>2. q \notin Offered(k) \union Arriving(k) \union Waiting(k) \union Dispatching(k)
  <2>1. InOrder(k)
    BY DEF Flow, FlowOf
  <2>. QED BY <1>1, <2>1 DEF InOrder, Before
<1>3. ASSUME NEW j \in Keys, j # k PROVE q \notin OfKey(j)
  BY <1>1, <1>3 DEF OfKey
<1>4. ASSUME NEW j \in Keys
      PROVE  /\ Offered(j)' = Offered(j) /\ Arriving(j)' = Arriving(j) /\ Waiting(j)' = Waiting(j)
             /\ Dispatching(j)' = Dispatching(j)
             /\ IngHas(j, OpenPlaces)' = IngHas(j, OpenPlaces)
             /\ IngHas(j, ClaimedPlaces)' = IngHas(j, ClaimedPlaces)
             /\ IngHas(j, {"warning"})' = IngHas(j, {"warning"})
  BY DEF Offered, Arriving, Waiting, Dispatching, IngHas, Arrived, KeyOf, OpenPlaces, ClaimedPlaces
<1>5. ASSUME NEW j \in Keys, j # k
      PROVE  /\ ExHas(j, QueuedPlaces)' = ExHas(j, QueuedPlaces)
             /\ ExHas(j, TurnPlaces)' = ExHas(j, TurnPlaces)
             /\ PlainOf(j)' = PlainOf(j)
             /\ Handed(j)' = Handed(j) /\ Running(j)' = Running(j)
  BY <1>5 DEF ExHas, Handed, Running, PlainOf, Background, QueuedPlaces, TurnPlaces
<1>6. /\ ExHas(k, QueuedPlaces)' = IF place \in QueuedPlaces THEN {q} ELSE {}
      /\ ExHas(k, TurnPlaces)' = IF place \in TurnPlaces THEN {q} ELSE {}
      /\ Running(k)' = IF place = "idle" THEN {} ELSE {q}
  BY DEF ExHas, Running, QueuedPlaces, TurnPlaces
<1>7. PlainOf(k)' \subseteq {q} /\ (q \in PlainOf(k)' => Settled(q)')
  <2>1. ASSUME NEW r \in PlainOf(k)' PROVE r = q /\ Settled(q)'
    <3>1. r \in Running(k)' /\ ex'[k].response = "plain" /\ ~Background(r)'
      BY <2>1 DEF PlainOf
    <3>2. r = q /\ place # "idle" /\ Background(r)' = Background(q)
      BY <1>6, <3>1 DEF Background
    <3>. QED BY <3>1, <3>2
  <2>. QED BY <2>1
<1>8. ASSUME NEW j \in Keys
      PROVE  /\ ToBegin(j)' \subseteq ToBegin(j) \union {q}
             /\ HasBegun(j)' \subseteq HasBegun(j) \union {q}
             /\ IsSettled(j)' \subseteq IsSettled(j) \union {q}
             /\ OnLanes(j) \subseteq OnLanes(j)' \union {q}
             /\ q \in ToBegin(j)' => Open(q)'
             /\ q \in HasBegun(j)' => Begun(q)'
             /\ q \in IsSettled(j)' => Settled(q)'
  <2>1. CASE j # k
    <3>1. /\ ToBegin(j)' = ToBegin(j) /\ HasBegun(j)' = HasBegun(j) /\ IsSettled(j)' = IsSettled(j)
          /\ OnLanes(j)' = OnLanes(j)
      BY <1>4, <1>5, <2>1 DEF ToBegin, HasBegun, IsSettled, OnLanes
    <3>. QED BY <1>3, <2>1, <3>1, PlacesOfKey
  <2>2. CASE j = k
    <3>1. ToBegin(k)' \subseteq ToBegin(k) \union {q} /\ (q \in ToBegin(k)' => Open(q)')
      <4>1. IngHas(k, OpenPlaces) \subseteq Dispatching(k)
        BY DEF IngHas, Dispatching, OpenPlaces
      <4>. QED BY <1>2, <1>4, <1>6, <4>1 DEF ToBegin
    <3>2. HasBegun(k)' \subseteq HasBegun(k) \union {q} /\ (q \in HasBegun(k)' => Begun(q)')
      <4>1. IngHas(k, ClaimedPlaces) \subseteq Dispatching(k)
        BY DEF IngHas, Dispatching, ClaimedPlaces
      <4>. QED BY <1>2, <1>4, <1>6, <4>1 DEF HasBegun
    <3>3. IsSettled(k)' \subseteq IsSettled(k) \union {q} /\ (q \in IsSettled(k)' => Settled(q)')
      <4>1. IngHas(k, {"warning"}) \subseteq Dispatching(k)
        BY DEF IngHas, Dispatching
      <4>. QED BY <1>2, <1>4, <1>7, <4>1 DEF IsSettled
    <3>4. OnLanes(k) \subseteq OnLanes(k)' \union {q}
      BY <1>1, <1>4 DEF OnLanes
    <3>. QED BY <2>2, <3>1, <3>2, <3>3, <3>4
  <2>. QED BY <2>1, <2>2
<1>9. NotDropped(q)'
  <2>1. KeyOf(q)' = k /\ Background(q)' = Background(q)
    BY <1>1 DEF KeyOf, Background
  <2>2. place # "idle" => q \in OnLanes(KeyOf(q))'
    BY <1>6, <2>1 DEF OnLanes
  <2>. QED BY <2>1, <2>2 DEF NotDropped, Kept
<1>. QED BY <1>1, <1>8, <1>9, RowsStep

\* The main loop writes the row or the reply of request q.
LEMMA MainRows ==
    ASSUME Flow, Rows, NEW q \in Arrived, WritesOnly(q),
           UNCHANGED <<requests, ingress, ing, execution, ex, handed>>,
           main.at # "offering", main'.at # "offering",
           Open(q) => Open(q)', Begun(q) => Begun(q)', Settled(q) => Settled(q)',
           \/ reply'[q] = reply[q] \/ Background(q)
           \/ reply'[q] # "plain" /\ (Settled(q)' \/ reply'[q] = "unsent")
    PROVE  RowsKept
<1>1. ASSUME NEW j \in Keys
      PROVE  /\ Offered(j)' = {} /\ Offered(j) = {}
             /\ Arriving(j)' = Arriving(j) /\ Waiting(j)' = Waiting(j)
             /\ Running(j)' = Running(j) /\ Dispatching(j)' = Dispatching(j)
             /\ Handed(j)' = Handed(j) /\ PlainOf(j)' = PlainOf(j)
             /\ IngHas(j, OpenPlaces)' = IngHas(j, OpenPlaces)
             /\ IngHas(j, ClaimedPlaces)' = IngHas(j, ClaimedPlaces)
             /\ IngHas(j, {"warning"})' = IngHas(j, {"warning"})
             /\ ExHas(j, QueuedPlaces)' = ExHas(j, QueuedPlaces)
             /\ ExHas(j, TurnPlaces)' = ExHas(j, TurnPlaces)
  BY DEF Offered, Arriving, Waiting, Running, Dispatching, Handed, PlainOf, IngHas, ExHas, Background,
         OpenPlaces, ClaimedPlaces, QueuedPlaces, TurnPlaces
<1>2. ASSUME NEW j \in Keys
      PROVE  /\ ToBegin(j)' = ToBegin(j) /\ HasBegun(j)' = HasBegun(j)
             /\ IsSettled(j)' = IsSettled(j) /\ OnLanes(j)' = OnLanes(j)
  BY <1>1 DEF ToBegin, HasBegun, IsSettled, OnLanes
<1>3. ASSUME NEW j \in Keys
      PROVE  /\ q \in ToBegin(j)' => Open(q)'
             /\ q \in HasBegun(j)' => Begun(q)'
             /\ q \in IsSettled(j)' => Settled(q)'
  BY <1>2 DEF Rows, RowsFollow
<1>4. NotDropped(q)'
  <2>1. PICK j \in Keys : j = KeyOf(q) /\ j = KeyOf(q)'
    <3>1. requests[q] \in [key : Keys, sort : Sorts, traced : BOOLEAN]
      BY ElementOfSeq DEF Arrived, Flow, LaneTypes
    <3>. QED BY <3>1 DEF KeyOf
  <2>2. q \in OnLanes(KeyOf(q)) => q \in OnLanes(KeyOf(q))'
    <3>1. OnLanes(KeyOf(q))' = OnLanes(j)'
      BY <2>1
    <3>. QED BY <1>2, <2>1, <3>1
  <2>3. NotDropped(q) /\ Background(q)' = Background(q)
    BY DEF Rows, Background
  <2>. QED BY <2>2, <2>3 DEF NotDropped, Kept
<1>. QED BY <1>2, <1>3, <1>4, RowsStep

-----------------------------------------------------------------------------
(* What the steps write. *)

\* A row is written as its transitions go.
LEMMA RowWrites ==
    ASSUME Flow, Rows, NEW q \in Arrived, NEW s,
           status' = [status EXCEPT ![q] = s],
           IsTerminal(status[q]) => s = status[q], status[q] # "none" => s # "none",
           UNCHANGED <<requests, cancelled>>, lost \subseteq lost',
           \A r \in Ids : r # q => reply'[r] = reply[r]
    PROVE  WritesOnly(q) /\ status'[q] = s
<1>1. status \in [Ids -> RequestStatus \union {"none"}] /\ q \in Ids
  BY ArrivedIds DEF Flow, LaneTypes
<1>2. status'[q] = s /\ \A r \in Ids : r # q => status'[r] = status[r]
  BY <1>1
<1>3. q \in cancelled => status[q] = "failed"
  BY DEF Rows, RowsBegin
<1>4. q \in cancelled' => status'[q] = "failed"
  BY <1>2, <1>3 DEF IsTerminal
<1>. QED BY <1>2, <1>4 DEF WritesOnly

\* A step that leaves all rows alone.
LEMMA NoWrites ==
    ASSUME Flow, Rows, NEW q \in Arrived, UNCHANGED <<requests, status, cancelled>>,
           lost \subseteq lost', \A r \in Ids : r # q => reply'[r] = reply[r]
    PROVE  /\ WritesOnly(q)
           /\ Open(q) => Open(q)'
           /\ Begun(q) => Begun(q)'
           /\ Settled(q) => Settled(q)'
<1>1. q \in cancelled => status[q] = "failed"
  BY DEF Rows, RowsBegin
<1>2. WritesOnly(q)
  BY <1>1 DEF WritesOnly
<1>. QED BY <1>2 DEF Open, Begun, Settled, Traced

\* After a settling write nobody has to write the row any more.
LEMMA SettleWrites ==
    ASSUME Flow, Rows, NEW q \in Arrived, NEW to \in {"completed", "failed"}, NEW ok \in BOOLEAN,
           Settle(q, to, ok), UNCHANGED <<requests, cancelled>>,
           \A r \in Ids : r # q => reply'[r] = reply[r]
    PROVE  /\ WritesOnly(q) /\ Settled(q)'
           /\ Open(q) => Open(q)'
           /\ Begun(q) => Begun(q)'
<1>1. CASE ~Traced(q)
  <2>1. UNCHANGED <<status, lost>>
    BY <1>1 DEF Settle, rowVars
  <2>2. Settled(q)
    BY <1>1 DEF Settled
  <2>. QED BY <2>1, <2>2, NoWrites
<1>2. CASE Traced(q) /\ ~ok
  <2>1. UNCHANGED status /\ lost' = lost \union {q}
    BY <1>2 DEF Settle
  <2>2. Settled(q)'
    BY <2>1 DEF Settled
  <2>. QED BY <2>1, <2>2, NoWrites
<1>3. CASE Traced(q) /\ ok
  <2>1. PICK s : s = IF CanTransition(status[q], to) THEN to ELSE status[q]
    OBVIOUS
  <2>2. q \in Ids /\ status[q] \in RequestStatus
    <3>1. q \in Ids /\ status[q] \in RequestStatus \union {"none"}
      BY ArrivedIds DEF Flow, LaneTypes
    <3>2. status[q] # "none"
      BY <1>3 DEF Rows, RowsBegin
    <3>. QED BY <3>1, <3>2
  <2>3. /\ IsTerminal(s) /\ (IsTerminal(status[q]) => s = status[q]) /\ s # "none"
        /\ s \in {"completed", "failed"}
    BY <2>1, <2>2 DEF IsTerminal, CanTransition, RequestStatus
  <2>4. status' = [status EXCEPT ![q] = s] /\ UNCHANGED lost
    BY <1>3, <2>1 DEF Settle, Update
  <2>5. WritesOnly(q) /\ status'[q] = s
    BY <2>3, <2>4, RowWrites
  <2>6. Settled(q)' /\ Open(q)'
    BY <2>3, <2>5 DEF Settled, Open
  <2>7. Begun(q) => Begun(q)'
    BY <2>3, <2>5 DEF Begun, Traced
  <2>. QED BY <2>5, <2>6, <2>7
<1>. QED BY <1>1, <1>2, <1>3

-----------------------------------------------------------------------------
(* The main loop keeps the rows. *)

LEMMA RowsInit == Init => Rows
<1> SUFFICES ASSUME Init PROVE Rows
  OBVIOUS
<1>1. Flow /\ Len(requests) = 0 /\ Arrived = {}
  BY FlowInit, EmptySeq DEF Init, Arrived
<1>2. RowsBegin
  BY <1>1 DEF RowsBegin, Init
<1>3. ASSUME NEW k \in Keys PROVE RowsFollow(k)
  <2>1. ToBegin(k) \union HasBegun(k) \union IsSettled(k) = {}
    BY <1>1, PlacesOfKey
  <2>. QED BY <2>1 DEF RowsFollow
<1>. QED BY <1>1, <1>2, <1>3 DEF Rows

\* A request begins with its row.
LEMMA ArriveRows ==
    ASSUME Flow, Rows, NEW k \in Keys, NEW sort \in Sorts, NEW row \in {"traced", "orphan", "missing"},
           Arrive(k, sort, row)
    PROVE  RowsKept
<1>1. PICK n : n = Len(requests) + 1
  OBVIOUS
<1>2. PICK q : q = [key |-> k, sort |-> sort, traced |-> row = "traced"]
  OBVIOUS
<1>3. /\ requests' = Append(requests, q) /\ main' = [at |-> "offering", req |-> n]
      /\ n \in Ids /\ main.at = "select"
      /\ status' = [status EXCEPT ![n] = IF row = "missing" THEN "none" ELSE "accepted"]
      /\ UNCHANGED <<ingress, ing, execution, ex, handed, reply, cancelled, lost>>
  BY <1>1, <1>2 DEF Arrive, GoMain, At, ingVars, execVars, turnVars, userVars
<1>4. q \in [key : Keys, sort : Sorts, traced : BOOLEAN] /\ LaneTypes
  BY <1>2 DEF Flow
<1>5. /\ Len(requests) \in Nat /\ Arrived' = Arrived \union {n} /\ requests'[n] = q
      /\ \A r \in Arrived : r # n /\ requests'[r] = requests[r]
      /\ Arrived \subseteq Ids
  BY <1>1, <1>3, <1>4, RequestsGrow, ArrivedIds DEF Arrived
<1>6. /\ status[n] = "none" /\ reply[n] = "none"
      /\ \A r \in Ids : r # n => status'[r] = status[r]
      /\ status'[n] = IF row = "missing" THEN "none" ELSE "accepted"
  <2>1. status \in [Ids -> RequestStatus \union {"none"}] /\ n \notin Arrived
    BY <1>4, <1>5 DEF LaneTypes
  <2>. QED BY <1>3, <2>1 DEF Rows, RowsBegin
<1>7. n \notin cancelled
  BY <1>6 DEF Rows, RowsBegin
<1>8. Traced(n)' <=> row = "traced"
  <2>1. q.traced = (row = "traced")
    BY <1>2
  <2>2. Traced(n)' = q.traced
    BY <1>5 DEF Traced
  <2>. QED BY <2>1, <2>2, Zenon
<1>9. ASSUME NEW r \in Arrived
      PROVE  /\ KeyOf(r)' = KeyOf(r) /\ Background(r)' = Background(r) /\ Traced(r)' = Traced(r)
             /\ Open(r)' = Open(r) /\ Begun(r)' = Begun(r) /\ Settled(r)' = Settled(r)
  <2>1. /\ KeyOf(r)' = KeyOf(r) /\ Background(r)' = Background(r) /\ Traced(r)' = Traced(r)
        /\ status'[r] = status[r]
    BY <1>5, <1>6 DEF KeyOf, Background, Traced
  <2>. QED BY <1>3, <2>1 DEF Open, Begun, Settled
<1>10. RowsBegin'
  <2>1. \A r \in Ids \ Arrived' : status'[r] = "none" /\ reply'[r] = "none"
    BY <1>3, <1>5, <1>6 DEF Rows, RowsBegin
  <2>2. ASSUME NEW r \in Arrived', Traced(r)' PROVE status'[r] # "none"
    <3>1. CASE r = n
      BY <1>6, <1>8, <2>2, <3>1
    <3>2. CASE r # n
      BY <1>5, <1>6, <1>9, <2>2, <3>2 DEF Rows, RowsBegin
    <3>. QED BY <3>1, <3>2
  <2>3. \A r \in cancelled' : r \in Ids /\ status'[r] = "failed"
    BY <1>3, <1>6, <1>7 DEF Rows, RowsBegin
  <2>. QED BY <2>1, <2>2, <2>3 DEF RowsBegin
<1>11. ASSUME NEW j \in Keys
       PROVE  /\ ToBegin(j)' \subseteq ToBegin(j) \union {n} /\ HasBegun(j)' = HasBegun(j)
              /\ IsSettled(j)' = IsSettled(j) /\ OnLanes(j) \subseteq OnLanes(j)'
              /\ Offered(j)' = {r \in {n} : KeyOf(r)' = j}
  <2>1. /\ Offered(j) = {} /\ Offered(j)' = {r \in {n} : KeyOf(r)' = j}
        /\ Arriving(j)' = Arriving(j) /\ Waiting(j)' = Waiting(j)
        /\ Running(j)' = Running(j) /\ Dispatching(j)' = Dispatching(j) /\ Handed(j)' = Handed(j)
        /\ IngHas(j, OpenPlaces)' = IngHas(j, OpenPlaces)
        /\ IngHas(j, ClaimedPlaces)' = IngHas(j, ClaimedPlaces)
        /\ IngHas(j, {"warning"})' = IngHas(j, {"warning"})
        /\ ExHas(j, QueuedPlaces)' = ExHas(j, QueuedPlaces)
        /\ ExHas(j, TurnPlaces)' = ExHas(j, TurnPlaces)
    BY <1>3, <1>5 DEF Offered, Arriving, Waiting, Running, Dispatching, Handed, IngHas, ExHas,
                      OpenPlaces, ClaimedPlaces, QueuedPlaces, TurnPlaces
  <2>2. PlainOf(j)' = PlainOf(j)
    <3>1. Running(j) \subseteq Arrived
      BY PlacesOfKey DEF OnLanes
    <3>. QED BY <1>3, <1>9, <2>1, <3>1 DEF PlainOf
  <2>. QED BY <2>1, <2>2 DEF ToBegin, HasBegun, IsSettled, OnLanes
<1>12. ASSUME NEW j \in Keys PROVE RowsFollow(j)'
  <2>1. RowsFollow(j) /\ ToBegin(j) \union HasBegun(j) \union IsSettled(j) \subseteq Arrived
    BY PlacesOfKey DEF Rows
  <2>2. Open(n)'
    BY <1>6, <1>8 DEF Open
  <2>3. \A r \in ToBegin(j)' : Open(r)'
    BY <1>9, <1>11, <2>1, <2>2 DEF RowsFollow
  <2>4. \A r \in HasBegun(j)' : Begun(r)'
    BY <1>9, <1>11, <2>1 DEF RowsFollow
  <2>5. \A r \in IsSettled(j)' : Settled(r)'
    BY <1>9, <1>11, <2>1 DEF RowsFollow
  <2>. QED BY <2>3, <2>4, <2>5 DEF RowsFollow
<1>13. ASSUME NEW r \in Arrived PROVE NotDropped(r)'
  <2>1. PICK j \in Keys : j = KeyOf(r) /\ j = KeyOf(r)'
    <3>1. requests[r] \in [key : Keys, sort : Sorts, traced : BOOLEAN]
      BY <1>4, ElementOfSeq DEF Arrived, LaneTypes
    <3>. QED BY <1>9, <3>1 DEF KeyOf
  <2>2. r \in OnLanes(KeyOf(r)) => r \in OnLanes(KeyOf(r))'
    <3>1. OnLanes(KeyOf(r))' = OnLanes(j)'
      BY <2>1
    <3>. QED BY <1>11, <2>1, <3>1
  <2>3. NotDropped(r) /\ reply'[r] = reply[r]
    BY <1>3 DEF Rows
  <2>. QED BY <1>9, <2>2, <2>3 DEF NotDropped, Kept
<1>14. NotDropped(n)'
  <2>1. KeyOf(n)' = k
    BY <1>2, <1>5 DEF KeyOf
  <2>2. OnLanes(KeyOf(n))' = OnLanes(k)'
    BY <2>1
  <2>3. n \in OnLanes(k)'
    BY <1>11, <2>1 DEF OnLanes
  <2>. QED BY <1>3, <1>6, <2>2, <2>3 DEF NotDropped, Kept
<1>15. \A r \in Ids : IsTerminal(status[r]) => status'[r] = status[r]
  BY <1>6 DEF IsTerminal
<1>. QED BY <1>5, <1>10, <1>12, <1>13, <1>14, <1>15 DEF RowsKept, Rows

\* The main loop and the user keep the rows.
LEMMA PutIngressRows == ASSUME Flow, Rows, PutIngress PROVE RowsKept
<1>1. PICK q \in Arrived, k \in Keys : q = main.req /\ k = KeyOf(q)
  <2>1. requests \in Seq([key : Keys, sort : Sorts, traced : BOOLEAN])
    BY DEF Flow, LaneTypes
  <2>2. main.req \in 1 .. Len(requests)
    BY DEF Flow, MainKnows, Arrived, PutIngress, At
  <2>3. requests[main.req] \in [key : Keys, sort : Sorts, traced : BOOLEAN]
    BY <2>1, <2>2, ElementOfSeq
  <2>. QED BY <2>2, <2>3 DEF Arrived, KeyOf
<1>2. /\ main.at = "offering" /\ main' = [at |-> "select", req |-> 0]
      /\ ingress' = [ingress EXCEPT ![k] = Append(@, q)]
      /\ UNCHANGED <<requests, status, lost, cancelled, ing, execution, ex, handed, reply>>
  BY <1>1 DEF PutIngress, GoMain, At, rowVars, execVars, turnVars, userVars
<1>3. ingress \in [Keys -> Seq(Nat)] /\ ingress[k] \in Seq(Nat) /\ q \in Nat
  BY DEF Flow, LaneTypes, Arrived
<1>4. ASSUME NEW j \in Keys
      PROVE  Offered(j)' = {} /\ Arriving(j)' = Arriving(j) \union Offered(j)
  <2>1. Offered(j)' = {} /\ Offered(j) = IF j = k THEN {q} ELSE {}
    BY <1>1, <1>2 DEF Offered
  <2>2. CASE j = k
    <3>1. Elems(ingress'[k]) = Elems(ingress[k]) \union {q}
      BY <1>2, <1>3, ElemsAppend
    <3>2. Arriving(k)' = Elems(ingress'[k])
      BY DEF Arriving, Elems
    <3>. QED BY <2>1, <2>2, <3>1, <3>2 DEF Arriving
  <2>3. CASE j # k
    <3>1. ingress'[j] = ingress[j]
      BY <1>2, <1>3, <2>3
    <3>. QED BY <2>1, <2>3, <3>1 DEF Arriving, Elems
  <2>. QED BY <2>2, <2>3
<1>5. ASSUME NEW j \in Keys
      PROVE  /\ ToBegin(j)' = ToBegin(j) /\ HasBegun(j)' = HasBegun(j)
             /\ IsSettled(j)' = IsSettled(j) /\ OnLanes(j)' = OnLanes(j)
  <2>1. /\ Waiting(j)' = Waiting(j) /\ Running(j)' = Running(j) /\ Dispatching(j)' = Dispatching(j)
        /\ Handed(j)' = Handed(j) /\ PlainOf(j)' = PlainOf(j)
        /\ IngHas(j, OpenPlaces)' = IngHas(j, OpenPlaces)
        /\ IngHas(j, ClaimedPlaces)' = IngHas(j, ClaimedPlaces)
        /\ IngHas(j, {"warning"})' = IngHas(j, {"warning"})
        /\ ExHas(j, QueuedPlaces)' = ExHas(j, QueuedPlaces)
        /\ ExHas(j, TurnPlaces)' = ExHas(j, TurnPlaces)
    BY <1>2 DEF Waiting, Running, Dispatching, Handed, PlainOf, IngHas, ExHas, Background,
                OpenPlaces, ClaimedPlaces, QueuedPlaces, TurnPlaces
  <2>. QED BY <1>4, <2>1 DEF ToBegin, HasBegun, IsSettled, OnLanes
<1>. QED BY <1>2, <1>5, RowsMove

LEMMA MainRowsNext == ASSUME Flow, Rows, MainStep PROVE RowsKept
<1>1. LaneTypes /\ MainKnows /\ (main.at # "select" => main.req \in Arrived)
  BY DEF Flow, MainKnows
<1> USE DEF At, GoMain, rowVars, ingVars, laneVars, execVars, turnVars, userVars
<1>2. CASE PutIngress
  BY <1>2, PutIngressRows
<1>3. CASE EscToken
  <2>1. /\ main.at = "interrupting" /\ main' = [at |-> "select", req |-> 0] /\ main.req \in Arrived
        /\ UNCHANGED <<requests, status, lost, cancelled, reply, ingress, ing, execution, ex, handed>>
    BY <1>1, <1>3 DEF EscToken
  <2>. QED BY <2>1, NoWrites, MainRows
<1>4. ASSUME NEW all \in BOOLEAN, NEW ok \in BOOLEAN, EscFail(all, ok) PROVE RowsKept
  <2>1. PICK q \in Arrived : q = main.req
    BY <1>1, <1>4 DEF EscFail
  <2> PICK s : s = IF ok /\ ~IsTerminal(status[q]) THEN "failed" ELSE status[q]
    OBVIOUS
  <2>2. /\ main.at = "escaping" /\ main'.at # "offering" /\ status' = [status EXCEPT ![q] = s]
        /\ UNCHANGED <<requests, lost, cancelled, reply, ingress, ing, execution, ex, handed>>
    BY <1>4, <2>1 DEF EscFail
  <2>3. WritesOnly(q) /\ status'[q] = s
    <3>1. (IsTerminal(status[q]) => s = status[q]) /\ (status[q] # "none" => s # "none")
      BY <2>1
    <3>. QED BY <2>2, <3>1, RowWrites
  <2>4. (Open(q) => Open(q)') /\ (Settled(q) => Settled(q)')
    BY <2>1, <2>2, <2>3 DEF Open, Settled, Traced, IsTerminal
  <2>5. Begun(q) => Begun(q)'
    BY <2>1, <2>2, <2>3 DEF Begun, Traced
  <2>. QED BY <2>2, <2>3, <2>4, <2>5, MainRows
<1>5. ASSUME NEW all \in BOOLEAN, NEW outcome \in {"cancelled", "unwritten", "unappended"},
             CancelCommit(all, outcome)
      PROVE RowsKept
  <2>1. PICK q \in Arrived : q = main.req
    BY <1>1, <1>5 DEF CancelCommit
  <2>2. PICK s : s = IF outcome # "unwritten" /\ status[q] = "accepted" THEN "failed" ELSE status[q]
    OBVIOUS
  <2>3. /\ main.at = "cancelling" /\ main'.at # "offering" /\ status' = [status EXCEPT ![q] = s]
        /\ \/ cancelled' = cancelled
           \/ cancelled' = cancelled \union {q} /\ status[q] = "accepted" /\ s = "failed"
        /\ UNCHANGED <<requests, lost, reply, ingress, ing, execution, ex, handed>>
    BY <1>5, <2>1, <2>2 DEF CancelCommit
  <2>4. status'[q] = s /\ \A r \in Ids : r # q => status'[r] = status[r]
    <3>1. status \in [Ids -> RequestStatus \union {"none"}] /\ q \in Ids
      BY <1>1, ArrivedIds DEF LaneTypes
    <3>. QED BY <2>3, <3>1
  <2>5. q \in cancelled => status[q] = "failed"
    BY DEF Rows, RowsBegin
  <2>6. WritesOnly(q)
    <3>1. IsTerminal(status[q]) => status'[q] = status[q]
      BY <2>2, <2>4 DEF IsTerminal
    <3>2. status[q] # "none" => status'[q] # "none"
      BY <2>2, <2>4
    <3>3. q \in cancelled' => status'[q] = "failed"
      BY <2>2, <2>3, <2>4, <2>5
    <3>. QED BY <2>3, <2>4, <3>1, <3>2, <3>3 DEF WritesOnly
  <2>7. (Open(q) => Open(q)') /\ (Settled(q) => Settled(q)')
    BY <2>2, <2>3, <2>4 DEF Open, Settled, Traced, IsTerminal
  <2>8. Begun(q) => Begun(q)'
    BY <2>2, <2>3, <2>4 DEF Begun, Traced
  <2>. QED BY <2>3, <2>6, <2>7, <2>8, MainRows
<1>6. ASSUME NEW r \in Arrived, NEW sentOk \in BOOLEAN, NEW ok \in BOOLEAN, Deliver(r, sentOk, ok)
      PROVE RowsKept
  <2>1. /\ main.at = "select" /\ main' = main
        /\ reply' = [reply EXCEPT ![r] = IF sentOk THEN "sent" ELSE "unsent"]
        /\ reply[r] \in {"outbox", "plain"}
        /\ UNCHANGED <<requests, cancelled, ingress, ing, execution, ex, handed>>
    BY <1>6 DEF Deliver
  <2>2. /\ reply'[r] = (IF sentOk THEN "sent" ELSE "unsent")
        /\ \A q \in Ids : q # r => reply'[q] = reply[q]
    <3>1. reply \in [Ids -> Replies] /\ r \in Ids
      BY <1>1, ArrivedIds DEF LaneTypes
    <3>. QED BY <2>1, <3>1
  <2>3. CASE sentOk /\ reply[r] = "outbox"
    <3>1. Settle(r, "completed", ok)
      BY <1>6, <2>3 DEF Deliver
    <3>2. /\ WritesOnly(r) /\ Settled(r)'
          /\ Open(r) => Open(r)'
          /\ Begun(r) => Begun(r)'
      BY <2>1, <2>2, <3>1, SettleWrites
    <3>. QED BY <2>1, <2>2, <3>2, MainRows
  <2>4. CASE ~(sentOk /\ reply[r] = "outbox")
    <3>1. UNCHANGED <<status, lost>>
      BY <1>6, <2>4 DEF Deliver
    <3>2. /\ WritesOnly(r)
          /\ Open(r) => Open(r)'
          /\ Begun(r) => Begun(r)'
          /\ Settled(r) => Settled(r)'
      BY <2>1, <2>2, <3>1, NoWrites
    <3>3. sentOk /\ ~Background(r) => Settled(r)
      BY <2>1, <2>4 DEF Rows, NotDropped
    <3>. QED BY <2>1, <2>2, <3>2, <3>3, MainRows
  <2>. QED BY <2>3, <2>4
<1>. QED BY <1>2, <1>3, <1>4, <1>5, <1>6 DEF MainStep

LEMMA UserRowsNext == ASSUME Flow, Rows, UserStep PROVE RowsKept
<1>1. ASSUME NEW k \in Keys, NEW sort \in Sorts, NEW row \in {"traced", "orphan", "missing"},
             Arrive(k, sort, row)
      PROVE RowsKept
  BY <1>1, ArriveRows
<1>2. ASSUME NEW r \in Arrived, CancelList(r) \/ EscList(r) PROVE RowsKept
  <2>1. /\ main.at = "select" /\ main'.at # "offering"
        /\ UNCHANGED <<requests, status, lost, cancelled, reply, ingress, ing, execution, ex, handed>>
    BY <1>2 DEF CancelList, EscList, At, GoMain, rowVars, ingVars, laneVars, execVars, turnVars, userVars
  <2>. QED BY <2>1, NoWrites, MainRows
<1>. QED BY <1>1, <1>2 DEF UserStep

-----------------------------------------------------------------------------
(* The workers keep the rows. *)

\* A settled row stays settled, whatever a step writes.
LEMMA SettledStays ==
    ASSUME NEW q, WritesOnly(q), UNCHANGED requests, Settled(q)
    PROVE  Settled(q)'
BY DEF WritesOnly, Settled, Traced

\* What the ingress worker may rely on for the request it holds.
LEMMA IngressKnows ==
    ASSUME Flow, Rows, NEW k \in Keys, ing[k].at # "idle", NEW q, q = ing[k].req
    PROVE  /\ q \in Arrived
           /\ ing[k].at \in OpenPlaces => Open(q)
           /\ ing[k].at \in ClaimedPlaces => Begun(q)
           /\ ing[k].at = "warning" => Settled(q)
           /\ q \in Handed(k) => Begun(q)
           /\ ing[k].at \in DispatchPlaces => q \notin Handed(k)
           /\ Background(q) \/ reply[q] # "plain" \/ Settled(q)
           /\ q \in cancelled => status[q] = "failed"
<1>1. q \in Arrived
  <2>1. q \in Dispatching(k)
    BY DEF Dispatching
  <2>. QED BY <2>1, PlacesOfKey DEF OnLanes
<1>2. RowsFollow(k) /\ NotDropped(q) /\ (q \in cancelled => status[q] = "failed")
  BY <1>1 DEF Rows, RowsBegin
<1>3. /\ ing[k].at \in OpenPlaces => q \in ToBegin(k)
      /\ ing[k].at \in ClaimedPlaces => q \in HasBegun(k)
      /\ ing[k].at = "warning" => q \in IsSettled(k)
      /\ Handed(k) \subseteq HasBegun(k)
  BY DEF ToBegin, HasBegun, IsSettled, IngHas
<1>4. ing[k].at \in DispatchPlaces => q \notin Handed(k)
  <2>1. HandedFirst(k) /\ q \in Nat
    BY <1>1 DEF Flow, FlowOf, Arrived
  <2>2. ing[k].at \in DispatchPlaces => q \in ToDispatch(k)
    BY DEF ToDispatch
  <2>. QED BY <2>1, <2>2 DEF HandedFirst, Before
<1>. QED BY <1>1, <1>2, <1>3, <1>4 DEF RowsFollow, NotDropped

\* The steps of the ingress worker: it takes, it queues, and the rest.
LEMMA TakeIngressRows == ASSUME Flow, Rows, NEW k \in Keys, TakeIngress(k) PROVE RowsKept
<1>1. PICK q, t : q = Head(ingress[k]) /\ t = Tail(ingress[k])
  OBVIOUS
<1>2. /\ ing \in [Keys -> IngTypes] /\ ingress \in [Keys -> Seq(Nat)] /\ ingress[k] \in Seq(Nat)
  BY DEF Flow, LaneTypes
<1>3. /\ ing[k].at = "idle" /\ ingress[k] # << >>
      /\ ing'[k] = [at |-> "check", req |-> q, tries |-> 0] /\ ingress'[k] = t
      /\ \A j \in Keys : j # k => ing'[j] = ing[j] /\ ingress'[j] = ingress[j]
      /\ UNCHANGED <<main, requests, status, lost, cancelled, execution, ex, handed, reply>>
  BY <1>1, <1>2 DEF TakeIngress, IngAt, rowVars, execVars, turnVars, userVars
<1>4. Arriving(k) = {q} \union Elems(t)
  BY <1>1, <1>2, <1>3, ElemsTail DEF Arriving
<1>5. /\ Arriving(k)' = Elems(t) /\ Dispatching(k) = {} /\ Dispatching(k)' = {q}
      /\ IngHas(k, OpenPlaces) = {} /\ IngHas(k, OpenPlaces)' = {q}
      /\ IngHas(k, ClaimedPlaces)' = {} /\ IngHas(k, {"warning"})' = {}
  BY <1>3 DEF Arriving, Elems, Dispatching, IngHas, OpenPlaces, ClaimedPlaces
<1>6. ASSUME NEW j \in Keys
      PROVE  /\ ToBegin(j)' \subseteq ToBegin(j) /\ HasBegun(j)' \subseteq HasBegun(j)
             /\ IsSettled(j)' \subseteq IsSettled(j) /\ OnLanes(j) \subseteq OnLanes(j)'
  <2>1. /\ Offered(j)' = Offered(j) /\ Waiting(j)' = Waiting(j) /\ Running(j)' = Running(j)
        /\ Handed(j)' = Handed(j) /\ PlainOf(j)' = PlainOf(j)
        /\ ExHas(j, QueuedPlaces)' = ExHas(j, QueuedPlaces)
        /\ ExHas(j, TurnPlaces)' = ExHas(j, TurnPlaces)
    BY <1>3 DEF Offered, Waiting, Running, Handed, PlainOf, ExHas, Arrived, KeyOf, Background,
                QueuedPlaces, TurnPlaces
  <2>2. CASE j = k
    BY <1>4, <1>5, <2>1, <2>2 DEF ToBegin, HasBegun, IsSettled, OnLanes
  <2>3. CASE j # k
    <3>1. /\ Arriving(j)' = Arriving(j) /\ Dispatching(j)' = Dispatching(j)
          /\ IngHas(j, OpenPlaces)' = IngHas(j, OpenPlaces)
          /\ IngHas(j, ClaimedPlaces)' = IngHas(j, ClaimedPlaces)
          /\ IngHas(j, {"warning"})' = IngHas(j, {"warning"})
      BY <1>3, <2>3 DEF Arriving, Elems, Dispatching, IngHas, OpenPlaces, ClaimedPlaces
    <3>. QED BY <2>1, <3>1 DEF ToBegin, HasBegun, IsSettled, OnLanes
  <2>. QED BY <2>2, <2>3
<1>. QED BY <1>3, <1>6, RowsMove

LEMMA PutExecutionRows == ASSUME Flow, Rows, NEW k \in Keys, PutExecution(k) PROVE RowsKept
<1>1. PICK q : q = ing[k].req
  OBVIOUS
<1>2. /\ ing \in [Keys -> IngTypes] /\ execution \in [Keys -> Seq(Nat)] /\ execution[k] \in Seq(Nat)
      /\ LaneTypes /\ q \in Nat
  BY <1>1 DEF Flow, LaneTypes, IngTypes
<1>3. /\ ing[k].at = "put" /\ GoIng(k, "idle") /\ execution'[k] = Append(execution[k], q)
      /\ \A j \in Keys : j # k => execution'[j] = execution[j]
      /\ UNCHANGED <<main, requests, status, lost, cancelled, ingress, ex, handed, reply>>
  BY <1>1, <1>2 DEF PutExecution, IngAt, rowVars, turnVars, userVars
<1>4. ing'[k].at = "idle" /\ \A j \in Keys : j # k => ing'[j] = ing[j]
  <2>1. "idle" \in IngPlaces
    BY DEF IngPlaces
  <2>. QED BY <1>2, <1>3, <2>1, IngGoes
<1>5. Waiting(k)' = Waiting(k) \union {q}
  <2>1. Elems(execution'[k]) = Elems(execution[k]) \union {q}
    BY <1>2, <1>3, ElemsAppend
  <2>2. Waiting(k)' = Elems(execution'[k])
    BY DEF Waiting, Elems
  <2>. QED BY <2>1, <2>2 DEF Waiting
<1>6. /\ Dispatching(k) = {q} /\ Dispatching(k)' = {}
      /\ IngHas(k, OpenPlaces) = {q} /\ IngHas(k, OpenPlaces)' = {}
      /\ IngHas(k, ClaimedPlaces)' = {} /\ IngHas(k, {"warning"})' = {}
  BY <1>1, <1>3, <1>4 DEF Dispatching, IngHas, OpenPlaces, ClaimedPlaces
<1>7. ASSUME NEW j \in Keys
      PROVE  /\ ToBegin(j)' \subseteq ToBegin(j) /\ HasBegun(j)' \subseteq HasBegun(j)
             /\ IsSettled(j)' \subseteq IsSettled(j) /\ OnLanes(j) \subseteq OnLanes(j)'
  <2>1. /\ Offered(j)' = Offered(j) /\ Arriving(j)' = Arriving(j) /\ Running(j)' = Running(j)
        /\ Handed(j)' = Handed(j) /\ PlainOf(j)' = PlainOf(j)
        /\ ExHas(j, QueuedPlaces)' = ExHas(j, QueuedPlaces)
        /\ ExHas(j, TurnPlaces)' = ExHas(j, TurnPlaces)
    BY <1>3 DEF Offered, Arriving, Running, Handed, PlainOf, ExHas, Arrived, KeyOf, Background,
                QueuedPlaces, TurnPlaces
  <2>2. CASE j = k
    BY <1>5, <1>6, <2>1, <2>2 DEF ToBegin, HasBegun, IsSettled, OnLanes
  <2>3. CASE j # k
    <3>1. /\ Waiting(j)' = Waiting(j) /\ Dispatching(j)' = Dispatching(j)
          /\ IngHas(j, OpenPlaces)' = IngHas(j, OpenPlaces)
          /\ IngHas(j, ClaimedPlaces)' = IngHas(j, ClaimedPlaces)
          /\ IngHas(j, {"warning"})' = IngHas(j, {"warning"})
      BY <1>3, <1>4, <2>3 DEF Waiting, Elems, Dispatching, IngHas, OpenPlaces, ClaimedPlaces
    <3>. QED BY <2>1, <3>1 DEF ToBegin, HasBegun, IsSettled, OnLanes
  <2>. QED BY <2>2, <2>3
<1>. QED BY <1>3, <1>7, RowsMove

LEMMA IngressRowsNext == ASSUME Flow, Rows, NEW k \in Keys, IngressStep(k) PROVE RowsKept
<1>1. PICK q : q = ing[k].req
  OBVIOUS
<1>2. CASE TakeIngress(k)
  BY <1>2, TakeIngressRows
<1>3. CASE PutExecution(k)
  BY <1>3, PutExecutionRows
<1>4. ASSUME ing[k].at # "idle"
      PROVE  /\ q \in Arrived /\ q \in Ids /\ LaneTypes /\ status[q] \in RequestStatus \union {"none"}
             /\ ing[k].at \in OpenPlaces => Open(q)
             /\ ing[k].at \in ClaimedPlaces => Begun(q)
             /\ ing[k].at = "warning" => Settled(q)
             /\ q \in Handed(k) => Begun(q)
             /\ ing[k].at \in DispatchPlaces => q \notin Handed(k)
             /\ Background(q) \/ reply[q] # "plain" \/ Settled(q)
             /\ q \in cancelled => status[q] = "failed"
  <2>1. LaneTypes /\ status \in [Ids -> RequestStatus \union {"none"}]
    BY DEF Flow, LaneTypes
  <2>. QED BY <1>1, <1>4, <2>1, IngressKnows, ArrivedIds
<1>5. ASSUME NEW place \in IngPlaces, GoIng(k, place), ing[k].at # "idle",
             UNCHANGED <<main, requests, ingress, execution, ex, handed>>,
             WritesOnly(q),
             place \in OpenPlaces => Open(q)', place \in ClaimedPlaces => Begun(q)',
             place = "warning" => Settled(q)', q \in Handed(k) => Begun(q)',
             Background(q) \/ place # "idle" \/ Settled(q)' \/ reply'[q] \in {"outbox", "unsent"},
             reply'[q] = reply[q] \/ reply'[q] # "plain" \/ Settled(q)'
      PROVE  RowsKept
  <2>1. /\ ing'[k].at = place /\ (place # "idle" => ing'[k].req = ing[k].req)
        /\ \A j \in Keys : j # k => ing'[j] = ing[j] /\ handed'[j] = handed[j]
    BY <1>4, <1>5, IngGoes
  <2>2. Handed(k)' = Handed(k)
    BY <1>5 DEF Handed
  <2>3. Background(q) \/ reply'[q] # "plain" \/ Settled(q)'
    BY <1>4, <1>5, SettledStays
  <2>. QED BY <1>1, <1>5, <2>1, <2>2, <2>3, IngressRows
<1>6. ASSUME NEW place \in IngPlaces, GoIng(k, place), ing[k].at # "idle",
             UNCHANGED <<main, requests, status, lost, cancelled, reply, ingress, execution, ex, handed>>,
             place \in OpenPlaces => Open(q), place \in ClaimedPlaces => Begun(q),
             place = "warning" => Settled(q), Background(q) \/ place # "idle" \/ Settled(q)
      PROVE  RowsKept
  <2>1. /\ WritesOnly(q)
        /\ Open(q) => Open(q)'
        /\ Begun(q) => Begun(q)'
        /\ Settled(q) => Settled(q)'
    BY <1>4, <1>6, NoWrites
  <2>. QED BY <1>4, <1>5, <1>6, <2>1
<1> USE DEF IngAt, rowVars, ingVars, laneVars, execVars, turnVars, userVars
<1>7. CASE Probe(k)
  <2>1. PICK place \in {"claim", "enqueue"} : GoIng(k, place)
    BY <1>7 DEF Probe
  <2>2. place \in IngPlaces /\ place \notin ClaimedPlaces /\ ing[k].at \in OpenPlaces
    BY <1>7 DEF Probe, IngPlaces, ClaimedPlaces, OpenPlaces
  <2>. QED BY <1>4, <1>6, <1>7, <2>1, <2>2 DEF Probe
<1>8. CASE CountWaiting(k)
  <2>1. "put" \in IngPlaces /\ "put" \notin ClaimedPlaces /\ ing[k].at \in OpenPlaces
    BY <1>8 DEF CountWaiting, IngPlaces, ClaimedPlaces, OpenPlaces
  <2>. QED BY <1>4, <1>6, <1>8, <2>1 DEF CountWaiting
<1>9. ASSUME NEW ok \in BOOLEAN, CheckIngress(k, ok) PROVE RowsKept
  <2>1. PICK place \in {"idle", "probe", "enqueue"} :
           GoIng(k, place) /\ (place = "idle" => Traced(q) /\ status[q] # "accepted")
    BY <1>1, <1>9 DEF CheckIngress, ShouldExecute
  <2>2. place \in IngPlaces /\ place \notin ClaimedPlaces /\ ing[k].at \in OpenPlaces
    BY <1>9 DEF CheckIngress, IngPlaces, ClaimedPlaces, OpenPlaces
  <2>3. ing[k].at # "idle" /\ Open(q)
    BY <1>4, <1>9, <2>2 DEF CheckIngress
  <2>4. place = "idle" => Settled(q)
    BY <2>1, <2>3 DEF Open, Settled, IsTerminal
  <2>. QED BY <1>6, <1>9, <2>1, <2>2, <2>3, <2>4 DEF CheckIngress
<1>10. ASSUME NEW acknowledged \in BOOLEAN, SteerClaude(k, acknowledged) PROVE RowsKept
  <2>1. "release" \in IngPlaces /\ "release" \notin OpenPlaces /\ ing[k].at \in ClaimedPlaces
    BY <1>10 DEF SteerClaude, IngPlaces, ClaimedPlaces, OpenPlaces
  <2>. QED BY <1>4, <1>6, <1>10, <2>1 DEF SteerClaude
<1>11. ASSUME NEW place \in {"idle", "warning"}, NEW to \in {"completed", "failed"}, NEW ok \in BOOLEAN,
              GoIng(k, place), ing[k].at # "idle", Settle(q, to, ok),
              UNCHANGED <<main, requests, cancelled, reply, ingress, execution, ex, handed>>
       PROVE  RowsKept
  <2>1. /\ WritesOnly(q) /\ Settled(q)'
        /\ Begun(q) => Begun(q)'
    BY <1>4, <1>11, SettleWrites
  <2>2. place \in IngPlaces /\ place \notin ClaimedPlaces /\ place \notin OpenPlaces
    BY DEF IngPlaces, ClaimedPlaces, OpenPlaces
  <2>. QED BY <1>4, <1>5, <1>11, <2>1, <2>2
<1>12. ASSUME NEW ok \in BOOLEAN, FailDispatch(k, ok) PROVE RowsKept
  BY <1>1, <1>11, <1>12 DEF FailDispatch
<1>13. ASSUME NEW ok \in BOOLEAN, CompleteSteer(k, ok) PROVE RowsKept
  BY <1>1, <1>11, <1>13 DEF CompleteSteer
<1>14. ASSUME NEW ok \in BOOLEAN, GiveUp(k, ok) PROVE RowsKept
  BY <1>1, <1>11, <1>14 DEF GiveUp
<1>15. ASSUME NEW ok \in BOOLEAN, Warn(k, ok) PROVE RowsKept
  <2>1. /\ ing[k].at = "warning" /\ GoIng(k, "idle")
        /\ reply' = [reply EXCEPT ![q] = Outbound(q, ok)]
        /\ UNCHANGED <<main, requests, status, lost, cancelled, ingress, execution, ex, handed>>
    BY <1>1, <1>15 DEF Warn, SendReply
  <2>2. \A r \in Ids : r # q => reply'[r] = reply[r]
    BY <1>4, <2>1 DEF LaneTypes
  <2>3. WritesOnly(q) /\ Settled(q)'
    BY <1>4, <2>1, <2>2, NoWrites
  <2>4. q \notin Handed(k) \/ Begun(q)'
    BY <1>4, <2>1, <2>2, NoWrites
  <2>5. "idle" \in IngPlaces /\ "idle" \notin ClaimedPlaces /\ "idle" \notin OpenPlaces
    BY DEF IngPlaces, ClaimedPlaces, OpenPlaces
  <2>. QED BY <1>5, <2>1, <2>3, <2>4, <2>5
<1>16. ASSUME NEW outcome \in {"claimed", "unread", "unappended"}, Claim(k, outcome) PROVE RowsKept
  <2>1. /\ ing[k].at = "claim" /\ ing[k].at \in OpenPlaces /\ ing[k].at \in DispatchPlaces
        /\ UNCHANGED <<main, requests, lost, cancelled, reply, ingress, execution, ex, handed>>
    BY <1>16 DEF Claim, OpenPlaces, DispatchPlaces
  <2>2. PICK place \in {"failing", "idle", "dispatch"} :
           /\ GoIng(k, place)
           /\ place = "idle" => status[q] # "accepted" /\ outcome # "unread"
           /\ place = "dispatch" => status[q] = "accepted" /\ outcome # "unread"
    BY <1>1, <1>16 DEF Claim
  <2>3. PICK s : s = IF outcome # "unread" /\ status[q] = "accepted" THEN "running" ELSE status[q]
    OBVIOUS
  <2>4. status' = [status EXCEPT ![q] = s]
    <3>1. CASE outcome = "unread"
      <4>1. status' = status /\ s = status[q] /\ status \in [Ids -> RequestStatus \union {"none"}]
        BY <1>4, <1>16, <2>1, <2>3, <3>1 DEF Claim, LaneTypes
      <4>. QED BY <4>1
    <3>2. CASE outcome # "unread"
      BY <1>1, <1>16, <2>3, <3>2 DEF Claim, Cas
    <3>. QED BY <3>1, <3>2
  <2>5. WritesOnly(q) /\ status'[q] = s
    <3>1. (IsTerminal(status[q]) => s = status[q]) /\ (status[q] # "none" => s # "none")
      BY <2>3 DEF IsTerminal
    <3>. QED BY <1>4, <2>1, <2>4, <3>1, RowWrites
  <2>6. Open(q) /\ q \notin Handed(k) /\ (q \in cancelled => status[q] = "failed")
    BY <1>4, <2>1
  <2>7. place = "idle" => Settled(q)'
    BY <2>1, <2>2, <2>3, <2>5, <2>6 DEF Open, Settled, Traced, IsTerminal
  <2>8. place = "dispatch" => Begun(q)'
    BY <2>1, <2>2, <2>3, <2>5, <2>6 DEF Begun
  <2>9. /\ place \in IngPlaces /\ place \notin OpenPlaces
        /\ place \in ClaimedPlaces => place = "dispatch"
    BY DEF IngPlaces, ClaimedPlaces, OpenPlaces
  <2>. QED BY <1>5, <2>1, <2>2, <2>5, <2>6, <2>7, <2>8, <2>9
<1>17. ASSUME NEW outcome \in {"accepted", "refused", "unknown"}, NEW applied \in BOOLEAN,
              SteerCodex(k, outcome, applied)
       PROVE  RowsKept
  <2>1. /\ ing[k].at = "dispatch" /\ ing[k].at \in ClaimedPlaces
        /\ handed' = IF applied THEN [handed EXCEPT ![k] = Append(@, q)] ELSE handed
        /\ UNCHANGED <<main, requests, status, lost, cancelled, reply, ingress, execution, ex>>
    BY <1>1, <1>17 DEF SteerCodex, ClaimedPlaces
  <2>2. PICK place \in {"completing", "release", "giveUp"} : GoIng(k, place)
    BY <1>17 DEF SteerCodex
  <2>3. place \in IngPlaces /\ place \notin OpenPlaces
    BY DEF IngPlaces, OpenPlaces
  <2>4. /\ ing'[k].at = place /\ ing'[k].req = ing[k].req
        /\ \A j \in Keys : j # k => ing'[j] = ing[j]
    BY <1>4, <2>1, <2>2, <2>3, IngGoes
  <2>5. /\ \A j \in Keys : j # k => handed'[j] = handed[j]
        /\ Handed(k)' \subseteq Handed(k) \union {q}
    <3>1. handed \in [Keys -> Seq(Nat)] /\ handed[k] \in Seq(Nat) /\ q \in Nat
      BY <1>4, <2>1 DEF LaneTypes, Ids
    <3>2. Elems(Append(handed[k], q)) = Elems(handed[k]) \union {q}
      BY <3>1, ElemsAppend
    <3>3. Handed(k)' = Elems(handed'[k])
      BY DEF Handed, Elems
    <3>4. CASE applied
      <4>1. handed' = [handed EXCEPT ![k] = Append(@, q)]
        BY <2>1, <3>4
      <4>. QED BY <3>1, <3>2, <3>3, <4>1 DEF Handed
    <3>5. CASE ~applied
      BY <2>1, <3>5 DEF Handed
    <3>. QED BY <3>4, <3>5
  <2>6. WritesOnly(q) /\ Begun(q)'
    BY <1>4, <2>1, NoWrites
  <2>7. Background(q) \/ reply'[q] # "plain" \/ Settled(q)'
    BY <1>4, <2>1, <2>6, SettledStays
  <2>. QED BY <1>1, <2>1, <2>2, <2>3, <2>4, <2>5, <2>6, <2>7, IngressRows
<1>18. ASSUME NEW ok \in BOOLEAN, ReleaseClaim(k, ok) PROVE RowsKept
  <2>1. /\ ing[k].at = "release" /\ ing[k].at \in ClaimedPlaces /\ ing[k].at \in DispatchPlaces
        /\ UNCHANGED <<main, requests, lost, cancelled, reply, ingress, execution, ex, handed>>
    BY <1>18 DEF ReleaseClaim, ClaimedPlaces, DispatchPlaces
  <2>2. Begun(q) /\ q \notin Handed(k) /\ q \in Arrived
    BY <1>4, <2>1
  <2>3. CASE ok
    <3>1. PICK place \in {"enqueue", "idle"} :
             GoIng(k, place) /\ (place = "enqueue" <=> status[q] = "running")
      BY <1>1, <1>18, <2>3 DEF ReleaseClaim
    <3>2. PICK s : s = IF status[q] = "running" THEN "accepted" ELSE status[q]
      OBVIOUS
    <3>3. status' = [status EXCEPT ![q] = s]
      BY <1>1, <1>18, <2>3, <3>2 DEF ReleaseClaim, Cas
    <3>4. WritesOnly(q) /\ status'[q] = s
      <4>1. (IsTerminal(status[q]) => s = status[q]) /\ (status[q] # "none" => s # "none")
        BY <3>2 DEF IsTerminal
      <4>. QED BY <2>1, <2>2, <3>3, <4>1, RowWrites
    <3>5. place = "enqueue" => Open(q)'
      BY <3>1, <3>2, <3>4 DEF Open
    <3>6. place = "idle" => Settled(q)'
      BY <2>1, <2>2, <3>1, <3>2, <3>4 DEF Begun, Settled, Traced, IsTerminal
    <3>7. place \in IngPlaces /\ place \notin ClaimedPlaces
      BY DEF IngPlaces, ClaimedPlaces
    <3>8. place \in OpenPlaces => place = "enqueue"
      BY DEF OpenPlaces
    <3>. QED BY <1>5, <2>1, <2>2, <3>1, <3>4, <3>5, <3>6, <3>7, <3>8
  <2>4. CASE ~ok
    <3>1. PICK place \in {"release", "giveUp"} :
             ing' = [ing EXCEPT ![k].tries = @ + 1, ![k].at = place]
      BY <1>18, <2>4 DEF ReleaseClaim
    <3>2. place \in IngPlaces /\ place \notin OpenPlaces
      BY DEF IngPlaces, OpenPlaces
    <3>3. /\ ing'[k].at = place /\ ing'[k].req = ing[k].req
          /\ \A j \in Keys : j # k => ing'[j] = ing[j] /\ handed'[j] = handed[j]
      BY <1>4, <2>1, <3>1, <3>2, IngRetries
    <3>4. WritesOnly(q) /\ Begun(q)'
      <4>1. UNCHANGED status
        BY <1>18, <2>4 DEF ReleaseClaim
      <4>. QED BY <1>4, <2>1, <2>2, <4>1, NoWrites
    <3>5. Background(q) \/ reply'[q] # "plain" \/ Settled(q)'
      BY <1>4, <2>1, <3>4, SettledStays
    <3>6. Handed(k)' = Handed(k)
      BY <2>1 DEF Handed
    <3>. QED BY <1>1, <2>1, <3>2, <3>3, <3>4, <3>5, <3>6, IngressRows
  <2>. QED BY <2>3, <2>4
<1>. QED BY <1>2, <1>3, <1>7, <1>8, <1>9, <1>10, <1>12, <1>13, <1>14, <1>15, <1>16, <1>17, <1>18
         DEF IngressStep

\* What the execution worker may rely on for the request it holds.
LEMMA ExecutionKnows ==
    ASSUME Flow, Rows, NEW k \in Keys, ex[k].at # "idle", NEW q, q = ex[k].req
    PROVE  /\ q \in Arrived
           /\ ex[k].at \in QueuedPlaces => Open(q)
           /\ ex[k].at \in TurnPlaces => Begun(q)
           /\ ex[k].response # "plain" \/ Background(q) \/ Settled(q)
           /\ q \in Handed(k) => Begun(q)
           /\ ex[k].at \in RunPlaces => q \notin Handed(k)
           /\ Background(q) \/ reply[q] # "plain" \/ Settled(q)
           /\ q \in cancelled => status[q] = "failed"
<1>1. q \in Arrived /\ q \in Running(k)
  <2>1. q \in Running(k)
    BY DEF Running
  <2>. QED BY <2>1, PlacesOfKey DEF OnLanes
<1>2. RowsFollow(k) /\ NotDropped(q) /\ (q \in cancelled => status[q] = "failed")
  BY <1>1 DEF Rows, RowsBegin
<1>3. /\ ex[k].at \in QueuedPlaces => q \in ToBegin(k)
      /\ ex[k].at \in TurnPlaces => q \in HasBegun(k)
      /\ ex[k].response # "plain" \/ Background(q) \/ q \in IsSettled(k)
      /\ Handed(k) \subseteq HasBegun(k)
  BY <1>1 DEF ToBegin, HasBegun, IsSettled, ExHas, PlainOf
<1>4. ex[k].at \in RunPlaces => q \notin Handed(k)
  <2>1. HandedFirst(k) /\ q \in Nat
    BY <1>1 DEF Flow, FlowOf, Arrived
  <2>2. ex[k].at \in RunPlaces => q \in ToRun(k)
    BY DEF ToRun
  <2>. QED BY <2>1, <2>2 DEF HandedFirst, Before
<1>. QED BY <1>1, <1>2, <1>3, <1>4 DEF RowsFollow, NotDropped

\* The steps of the execution worker.
LEMMA TakeExecutionRows == ASSUME Flow, Rows, NEW k \in Keys, TakeExecution(k) PROVE RowsKept
<1>1. PICK q, t : q = Head(execution[k]) /\ t = Tail(execution[k])
  OBVIOUS
<1>2. /\ ex \in [Keys -> ExTypes] /\ execution \in [Keys -> Seq(Nat)] /\ execution[k] \in Seq(Nat)
  BY DEF Flow, LaneTypes
<1>3. /\ ex[k].at = "idle" /\ execution[k] # << >>
      /\ ex'[k] = [at |-> "dequeued", req |-> q, response |-> "none"] /\ execution'[k] = t
      /\ \A j \in Keys : j # k => ex'[j] = ex[j] /\ execution'[j] = execution[j]
      /\ UNCHANGED <<main, requests, status, lost, cancelled, ingress, ing, handed, reply>>
  BY <1>1, <1>2 DEF TakeExecution, ExAt, rowVars, ingVars, turnVars, userVars
<1>4. Waiting(k) = {q} \union Elems(t)
  BY <1>1, <1>2, <1>3, ElemsTail DEF Waiting
<1>5. /\ Waiting(k)' = Elems(t) /\ Running(k) = {} /\ Running(k)' = {q} /\ PlainOf(k)' = {}
      /\ ExHas(k, QueuedPlaces) = {} /\ ExHas(k, QueuedPlaces)' = {q}
      /\ ExHas(k, TurnPlaces)' = {}
  BY <1>3 DEF Waiting, Elems, Running, PlainOf, ExHas, QueuedPlaces, TurnPlaces
<1>6. ASSUME NEW j \in Keys
      PROVE  /\ ToBegin(j)' \subseteq ToBegin(j) /\ HasBegun(j)' \subseteq HasBegun(j)
             /\ IsSettled(j)' \subseteq IsSettled(j) /\ OnLanes(j) \subseteq OnLanes(j)'
  <2>1. /\ Offered(j)' = Offered(j) /\ Arriving(j)' = Arriving(j) /\ Dispatching(j)' = Dispatching(j)
        /\ Handed(j)' = Handed(j)
        /\ IngHas(j, OpenPlaces)' = IngHas(j, OpenPlaces)
        /\ IngHas(j, ClaimedPlaces)' = IngHas(j, ClaimedPlaces)
        /\ IngHas(j, {"warning"})' = IngHas(j, {"warning"})
    BY <1>3 DEF Offered, Arriving, Dispatching, Handed, IngHas, Arrived, KeyOf, OpenPlaces, ClaimedPlaces
  <2>2. CASE j = k
    BY <1>4, <1>5, <2>1, <2>2 DEF ToBegin, HasBegun, IsSettled, OnLanes
  <2>3. CASE j # k
    <3>1. /\ Waiting(j)' = Waiting(j) /\ Running(j)' = Running(j) /\ PlainOf(j)' = PlainOf(j)
          /\ ExHas(j, QueuedPlaces)' = ExHas(j, QueuedPlaces)
          /\ ExHas(j, TurnPlaces)' = ExHas(j, TurnPlaces)
      BY <1>3, <2>3 DEF Waiting, Elems, Running, PlainOf, ExHas, Background, QueuedPlaces, TurnPlaces
    <3>. QED BY <2>1, <3>1 DEF ToBegin, HasBegun, IsSettled, OnLanes
  <2>. QED BY <2>2, <2>3
<1>. QED BY <1>3, <1>6, RowsMove

LEMMA ExecutionRowsNext == ASSUME Flow, Rows, NEW k \in Keys, ExecutionStep(k) PROVE RowsKept
<1>1. PICK q : q = ex[k].req
  OBVIOUS
<1>2. CASE TakeExecution(k)
  BY <1>2, TakeExecutionRows
<1>3. ASSUME ex[k].at # "idle"
      PROVE  /\ q \in Arrived /\ q \in Ids /\ LaneTypes /\ status[q] \in RequestStatus \union {"none"}
             /\ ex[k].at \in QueuedPlaces => Open(q)
             /\ ex[k].at \in TurnPlaces => Begun(q)
             /\ ex[k].response # "plain" \/ Background(q) \/ Settled(q)
             /\ q \in Handed(k) => Begun(q)
             /\ ex[k].at \in RunPlaces => q \notin Handed(k)
             /\ Background(q) \/ reply[q] # "plain" \/ Settled(q)
             /\ q \in cancelled => status[q] = "failed"
  <2>1. LaneTypes /\ status \in [Ids -> RequestStatus \union {"none"}]
    BY DEF Flow, LaneTypes
  <2>. QED BY <1>1, <1>3, <2>1, ExecutionKnows, ArrivedIds
<1>4. ASSUME NEW place \in ExPlaces, GoEx(k, place), ex[k].at # "idle",
             UNCHANGED <<main, requests, ingress, ing, execution, handed>>,
             WritesOnly(q),
             place \in QueuedPlaces => Open(q)', place \in TurnPlaces => Begun(q)',
             q \in Handed(k) => Begun(q)',
             Background(q) \/ place # "idle" \/ Settled(q)' \/ reply'[q] \in {"outbox", "unsent"},
             reply'[q] = reply[q] \/ reply'[q] # "plain" \/ Background(q) \/ Settled(q)'
      PROVE  RowsKept
  <2>1. /\ ex'[k].at = place
        /\ (place # "idle" => ex'[k].req = ex[k].req /\ ex'[k].response = ex[k].response)
        /\ \A j \in Keys : j # k => ex'[j] = ex[j] /\ handed'[j] = handed[j]
    BY <1>3, <1>4, ExGoes
  <2>2. Handed(k)' = Handed(k)
    BY <1>4 DEF Handed
  <2>3. Background(q) \/ reply'[q] # "plain" \/ Settled(q)'
    BY <1>3, <1>4, SettledStays
  <2>4. place = "idle" \/ ex'[k].response # "plain" \/ Background(q) \/ Settled(q)'
    BY <1>3, <1>4, <2>1, SettledStays
  <2>. QED BY <1>1, <1>4, <2>1, <2>2, <2>3, <2>4, ExecutionRows
<1>5. ASSUME NEW place \in ExPlaces, GoEx(k, place), ex[k].at # "idle",
             UNCHANGED <<main, requests, status, lost, cancelled, reply, ingress, ing, execution, handed>>,
             place \in QueuedPlaces => Open(q), place \in TurnPlaces => Begun(q),
             Background(q) \/ place # "idle" \/ Settled(q)
      PROVE  RowsKept
  <2>1. /\ WritesOnly(q)
        /\ Open(q) => Open(q)'
        /\ Begun(q) => Begun(q)'
        /\ Settled(q) => Settled(q)'
    BY <1>3, <1>5, NoWrites
  <2>. QED BY <1>3, <1>4, <1>5, <2>1
<1>6. ASSUME NEW response \in {"none", "outbox", "plain"}, Finish(k, response), ex[k].at # "idle",
             UNCHANGED <<main, requests, ingress, ing, execution, handed, reply>>,
             WritesOnly(q), q \in Handed(k) => Begun(q)',
             response # "plain" \/ Background(q) \/ Settled(q)'
      PROVE  RowsKept
  <2>1. /\ ex'[k].at = "finished" /\ ex'[k].req = ex[k].req /\ ex'[k].response = response
        /\ \A j \in Keys : j # k => ex'[j] = ex[j] /\ handed'[j] = handed[j]
    BY <1>3, <1>6, ExFinishes
  <2>2. Handed(k)' = Handed(k)
    BY <1>6 DEF Handed
  <2>3. Background(q) \/ reply'[q] # "plain" \/ Settled(q)'
    BY <1>3, <1>6, SettledStays
  <2>4. "finished" \in ExPlaces /\ "finished" \notin QueuedPlaces /\ "finished" \notin TurnPlaces
    BY DEF ExPlaces, QueuedPlaces, TurnPlaces
  <2>. QED BY <1>1, <1>6, <2>1, <2>2, <2>3, <2>4, ExecutionRows
<1> USE DEF ExAt, rowVars, ingVars, laneVars, execVars, turnVars, userVars
<1>7. CASE CountDequeued(k)
  <2>1. "check" \in ExPlaces /\ "check" \notin TurnPlaces /\ ex[k].at \in QueuedPlaces
    BY <1>7 DEF CountDequeued, ExPlaces, QueuedPlaces, TurnPlaces
  <2>. QED BY <1>3, <1>5, <1>7, <2>1 DEF CountDequeued
<1>8. ASSUME NEW ok \in BOOLEAN, CheckExecution(k, ok) PROVE RowsKept
  <2>1. PICK place \in {"idle", "permit"} :
           GoEx(k, place) /\ (place = "idle" => Traced(q) /\ status[q] # "accepted")
    BY <1>1, <1>8 DEF CheckExecution, ShouldExecute
  <2>2. place \in ExPlaces /\ place \notin TurnPlaces /\ ex[k].at \in QueuedPlaces
    BY <1>8 DEF CheckExecution, ExPlaces, QueuedPlaces, TurnPlaces
  <2>3. ex[k].at # "idle" /\ Open(q)
    BY <1>3, <1>8, <2>2 DEF CheckExecution
  <2>4. place = "idle" => Settled(q)
    BY <2>1, <2>3 DEF Open, Settled, IsTerminal
  <2>. QED BY <1>5, <1>8, <2>1, <2>2, <2>3, <2>4 DEF CheckExecution
<1>9. CASE Start(k)
  <2>1. "start" \in ExPlaces /\ "start" \notin TurnPlaces /\ ex[k].at \in QueuedPlaces
    BY <1>9 DEF Start, ExPlaces, QueuedPlaces, TurnPlaces
  <2>. QED BY <1>3, <1>5, <1>9, <2>1 DEF Start
<1>10. ASSUME NEW outcome \in {"started", "unwritten", "unrecorded"}, StartRun(k, outcome) PROVE RowsKept
  <2>1. /\ ex[k].at = "start" /\ ex[k].at \in QueuedPlaces /\ ex[k].at \in RunPlaces
        /\ UNCHANGED <<main, requests, lost, cancelled, reply, ingress, ing, execution, handed>>
    BY <1>10 DEF StartRun, QueuedPlaces, RunPlaces
  <2>2. Open(q) /\ q \notin Handed(k) /\ q \in Arrived /\ (q \in cancelled => status[q] = "failed")
    BY <1>3, <2>1
  <2>3. PICK s : s = IF Traced(q) /\ outcome # "unwritten" /\ CanTransition(status[q], "running")
                       THEN "running" ELSE status[q]
    OBVIOUS
  <2>4. status' = [status EXCEPT ![q] = s]
    <3>1. CASE Traced(q) /\ outcome # "unwritten"
      BY <1>1, <1>10, <2>3, <3>1 DEF StartRun, Update
    <3>2. CASE ~(Traced(q) /\ outcome # "unwritten")
      <4>1. status' = status /\ s = status[q] /\ status \in [Ids -> RequestStatus \union {"none"}]
        BY <1>1, <1>3, <1>10, <2>1, <2>3, <3>2 DEF StartRun, LaneTypes
      <4>. QED BY <4>1
    <3>. QED BY <3>1, <3>2
  <2>5. WritesOnly(q) /\ status'[q] = s
    <3>1. (IsTerminal(status[q]) => s = status[q]) /\ (status[q] # "none" => s # "none")
      BY <2>3 DEF IsTerminal, CanTransition
    <3>. QED BY <2>1, <2>2, <2>4, <3>1, RowWrites
  <2>6. CASE Finish(k, "none")
    BY <1>6, <2>1, <2>2, <2>5, <2>6
  <2>7. CASE GoEx(k, "prepare") /\ outcome = "started" /\ (Traced(q) => CanTransition(status[q], "running"))
    <3>1. Begun(q)'
      BY <2>1, <2>2, <2>3, <2>5, <2>7 DEF Begun, Open, Traced, CanTransition
    <3>2. "prepare" \in ExPlaces /\ "prepare" \notin QueuedPlaces
      BY DEF ExPlaces, QueuedPlaces
    <3>. QED BY <1>4, <2>1, <2>2, <2>5, <2>7, <3>1, <3>2
  <2>. QED BY <1>1, <1>10, <2>6, <2>7 DEF StartRun
<1>11. CASE BeginTurn(k)
  <2>1. /\ ex[k].at = "prepare" /\ ex[k].at \in TurnPlaces /\ GoEx(k, "turn")
        /\ handed' = [handed EXCEPT ![k] = Append(@, q)]
        /\ UNCHANGED <<main, requests, status, lost, cancelled, reply, ingress, ing, execution>>
    BY <1>1, <1>11 DEF BeginTurn, TurnPlaces
  <2>2. "turn" \in ExPlaces /\ "turn" \notin QueuedPlaces
    BY DEF ExPlaces, QueuedPlaces
  <2>3. /\ ex'[k].at = "turn" /\ ex'[k].req = ex[k].req /\ ex'[k].response = ex[k].response
        /\ \A j \in Keys : j # k => ex'[j] = ex[j]
    BY <1>3, <2>1, <2>2, ExGoes
  <2>4. /\ \A j \in Keys : j # k => handed'[j] = handed[j]
        /\ Handed(k)' \subseteq Handed(k) \union {q}
    <3>1. handed \in [Keys -> Seq(Nat)] /\ handed[k] \in Seq(Nat) /\ q \in Nat
      BY <1>3, <2>1 DEF LaneTypes, Ids
    <3>2. Elems(Append(handed[k], q)) = Elems(handed[k]) \union {q}
      BY <3>1, ElemsAppend
    <3>3. Handed(k)' = Elems(handed'[k])
      BY DEF Handed, Elems
    <3>. QED BY <2>1, <3>1, <3>2, <3>3 DEF Handed
  <2>5. WritesOnly(q) /\ Begun(q)'
    BY <1>3, <2>1, NoWrites
  <2>6. /\ Background(q) \/ reply'[q] # "plain" \/ Settled(q)'
        /\ ex'[k].response # "plain" \/ Background(q) \/ Settled(q)'
    BY <1>3, <2>1, <2>3, <2>5, SettledStays
  <2>. QED BY <1>1, <2>1, <2>2, <2>3, <2>4, <2>5, <2>6, ExecutionRows
<1>12. ASSUME NEW response \in {"none", "outbox", "plain"}, NEW to \in {"completed", "failed"},
              NEW ok \in BOOLEAN, Finish(k, response), ex[k].at # "idle", Settle(q, to, ok),
              UNCHANGED <<main, requests, cancelled, reply, ingress, ing, execution, handed>>
       PROVE  RowsKept
  <2>1. /\ WritesOnly(q) /\ Settled(q)'
        /\ Begun(q) => Begun(q)'
    BY <1>3, <1>12, SettleWrites
  <2>. QED BY <1>3, <1>6, <1>12, <2>1
<1>13. ASSUME NEW ok \in BOOLEAN, Preflight(k, ok) PROVE RowsKept
  <2>1. Outbound(q, TRUE) \in {"none", "outbox", "plain"}
    BY DEF Outbound
  <2>. QED BY <1>1, <1>12, <1>13, <2>1 DEF Preflight
<1>14. ASSUME NEW outcome \in {"answered", "streamed", "error", "cancelled", "steered"},
              NEW ok \in BOOLEAN, EndTurn(k, outcome, ok)
       PROVE  RowsKept
  <2>1. /\ ex[k].at = "turn"
        /\ UNCHANGED <<main, requests, cancelled, reply, ingress, ing, execution, handed>>
    BY <1>14 DEF EndTurn
  <2>2. PICK response \in Responses(q, outcome) : Finish(k, response)
    BY <1>1, <1>14 DEF EndTurn
  <2>3. response \in {"none", "outbox", "plain"}
    BY <2>2 DEF Responses, Outbound
  <2>4. CASE OutboxAnswers(q, outcome)
    <3>1. UNCHANGED <<status, lost>>
      BY <1>1, <1>14, <2>4 DEF EndTurn
    <3>2. /\ WritesOnly(q)
          /\ Begun(q) => Begun(q)'
      BY <1>3, <2>1, <3>1, NoWrites
    <3>3. response # "plain" \/ Settled(q)
      BY <2>2, <2>4 DEF OutboxAnswers, Responses, Outbound, Settled
    <3>. QED BY <1>3, <1>6, <2>1, <2>2, <2>3, <3>2, <3>3, SettledStays
  <2>5. CASE ~OutboxAnswers(q, outcome)
    <3>1. Settle(q, FinalStatus(outcome), ok) /\ FinalStatus(outcome) \in {"completed", "failed"}
      BY <1>1, <1>14, <2>5 DEF EndTurn, FinalStatus
    <3>. QED BY <1>12, <2>1, <2>2, <2>3, <3>1
  <2>. QED BY <2>4, <2>5
<1>15. ASSUME NEW outcome \in {"answered", "streamed", "error", "cancelled", "steered"},
              EndTurnUnstored(k, outcome)
       PROVE  RowsKept
  <2>1. /\ ex[k].at = "turn" /\ ex[k].at \in TurnPlaces /\ Finish(k, "plain")
        /\ UNCHANGED <<main, requests, cancelled, reply, ingress, ing, execution, handed>>
    BY <1>15 DEF EndTurnUnstored, TurnPlaces
  <2>2. q \in Arrived /\ Begun(q)
    BY <1>3, <2>1
  <2>3. CASE OutboxAnswers(q, outcome)
    <3>1. UNCHANGED status /\ lost' = lost \union {q}
      BY <1>1, <1>15, <2>3 DEF EndTurnUnstored
    <3>2. WritesOnly(q) /\ Begun(q)'
      BY <2>1, <2>2, <3>1, NoWrites
    <3>3. Settled(q)'
      BY <3>1 DEF Settled
    <3>. QED BY <1>6, <2>1, <3>2, <3>3
  <2>4. CASE ~OutboxAnswers(q, outcome)
    <3>1. PICK to \in {"completed", "failed"} : to = FinalStatus(outcome)
      BY DEF FinalStatus
    <3>2. PICK s : s = IF CanTransition(status[q], to) THEN to ELSE status[q]
      OBVIOUS
    <3>3. status' = [status EXCEPT ![q] = s] /\ UNCHANGED lost
      BY <1>1, <1>15, <2>4, <3>1, <3>2 DEF EndTurnUnstored, Update
    <3>4. WritesOnly(q) /\ status'[q] = s
      <4>1. (IsTerminal(status[q]) => s = status[q]) /\ (status[q] # "none" => s # "none")
        BY <3>1, <3>2 DEF IsTerminal, CanTransition
      <4>. QED BY <2>1, <2>2, <3>3, <4>1, RowWrites
    <3>5. Settled(q)' /\ Begun(q)'
      BY <2>1, <2>2, <3>1, <3>2, <3>4 DEF Begun, Settled, Traced, IsTerminal, CanTransition
    <3>. QED BY <1>6, <2>1, <3>4, <3>5
  <2>. QED BY <2>3, <2>4
<1>16. CASE Finished(k)
  <2>1. "replying" \in ExPlaces /\ "replying" \notin QueuedPlaces /\ "replying" \notin TurnPlaces
    BY DEF ExPlaces, QueuedPlaces, TurnPlaces
  <2>. QED BY <1>5, <1>16, <2>1 DEF Finished
<1>17. "idle" \in ExPlaces /\ "idle" \notin QueuedPlaces /\ "idle" \notin TurnPlaces
  BY DEF ExPlaces, QueuedPlaces, TurnPlaces
<1>18. ASSUME NEW response \in {"scheduler", "outbox", "plain"}, GoEx(k, "idle"), ex[k].at # "idle",
              reply' = [reply EXCEPT ![q] = response],
              UNCHANGED <<main, requests, status, lost, cancelled, ingress, ing, execution, handed>>,
              Background(q) \/ response = "outbox" \/ Settled(q)
       PROVE  RowsKept
  <2>1. reply'[q] = response /\ \A r \in Ids : r # q => reply'[r] = reply[r]
    BY <1>3, <1>18 DEF LaneTypes
  <2>2. /\ WritesOnly(q)
        /\ Begun(q) => Begun(q)'
        /\ Settled(q) => Settled(q)'
    BY <1>3, <1>18, <2>1, NoWrites
  <2>. QED BY <1>3, <1>4, <1>17, <1>18, <2>1, <2>2
<1>19. CASE ReplyScheduler(k)
  BY <1>1, <1>18, <1>19 DEF ReplyScheduler
<1>20. CASE ReplyUser(k)
  <2>1. ex[k].response \in {"outbox", "plain"} /\ ex[k].at # "idle"
    BY <1>3, <1>20 DEF ReplyUser, LaneTypes, ExTypes
  <2>. QED BY <1>1, <1>3, <1>18, <1>20, <2>1 DEF ReplyUser, SendReply
<1>21. ASSUME NEW ok \in BOOLEAN, NoReply(k, ok) PROVE RowsKept
  <2>1. /\ ex[k].at = "replying" /\ GoEx(k, "idle") /\ Settle(q, "failed", ok)
        /\ UNCHANGED <<main, requests, cancelled, reply, ingress, ing, execution, handed>>
    BY <1>1, <1>21 DEF NoReply
  <2>2. /\ WritesOnly(q) /\ Settled(q)'
        /\ Begun(q) => Begun(q)'
    BY <1>3, <2>1, SettleWrites
  <2>. QED BY <1>3, <1>4, <1>17, <2>1, <2>2
<1>. QED BY <1>2, <1>7, <1>8, <1>9, <1>10, <1>11, <1>13, <1>14, <1>15, <1>16, <1>19, <1>20, <1>21
         DEF ExecutionStep

\* Every step keeps the rows, given the order, and both layers always hold.
LEMMA RowsNext == Flow /\ Rows /\ [Next]_vars => RowsKept
<1> SUFFICES ASSUME Flow, Rows, [Next]_vars PROVE RowsKept
  OBVIOUS
<1>1. CASE MainStep
  BY <1>1, MainRowsNext
<1>2. CASE UserStep
  BY <1>2, UserRowsNext
<1>3. ASSUME NEW k \in Keys, IngressStep(k) PROVE RowsKept
  BY <1>3, IngressRowsNext
<1>4. ASSUME NEW k \in Keys, ExecutionStep(k) PROVE RowsKept
  BY <1>4, ExecutionRowsNext
<1>5. CASE UNCHANGED vars
  <2>1. /\ UNCHANGED <<main, requests, ingress, ing, execution, ex, handed>>
        /\ UNCHANGED <<status, reply, cancelled, lost>>
    BY <1>5 DEF vars, rowVars, ingVars, laneVars, execVars, turnVars, userVars
  <2>2. ASSUME NEW j \in Keys
        PROVE  /\ ToBegin(j)' \subseteq ToBegin(j) /\ HasBegun(j)' \subseteq HasBegun(j)
               /\ IsSettled(j)' \subseteq IsSettled(j) /\ OnLanes(j) \subseteq OnLanes(j)'
    <3>1. /\ Offered(j)' = Offered(j) /\ Arriving(j)' = Arriving(j) /\ Waiting(j)' = Waiting(j)
          /\ Running(j)' = Running(j) /\ Dispatching(j)' = Dispatching(j)
          /\ Handed(j)' = Handed(j) /\ PlainOf(j)' = PlainOf(j)
          /\ IngHas(j, OpenPlaces)' = IngHas(j, OpenPlaces)
          /\ IngHas(j, ClaimedPlaces)' = IngHas(j, ClaimedPlaces)
          /\ IngHas(j, {"warning"})' = IngHas(j, {"warning"})
          /\ ExHas(j, QueuedPlaces)' = ExHas(j, QueuedPlaces)
          /\ ExHas(j, TurnPlaces)' = ExHas(j, TurnPlaces)
      BY <2>1 DEF Offered, Arriving, Waiting, Running, Dispatching, Handed, PlainOf, IngHas, ExHas,
                  Arrived, KeyOf, Background, OpenPlaces, ClaimedPlaces, QueuedPlaces, TurnPlaces
    <3>. QED BY <3>1 DEF ToBegin, HasBegun, IsSettled, OnLanes
  <2>. QED BY <2>1, <2>2, RowsMove
<1>. QED BY <1>1, <1>2, <1>3, <1>4, <1>5 DEF Next

LEMMA RowsHold == Spec => [](Flow /\ Rows)
<1>1. Init => Flow /\ Rows
  BY FlowInit, RowsInit
<1>2. Flow /\ Rows /\ [Next]_vars => (Flow /\ Rows)'
  BY FlowNext, RowsNext DEF RowsKept
<1>. QED BY <1>1, <1>2, PTL DEF Spec

\* The transitions of a row end: delivery, /cancel, /esc, steering and the end
\* of the turn all write it, in any order, and none changes a finished one.
THEOREM FinishedStaysFinished == Spec => TerminalIsFinal
<1>1. Flow /\ Rows /\ [Next]_vars => [\A r \in Ids : IsTerminal(status[r]) => status'[r] = status[r]]_vars
  BY RowsNext DEF RowsKept
<1>. QED BY <1>1, RowsHold, PTL DEF Spec, TerminalIsFinal

\* What /cancel reported as cancelled is never given to a backend.
THEOREM CancelledIsNotHanded == Spec => []CancelledNeverHanded
<1>1. Flow /\ Rows => CancelledNeverHanded
  <2> SUFFICES ASSUME Flow, Rows, NEW r \in Arrived, r \in cancelled, Traced(r), WasHanded(r)
               PROVE  FALSE
    BY DEF CancelledNeverHanded
  <2>1. PICK k \in Keys : k = KeyOf(r)
    <3>1. requests[r] \in [key : Keys, sort : Sorts, traced : BOOLEAN]
      BY ElementOfSeq DEF Arrived, Flow, LaneTypes
    <3>. QED BY <3>1 DEF KeyOf
  <2>2. r \in Handed(k)
    <3>1. DOMAIN handed[k] = 1 .. Len(handed[k])
      BY LenProperties DEF Flow, LaneTypes
    <3>. QED BY <2>1, <3>1 DEF WasHanded, Handed, Elems
  <2>3. Begun(r)
    BY <2>2 DEF Rows, RowsFollow, HasBegun
  <2>. QED BY <2>3 DEF Begun
<1>. QED BY <1>1, RowsHold, PTL

\* No worker drops a user's request without settling its row, unless the write
\* that settles it failed.
THEOREM NoRequestIsDropped == Spec => []NoneLeftBehind
<1>1. Flow /\ Rows => NoneLeftBehind
  <2> SUFFICES ASSUME Flow, Rows, NEW r \in Arrived, LeftBehind(r), ~Background(r)
               PROVE  FALSE
    BY DEF NoneLeftBehind
  <2>1. PICK k \in Keys : k = KeyOf(r)
    <3>1. requests[r] \in [key : Keys, sort : Sorts, traced : BOOLEAN]
      BY ElementOfSeq DEF Arrived, Flow, LaneTypes
    <3>. QED BY <3>1 DEF KeyOf
  <2>2. Traced(r) /\ r \notin lost /\ ~InFlight(r) /\ ~IsTerminal(status[r])
        /\ reply[r] \in {"none", "sent", "scheduler"}
    BY DEF LeftBehind
  <2>3. r \in OnLanes(k)
    BY <2>1, <2>2 DEF Rows, NotDropped, Kept, Settled
  <2>4. /\ DOMAIN ingress[k] = 1 .. Len(ingress[k])
        /\ DOMAIN execution[k] = 1 .. Len(execution[k])
    BY LenProperties DEF Flow, LaneTypes
  <2>5. InFlight(r)
    BY <2>1, <2>3, <2>4 DEF InFlight, OnLanes, Running, Waiting, Dispatching, Arriving, Offered, Elems
  <2>. QED BY <2>2, <2>5
<1>. QED BY <1>1, RowsHold, PTL
=============================================================================
