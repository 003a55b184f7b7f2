---------------------------- MODULE ClaudeProofs ----------------------------
(***************************************************************************)
(* An interrupt concerns its own turn only, and nothing but /esc leaves a  *)
(* turn something of another one, for any number of turns, events,         *)
(* interrupts, exits and cancellations and any capacity of the channels.   *)
(*                                                                         *)
(* The argument, in the parts of TurnInv: commands are read in the order   *)
(* of their turns (InOrder), so an interrupt never reaches a later turn;   *)
(* a mark is the generation of an acknowledged interrupt, and the newest   *)
(* generation is the turn's (Marked, Alive).  While no turn before was     *)
(* cancelled, the message of a turn is in one place only until its result  *)
(* was read (Single), a turn that is not cancelled takes its result when   *)
(* nothing is left of its message or the process is gone (Serves), and so  *)
(* the next turn begins with nothing on its way (Rests).                   *)
(***************************************************************************)
EXTENDS ClaudeTurns, FiniteSetTheorems, SequenceTheorems, TLAPS

-----------------------------------------------------------------------------
(* The invariant. *)

Commands == [cmd : {"user", "interrupt"}, turn : Nat, id : Nat]
HandleTypes ==
    [generation : Nat, active : Nat, interrupted : Nat, slot : [gen : Nat, open : BOOLEAN],
     last : [of : Nat, success : BOOLEAN], hint : BOOLEAN,
     waiters : SUBSET [id : Nat, gen : Nat], stdin : Seq(Commands), closing : BOOLEAN,
     owner : Seq(Nat)]
ChildTypes ==
    [up : BOOLEAN, doing : Nat, aborted : BOOLEAN, emitted : Nat, todo : Seq(Nat),
     out : Seq(Lines)]
ReaderTypes ==
    [at : {"read", "push", "control", "result", "store", "close", "gone"}, line : Lines,
     gen : Nat]
Moving == {"forward", "passing", "interrupt", "asking", "drain", "passingLate", "take"}
ForwarderTypes ==
    [at : {"idle", "begin", "register", "send"} \union Moving, gen : Nat, retried : BOOLEAN]

TurnTypes ==
    /\ turn \in 0 .. Turns /\ runner \in {"idle", "loop", "awaiting"}
    /\ cancelled \subseteq 1 .. turn /\ returned \in [Ids -> Returned]
    /\ forwarder \in ForwarderTypes /\ pipe \in 0 .. PoolCapacity
    /\ progress \in 0 .. ProgressCapacity /\ lock \in {"free", "turn", "steer"}
    /\ present \in BOOLEAN /\ handle \in HandleTypes /\ child \in ChildTypes
    /\ reader \in ReaderTypes /\ asked \in Nat

\* The commands on their way, the messages that Claude has not begun and the lines of
\* its output.
Stdin == 1 .. Len(handle.stdin)
Todo == 1 .. Len(child.todo)
Out == 1 .. Len(child.out)
User(i) == handle.stdin[i].cmd = "user"
Answer(i) == child.out[i].type = "result"

Answering == reader.at \in {"result", "store", "close"}
NoUser == \A i \in Stdin : ~User(i)
NoWork == child.doing = 0 /\ child.todo = << >>
NoAnswer == \A i \in Out : ~Answer(i)

\* What is numbered: generations, turns and the ids of interrupts.
Numbers ==
    /\ handle.generation <= turn /\ Len(handle.owner) = handle.generation
    /\ handle.active <= handle.generation /\ handle.interrupted <= handle.generation
    /\ handle.slot.gen <= handle.generation
    /\ \A g \in 1 .. handle.generation : handle.owner[g] \in 1 .. turn
    /\ \A w \in handle.waiters : w.id \in 1 .. asked /\ w.gen \in 1 .. handle.generation
    /\ \A i \in Stdin : handle.stdin[i].turn \in 1 .. turn /\ handle.stdin[i].id <= asked
    /\ \A i \in Todo : child.todo[i] \in 1 .. turn
    /\ child.doing <= turn
    /\ \A i \in Out : /\ child.out[i].type # "none"
                      /\ Answer(i) => child.out[i].n \in 1 .. turn
    /\ Answering => reader.line.n \in 1 .. turn
    /\ reader.gen <= handle.generation
    /\ handle.last # NoResult => handle.last.of \in 1 .. turn
    /\ strays \subseteq [aim : 1 .. turn, hit : 1 .. turn]
    /\ acked \subseteq 1 .. turn

\* The turn, its forwarder and the process: which of them exist.
Alive ==
    /\ runner = "idle" => forwarder.at = "idle"
    /\ runner # "idle" => turn >= 1
    /\ forwarder.at # "idle" => returned[turn] = Nothing
    /\ \A t \in Ids : t > turn => returned[t] = Nothing
    /\ ~present => handle = NewHandle /\ child = NoChild /\ reader = ReaderAt("gone")
    /\ handle.closing => ~child.up
    /\ ~child.up => NoWork
    /\ forwarder.at \in {"register", "send"} => present
    /\ forwarder.at \in {"begin", "register"} => handle.generation < turn
    /\ forwarder.at = "send" => forwarder.gen = handle.generation
    /\ forwarder.gen <= turn
    /\ forwarder.at \in {"send"} \union Moving /\ present =>
          handle.generation >= 1 /\ handle.owner[handle.generation] = turn

\* Marks are acknowledged interrupts.
Marked ==
    /\ handle.interrupted # 0 => handle.owner[handle.interrupted] \in acked
    /\ \A t \in Ids : returned[t].kind = "interrupted" => t \in acked

\* Commands are read in the order of the turns they are for.
UpTo(t) ==
    /\ child.doing <= t
    /\ \A i \in Todo : child.todo[i] <= t
InOrder ==
    /\ \A i, j \in Stdin : i < j => handle.stdin[i].turn <= handle.stdin[j].turn
    /\ \A i \in Stdin : UpTo(handle.stdin[i].turn)
    /\ handle.active # 0 =>
          /\ UpTo(handle.owner[handle.active])
          /\ \A i \in Stdin : handle.stdin[i].turn <= handle.owner[handle.active]
    /\ forwarder.at = "send" /\ handle.active # 0 => handle.active = handle.generation
    /\ \A s \in strays : s.hit < s.aim

\* No turn before b was cancelled; then Claude is given no message of them again.
Clean(b) == \A u \in cancelled : b <= u
Since(b) ==
    /\ child.doing # 0 => b <= child.doing
    /\ \A i \in Todo : b <= child.todo[i]
    /\ \A i \in Stdin : User(i) => b <= handle.stdin[i].turn
OldIsDone == child.up => \A b \in 1 .. turn : Clean(b) => Since(b)
NotSpoiled == \A t \in Ids : Clean(t) => ~Spoiled(t)

\* Nothing is left of a message, and no turn is active.
Empty == NoUser /\ NoWork /\ NoAnswer /\ ~Answering /\ handle.active = 0

\* The one message of the turn is in one place only, and what Claude says is about it.
Single ==
    /\ Answering =>
          /\ NoUser /\ NoWork /\ NoAnswer
          /\ reader.gen = handle.generation /\ reader.line.n = turn
    /\ reader.at \in {"store", "close"} => handle.active = 0
    /\ \A i \in Out : Answer(i) =>
          /\ NoUser /\ NoWork /\ child.out[i].n = turn
          /\ \A j \in Out : Answer(j) => i = j
    /\ child.doing # 0 => NoUser /\ child.todo = << >> /\ child.doing = turn
    /\ child.todo # << >> => NoUser /\ Len(child.todo) = 1 /\ child.todo[1] = turn
    /\ \A i \in Stdin : User(i) =>
          /\ handle.stdin[i].turn = turn
          /\ \A j \in Stdin : User(j) => i = j
    /\ handle.last.of \in {0, turn}

\* Between turns, and before the message of the turn is sent, nothing is left of
\* another one; then Serves holds until the result is taken.
Rests == (forwarder.at = "idle" /\ turn \notin cancelled) \/ forwarder.at = "begin" =>
            (present /\ ~handle.closing => Empty)
Prepared == forwarder.at = "register" => Empty /\ handle.last = NoResult
Registered ==
    forwarder.at = "send" =>
       /\ NoUser /\ NoWork /\ NoAnswer /\ ~Answering /\ handle.last = NoResult
       /\ handle.active \in {0, handle.generation}
Late == {"interrupt", "asking", "drain", "passingLate"}
CutShort == forwarder.at \in Late => turn \in cancelled
Serves ==
    forwarder.at \in Moving /\ present =>
       /\ Single /\ handle.active \in {0, handle.generation}
       /\ handle.slot.gen = handle.generation /\ forwarder.gen = handle.generation
       /\ ~handle.slot.open => handle.closing \/ Empty
       /\ forwarder.at = "take" => turn \in cancelled \/ handle.closing \/ Empty
Calm == Rests /\ Prepared /\ Registered /\ CutShort /\ Serves

Undisturbed == OldIsDone /\ NotSpoiled /\ (Clean(turn) => Calm)

TurnInv == Numbers /\ Alive /\ Marked /\ InOrder /\ Undisturbed

-----------------------------------------------------------------------------
(* Commands, messages and lines. *)

\* Appending, taking the head and the elements of a sequence.
LEMMA Appended ==
    ASSUME NEW S, NEW s \in Seq(S), NEW x \in S
    PROVE  /\ Append(s, x) \in Seq(S) /\ s \o <<x>> = Append(s, x)
           /\ Len(s) \in Nat /\ Len(Append(s, x)) = Len(s) + 1
           /\ \A i \in 1 .. Len(s) : Append(s, x)[i] = s[i]
           /\ Append(s, x)[Len(s) + 1] = x
  BY LenProperties, AppendProperties

LEMMA Removed ==
    ASSUME NEW S, NEW s \in Seq(S), s # << >>
    PROVE  /\ Tail(s) \in Seq(S) /\ Head(s) \in S /\ Head(s) = s[1]
           /\ Len(s) \in Nat \ {0} /\ Len(Tail(s)) = Len(s) - 1
           /\ \A i \in 1 .. Len(Tail(s)) : Tail(s)[i] = s[i + 1]
  BY LenProperties, HeadTailProperties, EmptySeq

\* A sequence of elements of a set.
LEMMA SeqOf ==
    ASSUME NEW S, NEW T, NEW s \in Seq(S), \A i \in 1 .. Len(s) : s[i] \in T
    PROVE  s \in Seq(T)
<1>1. s = [i \in 1 .. Len(s) |-> s[i]] /\ Len(s) \in Nat
  BY LenProperties
<1>. QED BY <1>1, SeqDef

LEMMA EmptySequence == ASSUME NEW S PROVE << >> \in Seq(S) /\ Len(<< >>) = 0
  BY EmptySeq

-----------------------------------------------------------------------------
(* The types. *)

\* What is new has its types.
LEMMA NewTypes ==
    /\ NewHandle \in HandleTypes /\ NoChild \in ChildTypes /\ NewChild \in ChildTypes
    /\ NoForwarder \in ForwarderTypes
    /\ \A place \in {"read", "gone"} : ReaderAt(place) \in ReaderTypes
    /\ NoResult \in [of : Nat, success : BOOLEAN]
    /\ Nothing \in Returned
<1>1. << >> \in Seq(Commands) /\ << >> \in Seq(Nat) /\ << >> \in Seq(Lines)
  BY EmptySequence
<1>2. NoResult \in [of : Nat, success : BOOLEAN]
  BY DEF NoResult
<1>3. NewHandle \in HandleTypes
  BY <1>1, <1>2 DEF NewHandle, HandleTypes
<1>4. NoChild \in ChildTypes /\ NewChild \in ChildTypes
  BY <1>1 DEF NoChild, NewChild, ChildTypes
<1>5. NoForwarder \in ForwarderTypes
  BY DEF NoForwarder, ForwarderTypes, Moving
<1>6. NoLine \in Lines
  BY DEF NoLine, Lines
<1>7. \A place \in {"read", "gone"} : ReaderAt(place) \in ReaderTypes
  BY <1>6 DEF ReaderAt, ReaderTypes
<1>8. Nothing \in Returned
  BY DEF Nothing, Returned
<1>. QED BY <1>2, <1>3, <1>4, <1>5, <1>7, <1>8

\* The types hold at first.
LEMMA TurnTypesInit == Init => TurnTypes
<1> SUFFICES ASSUME Init PROVE TurnTypes
  OBVIOUS
<1>1. returned \in [Ids -> Returned]
  BY NewTypes DEF Init
<1>2. /\ turn \in 0 .. Turns /\ runner = "idle" /\ cancelled \subseteq 1 .. turn
      /\ pipe \in 0 .. PoolCapacity /\ progress \in 0 .. ProgressCapacity /\ lock = "free"
      /\ asked \in Nat
  <2>1. turn = 0 /\ runner = "idle" /\ cancelled = {} /\ pipe = 0 /\ progress = 0 /\ lock = "free"
        /\ asked = 0
    BY DEF Init
  <2>. QED BY <2>1, ClaudeAssumption
<1>3. forwarder \in ForwarderTypes /\ handle \in HandleTypes /\ child \in ChildTypes
      /\ reader \in ReaderTypes
  BY NewTypes DEF Init
<1>4. present \in BOOLEAN
  BY DEF Init
<1>. QED BY <1>1, <1>2, <1>3, <1>4 DEF TurnTypes

\* A turn returns, or its forwarder goes on.
LEMMA ReturnTypes ==
    ASSUME TurnTypes, turn \in Ids, NEW r \in Returned, Return(r)
    PROVE  /\ returned' \in [Ids -> Returned] /\ forwarder' \in ForwarderTypes
           /\ pipe' \in 0 .. PoolCapacity
           /\ forwarder'.at = "idle" /\ returned'[turn] = r
           /\ \A t \in Ids : t # turn => returned'[t] = returned[t]
<1>1. forwarder' = NoForwarder /\ pipe' = 0 /\ returned' = [returned EXCEPT ![turn] = r]
  BY DEF Return
<1>2. returned \in [Ids -> Returned]
  BY DEF TurnTypes
<1>3. NoForwarder.at = "idle"
  BY DEF NoForwarder
<1>. QED BY <1>1, <1>2, <1>3, NewTypes, ClaudeAssumption

LEMMA GoTypes ==
    ASSUME TurnTypes, NEW place \in {"begin", "register", "send"} \union Moving, Fwd(place)
    PROVE  /\ forwarder' \in ForwarderTypes /\ forwarder'.at = place
           /\ forwarder'.gen = forwarder.gen
  BY DEF TurnTypes, ForwarderTypes, Fwd

\* The parts of the records.
LEMMA Parts ==
    ASSUME TurnTypes
    PROVE  /\ handle.stdin \in Seq(Commands) /\ handle.owner \in Seq(Nat)
           /\ handle.generation \in Nat /\ handle.active \in Nat /\ handle.interrupted \in Nat
           /\ handle.slot \in [gen : Nat, open : BOOLEAN]
           /\ handle.last \in [of : Nat, success : BOOLEAN]
           /\ handle.hint \in BOOLEAN /\ handle.closing \in BOOLEAN
           /\ handle.waiters \subseteq [id : Nat, gen : Nat]
           /\ child.up \in BOOLEAN /\ child.doing \in Nat /\ child.aborted \in BOOLEAN
           /\ child.emitted \in Nat /\ child.todo \in Seq(Nat) /\ child.out \in Seq(Lines)
           /\ reader.line \in Lines /\ reader.gen \in Nat
           /\ reader.at \in {"read", "push", "control", "result", "store", "close", "gone"}
           /\ forwarder.gen \in Nat /\ forwarder.retried \in BOOLEAN
           /\ forwarder.at \in {"idle", "begin", "register", "send"} \union Moving
           /\ turn \in Nat /\ asked \in Nat
  BY ClaudeAssumption DEF TurnTypes, HandleTypes, ChildTypes, ReaderTypes, ForwarderTypes

LEMMA KillTypes ==
    Kill => /\ present' \in BOOLEAN /\ handle' \in HandleTypes /\ child' \in ChildTypes
            /\ reader' \in ReaderTypes
  BY NewTypes DEF Kill

\* The runner and the moves of the forwarder that leave pool and process alone.
LEMMA TypesAside ==
    ASSUME TurnTypes, forwarder.at # "idle" \/ runner # "idle" => turn \in Ids,
           \/ StartTurn \/ Cancel \/ ReceiveProgress \/ LeaveLoop \/ EndTurn \/ DropStaleProcess
           \/ ForwardEvent \/ DrainEvent \/ PipeEnds \/ NoticeCancel \/ DrainExpires
           \/ InterruptRefused \/ Interrupted \/ Steered \/ TakeNothing \/ Timeout \/ SpawnFails
    PROVE  TurnTypes'
<1>1. CASE StartTurn
  <2>1. [NoForwarder EXCEPT !.at = "begin"] \in ForwarderTypes
    BY NewTypes DEF ForwarderTypes
  <2>. QED BY <1>1, <2>1, ClaudeAssumption
           DEF StartTurn, TurnTypes, processVars, interruptVars
<1>2. CASE Cancel
  <2>1. /\ UNCHANGED <<turn, runner, returned, forwarder, pipe, progress, lock, present, handle,
                       child, reader, asked>>
        /\ cancelled' = cancelled \union {turn} /\ runner = "loop"
    BY <1>2 DEF Cancel, turnVars, processVars, interruptVars
  <2>2. turn \in 1 .. turn
    BY <2>1 DEF Ids
  <2>. QED BY <2>1, <2>2 DEF TurnTypes
<1>3. CASE ReceiveProgress
  BY <1>3, ClaudeAssumption
     DEF ReceiveProgress, TurnTypes, runnerVars, processVars, interruptVars
<1>4. CASE LeaveLoop
  BY <1>4 DEF LeaveLoop, TurnTypes, turnVars, processVars, interruptVars
<1>5. CASE EndTurn
  BY <1>5 DEF EndTurn, TurnTypes, turnVars, processVars, interruptVars
<1>6. CASE DropStaleProcess
  BY <1>6, KillTypes DEF DropStaleProcess, TurnTypes, turnVars, interruptVars
<1>7. ASSUME NEW from, NEW to \in Moving, ReceiveEvent(from, to) PROVE TurnTypes'
  <2>1. /\ UNCHANGED <<turn, runner, cancelled, returned, progress, lock, present, handle, child,
                       reader, asked>>
        /\ pipe > 0 /\ pipe' = pipe - 1 /\ Fwd(to)
    BY <1>7 DEF ReceiveEvent, runnerVars, processVars, interruptVars
  <2>2. pipe' \in 0 .. PoolCapacity
    BY <2>1, ClaudeAssumption DEF TurnTypes
  <2>. QED BY <2>1, <2>2, GoTypes DEF TurnTypes
<1>8. ASSUME NEW from, NEW to \in Moving, PassEvent(from, to) PROVE TurnTypes'
  <2>1. /\ UNCHANGED <<turn, runner, cancelled, returned, pipe, lock, present, handle, child,
                       reader, asked>>
        /\ progress < ProgressCapacity /\ progress' = progress + 1 /\ Fwd(to)
    BY <1>8 DEF PassEvent, runnerVars, processVars, interruptVars
  <2>2. progress' \in 0 .. ProgressCapacity
    BY <2>1, ClaudeAssumption DEF TurnTypes
  <2>. QED BY <2>1, <2>2, GoTypes DEF TurnTypes
<1>9. CASE ForwardEvent \/ DrainEvent
  BY <1>7, <1>8, <1>9 DEF ForwardEvent, DrainEvent, Moving
<1>10. {"take", "interrupt", "drain"} \subseteq Moving
  BY DEF Moving
<1>11. CASE PipeEnds
  BY <1>10, <1>11, GoTypes DEF PipeEnds, TurnTypes, runnerVars, processVars, interruptVars
<1>12. CASE NoticeCancel
  BY <1>10, <1>12, GoTypes DEF NoticeCancel, TurnTypes, runnerVars, processVars, interruptVars
<1>13. CASE DrainExpires
  BY <1>10, <1>13, GoTypes DEF DrainExpires, TurnTypes, runnerVars, processVars, interruptVars
<1>14. CASE InterruptRefused
  BY <1>10, <1>14, GoTypes DEF InterruptRefused, TurnTypes, runnerVars, processVars, interruptVars
<1>15. CASE Interrupted
  BY <1>10, <1>15, GoTypes
     DEF Interrupted, StopAsking, TurnTypes, runnerVars, processVars, interruptVars
<1>16. CASE Steered
  BY <1>16 DEF Steered, StopAsking, TurnTypes, runnerVars, turnVars, processVars
<1>17. CASE TakeNothing
  <2>1. turn \in Ids /\ [kind |-> "error", of |-> 0] \in Returned
    BY <1>17 DEF TakeNothing, FwdAt, Returned
  <2>. QED BY <1>17, <2>1, ReturnTypes DEF TakeNothing, TurnTypes, processVars, interruptVars
<1>18. CASE Timeout
  BY <1>10, <1>18, GoTypes, KillTypes DEF Timeout, TurnTypes, runnerVars, interruptVars
<1>19. CASE SpawnFails
  <2>1. turn \in Ids /\ [kind |-> "error", of |-> 0] \in Returned
    BY <1>19 DEF SpawnFails, FwdAt, Returned
  <2>. QED BY <1>19, <2>1, ReturnTypes, KillTypes DEF SpawnFails, TurnTypes, interruptVars
<1>. QED
  BY <1>1, <1>2, <1>3, <1>4, <1>5, <1>6, <1>9, <1>11, <1>12, <1>13, <1>14, <1>15, <1>16,
     <1>17, <1>18, <1>19


\* The steps of the forwarder and of the ingress worker that change the handle.
LEMMA TypesHandle ==
    ASSUME TurnTypes, Numbers, forwarder.at # "idle" => turn \in Ids,
           \/ Prepare \/ Register \/ SendMessage \/ SendFails \/ Interrupt \/ Steer \/ TakeResult
           \/ \E retry \in BOOLEAN : StaleSession(retry)
    PROVE  TurnTypes'
<1>1. /\ handle \in HandleTypes /\ forwarder \in ForwarderTypes /\ turn \in Nat
      /\ handle.stdin \in Seq(Commands) /\ handle.owner \in Seq(Nat)
      /\ handle.generation \in Nat /\ handle.active \in Nat /\ forwarder.gen \in Nat
      /\ handle.waiters \subseteq [id : Nat, gen : Nat] /\ asked \in Nat
      /\ handle.last \in [of : Nat, success : BOOLEAN] /\ handle.interrupted \in Nat
  BY Parts DEF TurnTypes
<1>2. CASE Prepare
  <2>1. CASE present /\ ~handle.closing
    <3>1. /\ handle' = [handle EXCEPT !.last = NoResult] /\ present' = TRUE /\ lock' = "turn"
          /\ Fwd("register")
          /\ UNCHANGED <<turn, runner, cancelled, returned, pipe, progress, child, reader, asked>>
      BY <1>2, <2>1 DEF Prepare, runnerVars, interruptVars
    <3>2. handle' \in HandleTypes
      BY <1>1, <3>1, NewTypes DEF HandleTypes
    <3>. QED BY <3>1, <3>2, GoTypes DEF TurnTypes
  <2>2. CASE ~(present /\ ~handle.closing)
    <3>1. /\ handle' = NewHandle /\ present' = TRUE /\ lock' = "turn" /\ child' = NewChild
          /\ reader' = ReaderAt("read") /\ Fwd("register")
          /\ UNCHANGED <<turn, runner, cancelled, returned, pipe, progress, asked>>
      BY <1>2, <2>2 DEF Prepare, runnerVars, interruptVars, Spawned
    <3>. QED BY <3>1, GoTypes, NewTypes DEF TurnTypes
  <2>. QED BY <2>1, <2>2
<1>3. CASE Register
  <2>1. /\ handle' = [handle EXCEPT
                !.generation = handle.generation + 1,
                !.owner = Append(@, turn),
                !.active = IF @ = 0 THEN handle.generation + 1 ELSE @]
        /\ UNCHANGED <<turn, runner, cancelled, progress, present, child, reader, asked>>
        /\ turn \in Ids
    BY <1>3 DEF Register, FwdAt, processVars, interruptVars
  <2>2. Append(handle.owner, turn) \in Seq(Nat)
    BY <1>1, Appended
  <2>3. handle' \in HandleTypes
    <3>1. PICK g, o, a : /\ g = handle.generation + 1 /\ o = Append(handle.owner, turn)
                         /\ a = IF handle.active = 0 THEN g ELSE handle.active
      OBVIOUS
    <3>2. g \in Nat /\ o \in Seq(Nat) /\ a \in Nat
      BY <1>1, <2>2, <3>1
    <3>3. handle' = [handle EXCEPT !.generation = g, !.owner = o, !.active = a]
      BY <2>1, <3>1
    <3>. QED BY <1>1, <3>2, <3>3 DEF HandleTypes
  <2>4. \/ /\ forwarder' = [forwarder EXCEPT !.at = "send", !.gen = handle.generation + 1]
           /\ UNCHANGED <<lock, returned, pipe>>
        \/ lock' = "free" /\ Return([kind |-> "refused", of |-> 0])
    BY <1>3 DEF Register
  <2>5. forwarder' \in ForwarderTypes /\ returned' \in [Ids -> Returned]
        /\ pipe' \in 0 .. PoolCapacity
    <3>1. [kind |-> "refused", of |-> 0] \in Returned
      BY DEF Returned
    <3>2. CASE Return([kind |-> "refused", of |-> 0])
      BY <2>1, <3>1, <3>2, ReturnTypes
    <3>3. CASE /\ forwarder' = [forwarder EXCEPT !.at = "send", !.gen = handle.generation + 1]
               /\ UNCHANGED <<lock, returned, pipe>>
      <4>1. PICK g \in Nat : g = handle.generation + 1
        BY <1>1
      <4>2. forwarder' \in ForwarderTypes
        BY <1>1, <3>3, <4>1 DEF ForwarderTypes
      <4>. QED BY <3>3, <4>2 DEF TurnTypes
    <3>. QED BY <2>4, <3>2, <3>3
  <2>6. lock' \in {"free", "turn", "steer"}
    BY <2>4 DEF TurnTypes
  <2>. QED BY <2>1, <2>3, <2>5, <2>6 DEF TurnTypes
<1>4. CASE SendMessage
  <2>1. PICK c : c = [cmd |-> "user", turn |-> turn, id |-> 0]
    OBVIOUS
  <2>2. c \in Commands
    BY <1>1, <2>1 DEF Commands
  <2>3. Append(handle.stdin, c) \in Seq(Commands)
    BY <1>1, <2>2, Appended
  <2>4. /\ handle' = [handle EXCEPT !.slot = [gen |-> forwarder.gen, open |-> TRUE],
                                    !.stdin = Append(handle.stdin, c)]
        /\ pipe' = 0 /\ lock' = "free" /\ Fwd("forward")
        /\ UNCHANGED <<turn, runner, cancelled, returned, progress, present, child, reader, asked>>
    BY <1>4, <2>1 DEF SendMessage, Write, runnerVars, processVars, interruptVars
  <2>5. handle' \in HandleTypes
    BY <1>1, <2>3, <2>4 DEF HandleTypes
  <2>. QED BY <2>4, <2>5, GoTypes, ClaudeAssumption DEF TurnTypes, Moving
<1>5. CASE SendFails
  <2>1. /\ handle' = [handle EXCEPT !.slot = [gen |-> forwarder.gen, open |-> FALSE],
                                    !.active = IF @ = forwarder.gen THEN 0 ELSE @]
        /\ lock' = "free" /\ Return([kind |-> "error", of |-> 0])
        /\ UNCHANGED <<turn, runner, cancelled, progress, present, child, reader, asked>>
        /\ turn \in Ids
    BY <1>5 DEF SendFails, FwdAt, processVars, interruptVars
  <2>2. handle' \in HandleTypes
    BY <1>1, <2>1 DEF HandleTypes
  <2>3. [kind |-> "error", of |-> 0] \in Returned
    BY DEF Returned
  <2>. QED BY <2>1, <2>2, <2>3, ReturnTypes DEF TurnTypes
<1>6. ASSUME NEW caller \in {"turn", "steer"}, Ask(caller)
      PROVE  handle' \in HandleTypes /\ asked' \in Nat /\ lock' = caller
  <2>1. PICK c, w : /\ c = [cmd |-> "interrupt", turn |-> handle.owner[handle.active],
                           id |-> asked + 1]
                    /\ w = [id |-> asked + 1, gen |-> handle.active]
    OBVIOUS
  <2>2. handle.active # 0 /\ handle.owner[handle.active] \in Nat
    <3>1. handle.active # 0
      BY <1>6 DEF Ask
    <3>2. handle.active \in 1 .. handle.generation
      BY <1>1, <3>1 DEF Numbers
    <3>. QED BY <1>1, <3>1, <3>2 DEF Numbers
  <2>3. c \in Commands /\ w \in [id : Nat, gen : Nat]
    BY <1>1, <2>1, <2>2 DEF Commands
  <2>4. Append(handle.stdin, c) \in Seq(Commands)
    BY <1>1, <2>3, Appended
  <2>5. PICK ws, in : ws = handle.waiters \union {w} /\ in = Append(handle.stdin, c)
    OBVIOUS
  <2>6. ws \subseteq [id : Nat, gen : Nat] /\ in \in Seq(Commands)
    BY <1>1, <2>3, <2>4, <2>5
  <2>7. /\ handle' = [handle EXCEPT !.waiters = ws, !.stdin = in]
        /\ asked' = asked + 1 /\ lock' = caller
    BY <1>6, <2>1, <2>5 DEF Ask, Write
  <2>8. handle' \in HandleTypes
    BY <1>1, <2>6, <2>7 DEF HandleTypes
  <2>. QED BY <1>1, <2>7, <2>8
<1>7. CASE Interrupt
  BY <1>6, <1>7, GoTypes DEF Interrupt, TurnTypes, runnerVars, processVars, Moving
<1>8. CASE Steer
  BY <1>6, <1>8 DEF Steer, TurnTypes, runnerVars, turnVars, processVars
<1>9. CASE TakeResult
  <2>1. /\ handle' = [handle EXCEPT !.last = NoResult,
                                    !.interrupted = IF WasInterrupted THEN 0 ELSE @]
        /\ Return([kind |-> Kind(handle.last), of |-> handle.last.of])
        /\ UNCHANGED <<turn, runner, cancelled, progress, lock, present, child, reader, asked>>
        /\ turn \in Ids /\ handle.last # NoResult
    BY <1>9 DEF TakeResult, FwdAt, processVars, interruptVars
  <2>2. handle' \in HandleTypes
    BY <1>1, <2>1, NewTypes DEF HandleTypes
  <2>3. [kind |-> Kind(handle.last), of |-> handle.last.of] \in Returned
    <3>1. handle.last.of \in Ids
      BY <1>1, <2>1, ClaudeAssumption DEF Numbers, Ids, TurnTypes
    <3>2. Kind(handle.last) \in {"answer", "failure", "interrupted"}
      BY DEF Kind
    <3>. QED BY <3>1, <3>2 DEF Returned
  <2>. QED BY <2>1, <2>2, <2>3, ReturnTypes DEF TurnTypes
<1>10. ASSUME NEW retry \in BOOLEAN, StaleSession(retry) PROVE TurnTypes'
  <2>1. turn \in Ids /\ UNCHANGED <<turn, runner, cancelled, progress, lock, asked>>
    BY <1>10 DEF StaleSession, FwdAt, interruptVars
  <2>2. CASE retry
    <3>1. /\ Kill /\ forwarder' = [at |-> "begin", gen |-> 0, retried |-> TRUE]
          /\ pipe' = 0 /\ returned' = returned
      BY <1>10, <2>2 DEF StaleSession
    <3>2. forwarder' \in ForwarderTypes
      BY <3>1 DEF ForwarderTypes
    <3>. QED BY <2>1, <3>1, <3>2, KillTypes, ClaudeAssumption DEF TurnTypes
  <2>3. CASE ~retry
    <3>1. PICK i : i = IF handle.last # NoResult /\ WasInterrupted THEN 0 ELSE handle.interrupted
      OBVIOUS
    <3>2. /\ handle' = [handle EXCEPT !.hint = FALSE, !.last = NoResult, !.interrupted = i]
          /\ Return([kind |-> "stale", of |-> 0]) /\ UNCHANGED <<present, child, reader>>
      BY <1>10, <2>3, <3>1 DEF StaleSession
    <3>3. handle' \in HandleTypes
      BY <1>1, <3>1, <3>2, NewTypes DEF HandleTypes
    <3>4. [kind |-> "stale", of |-> 0] \in Returned
      BY DEF Returned
    <3>. QED BY <2>1, <3>2, <3>3, <3>4, ReturnTypes DEF TurnTypes
  <2>. QED BY <2>2, <2>3
<1>. QED BY <1>2, <1>3, <1>4, <1>5, <1>7, <1>8, <1>9, <1>10

\* Claude, and the end of its process.
LEMMA TypesChild ==
    ASSUME TurnTypes, Numbers,
           \/ ReadMessage \/ Work \/ EmitEvent \/ Reap \/ ReadError
           \/ \E good \in BOOLEAN : ReadInterrupt(good) \/ EmitResult(good)
           \/ \E hint \in BOOLEAN : Exit(hint)
    PROVE  TurnTypes'
<1>1. /\ handle \in HandleTypes /\ child \in ChildTypes /\ handle.stdin \in Seq(Commands)
      /\ child.todo \in Seq(Nat) /\ child.out \in Seq(Lines) /\ child.doing \in Nat
      /\ child.aborted \in BOOLEAN /\ child.emitted \in Nat
  BY Parts DEF TurnTypes
<1>2. handle.stdin # << >> =>
         Tail(handle.stdin) \in Seq(Commands) /\ Head(handle.stdin) \in Commands
  BY <1>1, Removed
<1>3. CASE ReadMessage
  <2>1. Append(child.todo, Head(handle.stdin).turn) \in Seq(Nat)
    BY <1>1, <1>2, <1>3, Appended DEF ReadMessage, Commands
  <2>2. /\ child' = [child EXCEPT !.todo = Append(child.todo, Head(handle.stdin).turn)]
        /\ handle' = [handle EXCEPT !.stdin = Tail(handle.stdin)] /\ handle.stdin # << >>
        /\ UNCHANGED <<turn, runner, cancelled, returned, forwarder, pipe, progress, lock, present,
                       reader, asked>>
    BY <1>3 DEF ReadMessage, runnerVars, turnVars, interruptVars
  <2>3. handle' \in HandleTypes /\ child' \in ChildTypes
    BY <1>1, <1>2, <2>1, <2>2 DEF HandleTypes, ChildTypes
  <2>. QED BY <2>2, <2>3 DEF TurnTypes
<1>4. CASE Work
  <2>1. child.todo # << >> => Tail(child.todo) \in Seq(Nat) /\ Head(child.todo) \in Nat
    BY <1>1, Removed
  <2>2. /\ child' = [child EXCEPT !.doing = Head(child.todo), !.todo = Tail(child.todo),
                                  !.aborted = FALSE, !.emitted = 0]
        /\ child.todo # << >>
        /\ UNCHANGED <<turn, runner, cancelled, returned, forwarder, pipe, progress, lock, present,
                       handle, reader, asked>>
    BY <1>4 DEF Work, runnerVars, turnVars, interruptVars
  <2>3. child' \in ChildTypes
    BY <1>1, <2>1, <2>2 DEF ChildTypes
  <2>. QED BY <2>2, <2>3 DEF TurnTypes
<1>5. ASSUME NEW line \in Lines PROVE Emit(line) \in Seq(Lines)
  BY <1>1, <1>5, Appended DEF Emit
<1>6. CASE EmitEvent
  <2>1. Emit(EventLine) \in Seq(Lines)
    BY <1>5 DEF EventLine, Lines
  <2>4. PICK n \in Nat : n = child.emitted + 1
    BY <1>1
  <2>2. /\ child' = [child EXCEPT !.emitted = n, !.out = Emit(EventLine)]
        /\ UNCHANGED <<turn, runner, cancelled, returned, forwarder, pipe, progress, lock, present,
                       handle, reader, asked>>
    BY <1>6, <2>4 DEF EmitEvent, runnerVars, turnVars, interruptVars
  <2>3. child' \in ChildTypes
    BY <1>1, <2>1, <2>2 DEF ChildTypes
  <2>. QED BY <2>2, <2>3 DEF TurnTypes
<1>7. ASSUME NEW good \in BOOLEAN, ReadInterrupt(good) PROVE TurnTypes'
  <2>1. PICK o, a : /\ o = Emit(ControlLine(Head(handle.stdin).id, good))
                    /\ a = ((good /\ child.doing # 0) \/ child.aborted)
    OBVIOUS
  <2>2. /\ child' = [child EXCEPT !.out = o, !.aborted = a]
        /\ handle' = [handle EXCEPT !.stdin = Tail(handle.stdin)] /\ handle.stdin # << >>
        /\ UNCHANGED <<turn, runner, cancelled, returned, forwarder, pipe, progress, lock, present,
                       reader, asked>>
    BY <1>7, <2>1 DEF ReadInterrupt, runnerVars, turnVars
  <2>3. o \in Seq(Lines)
    <3>1. ControlLine(Head(handle.stdin).id, good) \in Lines
      BY <1>2, <2>2 DEF ControlLine, Lines, Commands
    <3>. QED BY <1>5, <2>1, <3>1
  <2>4. a \in BOOLEAN
    BY <1>1, <2>1
  <2>5. handle' \in HandleTypes
    BY <1>1, <1>2, <2>2 DEF HandleTypes
  <2>6. child' \in ChildTypes
    BY <1>1, <2>2, <2>3, <2>4 DEF ChildTypes
  <2>. QED BY <2>2, <2>5, <2>6 DEF TurnTypes
<1>8. ASSUME NEW good \in BOOLEAN, EmitResult(good) PROVE TurnTypes'
  <2>1. Emit(ResultLine(child.doing, good)) \in Seq(Lines)
    BY <1>1, <1>5 DEF ResultLine, Lines
  <2>2. /\ child' = [child EXCEPT !.doing = 0, !.aborted = FALSE,
                                  !.out = Emit(ResultLine(child.doing, good))]
        /\ UNCHANGED <<turn, runner, cancelled, returned, forwarder, pipe, progress, lock, present,
                       handle, reader, asked>>
    BY <1>8 DEF EmitResult, runnerVars, turnVars, interruptVars
  <2>3. child' \in ChildTypes
    BY <1>1, <2>1, <2>2 DEF ChildTypes
  <2>. QED BY <2>2, <2>3 DEF TurnTypes
<1>9. ASSUME NEW hint \in BOOLEAN, Exit(hint) PROVE TurnTypes'
  <2>1. << >> \in Seq(Nat)
    BY EmptySequence
  <2>2. /\ child' = [child EXCEPT !.up = FALSE, !.doing = 0, !.todo = << >>]
        /\ handle' = [handle EXCEPT !.hint = hint]
        /\ UNCHANGED <<turn, runner, cancelled, returned, forwarder, pipe, progress, lock, present,
                       reader, asked>>
    BY <1>9 DEF Exit, runnerVars, turnVars, interruptVars
  <2>3. handle' \in HandleTypes /\ child' \in ChildTypes
    BY <1>1, <2>1, <2>2 DEF HandleTypes, ChildTypes
  <2>. QED BY <2>2, <2>3 DEF TurnTypes
<1>10. CASE Reap
  <2>1. /\ handle' = [handle EXCEPT !.closing = TRUE]
        /\ UNCHANGED <<turn, runner, cancelled, returned, forwarder, pipe, progress, lock, present,
                       child, reader, asked>>
    BY <1>10 DEF Reap, runnerVars, turnVars, processVars, interruptVars
  <2>2. handle' \in HandleTypes
    BY <1>1, <2>1 DEF HandleTypes
  <2>. QED BY <2>1, <2>2 DEF TurnTypes
<1>11. CASE ReadError
  <2>1. /\ handle' = [handle EXCEPT !.closing = TRUE, !.waiters = {}]
        /\ child' = NoChild /\ reader' = ReaderAt("gone")
        /\ UNCHANGED <<turn, runner, cancelled, returned, forwarder, pipe, progress, lock, present,
                       asked>>
    BY <1>11 DEF ReadError, runnerVars, turnVars, interruptVars
  <2>2. handle' \in HandleTypes
    BY <1>1, <2>1 DEF HandleTypes
  <2>. QED BY <2>1, <2>2, NewTypes DEF TurnTypes
<1>. QED BY <1>3, <1>4, <1>6, <1>7, <1>8, <1>9, <1>10, <1>11

\* stdout_reader_task.
LEMMA TypesReader == ASSUME TurnTypes, Numbers, ReaderStep PROVE TurnTypes'
<1>1. /\ handle \in HandleTypes /\ child \in ChildTypes /\ reader \in ReaderTypes
      /\ handle.slot \in [gen : Nat, open : BOOLEAN] /\ handle.generation \in Nat
      /\ handle.active \in Nat /\ child.out \in Seq(Lines) /\ reader.line \in Lines
      /\ reader.gen \in Nat /\ handle.waiters \subseteq [id : Nat, gen : Nat]
      /\ ReaderAt("read") \in ReaderTypes /\ ReaderAt("gone") \in ReaderTypes
  BY Parts, NewTypes DEF TurnTypes
<1>2. CASE ReadStdout
  <2>1. PICK line : line = Head(child.out)
    OBVIOUS
  <2>2. child.out # << >> /\ line \in Lines /\ Tail(child.out) \in Seq(Lines)
    BY <1>1, <1>2, <2>1, Removed DEF ReadStdout
  <2>3. /\ child' = [child EXCEPT !.out = Tail(child.out)]
        /\ reader' = IF line.type = "event"
                       THEN IF handle.slot.open
                              THEN [at |-> "push", line |-> line, gen |-> handle.slot.gen]
                              ELSE ReaderAt("read")
                       ELSE [at |-> line.type, line |-> line, gen |-> handle.generation]
        /\ UNCHANGED <<turn, runner, cancelled, returned, forwarder, pipe, progress, lock, present,
                       handle, asked>>
    BY <1>2, <2>1 DEF ReadStdout, runnerVars, turnVars, interruptVars
  <2>4. child' \in ChildTypes
    BY <1>1, <2>2, <2>3 DEF ChildTypes
  <2>5. line.type \in {"event", "result", "control"}
    <3>1. 1 \in Out /\ line = child.out[1]
      BY <1>1, <2>1, <2>2, Removed DEF Out
    <3>. QED BY <2>2, <3>1 DEF Numbers, Lines
  <2>6. reader' \in ReaderTypes
    BY <1>1, <2>2, <2>3, <2>5 DEF ReaderTypes
  <2>. QED BY <2>3, <2>4, <2>6 DEF TurnTypes
<1>3. CASE PushEvent
  <2>1. /\ UNCHANGED <<turn, runner, cancelled, returned, forwarder, progress, lock, present,
                       handle, child, asked>>
        /\ reader' = ReaderAt("read")
        /\ (pipe < PoolCapacity /\ pipe' = pipe + 1) \/ pipe' = pipe
    BY <1>3 DEF PushEvent, HasRoom, runnerVars, interruptVars
  <2>2. pipe' \in 0 .. PoolCapacity
    BY <2>1, ClaudeAssumption DEF TurnTypes
  <2>. QED BY <1>1, <2>1, <2>2 DEF TurnTypes
<1>4. CASE ReadControl
  <2>1. /\ UNCHANGED <<turn, runner, cancelled, returned, forwarder, pipe, progress, lock, present,
                       child, asked>>
        /\ reader' = ReaderAt("read")
        /\ \/ handle' = handle
           \/ \E w \in handle.waiters :
                 handle' = [AcknowledgeInterrupt(w.gen, reader.line.good) EXCEPT !.waiters = @ \ {w}]
    BY <1>4 DEF ReadControl, runnerVars, turnVars
  <2>2. ASSUME NEW w \in handle.waiters,
               handle' = [AcknowledgeInterrupt(w.gen, reader.line.good) EXCEPT !.waiters = @ \ {w}]
        PROVE  handle' \in HandleTypes
    <3>1. PICK h : h = AcknowledgeInterrupt(w.gen, reader.line.good)
      OBVIOUS
    <3>2. w.gen \in Nat
      BY <1>1
    <3>3. h \in HandleTypes
      BY <1>1, <3>1, <3>2 DEF AcknowledgeInterrupt, HandleTypes
    <3>4. PICK ws : ws = h.waiters \ {w}
      OBVIOUS
    <3>5. ws \subseteq [id : Nat, gen : Nat] /\ handle' = [h EXCEPT !.waiters = ws]
      BY <2>2, <3>1, <3>3, <3>4 DEF HandleTypes
    <3>. QED BY <3>3, <3>5 DEF HandleTypes
  <2>. QED BY <1>1, <2>1, <2>2 DEF TurnTypes
<1>5. CASE FreeActive
  <2>1. /\ handle' = [handle EXCEPT !.active = IF @ = reader.gen THEN 0 ELSE @]
        /\ reader' = [reader EXCEPT !.at = "store"]
        /\ UNCHANGED <<turn, runner, cancelled, returned, forwarder, pipe, progress, lock, present,
                       child, asked>>
    BY <1>5 DEF FreeActive, runnerVars, turnVars, interruptVars
  <2>2. handle' \in HandleTypes /\ reader' \in ReaderTypes
    BY <1>1, <2>1 DEF HandleTypes, ReaderTypes
  <2>. QED BY <2>1, <2>2 DEF TurnTypes
<1>6. CASE StoreResult
  <2>1. PICK r : r = [of |-> reader.line.n, success |-> reader.line.good]
    OBVIOUS
  <2>2. r \in [of : Nat, success : BOOLEAN]
    BY <1>1, <2>1 DEF Lines
  <2>3. /\ handle' = [handle EXCEPT !.last = r]
        /\ reader' = [reader EXCEPT !.at = "close"]
        /\ UNCHANGED <<turn, runner, cancelled, returned, forwarder, pipe, progress, lock, present,
                       child, asked>>
    BY <1>6, <2>1 DEF StoreResult, runnerVars, turnVars, interruptVars
  <2>4. handle' \in HandleTypes /\ reader' \in ReaderTypes
    BY <1>1, <2>2, <2>3 DEF HandleTypes, ReaderTypes
  <2>. QED BY <2>3, <2>4 DEF TurnTypes
<1>7. CASE CloseSlot
  <2>1. PICK s : s = [handle.slot EXCEPT !.open =
                        IF handle.slot.gen = reader.gen THEN FALSE ELSE @]
    OBVIOUS
  <2>2. s \in [gen : Nat, open : BOOLEAN]
    BY <1>1, <2>1
  <2>3. /\ handle' = [handle EXCEPT !.slot = s] /\ reader' = ReaderAt("read")
        /\ UNCHANGED <<turn, runner, cancelled, returned, forwarder, pipe, progress, lock, present,
                       child, asked>>
    BY <1>1, <1>7, <2>1 DEF CloseSlot, HandleTypes, runnerVars, turnVars, interruptVars
  <2>4. handle' \in HandleTypes
    BY <1>1, <2>2, <2>3 DEF HandleTypes
  <2>. QED BY <1>1, <2>3, <2>4 DEF TurnTypes
<1>8. ASSUME NEW closed \in BOOLEAN, Quit(closed) PROVE TurnTypes'
  <2>1. PICK s : s = [handle.slot EXCEPT !.open = IF closed THEN FALSE ELSE @]
    OBVIOUS
  <2>2. s \in [gen : Nat, open : BOOLEAN]
    BY <1>1, <2>1
  <2>3. /\ handle' = [handle EXCEPT !.closing = TRUE, !.waiters = {}, !.slot = s]
        /\ reader' = ReaderAt("gone")
        /\ UNCHANGED <<turn, runner, cancelled, returned, forwarder, pipe, progress, lock, present,
                       child, asked>>
    BY <1>1, <1>8, <2>1 DEF Quit, HandleTypes, runnerVars, turnVars, interruptVars
  <2>4. handle' \in HandleTypes
    BY <1>1, <2>2, <2>3 DEF HandleTypes
  <2>. QED BY <1>1, <2>3, <2>4 DEF TurnTypes
<1>. QED
  BY <1>2, <1>3, <1>4, <1>5, <1>6, <1>7, <1>8 DEF ReaderStep, ReadEnd, ReaderCancelled

-----------------------------------------------------------------------------
(* The steps that leave the process and its handle alone. *)

\* What the runner and the forwarder do without them.
Aside ==
    /\ UNCHANGED <<turn, cancelled, returned, present, handle, child, asked, strays, acked>>
    /\ reader' = reader \/ (reader.at = "push" /\ reader' = ReaderAt("read"))
    /\ runner' = runner \/ (runner # "idle" /\ (runner' = "idle" => returned[turn] # Nothing))
    /\ \/ forwarder' = forwarder
       \/ /\ forwarder.at \in Moving /\ forwarder'.at \in Moving
          /\ forwarder'.gen = forwarder.gen
          /\ forwarder'.at \in Late => turn \in cancelled \/ forwarder.at \in Late
          /\ forwarder'.at = "take" =>
                \/ ~(handle.slot.open /\ handle.slot.gen = forwarder.gen)
                \/ forwarder.at = "drain"

\* These steps move runner, forwarder and reader aside.
LEMMA AsideSteps ==
    ASSUME TurnTypes,
           \/ ReceiveProgress \/ LeaveLoop \/ EndTurn \/ ForwardEvent \/ DrainEvent
           \/ PipeEnds \/ NoticeCancel \/ DrainExpires \/ InterruptRefused
           \/ Interrupted \/ Steered \/ PushEvent
    PROVE  Aside
<1>1. forwarder \in ForwarderTypes
  BY DEF TurnTypes
<1>2. ASSUME NEW from \in Moving, NEW to \in Moving,
             \/ ReceiveEvent(from, to) /\ (to \in Late => from \in Late) /\ to # "take"
             \/ PassEvent(from, to) /\ (to \in Late => from \in Late) /\ to # "take"
      PROVE  Aside
  BY <1>1, <1>2, GoTypes
     DEF ReceiveEvent, PassEvent, Aside, FwdAt, runnerVars, processVars, interruptVars
<1>3. CASE ForwardEvent \/ DrainEvent
  BY <1>2, <1>3 DEF ForwardEvent, DrainEvent, Moving, Late
<1>4. CASE ReceiveProgress \/ LeaveLoop \/ Steered \/ PushEvent
  BY <1>4 DEF ReceiveProgress, LeaveLoop, Steered, PushEvent, Aside, StopAsking, runnerVars,
              turnVars, processVars, interruptVars
<1>5. CASE EndTurn
  <2>1. returned[turn] # Nothing
    BY <1>5 DEF EndTurn, ForwarderDone, Nothing
  <2>. QED BY <1>5, <2>1 DEF EndTurn, Aside, turnVars, processVars, interruptVars
<1>6. CASE PipeEnds
  BY <1>1, <1>6, GoTypes
     DEF PipeEnds, PipeClosed, Aside, Moving, Late, runnerVars, processVars, interruptVars
<1>7. CASE NoticeCancel \/ DrainExpires \/ InterruptRefused \/ Interrupted
  BY <1>1, <1>7, GoTypes
     DEF NoticeCancel, DrainExpires, InterruptRefused, Interrupted, StopAsking, FwdAt, Aside,
         Moving, Late, runnerVars, processVars, interruptVars
<1>. QED BY <1>3, <1>4, <1>5, <1>6, <1>7

\* Such a step keeps the invariant.
LEMMA AsideKeeps == TurnTypes /\ TurnInv /\ Aside => TurnInv'
<1> SUFFICES ASSUME TurnTypes, TurnInv, Aside PROVE TurnInv'
  OBVIOUS
<1>1. /\ UNCHANGED <<turn, cancelled, returned, present, handle, child, asked, strays, acked>>
      /\ reader' = reader \/ (reader.at = "push" /\ reader' = ReaderAt("read"))
  BY DEF Aside
<1>2. (Answering <=> Answering') /\ (Answering' => reader' = reader)
      /\ (reader'.at \in {"store", "close"} => reader' = reader)
      /\ reader'.gen <= handle.generation
  <2>1. reader.gen <= handle.generation /\ 0 <= handle.generation
    BY Parts DEF TurnInv, Numbers
  <2>. QED BY <1>1, <2>1 DEF Answering, ReaderAt
<1>3. Numbers'
  BY <1>1, <1>2 DEF TurnInv, Numbers, Answer, Stdin, Todo, Out
<1>4. Alive'
  BY <1>1 DEF TurnInv, Alive, Aside, NoWork, ReaderAt, Moving
<1>5. Marked' /\ InOrder'
  BY <1>1 DEF TurnInv, Marked, InOrder, UpTo, Stdin, Todo, Aside, Moving
<1>6. OldIsDone' /\ NotSpoiled' /\ (Clean(turn)' <=> Clean(turn))
  BY <1>1 DEF TurnInv, Undisturbed, OldIsDone, NotSpoiled, Spoiled, Clean, Since, User, Stdin, Todo
<1>7. ASSUME Clean(turn), Calm PROVE Calm'
  <2>1. /\ (NoUser => NoUser') /\ (NoWork => NoWork') /\ (NoAnswer => NoAnswer')
        /\ (Single => Single') /\ (Empty => Empty')
    BY <1>1, <1>2
       DEF NoUser, NoWork, NoAnswer, Empty, Single, User, Answer, Stdin, Out, Todo
  <2>2. forwarder'.at \notin Moving => forwarder' = forwarder
    BY DEF Aside
  <2>5. Rests'
    BY <1>1, <1>7, <2>1, <2>2 DEF Calm, Rests, Moving
  <2>6. Prepared'
    BY <1>1, <1>7, <2>1, <2>2 DEF Calm, Prepared, Moving
  <2>7. Registered'
    BY <1>1, <1>2, <1>7, <2>1, <2>2 DEF Calm, Registered, Moving
  <2>3. CutShort'
    BY <1>1, <1>7 DEF Calm, CutShort, Aside
  <2>4. Serves'
    BY <1>1, <1>7, <2>1 DEF Calm, Serves, CutShort, Aside, Late
  <2>. QED BY <2>3, <2>4, <2>5, <2>6, <2>7 DEF Calm
<1>. QED BY <1>3, <1>4, <1>5, <1>6, <1>7 DEF TurnInv, Undisturbed

-----------------------------------------------------------------------------
(* The process is killed, or a turn ends without one. *)

\* The fields of what is new.
LEMMA NewFacts ==
    /\ NewHandle.generation = 0 /\ NewHandle.active = 0 /\ NewHandle.interrupted = 0
    /\ NewHandle.slot = [gen |-> 0, open |-> FALSE] /\ NewHandle.last = NoResult
    /\ NewHandle.waiters = {} /\ NewHandle.stdin = << >> /\ NewHandle.closing = FALSE
    /\ NewHandle.owner = << >>
    /\ NoChild.up = FALSE /\ NoChild.doing = 0 /\ NoChild.todo = << >> /\ NoChild.out = << >>
    /\ NewChild.up = TRUE /\ NewChild.doing = 0 /\ NewChild.todo = << >> /\ NewChild.out = << >>
    /\ \A place \in {"read", "gone"} : ReaderAt(place).at = place /\ ReaderAt(place).gen = 0
    /\ NoResult.of = 0 /\ Len(<< >>) = 0
    /\ NoForwarder.at = "idle" /\ NoForwarder.gen = 0
    /\ Nothing.kind = "none" /\ Nothing.of = 0
<1>1. Len(<< >>) = 0
  BY EmptySeq
<1>. QED BY <1>1 DEF NewHandle, NoChild, NewChild, ReaderAt, NoResult, NoForwarder, Nothing

\* A new handle and a new process have nothing to say or to do.
LEMMA NewKeeps ==
    ASSUME TurnTypes, Numbers, InOrder, OldIsDone,
           handle' = NewHandle, child' \in {NoChild, NewChild},
           reader' \in {ReaderAt("read"), ReaderAt("gone")},
           UNCHANGED <<turn, cancelled, strays, acked, asked>>
    PROVE  /\ Numbers' /\ OldIsDone' /\ InOrder' /\ Empty' /\ handle'.last = NoResult
           /\ (\A t \in Ids : returned'[t].kind = "interrupted" => t \in acked) => Marked'
<1>1. /\ Empty' /\ Stdin' = {} /\ Todo' = {} /\ Out' = {} /\ handle'.waiters = {}
      /\ handle'.generation = 0 /\ handle'.active = 0 /\ handle'.interrupted = 0
      /\ handle'.slot.gen = 0 /\ handle'.last = NoResult /\ Len(handle'.owner) = 0
      /\ child'.doing = 0 /\ reader'.gen = 0 /\ ~Answering'
  BY NewFacts DEF Empty, Stdin, Todo, Out, NoUser, NoWork, NoAnswer, Answering
<1>2. turn \in Nat /\ NoResult.of = 0
  BY Parts, NewFacts
<1>3. Numbers'
  BY <1>1, <1>2 DEF Numbers
<1>4. OldIsDone' /\ InOrder'
  BY <1>1 DEF OldIsDone, InOrder, Since
<1>. QED BY <1>1, <1>3, <1>4 DEF Marked

\* The turn returns an error of the pool, or goes on.
ReturnsError ==
    /\ forwarder.at # "idle" /\ forwarder' = NoForwarder /\ runner' = runner
    /\ returned'[turn].of = 0 /\ returned'[turn].kind \in {"error", "stale"}
    /\ \A t \in Ids : t # turn => returned'[t] = returned[t]

LEMMA ErrorKeeps ==
    ASSUME TurnTypes, TurnInv, ReturnsError, UNCHANGED <<turn, cancelled, strays, acked>>
    PROVE  /\ NotSpoiled' /\ turn \in Ids
           /\ \A t \in Ids : t > turn => returned'[t] = Nothing
           /\ \A t \in Ids : returned'[t].kind = "interrupted" => t \in acked
<1>1. turn \in Ids
  BY ClaudeAssumption DEF TurnTypes, TurnInv, Alive, ReturnsError, Ids
<1>2. NotSpoiled'
  <2>1. ASSUME NEW t \in Ids, Spoiled(t)' PROVE Spoiled(t)
    BY <2>1 DEF Spoiled, ReturnsError
  <2>. QED BY <2>1 DEF TurnInv, Undisturbed, NotSpoiled, Clean
<1>3. \A t \in Ids : t > turn => returned'[t] = Nothing
  BY <1>1 DEF TurnInv, Alive, ReturnsError, Ids
<1>4. \A t \in Ids : returned'[t].kind = "interrupted" => t \in acked
  BY DEF TurnInv, Marked, ReturnsError
<1>. QED BY <1>1, <1>2, <1>3, <1>4

Killed ==
    /\ Kill
    /\ UNCHANGED <<turn, cancelled, asked, strays, acked>>
    /\ forwarder'.at \in {"idle", "begin", "take"} /\ forwarder'.gen \in {0, forwarder.gen}
    /\ runner # "idle"
    /\ \/ ReturnsError
       \/ /\ returned' = returned
          /\ (forwarder'.at = "idle" <=> forwarder.at = "idle")
          /\ runner' = runner \/ forwarder.at = "idle"

\* These steps kill the process.
LEMMA KilledSteps ==
    ASSUME TurnTypes, TurnInv,
           DropStaleProcess \/ SpawnFails \/ Timeout \/ StaleSession(TRUE)
    PROVE  Killed
<1>1. (forwarder.at # "idle" => runner # "idle") /\ (runner # "idle" => turn \in Ids)
  BY ClaudeAssumption DEF TurnInv, Alive, TurnTypes, Ids
<1>2. CASE DropStaleProcess
  <2>1. returned[turn] # Nothing /\ runner = "awaiting"
    BY <1>2 DEF DropStaleProcess, Nothing
  <2>2. forwarder.at = "idle" /\ forwarder' = forwarder
    BY <1>2, <2>1 DEF DropStaleProcess, turnVars, TurnInv, Alive
  <2>. QED BY <1>2, <2>1, <2>2 DEF DropStaleProcess, Killed, turnVars, interruptVars
<1>3. CASE SpawnFails
  <2>1. [kind |-> "error", of |-> 0] \in Returned /\ turn \in Ids
    BY <1>1, <1>3 DEF Returned, SpawnFails, FwdAt
  <2>. QED BY <1>1, <1>3, <2>1, ReturnTypes, NewFacts
           DEF SpawnFails, FwdAt, Return, Killed, ReturnsError, interruptVars
<1>4. CASE Timeout
  BY <1>1, <1>4, GoTypes DEF Timeout, FwdAt, Killed, Moving, runnerVars, interruptVars
<1>5. CASE StaleSession(TRUE)
  BY <1>1, <1>5 DEF StaleSession, FwdAt, Killed, interruptVars
<1>. QED BY <1>2, <1>3, <1>4, <1>5

\* A step that kills the process keeps the invariant.
LEMMA KilledKeeps == TurnTypes /\ TurnInv /\ Killed => TurnInv'
<1> SUFFICES ASSUME TurnTypes, TurnInv, Killed PROVE TurnInv'
  OBVIOUS
<1>1. /\ present' = FALSE /\ handle' = NewHandle /\ child' = NoChild /\ reader' = ReaderAt("gone")
      /\ UNCHANGED <<turn, cancelled, asked, strays, acked>>
  BY DEF Killed, Kill
<1>2. \A t \in Ids : returned'[t].kind = "interrupted" => t \in acked
  BY ErrorKeeps DEF Killed, TurnInv, Marked
<1>3. Numbers' /\ OldIsDone' /\ InOrder' /\ Marked' /\ Empty'
  BY <1>1, <1>2, NewKeeps DEF TurnInv, Undisturbed
<1>4. turn >= 1 /\ turn \in Nat
  BY Parts DEF Killed, TurnInv, Alive
<1>5. Alive'
  <2>1. ~handle'.closing /\ NoWork' /\ handle'.generation = 0
    BY <1>1, NewFacts DEF NoWork
  <2>2. \A t \in Ids : t > turn => returned'[t] = Nothing
    BY ErrorKeeps, <1>1 DEF Killed, TurnInv, Alive
  <2>3. forwarder'.at # "idle" => returned'[turn] = Nothing
    BY NewFacts DEF Killed, ReturnsError, TurnInv, Alive
  <2>4. runner' = "idle" => forwarder'.at = "idle"
    BY DEF Killed, ReturnsError, NoForwarder
  <2>5. forwarder'.gen <= turn
    BY <1>4 DEF Killed, TurnInv, Alive
  <2>. QED BY <1>1, <1>4, <2>1, <2>2, <2>3, <2>4, <2>5 DEF Alive, Killed
<1>6. NotSpoiled'
  <2>1. CASE ReturnsError
    BY <1>1, <2>1, ErrorKeeps
  <2>2. CASE returned' = returned
    BY <1>1, <2>2 DEF TurnInv, Undisturbed, NotSpoiled, Spoiled, Clean
  <2>. QED BY <2>1, <2>2 DEF Killed
<1>7. Calm'
  BY <1>1 DEF Calm, Rests, Prepared, Registered, CutShort, Late, Serves, Killed
<1>. QED BY <1>3, <1>5, <1>6, <1>7 DEF TurnInv, Undisturbed

-----------------------------------------------------------------------------
(* A turn begins, is cancelled, and takes its result. *)

LEMMA StartKeeps == TurnTypes /\ TurnInv /\ StartTurn => TurnInv'
<1> SUFFICES ASSUME TurnTypes, TurnInv, StartTurn PROVE TurnInv'
  OBVIOUS
<1>1. /\ UNCHANGED <<cancelled, returned, present, handle, child, reader, asked, strays, acked>>
      /\ turn' = turn + 1 /\ turn < Turns /\ runner = "idle" /\ runner' = "loop"
      /\ forwarder'.at = "begin" /\ forwarder'.gen = 0
  BY NewTypes, NewFacts DEF StartTurn, processVars, interruptVars, ForwarderTypes
<1>2. turn \in Nat /\ forwarder.at = "idle" /\ handle.generation \in Nat
  BY <1>1, Parts DEF TurnInv, Alive
<1>3. Numbers'
  <2>1. 1 .. turn \subseteq 1 .. turn + 1 /\ [aim : 1 .. turn, hit : 1 .. turn]
                                               \subseteq [aim : 1 .. turn + 1, hit : 1 .. turn + 1]
    BY <1>2
  <2>2. handle.generation <= turn + 1 /\ child.doing <= turn + 1
    BY <1>2, Parts DEF TurnInv, Numbers
  <2>. QED BY <1>1, <2>1, <2>2 DEF TurnInv, Numbers, Stdin, Todo, Out, Answer, Answering
<1>4. Alive'
  <2>1. turn + 1 \in Ids
    BY <1>1, <1>2, ClaudeAssumption DEF Ids
  <2>2. \A t \in Ids : t > turn + 1 => t > turn
    BY <1>2 DEF Ids
  <2>3. returned[turn + 1] = Nothing /\ handle.generation < turn + 1
    BY <1>2, <2>1 DEF TurnInv, Alive, Numbers
  <2>. QED BY <1>1, <1>2, <2>2, <2>3 DEF TurnInv, Alive, NoWork, Moving
<1>5. Marked' /\ InOrder'
  BY <1>1 DEF TurnInv, Marked, InOrder, UpTo, Stdin, Todo
<1>6. NotSpoiled'
  BY <1>1 DEF TurnInv, Undisturbed, NotSpoiled, Spoiled, Clean
<1>7. ASSUME Clean(turn + 1)
      PROVE  Clean(turn) /\ turn \notin cancelled /\ (present /\ ~handle.closing => Empty)
  <2>1. Clean(turn) /\ turn \notin cancelled
    BY <1>2, <1>7 DEF Clean, TurnTypes
  <2>. QED BY <1>2, <2>1 DEF TurnInv, Undisturbed, Calm, Rests
<1>8. OldIsDone'
  <2>1. SUFFICES ASSUME child.up, NEW b \in 1 .. turn + 1, Clean(b) PROVE Since(b)
    BY <1>1 DEF OldIsDone, Clean, Since, Stdin, Todo, User
  <2>2. CASE b = turn + 1
    <3>1. present /\ ~handle.closing
      BY <2>1, NewFacts DEF TurnInv, Alive
    <3>2. Empty
      BY <1>7, <2>1, <2>2, <3>1
    <3>. QED BY <3>2, NewFacts DEF Empty, NoWork, NoUser, Since, Todo
  <2>3. CASE b \in 1 .. turn
    BY <2>1, <2>3 DEF TurnInv, Undisturbed, OldIsDone
  <2>. QED BY <1>2, <2>2, <2>3
<1>9. ASSUME Clean(turn') PROVE Calm'
  <2>1. Empty => Empty'
    BY <1>1 DEF Empty, NoUser, NoWork, NoAnswer, Answering, User, Answer, Stdin, Out
  <2>2. Rests'
    BY <1>1, <1>7, <1>9, <2>1 DEF Rests, Clean
  <2>. QED BY <1>1, <2>2 DEF Calm, Prepared, Registered, CutShort, Late, Serves, Moving
<1>10. Clean(turn)' => Clean(turn')
  BY <1>1 DEF Clean
<1>. QED BY <1>3, <1>4, <1>5, <1>6, <1>8, <1>9, <1>10 DEF TurnInv, Undisturbed

LEMMA CancelKeeps == TurnTypes /\ TurnInv /\ Cancel => TurnInv'
<1> SUFFICES ASSUME TurnTypes, TurnInv, Cancel PROVE TurnInv'
  OBVIOUS
<1>1. /\ UNCHANGED <<turn, runner, returned, forwarder, present, handle, child, reader, asked,
                     strays, acked>>
      /\ cancelled' = cancelled \union {turn}
  BY DEF Cancel, turnVars, processVars, interruptVars
<1>2. Numbers' /\ Alive'
  BY <1>1 DEF TurnInv, Numbers, Alive, NoWork, Stdin, Todo, Out, Answer, Answering
<1>3. Marked' /\ InOrder'
  BY <1>1 DEF TurnInv, Marked, InOrder, UpTo, Stdin, Todo
<1>4. \A b \in Nat : Clean(b)' => Clean(b)
  BY <1>1 DEF Clean
<1>5. turn \in Nat /\ Ids \subseteq Nat
  BY Parts, ClaudeAssumption DEF Ids
<1>6. NotSpoiled' /\ OldIsDone'
  BY <1>1, <1>4, <1>5
     DEF TurnInv, Undisturbed, NotSpoiled, Spoiled, OldIsDone, Since, Stdin, Todo, User
<1>7. Calm => Calm'
  <2>1. (Single => Single') /\ (Empty => Empty') /\ (NoUser => NoUser') /\ (NoWork => NoWork')
        /\ (NoAnswer => NoAnswer') /\ (Answering' => Answering)
    BY <1>1 DEF NoUser, NoWork, NoAnswer, Answering, Empty, Single, User, Answer, Stdin, Out, Todo
  <2>2. Rests /\ Prepared /\ Registered => Rests' /\ Prepared' /\ Registered'
    BY <1>1, <2>1 DEF Rests, Prepared, Registered
  <2>3. CutShort /\ Serves => CutShort' /\ Serves'
    BY <1>1, <2>1 DEF CutShort, Serves
  <2>. QED BY <2>2, <2>3 DEF Calm
<1>8. Clean(turn)' => Clean(turn)
  BY <1>4, <1>5, <1>1
<1>. QED BY <1>2, <1>3, <1>6, <1>7, <1>8 DEF TurnInv, Undisturbed

\* take_last_result, when the process is kept.
Takes ==
    /\ forwarder.at = "take" /\ forwarder' = NoForwarder /\ runner' = runner
    /\ UNCHANGED <<turn, cancelled, present, child, reader, asked, strays, acked>>
    /\ handle'.generation = handle.generation /\ handle'.owner = handle.owner
    /\ handle'.active = handle.active /\ handle'.slot = handle.slot
    /\ handle'.stdin = handle.stdin /\ handle'.closing = handle.closing
    /\ handle'.waiters = handle.waiters /\ handle'.last \in {handle.last, NoResult}
    /\ handle'.interrupted \in {0, handle.interrupted}
    /\ ~present => handle' = handle
    /\ \A t \in Ids : t # turn => returned'[t] = returned[t]
    /\ returned'[turn].kind # "refused"
    /\ \/ returned'[turn].of = 0 /\ returned'[turn].kind # "interrupted"
       \/ /\ present /\ returned'[turn].of = handle.last.of
          /\ returned'[turn].kind = "interrupted" => WasInterrupted

\* These steps return what the turn ended with.
LEMMA TakesSteps ==
    ASSUME TurnTypes, TurnInv, TakeNothing \/ TakeResult \/ StaleSession(FALSE)
    PROVE  Takes
<1>1. (forwarder.at # "idle" => turn \in Ids) /\ handle \in HandleTypes
  BY ClaudeAssumption DEF TurnInv, Alive, TurnTypes, Ids
<1>2. CASE TakeNothing
  <2>1. [kind |-> "error", of |-> 0] \in Returned
    BY DEF Returned
  <2>. QED BY <1>1, <1>2, <2>1, ReturnTypes
           DEF TakeNothing, FwdAt, Return, Takes, processVars, interruptVars
<1>3. CASE TakeResult
  <2>1. /\ handle' = [handle EXCEPT !.last = NoResult,
                                    !.interrupted = IF WasInterrupted THEN 0 ELSE @]
        /\ Return([kind |-> Kind(handle.last), of |-> handle.last.of])
        /\ UNCHANGED <<turn, runner, cancelled, present, child, reader, asked, strays, acked>>
        /\ forwarder.at = "take" /\ present /\ handle.last # NoResult
    BY <1>3 DEF TakeResult, FwdAt, processVars, interruptVars
  <2>2. handle.last.of \in Ids
    <3>1. handle.last.of \in 1 .. turn
      BY <2>1 DEF TurnInv, Numbers
    <3>2. turn \in 0 .. Turns
      BY DEF TurnTypes
    <3>. QED BY <3>1, <3>2, ClaudeAssumption DEF Ids
  <2>3. /\ Kind(handle.last) \in {"answer", "failure", "interrupted"}
        /\ Kind(handle.last) = "interrupted" => WasInterrupted
    BY DEF Kind
  <2>4. PICK r : r = [kind |-> Kind(handle.last), of |-> handle.last.of]
    OBVIOUS
  <2>5. r \in Returned /\ r.kind = Kind(handle.last) /\ r.of = handle.last.of
    BY <2>2, <2>3, <2>4 DEF Returned
  <2>6. /\ forwarder' = NoForwarder /\ returned'[turn] = r
        /\ \A t \in Ids : t # turn => returned'[t] = returned[t]
    BY <1>1, <2>1, <2>4, <2>5, ReturnTypes DEF Return
  <2>7. /\ handle'.generation = handle.generation /\ handle'.owner = handle.owner
        /\ handle'.active = handle.active /\ handle'.slot = handle.slot
        /\ handle'.stdin = handle.stdin /\ handle'.closing = handle.closing
        /\ handle'.waiters = handle.waiters /\ handle'.last = NoResult
        /\ handle'.interrupted \in {0, handle.interrupted}
    BY <1>1, <2>1 DEF HandleTypes
  <2>. QED BY <2>1, <2>3, <2>5, <2>6, <2>7 DEF Takes
<1>4. CASE StaleSession(FALSE)
  <2>1. PICK i : i = IF handle.last # NoResult /\ WasInterrupted THEN 0 ELSE handle.interrupted
    OBVIOUS
  <2>2. /\ handle' = [handle EXCEPT !.hint = FALSE, !.last = NoResult, !.interrupted = i]
        /\ Return([kind |-> "stale", of |-> 0])
        /\ UNCHANGED <<turn, runner, cancelled, present, child, reader, asked, strays, acked>>
        /\ forwarder.at = "take" /\ present
    BY <1>4, <2>1 DEF StaleSession, FwdAt, interruptVars
  <2>3. [kind |-> "stale", of |-> 0] \in Returned
    BY DEF Returned
  <2>4. /\ handle'.generation = handle.generation /\ handle'.owner = handle.owner
        /\ handle'.active = handle.active /\ handle'.slot = handle.slot
        /\ handle'.stdin = handle.stdin /\ handle'.closing = handle.closing
        /\ handle'.waiters = handle.waiters /\ handle'.last = NoResult
        /\ handle'.interrupted \in {0, handle.interrupted}
    BY <1>1, <2>1, <2>2 DEF HandleTypes
  <2>. QED BY <1>1, <2>2, <2>3, <2>4, ReturnTypes DEF Return, Takes
<1>. QED BY <1>2, <1>3, <1>4

\* Taking the result keeps the invariant.
LEMMA TakesKeep == TurnTypes /\ TurnInv /\ Takes => TurnInv'
<1> SUFFICES ASSUME TurnTypes, TurnInv, Takes PROVE TurnInv'
  OBVIOUS
<1>1. turn \in Ids /\ turn \in Nat /\ runner # "idle"
  BY ClaudeAssumption DEF TurnInv, Alive, TurnTypes, Takes, Ids
<1>2. Numbers'
  <2>1. handle'.interrupted <= handle.generation
    <3>1. handle.interrupted <= handle.generation /\ 0 <= handle.generation
      BY Parts DEF TurnInv, Numbers
    <3>. QED BY <3>1 DEF Takes
  <2>2. handle'.last # NoResult => handle'.last.of \in 1 .. turn
    BY DEF TurnInv, Numbers, Takes
  <2>. QED BY <2>1, <2>2 DEF TurnInv, Takes, Numbers, Stdin, Todo, Out, Answer, Answering
<1>3. Alive'
  <2>1. \A t \in Ids : t > turn => returned'[t] = Nothing
    BY <1>1 DEF Takes, TurnInv, Alive, Ids
  <2>. QED BY <1>1, <2>1, NewFacts DEF TurnInv, Alive, Takes, NoWork, Moving
<1>4. Marked'
  <2>1. WasInterrupted /\ present => turn \in acked
    <3>1. present => handle.generation >= 1 /\ handle.owner[handle.generation] = turn
      BY DEF Takes, TurnInv, Alive, Moving
    <3>. QED BY <3>1, Parts DEF WasInterrupted, TurnInv, Marked
  <2>2. \A t \in Ids : returned'[t].kind = "interrupted" => t \in acked
    BY <2>1 DEF Takes, TurnInv, Marked
  <2>. QED BY <2>2 DEF Takes, TurnInv, Marked
<1>5. InOrder' /\ OldIsDone'
  BY DEF TurnInv, Undisturbed, InOrder, OldIsDone, Clean, Since, UpTo, Takes, NoForwarder, Stdin, Todo,
         User
<1>6. NotSpoiled'
  <2>1. Clean(turn) => returned'[turn].of \in {0, turn}
    BY DEF TurnInv, Undisturbed, Calm, Serves, Moving, Single, Takes
  <2>2. ASSUME NEW t \in Ids, Clean(t), Spoiled(t)' PROVE Spoiled(t)
    BY <2>1, <2>2 DEF Spoiled, Takes
  <2>. QED BY <2>2 DEF TurnInv, Undisturbed, NotSpoiled, Clean, Takes
<1>7. ASSUME Clean(turn) PROVE Calm'
  <2>1. Empty => Empty'
    BY DEF Takes, Empty, NoUser, NoWork, NoAnswer, Answering, User, Answer, Stdin, Out
  <2>2. Rests'
    BY <1>7, <2>1 DEF TurnInv, Undisturbed, Calm, Serves, Moving, Rests, Takes, NoForwarder
  <2>. QED BY <2>2 DEF Calm, Prepared, Registered, CutShort, Late, Serves, Moving, Takes, NoForwarder
<1>8. Clean(turn)' => Clean(turn)
  BY DEF Clean, Takes
<1>. QED BY <1>2, <1>3, <1>4, <1>5, <1>6, <1>7, <1>8 DEF TurnInv, Undisturbed

-----------------------------------------------------------------------------
(* begin_turn. *)

\* A new process, or one that Claude finished the earlier messages on.
LEMMA PrepareKeeps == TurnTypes /\ TurnInv /\ Prepare => TurnInv'
<1> SUFFICES ASSUME TurnTypes, TurnInv, Prepare PROVE TurnInv'
  OBVIOUS
<1>1. /\ forwarder.at = "begin" /\ forwarder'.at = "register" /\ forwarder'.gen = forwarder.gen
      /\ present' = TRUE
      /\ UNCHANGED <<turn, runner, cancelled, returned, asked, strays, acked>>
  BY GoTypes DEF Prepare, FwdAt, runnerVars, interruptVars
<1>2. turn \in Nat /\ turn >= 1 /\ handle.generation < turn
  BY <1>1, Parts DEF TurnInv, Alive
<1>3. NotSpoiled' /\ (Clean(turn)' => Clean(turn))
  BY <1>1 DEF TurnInv, Undisturbed, NotSpoiled, Spoiled, Clean
<1>4. ASSUME Empty', handle'.last = NoResult PROVE Calm'
  BY <1>1, <1>4 DEF Calm, Rests, Prepared, Registered, CutShort, Late, Serves, Moving
<1>5. CASE present /\ ~handle.closing
  <2>1. /\ handle' = [handle EXCEPT !.last = NoResult] /\ UNCHANGED <<child, reader>>
        /\ handle \in HandleTypes
    BY <1>5 DEF Prepare, TurnTypes
  <2>2. /\ UNCHANGED <<child, reader>> /\ handle'.last = NoResult
        /\ handle'.generation = handle.generation /\ handle'.owner = handle.owner
        /\ handle'.active = handle.active /\ handle'.slot = handle.slot
        /\ handle'.stdin = handle.stdin /\ handle'.closing = handle.closing
        /\ handle'.waiters = handle.waiters /\ handle'.interrupted = handle.interrupted
    BY <2>1 DEF HandleTypes
  <2>3. Numbers'
    BY <1>1, <2>2 DEF TurnInv, Numbers, Stdin, Todo, Out, Answer, Answering
  <2>4. Alive'
    BY <1>1, <1>2, <2>2 DEF TurnInv, Alive, NoWork, Moving
  <2>5. Marked' /\ InOrder' /\ OldIsDone'
    BY <1>1, <2>2
       DEF TurnInv, Undisturbed, Marked, InOrder, OldIsDone, Clean, Since, UpTo, Stdin, Todo, User
  <2>6. ASSUME Clean(turn) PROVE Calm'
    <3>1. Empty
      BY <1>1, <1>5, <2>6 DEF TurnInv, Undisturbed, Calm, Rests
    <3>2. Empty'
      BY <2>2, <3>1 DEF Empty, NoUser, NoWork, NoAnswer, Answering, User, Answer, Stdin, Out
    <3>. QED BY <1>4, <2>2, <3>2
  <2>. QED BY <1>3, <2>3, <2>4, <2>5, <2>6 DEF TurnInv, Undisturbed
<1>6. CASE ~(present /\ ~handle.closing)
  <2>1. handle' = NewHandle /\ child' = NewChild /\ reader' = ReaderAt("read")
    BY <1>6 DEF Prepare, Spawned
  <2>2. Numbers' /\ OldIsDone' /\ InOrder' /\ Marked' /\ Empty' /\ handle'.last = NoResult
    BY <1>1, <2>1, NewKeeps DEF TurnInv, Undisturbed, Marked
  <2>3. ~handle'.closing /\ NoWork' /\ handle'.generation = 0
    BY <2>1, NewFacts DEF NoWork
  <2>4. Alive'
    BY <1>1, <1>2, <2>3 DEF TurnInv, Alive, Moving
  <2>. QED BY <1>3, <1>4, <2>2, <2>4 DEF TurnInv, Undisturbed
<1>. QED BY <1>5, <1>6

\* A number more.
LEMMA OneMore ==
    \A n \in Nat : /\ 1 .. n + 1 = (1 .. n) \union {n + 1}
                   /\ \A i \in 1 .. n : i < n + 1
  OBVIOUS

\* Every message and command is of a turn that began.
LEMMA NoneAhead ==
    ASSUME TurnTypes, Numbers
    PROVE  UpTo(turn) /\ \A i \in Stdin : handle.stdin[i].turn <= turn
<1>1. turn \in Nat
  BY Parts
<1>2. child.doing <= turn /\ (\A i \in Todo : child.todo[i] \in 1 .. turn)
      /\ \A i \in Stdin : handle.stdin[i].turn \in 1 .. turn
  BY DEF Numbers
<1>. QED BY <1>1, <1>2 DEF UpTo

\* The turn gets the next generation.
LEMMA RegisterKeeps == TurnTypes /\ TurnInv /\ Register => TurnInv'
<1> SUFFICES ASSUME TurnTypes, TurnInv, Register PROVE TurnInv'
  OBVIOUS
<1>1. PICK g, a : g = handle.generation + 1 /\ a = IF handle.active = 0 THEN g ELSE handle.active
  OBVIOUS
<1>2. /\ handle' = [handle EXCEPT !.generation = g, !.owner = Append(@, turn), !.active = a]
      /\ UNCHANGED <<turn, runner, cancelled, present, child, reader, asked, strays, acked>>
      /\ forwarder.at = "register"
      /\ \/ /\ handle.active = 0 /\ returned' = returned
            /\ forwarder' = [forwarder EXCEPT !.at = "send", !.gen = g]
         \/ handle.active # 0 /\ Return([kind |-> "refused", of |-> 0])
  BY <1>1 DEF Register, FwdAt, processVars, interruptVars
<1>3. /\ handle'.generation = g /\ handle'.owner = Append(handle.owner, turn)
      /\ handle'.active = a /\ handle'.slot = handle.slot /\ handle'.stdin = handle.stdin
      /\ handle'.closing = handle.closing /\ handle'.waiters = handle.waiters
      /\ handle'.interrupted = handle.interrupted /\ handle'.last = handle.last
  BY <1>2 DEF HandleTypes, TurnTypes
<1>4. /\ turn \in Nat /\ runner # "idle" /\ handle.generation < turn /\ g \in 1 .. turn
      /\ handle.generation < g /\ handle.generation \in Nat /\ handle.active \in Nat
      /\ present /\ turn \in Ids
  <2>1. turn \in Nat /\ handle.generation \in Nat /\ handle.active \in Nat
    BY Parts
  <2>2. runner # "idle" /\ handle.generation < turn /\ present
    BY <1>2 DEF TurnInv, Alive
  <2>3. turn \in Ids
    BY <2>1, <2>2, ClaudeAssumption DEF TurnTypes, Ids
  <2>. QED BY <1>1, <2>1, <2>2, <2>3
<1>5. /\ Len(handle'.owner) = g /\ handle'.owner[g] = turn
      /\ \A i \in 1 .. handle.generation : handle'.owner[i] = handle.owner[i]
      /\ 1 .. g = (1 .. handle.generation) \union {g}
  <2>1. PICK o : o = handle'.owner
    OBVIOUS
  <2>2. handle.owner \in Seq(Nat) /\ Len(handle.owner) = handle.generation
    BY Parts DEF TurnInv, Numbers
  <2>3. /\ Len(o) = g /\ o[g] = turn
        /\ \A i \in 1 .. handle.generation : o[i] = handle.owner[i]
    BY <1>1, <1>3, <1>4, <2>1, <2>2, Appended
  <2>. QED BY <1>1, <1>4, <2>1, <2>3, OneMore
<1>6. \/ /\ handle.active = 0 /\ a = g /\ returned' = returned
         /\ forwarder'.at = "send" /\ forwarder'.gen = g
      \/ /\ handle.active # 0 /\ a = handle.active /\ forwarder' = NoForwarder
         /\ returned'[turn] = [kind |-> "refused", of |-> 0]
         /\ \A t \in Ids : t # turn => returned'[t] = returned[t]
  <2>1. CASE handle.active = 0
    BY <1>1, <1>2, <2>1 DEF TurnTypes, ForwarderTypes
  <2>2. CASE handle.active # 0
    <3>1. [kind |-> "refused", of |-> 0] \in Returned
      BY DEF Returned
    <3>. QED BY <1>1, <1>2, <1>4, <2>2, <3>1, ReturnTypes DEF Return
  <2>. QED BY <2>1, <2>2
<1>7. a \in 1 .. g /\ (a = g \/ (a = handle.active /\ a \in 1 .. handle.generation))
  BY <1>1, <1>4 DEF TurnInv, Numbers
<1>8. Numbers'
  <2>1. /\ \A i \in 1 .. g : handle'.owner[i] \in 1 .. turn
        /\ \A w \in handle.waiters : w.gen \in 1 .. g
    BY <1>4, <1>5 DEF TurnInv, Numbers
  <2>2. handle.interrupted <= g /\ handle.slot.gen <= g /\ reader.gen <= g /\ a <= g /\ g <= turn
    <3>1. handle.interrupted <= handle.generation /\ handle.slot.gen <= handle.generation
          /\ reader.gen <= handle.generation
      BY DEF TurnInv, Numbers
    <3>2. handle.interrupted \in Nat /\ handle.slot.gen \in Nat /\ reader.gen \in Nat
      BY Parts
    <3>. QED BY <1>4, <1>7, <3>1, <3>2
  <2>. QED BY <1>2, <1>3, <1>5, <2>1, <2>2
           DEF TurnInv, Numbers, Stdin, Todo, Out, Answer, Answering
<1>9. Alive'
  <2>1. \A t \in Ids : t > turn => returned'[t] = Nothing
    BY <1>4, <1>6 DEF TurnInv, Alive, Ids
  <2>2. forwarder'.at \in {"send", "idle"} /\ forwarder'.gen <= turn
        /\ (forwarder'.at = "send" => forwarder'.gen = g /\ returned'[turn] = Nothing)
    BY <1>2, <1>4, <1>6, NewFacts DEF TurnInv, Alive
  <2>. QED BY <1>2, <1>3, <1>4, <1>5, <2>1, <2>2 DEF TurnInv, Alive, NoWork, Moving
<1>10. Marked'
  <2>1. handle.interrupted # 0 => handle.interrupted \in 1 .. handle.generation
    BY Parts DEF TurnInv, Numbers
  <2>. QED BY <1>2, <1>3, <1>5, <1>6, <2>1 DEF TurnInv, Marked
<1>11. InOrder'
  <2>1. UpTo(turn) /\ \A i \in Stdin : handle.stdin[i].turn <= turn
    BY NoneAhead DEF TurnInv
  <2>2. /\ UpTo(handle'.owner[a])
        /\ \A i \in Stdin : handle.stdin[i].turn <= handle'.owner[a]
    <3>1. CASE a = g
      BY <1>5, <2>1, <3>1
    <3>2. CASE a = handle.active /\ a \in 1 .. handle.generation
      BY <1>5, <3>2 DEF TurnInv, InOrder
    <3>. QED BY <1>7, <3>1, <3>2
  <2>3. UNCHANGED <<Stdin, Todo, child, handle.stdin>>
    BY <1>2, <1>3 DEF Stdin, Todo
  <2>4. forwarder'.at = "send" => a = g
    BY <1>6, NewFacts
  <2>5. UpTo(handle.owner[handle.active])'
    BY <1>3, <2>2, <2>3 DEF UpTo
  <2>6. \A i \in Stdin' : UpTo(handle.stdin[i].turn)'
    BY <1>3, <2>3 DEF UpTo, TurnInv, InOrder
  <2>. QED BY <1>2, <1>3, <2>2, <2>3, <2>4, <2>5, <2>6 DEF TurnInv, InOrder
<1>12. OldIsDone'
  BY <1>2, <1>3 DEF TurnInv, Undisturbed, OldIsDone, Clean, Since, Stdin, Todo, User
<1>13. Clean(turn) => Empty /\ handle.last = NoResult
  BY <1>2 DEF TurnInv, Undisturbed, Calm, Prepared
<1>14. NotSpoiled'
  <2>1. ASSUME NEW t \in Ids, Clean(t), Spoiled(t)' PROVE Spoiled(t)
    BY <1>2, <1>6, <1>13, <2>1 DEF Spoiled, Empty
  <2>. QED BY <1>2, <2>1 DEF TurnInv, Undisturbed, NotSpoiled, Clean
<1>15. ASSUME Clean(turn) PROVE Calm'
  <2>1. /\ NoUser' /\ NoWork' /\ NoAnswer' /\ ~Answering' /\ forwarder'.at = "send"
    BY <1>2, <1>3, <1>6, <1>13, <1>15
       DEF Empty, NoUser, NoWork, NoAnswer, Answering, User, Answer, Stdin, Out
  <2>. QED BY <1>3, <1>6, <1>13, <1>15, <2>1
           DEF Calm, Rests, Prepared, Registered, CutShort, Late, Serves, Moving, Empty
<1>16. Clean(turn)' => Clean(turn)
  BY <1>2 DEF Clean
<1>. QED BY <1>8, <1>9, <1>10, <1>11, <1>12, <1>14, <1>15, <1>16 DEF TurnInv, Undisturbed

\* A command is written behind those that are on their way.
LEMMA StdinGrows ==
    ASSUME TurnTypes, NEW c \in Commands, handle'.stdin = Append(handle.stdin, c)
    PROVE  /\ Len(handle.stdin) \in Nat /\ Stdin' = Stdin \union {Len(handle.stdin) + 1}
           /\ \A i \in Stdin : handle'.stdin[i] = handle.stdin[i] /\ i < Len(handle.stdin) + 1
           /\ handle'.stdin[Len(handle.stdin) + 1] = c
           /\ \A i \in Stdin : (User(i)' <=> User(i))
<1>1. PICK s : s = handle'.stdin
  OBVIOUS
<1>2. /\ Len(handle.stdin) \in Nat /\ Len(s) = Len(handle.stdin) + 1
      /\ \A i \in 1 .. Len(handle.stdin) : s[i] = handle.stdin[i]
      /\ s[Len(handle.stdin) + 1] = c
  <2>1. handle.stdin \in Seq(Commands)
    BY Parts
  <2>. QED BY <1>1, <2>1, Appended
<1>3. Stdin' = 1 .. Len(s) /\ Stdin = 1 .. Len(handle.stdin)
  BY <1>1 DEF Stdin
<1>4. /\ Stdin' = Stdin \union {Len(handle.stdin) + 1}
      /\ \A i \in Stdin : handle'.stdin[i] = handle.stdin[i] /\ i < Len(handle.stdin) + 1
  BY <1>1, <1>2, <1>3, OneMore
<1>5. handle'.stdin[Len(handle.stdin) + 1] = c
  BY <1>1, <1>2
<1>. QED BY <1>2, <1>4, <1>5 DEF User

LEMMA SendKeeps == TurnTypes /\ TurnInv /\ SendMessage => TurnInv'
<1> SUFFICES ASSUME TurnTypes, TurnInv, SendMessage PROVE TurnInv'
  OBVIOUS
<1>1. PICK c : c = [cmd |-> "user", turn |-> turn, id |-> 0]
  OBVIOUS
<1>2. /\ handle' = [handle EXCEPT !.slot = [gen |-> forwarder.gen, open |-> TRUE],
                                  !.stdin = Append(handle.stdin, c)]
      /\ UNCHANGED <<turn, runner, cancelled, returned, present, child, reader, asked, strays,
                     acked>>
      /\ forwarder.at = "send" /\ forwarder'.at = "forward" /\ forwarder'.gen = forwarder.gen
  BY <1>1, GoTypes
     DEF SendMessage, FwdAt, Write, Moving, runnerVars, processVars, interruptVars
<1>3. /\ handle'.generation = handle.generation /\ handle'.owner = handle.owner
      /\ handle'.active = handle.active /\ handle'.closing = handle.closing
      /\ handle'.slot.gen = handle.generation /\ handle'.slot.open = TRUE
      /\ handle'.waiters = handle.waiters /\ handle'.interrupted = handle.interrupted
      /\ handle'.last = handle.last /\ handle'.stdin = Append(handle.stdin, c)
  <2>1. forwarder.gen = handle.generation
    BY <1>2 DEF TurnInv, Alive
  <2>. QED BY <1>2, <2>1 DEF HandleTypes, TurnTypes
<1>4. turn \in Nat /\ turn >= 1 /\ c.turn = turn /\ c \in Commands /\ c.cmd = "user" /\ c.id = 0
  BY <1>1, <1>2, Parts DEF TurnInv, Alive, Commands
<1>5. /\ Stdin' = Stdin \union {Len(handle.stdin) + 1} /\ Len(handle.stdin) \in Nat
      /\ \A i \in Stdin : handle'.stdin[i] = handle.stdin[i] /\ i < Len(handle.stdin) + 1
      /\ handle'.stdin[Len(handle.stdin) + 1] = c
      /\ \A i \in Stdin : (User(i)' <=> User(i))
  BY <1>3, <1>4, StdinGrows
<1>6. Numbers'
  <2>1. \A i \in Stdin' : handle'.stdin[i].turn \in 1 .. turn /\ handle'.stdin[i].id <= asked
    <3>1. turn \in 1 .. turn /\ 0 <= asked
      BY <1>4, Parts
    <3>. QED BY <1>4, <1>5, <3>1 DEF TurnInv, Numbers
  <2>2. handle.generation <= handle.generation
    BY Parts
  <2>. QED BY <1>2, <1>3, <2>1, <2>2 DEF TurnInv, Numbers, Todo, Out, Answer, Answering
<1>7. Alive'
  BY <1>2, <1>3 DEF TurnInv, Alive, NoWork, Moving
<1>8. Marked' /\ NotSpoiled' /\ (Clean(turn)' => Clean(turn))
  BY <1>2, <1>3 DEF TurnInv, Undisturbed, Marked, NotSpoiled, Spoiled, Clean
<1>9. /\ UpTo(turn) /\ \A i \in Stdin : handle.stdin[i].turn <= turn
      /\ handle.active # 0 => handle.owner[handle.active] = turn
  <2>1. handle.active # 0 => handle.active = handle.generation
    BY <1>2 DEF TurnInv, InOrder
  <2>2. handle.owner[handle.generation] = turn
    BY <1>2 DEF TurnInv, Alive
  <2>. QED BY <2>1, <2>2, NoneAhead DEF TurnInv
<1>10. InOrder'
  <2>1. \A i, j \in Stdin' : i < j => handle'.stdin[i].turn <= handle'.stdin[j].turn
    <3>1. ASSUME NEW i \in Stdin', NEW j \in Stdin', i < j
          PROVE  i \in Stdin /\ (j \in Stdin \/ j = Len(handle.stdin) + 1)
      <4>1. Stdin \subseteq Int /\ \A k \in Stdin : k < Len(handle.stdin) + 1
        BY <1>5 DEF Stdin
      <4>2. /\ i \in Stdin \/ i = Len(handle.stdin) + 1
            /\ j \in Stdin \/ j = Len(handle.stdin) + 1
        BY <1>5
      <4>. QED BY <1>5, <3>1, <4>1, <4>2
    <3>2. \A i, j \in Stdin : i < j => handle.stdin[i].turn <= handle.stdin[j].turn
      BY DEF TurnInv, InOrder
    <3>. QED BY <1>4, <1>5, <1>9, <3>1, <3>2
  <2>2. \A i \in Stdin' : UpTo(handle'.stdin[i].turn)
    BY <1>4, <1>5, <1>9 DEF TurnInv, InOrder
  <2>3. \A i \in Stdin' : handle'.stdin[i].turn <= turn
    <3>1. turn <= turn
      BY <1>4
    <3>. QED BY <1>4, <1>5, <1>9, <3>1
  <2>4. \A t : UpTo(t) => UpTo(t)'
    BY <1>2 DEF UpTo, Todo
  <2>5. \A i \in Stdin' : UpTo(handle.stdin[i].turn)'
    BY <1>2, <2>2 DEF UpTo, Todo
  <2>6. handle.active # 0 => UpTo(handle.owner[handle.active])'
    BY <1>2, <1>3, <1>9 DEF UpTo, Todo
  <2>7. handle'.active # 0 =>
           /\ UpTo(handle.owner[handle.active])'
           /\ \A i \in Stdin' : handle'.stdin[i].turn <= handle'.owner[handle'.active]
    BY <1>3, <1>9, <2>3, <2>6
  <2>8. forwarder'.at # "send" /\ \A s \in strays' : s.hit < s.aim
    BY <1>2 DEF TurnInv, InOrder
  <2>. QED BY <2>1, <2>5, <2>7, <2>8 DEF InOrder
<1>11. OldIsDone'
  <2>1. SUFFICES ASSUME child.up, NEW b \in 1 .. turn, Clean(b) PROVE Since(b)'
    BY <1>2 DEF OldIsDone, Clean
  <2>2. Since(b) /\ b <= turn
    BY <1>4, <2>1 DEF TurnInv, Undisturbed, OldIsDone
  <2>3. \A i \in Stdin' : User(i)' => b <= handle'.stdin[i].turn
    BY <1>4, <1>5, <2>2 DEF Since
  <2>. QED BY <1>2, <2>2, <2>3 DEF Since, Todo
<1>12. ASSUME Clean(turn) PROVE Calm'
  <2>1. /\ NoUser /\ NoWork /\ NoAnswer /\ ~Answering /\ handle.last = NoResult
        /\ handle.active \in {0, handle.generation}
    BY <1>2, <1>12 DEF TurnInv, Undisturbed, Calm, Registered
  <2>2. NoWork' /\ NoAnswer' /\ ~Answering'
    BY <1>2, <2>1 DEF NoWork, NoAnswer, Answering, Answer, Out
  <2>3. \A i \in Stdin' : User(i)' =>
          /\ handle'.stdin[i].turn = turn
          /\ \A j \in Stdin' : User(j)' => i = j
    BY <1>4, <1>5, <2>1 DEF NoUser
  <2>4. Single'
    <3>1. /\ ~(reader'.at \in {"store", "close"}) /\ child'.doing = 0 /\ child'.todo = << >>
          /\ handle'.last.of = 0
      BY <1>2, <1>3, <2>1, <2>2, NewFacts DEF NoWork, Answering
    <3>. QED BY <1>2, <2>2, <2>3, <3>1 DEF Single, NoAnswer
  <2>5. forwarder.gen = handle.generation
    BY <1>2 DEF TurnInv, Alive
  <2>. QED BY <1>2, <1>3, <2>1, <2>4, <2>5
           DEF Calm, Rests, Prepared, Registered, CutShort, Late, Serves
<1>. QED BY <1>6, <1>7, <1>8, <1>10, <1>11, <1>12 DEF TurnInv, Undisturbed

\* The message cannot be written: the process is gone.
LEMMA SendFailsKeeps == TurnTypes /\ TurnInv /\ SendFails => TurnInv'
<1> SUFFICES ASSUME TurnTypes, TurnInv, SendFails PROVE TurnInv'
  OBVIOUS
<1>1. forwarder.at = "send" /\ forwarder.gen = handle.generation /\ turn \in Ids
      /\ turn \in Nat /\ runner # "idle" /\ handle \in HandleTypes /\ present
  BY ClaudeAssumption DEF SendFails, FwdAt, TurnInv, Alive, TurnTypes, Ids
<1>2. PICK a : a = IF handle.active = handle.generation THEN 0 ELSE handle.active
  OBVIOUS
<1>3. /\ handle' = [handle EXCEPT !.slot = [gen |-> handle.generation, open |-> FALSE],
                                  !.active = a]
      /\ UNCHANGED <<turn, runner, cancelled, present, child, reader, asked, strays, acked>>
      /\ Return([kind |-> "error", of |-> 0])
  BY <1>1, <1>2 DEF SendFails, processVars, interruptVars
<1>4. /\ handle'.generation = handle.generation /\ handle'.owner = handle.owner
      /\ handle'.active = a /\ handle'.closing = handle.closing
      /\ handle'.slot.gen = handle.generation /\ handle'.stdin = handle.stdin
      /\ handle'.waiters = handle.waiters /\ handle'.interrupted = handle.interrupted
      /\ handle'.last = handle.last
  BY <1>1, <1>3 DEF HandleTypes
<1>5. ReturnsError /\ forwarder' = NoForwarder /\ forwarder'.at = "idle" /\ forwarder'.gen = 0
  <2>1. [kind |-> "error", of |-> 0] \in Returned
    BY DEF Returned
  <2>. QED BY <1>1, <1>3, <2>1, ReturnTypes, NewFacts DEF Return, ReturnsError
<1>6. /\ NotSpoiled' /\ (\A t \in Ids : t > turn => returned'[t] = Nothing)
      /\ \A t \in Ids : returned'[t].kind = "interrupted" => t \in acked
  BY <1>3, <1>5, ErrorKeeps
<1>7. Numbers'
  <2>1. a <= handle.generation /\ handle.generation <= handle.generation
    BY <1>2, Parts DEF TurnInv, Numbers
  <2>. QED BY <1>3, <1>4, <2>1 DEF TurnInv, Numbers, Stdin, Todo, Out, Answer, Answering
<1>8. Alive'
  BY <1>1, <1>3, <1>4, <1>5, <1>6 DEF TurnInv, Alive, NoWork, Moving
<1>9. Marked'
  BY <1>3, <1>4, <1>6 DEF TurnInv, Marked
<1>10. InOrder' /\ OldIsDone'
  BY <1>2, <1>3, <1>4, <1>5
     DEF TurnInv, Undisturbed, InOrder, OldIsDone, Clean, Since, UpTo, Stdin, Todo, User
<1>11. ASSUME Clean(turn) PROVE Calm'
  <2>1. /\ NoUser /\ NoWork /\ NoAnswer /\ ~Answering
        /\ handle.active \in {0, handle.generation}
    BY <1>1, <1>11 DEF TurnInv, Undisturbed, Calm, Registered
  <2>2. Empty'
    BY <1>2, <1>3, <1>4, <2>1
       DEF Empty, NoUser, NoWork, NoAnswer, Answering, User, Answer, Stdin, Out
  <2>. QED BY <1>5, <2>2 DEF Calm, Rests, Prepared, Registered, CutShort, Late, Serves, Moving
<1>12. Clean(turn)' => Clean(turn)
  BY <1>3 DEF Clean
<1>. QED BY <1>6, <1>7, <1>8, <1>9, <1>10, <1>11, <1>12 DEF TurnInv, Undisturbed

\* interrupt, by either caller.
MayAsk ==
    \/ forwarder' = forwarder
    \/ /\ forwarder.at = "interrupt" /\ forwarder'.at = "asking"
       /\ forwarder'.gen = forwarder.gen

LEMMA AskKeeps ==
    ASSUME TurnTypes, TurnInv, NEW caller, Ask(caller), MayAsk,
           UNCHANGED <<turn, runner, cancelled, returned, present, child, reader, strays, acked>>
    PROVE  TurnInv'
<1>1. PICK id, c, w : /\ id = asked + 1
                      /\ c = [cmd |-> "interrupt", turn |-> handle.owner[handle.active], id |-> id]
                      /\ w = [id |-> id, gen |-> handle.active]
  OBVIOUS
<1>2. /\ handle' = [handle EXCEPT !.waiters = @ \union {w}, !.stdin = Append(handle.stdin, c)]
      /\ asked' = id /\ handle.active # 0 /\ present
  BY <1>1 DEF Ask, Write
<1>3. /\ handle'.generation = handle.generation /\ handle'.owner = handle.owner
      /\ handle'.active = handle.active /\ handle'.closing = handle.closing
      /\ handle'.slot = handle.slot /\ handle'.stdin = Append(handle.stdin, c)
      /\ handle'.waiters = handle.waiters \union {w}
      /\ handle'.interrupted = handle.interrupted /\ handle'.last = handle.last
  BY <1>2 DEF HandleTypes, TurnTypes
<1>4. /\ handle.active \in 1 .. handle.generation /\ handle.owner[handle.active] \in 1 .. turn
      /\ asked \in Nat /\ turn \in Nat
  <2>1. handle.active \in 1 .. handle.generation
    BY <1>2, Parts DEF TurnInv, Numbers
  <2>. QED BY <2>1, Parts DEF TurnInv, Numbers
<1>5. /\ c \in Commands /\ c.turn = handle.owner[handle.active] /\ c.cmd = "interrupt"
      /\ c.id = asked + 1 /\ w.id = asked + 1 /\ w.gen = handle.active
  BY <1>1, <1>4 DEF Commands
<1>6. /\ Stdin' = Stdin \union {Len(handle.stdin) + 1} /\ Len(handle.stdin) \in Nat
      /\ \A i \in Stdin : handle'.stdin[i] = handle.stdin[i] /\ i < Len(handle.stdin) + 1
      /\ handle'.stdin[Len(handle.stdin) + 1] = c
      /\ \A i \in Stdin : (User(i)' <=> User(i))
  BY <1>3, <1>5, StdinGrows
<1>7. \A i \in Stdin' : User(i)' => i \in Stdin /\ User(i)
  BY <1>5, <1>6 DEF User
<1>8. Numbers'
  <2>1. \A i \in Stdin' : handle'.stdin[i].turn \in 1 .. turn /\ handle'.stdin[i].id <= asked + 1
    <3>1. \A i \in Stdin : handle.stdin[i].id <= asked + 1
      <4>1. \A i \in Stdin : handle.stdin[i] \in Commands
        BY Parts, ElementOfSeq DEF Stdin
      <4>. QED BY <1>4, <4>1 DEF TurnInv, Numbers, Commands
    <3>2. asked + 1 <= asked + 1
      BY <1>4
    <3>. QED BY <1>4, <1>5, <1>6, <3>1, <3>2 DEF TurnInv, Numbers
  <2>2. \A v \in handle'.waiters : v.id \in 1 .. asked + 1 /\ v.gen \in 1 .. handle.generation
    <3>1. asked + 1 \in 1 .. asked + 1 /\ 1 .. asked \subseteq 1 .. asked + 1
      BY <1>4
    <3>. QED BY <1>3, <1>4, <1>5, <3>1 DEF TurnInv, Numbers
  <2>. QED BY <1>1, <1>2, <1>3, <2>1, <2>2 DEF TurnInv, Numbers, Todo, Out, Answer, Answering
<1>9. Alive'
  BY <1>2, <1>3 DEF TurnInv, Alive, MayAsk, NoWork, Moving
<1>10. Marked' /\ NotSpoiled' /\ (Clean(turn)' => Clean(turn))
  BY <1>3 DEF TurnInv, Undisturbed, Marked, NotSpoiled, Spoiled, Clean
<1>11. InOrder'
  <2>1. /\ UpTo(c.turn) /\ \A i \in Stdin : handle.stdin[i].turn <= c.turn
    BY <1>2, <1>5 DEF TurnInv, InOrder
  <2>2. \A i, j \in Stdin' : i < j => handle'.stdin[i].turn <= handle'.stdin[j].turn
    <3>1. ASSUME NEW i \in Stdin', NEW j \in Stdin', i < j
          PROVE  i \in Stdin /\ (j \in Stdin \/ j = Len(handle.stdin) + 1)
      BY <1>6, <3>1 DEF Stdin
    <3>. QED BY <1>6, <2>1, <3>1 DEF TurnInv, InOrder
  <2>3. \A i \in Stdin' : UpTo(handle'.stdin[i].turn)
    BY <1>6, <2>1 DEF TurnInv, InOrder
  <2>4. \A i \in Stdin' : UpTo(handle.stdin[i].turn)'
    BY <2>3 DEF UpTo, Todo
  <2>5. /\ UpTo(handle.owner[handle.active])'
        /\ \A i \in Stdin' : handle'.stdin[i].turn <= handle'.owner[handle'.active]
    <3>1. c.turn <= c.turn
      BY <1>4, <1>5
    <3>. QED BY <1>3, <1>5, <1>6, <2>1, <3>1 DEF UpTo, Todo
  <2>6. /\ forwarder'.at = "send" /\ handle'.active # 0 => handle'.active = handle'.generation
        /\ \A s \in strays' : s.hit < s.aim
    BY <1>3 DEF TurnInv, InOrder, MayAsk
  <2>. QED BY <2>2, <2>4, <2>5, <2>6 DEF InOrder
<1>12. OldIsDone'
  <2>1. SUFFICES ASSUME child.up, NEW b \in 1 .. turn, Clean(b) PROVE Since(b)'
    BY DEF OldIsDone, Clean
  <2>2. Since(b)
    BY <2>1 DEF TurnInv, Undisturbed, OldIsDone
  <2>3. \A i \in Stdin' : User(i)' => b <= handle'.stdin[i].turn
    BY <1>6, <1>7, <2>2 DEF Since
  <2>. QED BY <2>2, <2>3 DEF Since, Todo
<1>13. ASSUME Clean(turn), Calm PROVE Calm'
  <2>1. (NoUser => NoUser') /\ (NoWork => NoWork') /\ (NoAnswer => NoAnswer')
        /\ (Answering' <=> Answering)
    BY <1>7 DEF NoUser, NoWork, NoAnswer, Answering, Answer, Out
  <2>2. ~Empty /\ (Empty => Empty')
    BY <1>2 DEF Empty
  <2>3. Single => Single'
    <3>1. \A i \in Out' : Answer(i)' <=> Answer(i)
      BY DEF Out, Answer
    <3>2. ASSUME Single
          PROVE  \A i \in Stdin' : User(i)' =>
                    /\ handle'.stdin[i].turn = turn
                    /\ \A j \in Stdin' : User(j)' => i = j
      BY <1>6, <1>7, <3>2 DEF Single
    <3>. QED BY <1>3, <2>1, <3>1, <3>2 DEF Single, Out
  <2>4. Rests' /\ Prepared'
    BY <1>3, <1>13, <2>2 DEF Calm, Rests, Prepared, MayAsk
  <2>5. Registered'
    BY <1>3, <1>13, <2>1 DEF Calm, Registered, MayAsk
  <2>6. CutShort' /\ Serves'
    BY <1>3, <1>13, <2>2, <2>3 DEF Calm, CutShort, Serves, MayAsk, Late, Moving
  <2>. QED BY <2>4, <2>5, <2>6 DEF Calm
<1>. QED BY <1>8, <1>9, <1>10, <1>11, <1>12, <1>13 DEF TurnInv, Undisturbed

\* An interrupt keeps the invariant, whoever asks for it.
LEMMA InterruptKeeps == TurnTypes /\ TurnInv /\ (Interrupt \/ Steer) => TurnInv'
<1> SUFFICES ASSUME TurnTypes, TurnInv, Interrupt \/ Steer PROVE TurnInv'
  OBVIOUS
<1>1. CASE Interrupt
  <2>1. forwarder.at = "interrupt" /\ forwarder'.at = "asking" /\ forwarder'.gen = forwarder.gen
    BY <1>1, GoTypes DEF Interrupt, FwdAt, Moving
  <2>. QED BY <1>1, <2>1, AskKeeps
           DEF Interrupt, MayAsk, runnerVars, processVars
<1>2. CASE Steer
  BY <1>2, AskKeeps DEF Steer, MayAsk, runnerVars, turnVars, processVars
<1>. QED BY <1>1, <1>2

-----------------------------------------------------------------------------
(* Claude. *)

\* What Claude and the reader leave as it is.
HandleStays ==
    /\ handle'.generation = handle.generation /\ handle'.owner = handle.owner
    /\ handle'.active = handle.active /\ handle'.interrupted = handle.interrupted
    /\ handle'.slot = handle.slot /\ handle'.last = handle.last
TurnStays == UNCHANGED <<turn, runner, cancelled, returned, forwarder, present, asked>>

\* What such a step keeps at once.
LEMMA StaysKeep ==
    ASSUME TurnTypes, TurnInv, TurnStays,
           handle'.generation = handle.generation, handle'.owner = handle.owner
    PROVE  /\ Clean(turn)' => Clean(turn)
           /\ \A b : Clean(b)' <=> Clean(b)
           /\ present /\ (handle'.closing => ~child'.up) /\ (~child'.up => NoWork') => Alive'
           /\ handle'.interrupted = handle.interrupted /\ acked' = acked => Marked'
           /\ strays' = strays => NotSpoiled'
           /\ child.up => present
<1>1. UNCHANGED <<turn, runner, cancelled, returned, forwarder, present, asked>>
  BY DEF TurnStays
<1>2. (Clean(turn)' => Clean(turn)) /\ \A b : Clean(b)' <=> Clean(b)
  BY <1>1 DEF Clean
<1>3. present /\ (handle'.closing => ~child'.up) /\ (~child'.up => NoWork') => Alive'
  BY <1>1 DEF TurnInv, Alive
<1>4. handle'.interrupted = handle.interrupted /\ acked' = acked => Marked'
  BY <1>1 DEF TurnInv, Marked
<1>5. strays' = strays => NotSpoiled'
  BY <1>1 DEF TurnInv, Undisturbed, NotSpoiled, Spoiled, Clean
<1>6. child.up => present
  BY NewFacts DEF TurnInv, Alive
<1>. QED BY <1>2, <1>3, <1>4, <1>5, <1>6

\* A command is read.
LEMMA StdinShrinks ==
    ASSUME TurnTypes, handle.stdin # << >>, handle'.stdin = Tail(handle.stdin)
    PROVE  /\ 1 \in Stdin /\ Head(handle.stdin) = handle.stdin[1]
           /\ Head(handle.stdin) \in Commands
           /\ \A i \in Stdin' : /\ i + 1 \in Stdin /\ 1 < i + 1 /\ i \in Nat
                                /\ handle'.stdin[i] = handle.stdin[i + 1]
                                /\ User(i)' <=> User(i + 1)
<1>1. PICK s : s = handle'.stdin
  OBVIOUS
<1>2. /\ Len(handle.stdin) \in Nat \ {0} /\ Len(s) = Len(handle.stdin) - 1
      /\ Head(handle.stdin) = handle.stdin[1] /\ Head(handle.stdin) \in Commands
      /\ \A i \in 1 .. Len(s) : s[i] = handle.stdin[i + 1]
  <2>1. handle.stdin \in Seq(Commands)
    BY Parts
  <2>. QED BY <1>1, <2>1, Removed
<1>3. Stdin' = 1 .. Len(s) /\ Stdin = 1 .. Len(handle.stdin)
  BY <1>1 DEF Stdin
<1>4. \A i \in Stdin' : /\ i + 1 \in Stdin /\ 1 < i + 1 /\ i \in Nat
                        /\ handle'.stdin[i] = handle.stdin[i + 1]
  BY <1>1, <1>2, <1>3
<1>5. 1 \in Stdin
  BY <1>2, <1>3
<1>. QED BY <1>2, <1>4, <1>5 DEF User

\* A line is written.
LEMMA OutGrows ==
    ASSUME TurnTypes, NEW line \in Lines, child'.out = Emit(line)
    PROVE  /\ Out' = Out \union {Len(child.out) + 1} /\ Len(child.out) \in Nat
           /\ \A i \in Out : child'.out[i] = child.out[i] /\ (Answer(i)' <=> Answer(i))
           /\ child'.out[Len(child.out) + 1] = line
           /\ line.type # "result" => \A i \in Out' : Answer(i)' => i \in Out /\ Answer(i)
<1>1. PICK s : s = child'.out
  OBVIOUS
<1>2. /\ Len(child.out) \in Nat /\ Len(s) = Len(child.out) + 1
      /\ \A i \in 1 .. Len(child.out) : s[i] = child.out[i]
      /\ s[Len(child.out) + 1] = line
  <2>1. child.out \in Seq(Lines) /\ s = child.out \o <<line>>
    BY <1>1, Parts DEF Emit
  <2>. QED BY <2>1, Appended
<1>3. Out' = 1 .. Len(s) /\ Out = 1 .. Len(child.out)
  BY <1>1 DEF Out
<1>4. /\ Out' = Out \union {Len(child.out) + 1}
      /\ \A i \in Out : child'.out[i] = child.out[i]
      /\ child'.out[Len(child.out) + 1] = line
  BY <1>1, <1>2, <1>3, OneMore
<1>5. \A i \in Out : Answer(i)' <=> Answer(i)
  BY <1>4 DEF Answer
<1>6. line.type # "result" => \A i \in Out' : Answer(i)' => i \in Out /\ Answer(i)
  BY <1>4, <1>5 DEF Answer
<1>. QED BY <1>2, <1>4, <1>5, <1>6

\* A step in which no message moves and no line is read keeps what is Calm.
MessagesStay ==
    /\ \E read \in {0, 1} : \A i \in Stdin' : User(i)' =>
          i + read \in Stdin /\ User(i + read) /\ handle'.stdin[i] = handle.stdin[i + read]
    /\ \E read \in {0, 1} : \A i \in Out' : Answer(i)' =>
          i + read \in Out /\ Answer(i + read) /\ child'.out[i] = child.out[i + read]
    /\ child'.doing \in {0, child.doing} /\ child'.todo \in {<< >>, child.todo}
    /\ Answering' => reader' = reader
    /\ reader'.at \in {"store", "close"} => reader' = reader

\* Then what is calm stays so.
LEMMA CalmStays ==
    ASSUME TurnTypes, TurnInv, TurnStays, HandleStays, MessagesStay,
           ~handle.closing \/ handle'.closing
    PROVE  Calm => Calm'
<1>1. UNCHANGED <<turn, runner, cancelled, returned, forwarder, present, asked>>
  BY DEF TurnStays
<1>2. (NoUser => NoUser') /\ (NoWork => NoWork') /\ (NoAnswer => NoAnswer')
      /\ (Answering' => Answering /\ reader' = reader)
  BY DEF MessagesStay, NoUser, NoWork, NoAnswer, Answering
<1>3. Empty => Empty'
  BY <1>2 DEF Empty, HandleStays
<1>4. ASSUME Single PROVE Single'
  <2>5. Stdin' \subseteq Int /\ Out' \subseteq Int
    BY DEF Stdin, Out
  <2>1. \A i \in Stdin' : User(i)' =>
           /\ handle'.stdin[i].turn = turn
           /\ \A j \in Stdin' : User(j)' => i = j
    <3>1. PICK read \in {0, 1} : \A i \in Stdin' : User(i)' =>
             i + read \in Stdin /\ User(i + read) /\ handle'.stdin[i] = handle.stdin[i + read]
      BY DEF MessagesStay
    <3>2. \A i, j \in Int : i + read = j + read => i = j
      OBVIOUS
    <3>. QED BY <1>4, <2>5, <3>1, <3>2 DEF Single
  <2>2. \A i \in Out' : Answer(i)' =>
           /\ NoUser' /\ NoWork' /\ child'.out[i].n = turn
           /\ \A j \in Out' : Answer(j)' => i = j
    <3>1. PICK read \in {0, 1} : \A i \in Out' : Answer(i)' =>
             i + read \in Out /\ Answer(i + read) /\ child'.out[i] = child.out[i + read]
      BY DEF MessagesStay
    <3>2. \A i, j \in Int : i + read = j + read => i = j
      OBVIOUS
    <3>. QED BY <1>2, <1>4, <2>5, <3>1, <3>2 DEF Single
  <2>3. /\ Answering' =>
             /\ NoUser' /\ NoWork' /\ NoAnswer'
             /\ reader'.gen = handle'.generation /\ reader'.line.n = turn
        /\ reader'.at \in {"store", "close"} => handle'.active = 0
        /\ handle'.last.of \in {0, turn}
    BY <1>2, <1>4 DEF MessagesStay, HandleStays, Single
  <2>4. /\ child'.doing # 0 => NoUser' /\ child'.todo = << >> /\ child'.doing = turn
        /\ child'.todo # << >> => NoUser' /\ Len(child'.todo) = 1 /\ child'.todo[1] = turn
    BY <1>2, <1>4 DEF MessagesStay, Single
  <2>. QED BY <1>1, <2>1, <2>2, <2>3, <2>4 DEF Single
<1>5. Rests /\ Prepared => Rests' /\ Prepared'
  BY <1>1, <1>3 DEF Rests, Prepared, HandleStays
<1>6. Registered => Registered'
  BY <1>1, <1>2 DEF Registered, HandleStays
<1>7. CutShort /\ Serves => CutShort' /\ Serves'
  BY <1>1, <1>3, <1>4 DEF CutShort, Serves, HandleStays
<1>. QED BY <1>5, <1>6, <1>7 DEF Calm

\* What is on its way is only read, worked on and answered.
StdinStays == \E read \in {0, 1} : \A i \in Stdin' :
    i + read \in Stdin /\ handle'.stdin[i] = handle.stdin[i + read]
WorkStays ==
    /\ child'.doing \in {0, child.doing} \/ \E j \in Todo : child'.doing = child.todo[j]
    /\ \A i \in Todo' : \E j \in Todo : child'.todo[i] = child.todo[j]
OutStays == \A i \in Out' :
    \/ \E j \in Out : child'.out[i] = child.out[j]
    \/ child'.out[i].type \in {"event", "control"}
    \/ child'.out[i].n = child.doing /\ child.doing # 0 /\ Answer(i)'
LineStays ==
    /\ reader'.gen <= handle.generation
    /\ Answering' => reader'.line.n \in 1 .. turn

\* Then the numbers keep their ranges.
LEMMA NumbersStay ==
    ASSUME TurnTypes, TurnInv, TurnStays, HandleStays, StdinStays, WorkStays, OutStays, LineStays,
           handle'.waiters \subseteq handle.waiters, acked' = acked,
           strays' \subseteq [aim : 1 .. turn, hit : 1 .. turn]
    PROVE  Numbers'
<1>1. /\ UNCHANGED <<turn, asked, acked>> /\ turn \in Nat /\ child.doing \in Nat
      /\ handle.generation \in Nat
  BY Parts DEF TurnStays
<1>2. \A i \in Stdin' : handle'.stdin[i].turn \in 1 .. turn /\ handle'.stdin[i].id <= asked
  BY DEF StdinStays, TurnInv, Numbers
<1>3. (\A i \in Todo' : child'.todo[i] \in 1 .. turn) /\ child'.doing <= turn
  BY <1>1 DEF WorkStays, TurnInv, Numbers
<1>4. \A i \in Out' : /\ child'.out[i].type # "none"
                      /\ Answer(i)' => child'.out[i].n \in 1 .. turn
  <2>1. child.doing # 0 => child.doing \in 1 .. turn
    BY <1>1 DEF TurnInv, Numbers
  <2>. QED BY <2>1 DEF OutStays, TurnInv, Numbers, Answer
<1>. QED BY <1>1, <1>2, <1>3, <1>4 DEF TurnInv, Numbers, HandleStays, LineStays

\* And the commands keep their order.
LEMMA OrderStays ==
    ASSUME TurnTypes, TurnInv, TurnStays, HandleStays, StdinStays, WorkStays,
           child'.up => child.up, \A s \in strays' : s.hit < s.aim
    PROVE  InOrder' /\ OldIsDone'
<1>1. UNCHANGED <<turn, cancelled, forwarder>> /\ turn \in Nat /\ child.doing \in Nat
  BY Parts DEF TurnStays
<1>2. PICK read \in {0, 1} : \A i \in Stdin' :
         i + read \in Stdin /\ handle'.stdin[i] = handle.stdin[i + read]
  BY DEF StdinStays
<1>3. \A t \in Nat : UpTo(t) => child'.doing <= t /\ \A i \in Todo' : child'.todo[i] <= t
  BY DEF UpTo, WorkStays
<1>4. \A i \in Stdin : handle.stdin[i].turn \in Nat
  BY <1>1 DEF TurnInv, Numbers
<1>5. \A i \in Stdin' : UpTo(handle.stdin[i].turn)'
  <2>1. ASSUME NEW i \in Stdin'
        PROVE  /\ child'.doing <= handle'.stdin[i].turn
               /\ \A j \in Todo' : child'.todo[j] <= handle'.stdin[i].turn
    BY <1>2, <1>3, <1>4, <2>1 DEF TurnInv, InOrder
  <2>. QED BY <2>1 DEF UpTo
<1>6. \A i, j \in Stdin' : i < j => handle'.stdin[i].turn <= handle'.stdin[j].turn
  <2>1. Stdin' \subseteq Int
    BY DEF Stdin
  <2>2. \A i, j \in Int : i < j => i + read < j + read
    OBVIOUS
  <2>. QED BY <1>2, <2>1, <2>2 DEF TurnInv, InOrder
<1>7. handle'.active # 0 =>
         /\ UpTo(handle.owner[handle.active])'
         /\ \A i \in Stdin' : handle'.stdin[i].turn <= handle'.owner[handle'.active]
  <2>1. SUFFICES ASSUME handle.active # 0
        PROVE  /\ UpTo(handle.owner[handle.active])'
               /\ \A i \in Stdin' : handle'.stdin[i].turn <= handle.owner[handle.active]
    BY DEF HandleStays
  <2>2. handle.active \in 1 .. handle.generation
    BY <2>1, Parts DEF TurnInv, Numbers
  <2>3. handle.owner[handle.active] \in Nat
    BY <1>1, <2>2 DEF TurnInv, Numbers
  <2>4. /\ UpTo(handle.owner[handle.active])
        /\ \A i \in Stdin : handle.stdin[i].turn <= handle.owner[handle.active]
    BY <2>1 DEF TurnInv, InOrder
  <2>5. UpTo(handle.owner[handle.active])'
    BY <1>3, <2>3, <2>4 DEF UpTo, HandleStays
  <2>. QED BY <1>2, <2>4, <2>5
<1>8. InOrder'
  BY <1>1, <1>5, <1>6, <1>7 DEF InOrder, TurnInv, HandleStays
<1>9. OldIsDone'
  <2>1. SUFFICES ASSUME child.up, NEW b \in 1 .. turn, Clean(b) PROVE Since(b)'
    BY <1>1 DEF OldIsDone, Clean
  <2>2. Since(b)
    BY <2>1 DEF TurnInv, Undisturbed, OldIsDone
  <2>3. \A i \in Stdin' : User(i)' => b <= handle'.stdin[i].turn
    BY <1>2, <2>2 DEF Since, User
  <2>4. (child'.doing # 0 => b <= child'.doing) /\ \A i \in Todo' : b <= child'.todo[i]
    BY <2>2 DEF Since, WorkStays
  <2>. QED BY <2>3, <2>4 DEF Since
<1>. QED BY <1>8, <1>9

\* Stdin stays, or loses its first command.
LEMMA StdinSame == handle'.stdin = handle.stdin /\ TurnTypes => StdinStays
<1> SUFFICES ASSUME handle'.stdin = handle.stdin, TurnTypes PROVE StdinStays
  OBVIOUS
<1>1. \A i \in Stdin' : i + 0 \in Stdin /\ handle'.stdin[i] = handle.stdin[i + 0]
  BY DEF Stdin
<1>2. 0 \in {0, 1}
  OBVIOUS
<1>. QED BY <1>1, <1>2 DEF StdinStays

LEMMA StdinTail ==
    ASSUME TurnTypes, handle.stdin # << >>, handle'.stdin = Tail(handle.stdin)
    PROVE  StdinStays
<1>1. \A i \in Stdin' : i + 1 \in Stdin /\ handle'.stdin[i] = handle.stdin[i + 1]
  BY StdinShrinks
<1>. QED BY <1>1 DEF StdinStays

\* The steps in which no message moves: everything that is calm stays so.
Passing ==
    /\ TurnStays /\ HandleStays /\ StdinStays /\ LineStays
    /\ child'.doing \in {0, child.doing} /\ child'.todo \in {<< >>, child.todo}
    /\ \E read \in {0, 1} : \A i \in Out' :
          \/ i + read \in Out /\ child'.out[i] = child.out[i + read]
          \/ child'.out[i].type \in {"event", "control"}
    /\ Answering' => reader' = reader
    /\ reader'.at \in {"store", "close"} => reader' = reader
    /\ handle'.waiters \subseteq handle.waiters /\ acked' = acked
    /\ child'.up => child.up
    /\ ~handle.closing \/ handle'.closing
    /\ present /\ (handle'.closing => ~child'.up) /\ (~child'.up => NoWork')

\* Such a step keeps the invariant.
LEMMA PassingKeeps ==
    ASSUME TurnTypes, TurnInv, Passing,
           strays' \subseteq [aim : 1 .. turn, hit : 1 .. turn], \A s \in strays' : s.hit < s.aim,
           NotSpoiled'
    PROVE  TurnInv'
<1>1. TurnStays /\ HandleStays /\ StdinStays /\ LineStays /\ WorkStays /\ OutStays
      /\ (child'.up => child.up)
  <2>1. WorkStays
    <3>1. child'.todo = << >> => Todo' = {}
      BY EmptySequence DEF Todo
    <3>2. child'.todo = child.todo => Todo' = Todo
      BY DEF Todo
    <3>. QED BY <3>1, <3>2 DEF Passing, WorkStays
  <2>2. OutStays
    BY DEF Passing, OutStays
  <2>. QED BY <2>1, <2>2 DEF Passing
<1>3. Numbers' /\ InOrder' /\ OldIsDone'
  BY <1>1, NumbersStay, OrderStays DEF Passing
<1>4. Alive' /\ Marked' /\ (Clean(turn)' => Clean(turn))
  BY <1>1, StaysKeep DEF Passing, HandleStays
<1>5. MessagesStay
  <2>1. \E read \in {0, 1} : \A i \in Stdin' : User(i)' =>
          i + read \in Stdin /\ User(i + read) /\ handle'.stdin[i] = handle.stdin[i + read]
    BY <1>1 DEF StdinStays, User
  <2>2. \E read \in {0, 1} : \A i \in Out' : Answer(i)' =>
          i + read \in Out /\ Answer(i + read) /\ child'.out[i] = child.out[i + read]
    BY DEF Passing, Answer
  <2>. QED BY <2>1, <2>2 DEF Passing, MessagesStay
<1>6. Calm => Calm'
  BY <1>1, <1>5, CalmStays DEF Passing
<1>. QED BY <1>3, <1>4, <1>6 DEF TurnInv, Undisturbed

\* The line that the reader has is still of a turn that began.
LEMMA SameLine ==
    TurnTypes /\ TurnInv /\ reader' = reader /\ turn' = turn => LineStays
  BY DEF LineStays, TurnInv, Numbers, Answering

\* The output is only read, or grows by a line that is no result.
LEMMA OutQuiet ==
    ASSUME TurnTypes, NEW line \in Lines, line.type \in {"event", "control"},
           child'.out = Emit(line)
    PROVE  \E read \in {0, 1} : \A i \in Out' :
              \/ i + read \in Out /\ child'.out[i] = child.out[i + read]
              \/ child'.out[i].type \in {"event", "control"}
<1>1. /\ Out' = Out \union {Len(child.out) + 1}
      /\ \A i \in Out : child'.out[i] = child.out[i]
      /\ child'.out[Len(child.out) + 1] = line
  BY OutGrows
<1>2. \A i \in Out' : \/ i + 0 \in Out /\ child'.out[i] = child.out[i + 0]
                      \/ child'.out[i].type \in {"event", "control"}
  <2>1. \A i \in Out : i + 0 = i
    BY DEF Out
  <2>. QED BY <1>1, <2>1
<1>. QED BY <1>2

\* Or it stays, or is dropped.
LEMMA OutSame ==
    ASSUME child'.out = child.out \/ child'.out = << >>
    PROVE  \E read \in {0, 1} : \A i \in Out' :
              \/ i + read \in Out /\ child'.out[i] = child.out[i + read]
              \/ child'.out[i].type \in {"event", "control"}
<1>1. \A i \in Out' : i + 0 \in Out /\ child'.out[i] = child.out[i + 0]
  <2>1. child'.out = << >> => Out' = {}
    BY EmptySequence DEF Out
  <2>2. child'.out = child.out => Out' = Out /\ \A i \in Out : i + 0 = i
    BY DEF Out
  <2>. QED BY <2>1, <2>2
<1>. QED BY <1>1

\* No interrupt went astray in this step.
LEMMA StraysSame ==
    TurnInv /\ TurnStays /\ strays' = strays =>
       /\ strays' \subseteq [aim : 1 .. turn, hit : 1 .. turn]
       /\ \A s \in strays' : s.hit < s.aim
  BY DEF TurnInv, Numbers, InOrder

\* An event says nothing of the message.
LEMMA EmitEventKeeps == TurnTypes /\ TurnInv /\ EmitEvent => TurnInv'
<1> SUFFICES ASSUME TurnTypes, TurnInv, EmitEvent PROVE TurnInv'
  OBVIOUS
<1>1. /\ child' = [child EXCEPT !.emitted = @ + 1, !.out = Emit(EventLine)] /\ child.up
      /\ UNCHANGED <<turn, runner, cancelled, returned, forwarder, present, handle, reader,
                     asked, strays, acked>>
  BY DEF EmitEvent, runnerVars, turnVars, interruptVars
<1>2. /\ child'.up = child.up /\ child'.doing = child.doing /\ child'.todo = child.todo
      /\ child'.out = Emit(EventLine)
  BY <1>1 DEF TurnTypes, ChildTypes
<1>3. TurnStays /\ HandleStays /\ handle'.closing = handle.closing
  BY <1>1 DEF TurnStays, HandleStays
<1>4. EventLine \in Lines /\ EventLine.type = "event"
  BY DEF EventLine, Lines
<1>5. StdinStays /\ LineStays
  BY <1>1, StdinSame, SameLine
<1>6. present /\ ~handle.closing /\ NotSpoiled'
  BY <1>1, <1>3, StaysKeep DEF TurnInv, Alive
<1>7. Passing
  BY <1>1, <1>2, <1>3, <1>4, <1>5, <1>6, OutQuiet DEF Passing
<1>. QED BY <1>1, <1>3, <1>6, <1>7, StraysSame, PassingKeeps

\* The process exits, its exit is seen, or a line cannot be read.
LEMMA ExitKeeps ==
    ASSUME TurnTypes, TurnInv, (\E hint \in BOOLEAN : Exit(hint)) \/ Reap \/ ReadError
    PROVE  TurnInv'
<1>1. /\ UNCHANGED <<turn, runner, cancelled, returned, forwarder, present, asked, strays, acked>>
      /\ handle'.stdin = handle.stdin /\ HandleStays /\ TurnStays
      /\ handle'.waiters \subseteq handle.waiters
      /\ ~handle.closing \/ handle'.closing
      /\ \/ /\ child'.up = FALSE /\ child'.doing = 0 /\ child'.todo = << >>
            /\ child'.out = child.out \/ child'.out = << >>
            /\ reader' = reader \/ reader' = ReaderAt("gone")
            /\ child.up
         \/ /\ child' = child /\ reader' = reader /\ ~child.up /\ present
  <2>1. CASE \E hint \in BOOLEAN : Exit(hint)
    <3>1. PICK hint \in BOOLEAN : Exit(hint)
      BY <2>1
    <3>. QED BY <3>1 DEF Exit, TurnTypes, ChildTypes, HandleTypes, HandleStays, TurnStays,
                         runnerVars, turnVars, interruptVars
  <2>2. CASE Reap
    BY <2>2 DEF Reap, TurnTypes, HandleTypes, HandleStays, TurnStays,
                runnerVars, turnVars, interruptVars, processVars
  <2>3. CASE ReadError
    BY <2>3, NewFacts DEF ReadError, TurnTypes, HandleTypes, HandleStays, TurnStays,
                          runnerVars, turnVars, interruptVars
  <2>. QED BY <2>1, <2>2, <2>3
<1>2. StdinStays /\ NotSpoiled' /\ present
  BY <1>1, StdinSame, StaysKeep DEF HandleStays, TurnInv, Alive
<1>3. LineStays /\ (Answering' => reader' = reader)
      /\ (reader'.at \in {"store", "close"} => reader' = reader)
  <2>1. CASE reader' = reader
    BY <1>1, <2>1, SameLine
  <2>2. CASE reader' = ReaderAt("gone")
    <3>1. reader'.at = "gone" /\ reader'.gen = 0
      BY <2>2, NewFacts
    <3>. QED BY <3>1, Parts DEF Answering, LineStays
  <2>. QED BY <1>1, <2>1, <2>2
<1>4. ~child'.up /\ NoWork'
  BY <1>1 DEF NoWork, TurnInv, Alive
<1>5. /\ child'.doing \in {0, child.doing} /\ child'.todo \in {<< >>, child.todo}
      /\ child'.out = child.out \/ child'.out = << >>
  BY <1>1
<1>6. Passing
  BY <1>1, <1>2, <1>3, <1>4, <1>5, OutSame DEF Passing
<1>. QED BY <1>1, <1>2, <1>6, StraysSame, PassingKeeps

\* An interrupt is read after every message before its turn, and no later one.
LEMMA ReadInterruptKeeps ==
    ASSUME TurnTypes, TurnInv, NEW ok \in BOOLEAN, ReadInterrupt(ok) PROVE TurnInv'
<1>1. PICK c : c = Head(handle.stdin)
  OBVIOUS
<1>2. PICK line : line = ControlLine(c.id, ok)
  OBVIOUS
<1>3. /\ child.up /\ handle.stdin # << >> /\ c.cmd = "interrupt"
      /\ \E aborted : child' = [child EXCEPT !.out = Emit(line), !.aborted = aborted]
      /\ \/ strays' = strays
         \/ /\ child.doing # 0 /\ child.doing # c.turn
            /\ strays' = strays \union {[aim |-> c.turn, hit |-> child.doing]}
      /\ handle' = [handle EXCEPT !.stdin = Tail(@)]
      /\ UNCHANGED <<turn, runner, cancelled, returned, forwarder, present, reader, asked, acked>>
  BY <1>1, <1>2 DEF ReadInterrupt, runnerVars, turnVars
<1>4. /\ child'.up = child.up /\ child'.doing = child.doing /\ child'.todo = child.todo
      /\ child'.out = Emit(line)
  BY <1>3 DEF TurnTypes, ChildTypes
<1>5. /\ handle'.stdin = Tail(handle.stdin) /\ handle'.closing = handle.closing
      /\ handle'.waiters = handle.waiters /\ HandleStays /\ TurnStays
  BY <1>3 DEF TurnTypes, HandleTypes, HandleStays, TurnStays
<1>6. /\ 1 \in Stdin /\ c = handle.stdin[1] /\ c \in Commands /\ StdinStays
  BY <1>1, <1>3, <1>5, StdinShrinks, StdinTail
<1>7. line \in Lines /\ line.type = "control"
  BY <1>2, <1>6 DEF ControlLine, Lines, Commands
<1>8. child.doing \in Nat /\ turn \in Nat /\ c.turn \in 1 .. turn /\ child.doing <= c.turn
      /\ child.doing <= turn
  BY <1>6, Parts DEF TurnInv, Numbers, InOrder, UpTo
<1>9. child.doing # 0 /\ child.doing # c.turn => child.doing \in 1 .. turn /\ child.doing < c.turn
  BY <1>8
<1>10. strays' \subseteq [aim : 1 .. turn, hit : 1 .. turn] /\ \A s \in strays' : s.hit < s.aim
  BY <1>3, <1>8, <1>9 DEF TurnInv, Numbers, InOrder
<1>11. present /\ ~handle.closing
  BY <1>3, <1>5, StaysKeep DEF TurnInv, Alive
<1>12. NotSpoiled'
  <2>1. SUFFICES ASSUME NEW t \in Ids, Clean(t), NEW s \in strays', s.aim = t
                 PROVE  s \in strays
    BY <1>3 DEF NotSpoiled, Spoiled, Clean, TurnInv, Undisturbed
  <2>2. SUFFICES ASSUME s.aim = c.turn, child.doing # 0, child.doing # c.turn PROVE FALSE
    BY <1>3, <2>1
  <2>3. Since(c.turn)
    BY <1>3, <1>8, <2>1, <2>2 DEF TurnInv, Undisturbed, OldIsDone
  <2>. QED BY <1>8, <1>9, <2>2, <2>3 DEF Since
<1>13. Passing
  BY <1>3, <1>4, <1>5, <1>6, <1>7, <1>11, OutQuiet, SameLine DEF Passing
<1>. QED BY <1>10, <1>12, <1>13, PassingKeeps

\* While there is a message or a result of the turn, only its place changes.
LEMMA CalmBusy ==
    ASSUME TurnTypes, TurnInv, TurnStays, ~(NoUser /\ NoWork /\ NoAnswer /\ ~Answering),
           handle.closing => handle'.closing, handle'.generation = handle.generation,
           handle'.slot.gen = handle.slot.gen, handle'.active \in {0, handle.active},
           Single /\ handle.active \in {0, handle.generation} => Single' /\
               (~handle'.slot.open => ~handle.slot.open \/ Empty')
    PROVE  Calm => Calm'
<1>1. ~Empty /\ UNCHANGED <<turn, cancelled, forwarder, present>>
  BY DEF Empty, TurnStays
<1>2. Rests /\ Prepared /\ Registered => Rests' /\ Prepared' /\ Registered'
  BY <1>1 DEF Rests, Prepared, Registered
<1>3. CutShort /\ Serves => CutShort' /\ Serves'
  BY <1>1 DEF CutShort, Serves
<1>. QED BY <1>2, <1>3 DEF Calm

\* Such a step of Claude keeps the invariant.
LEMMA BusyKeeps ==
    ASSUME TurnTypes, TurnInv, TurnStays, HandleStays, reader' = reader, child.up,
           child'.up = child.up, handle'.closing = handle.closing,
           UNCHANGED <<asked, strays, acked>>, handle'.waiters = handle.waiters,
           ~NoUser \/ ~NoWork, Single => Single',
           Numbers', InOrder', OldIsDone'
    PROVE  TurnInv'
<1>1. /\ present /\ ~handle.closing
      /\ Alive' /\ Marked' /\ NotSpoiled' /\ (Clean(turn)' => Clean(turn))
  <2>1. present
    BY StaysKeep DEF HandleStays
  <2>2. ~handle.closing
    BY DEF TurnInv, Alive
  <2>. QED BY <2>1, <2>2, StaysKeep DEF HandleStays
<1>2. Calm => Calm'
  BY CalmBusy DEF HandleStays
<1>. QED BY <1>1, <1>2 DEF TurnInv, Undisturbed

\* A message that Claude begins is the only one.
LEMMA WorkKeeps == TurnTypes /\ TurnInv /\ Work => TurnInv'
<1> SUFFICES ASSUME TurnTypes, TurnInv, Work PROVE TurnInv'
  OBVIOUS
<1>1. PICK d, s : d = Head(child.todo) /\ s = Tail(child.todo)
  OBVIOUS
<1>2. /\ child' = [child EXCEPT !.doing = d, !.todo = s, !.aborted = FALSE, !.emitted = 0]
      /\ child.up /\ child.doing = 0 /\ child.todo # << >>
      /\ UNCHANGED <<turn, runner, cancelled, returned, forwarder, present, handle, reader,
                     asked, strays, acked>>
  BY <1>1 DEF Work, runnerVars, turnVars, interruptVars
<1>3. child'.up /\ child'.doing = d /\ child'.todo = s /\ child'.out = child.out
  BY <1>2 DEF TurnTypes, ChildTypes
<1>4. /\ Len(child.todo) \in Nat \ {0} /\ Len(s) = Len(child.todo) - 1 /\ d = child.todo[1]
      /\ s \in Seq(Nat) /\ \A i \in 1 .. Len(s) : s[i] = child.todo[i + 1]
  <2>1. child.todo \in Seq(Nat) /\ child.todo # << >>
    BY <1>2, Parts
  <2>. QED BY <1>1, <2>1, Removed
<1>5. TurnStays /\ HandleStays /\ StdinStays /\ LineStays /\ OutStays
  BY <1>2, <1>3, StdinSame, SameLine DEF TurnStays, HandleStays, OutStays, Out
<1>6. WorkStays
  <2>1. 1 \in Todo /\ \A i \in 1 .. Len(s) : i + 1 \in Todo
    BY <1>4 DEF Todo
  <2>2. Todo' = 1 .. Len(s)
    BY <1>3 DEF Todo
  <2>. QED BY <1>3, <1>4, <2>1, <2>2 DEF WorkStays
<1>7. Numbers' /\ InOrder' /\ OldIsDone'
  <2>1. strays' \subseteq [aim : 1 .. turn, hit : 1 .. turn] /\ \A t \in strays' : t.hit < t.aim
    BY <1>2, <1>5, StraysSame
  <2>. QED BY <1>2, <1>3, <1>5, <1>6, <2>1, NumbersStay, OrderStays
<1>8. ASSUME Single PROVE Single'
  <2>1. ~NoWork /\ NoUser /\ Len(child.todo) = 1 /\ d = turn
    BY <1>2, <1>4, <1>8 DEF NoWork, Single
  <2>2. NoAnswer /\ ~Answering
    BY <1>8, <2>1 DEF NoAnswer, Single
  <2>3. s = << >>
    BY <1>4, <2>1, EmptySeq
  <2>4. NoUser' /\ NoAnswer' /\ ~Answering'
    BY <1>2, <1>3, <2>1, <2>2 DEF NoUser, NoAnswer, Answering, User, Answer, Stdin, Out
  <2>5. /\ reader'.at \in {"store", "close"} => handle'.active = 0
        /\ handle'.last.of \in {0, turn}
    BY <1>2, <1>8 DEF Single
  <2>. QED BY <1>2, <1>3, <2>1, <2>3, <2>4, <2>5 DEF Single, NoUser, NoAnswer
<1>9. ~NoWork
  BY <1>2 DEF NoWork
<1>. QED BY <1>2, <1>3, <1>5, <1>7, <1>8, <1>9, BusyKeeps

\* The result of a message is about this message.
LEMMA EmitResultKeeps ==
    ASSUME TurnTypes, TurnInv, NEW good \in BOOLEAN, EmitResult(good) PROVE TurnInv'
<1>1. PICK line : line = ResultLine(child.doing, good)
  OBVIOUS
<1>2. /\ child' = [child EXCEPT !.doing = 0, !.aborted = FALSE, !.out = Emit(line)]
      /\ child.up /\ child.doing # 0
      /\ UNCHANGED <<turn, runner, cancelled, returned, forwarder, present, handle, reader,
                     asked, strays, acked>>
  BY <1>1 DEF EmitResult, runnerVars, turnVars, interruptVars
<1>3. child'.up /\ child'.doing = 0 /\ child'.todo = child.todo /\ child'.out = Emit(line)
  BY <1>2 DEF TurnTypes, ChildTypes
<1>4. line \in Lines /\ line.type = "result" /\ line.n = child.doing
  BY <1>1, Parts DEF ResultLine, Lines
<1>5. /\ Out' = Out \union {Len(child.out) + 1} /\ Len(child.out) \in Nat
      /\ \A i \in Out : child'.out[i] = child.out[i] /\ (Answer(i)' <=> Answer(i))
      /\ child'.out[Len(child.out) + 1] = line
  BY <1>3, <1>4, OutGrows
<1>6. TurnStays /\ HandleStays /\ StdinStays /\ LineStays
  BY <1>2, StdinSame, SameLine DEF TurnStays, HandleStays
<1>7. WorkStays /\ OutStays
  <2>1. WorkStays
    BY <1>3 DEF WorkStays, Todo
  <2>3. ASSUME NEW i \in Out'
        PROVE  \/ \E j \in Out : child'.out[i] = child.out[j]
               \/ child'.out[i].n = child.doing /\ child.doing # 0 /\ Answer(i)'
    <3>1. CASE i \in Out
      BY <1>5, <3>1
    <3>2. CASE i = Len(child.out) + 1
      BY <1>2, <1>4, <1>5, <3>2 DEF Answer
    <3>. QED BY <1>5, <3>1, <3>2
  <2>. QED BY <2>1, <2>3 DEF OutStays
<1>8. Numbers' /\ InOrder' /\ OldIsDone'
  <2>1. strays' \subseteq [aim : 1 .. turn, hit : 1 .. turn] /\ \A t \in strays' : t.hit < t.aim
    BY <1>2, <1>6, StraysSame
  <2>. QED BY <1>2, <1>3, <1>6, <1>7, <2>1, NumbersStay, OrderStays
<1>9. ASSUME Single PROVE Single'
  <2>1. ~NoWork /\ NoUser /\ child.todo = << >> /\ child.doing = turn
    BY <1>2, <1>9 DEF NoWork, Single
  <2>2. (\A i \in Out : ~Answer(i)) /\ ~Answering
    BY <1>9, <2>1 DEF Single
  <2>3. NoUser' /\ NoWork' /\ ~Answering'
    BY <1>2, <1>3, <2>1, <2>2 DEF NoUser, NoWork, Answering, User, Stdin
  <2>4. \A i \in Out' : Answer(i)' => i = Len(child.out) + 1 /\ child'.out[i].n = turn
    BY <1>4, <1>5, <2>1, <2>2
  <2>5. /\ reader'.at \in {"store", "close"} => handle'.active = 0
        /\ handle'.last.of \in {0, turn} /\ child'.doing = 0 /\ child'.todo = << >>
    BY <1>2, <1>3, <1>9, <2>1 DEF Single
  <2>. QED BY <1>2, <2>3, <2>4, <2>5 DEF Single, NoUser
<1>10. ~NoWork
  BY <1>2 DEF NoWork
<1>. QED BY <1>2, <1>3, <1>6, <1>8, <1>9, <1>10, BusyKeeps

\* A message that is read is the only one.
LEMMA ReadMessageKeeps == TurnTypes /\ TurnInv /\ ReadMessage => TurnInv'
<1> SUFFICES ASSUME TurnTypes, TurnInv, ReadMessage PROVE TurnInv'
  OBVIOUS
<1>1. PICK c : c = Head(handle.stdin)
  OBVIOUS
<1>2. /\ child.up /\ handle.stdin # << >> /\ c.cmd = "user"
      /\ child' = [child EXCEPT !.todo = Append(@, c.turn)]
      /\ handle' = [handle EXCEPT !.stdin = Tail(@)]
      /\ UNCHANGED <<turn, runner, cancelled, returned, forwarder, present, reader,
                     asked, strays, acked>>
  BY <1>1 DEF ReadMessage, runnerVars, turnVars, interruptVars
<1>3. /\ child'.up /\ child'.doing = child.doing /\ child'.todo = Append(child.todo, c.turn)
      /\ child'.out = child.out
  BY <1>2 DEF TurnTypes, ChildTypes
<1>4. /\ handle'.stdin = Tail(handle.stdin) /\ handle'.closing = handle.closing
      /\ handle'.waiters = handle.waiters /\ HandleStays /\ TurnStays
  BY <1>2 DEF TurnTypes, HandleTypes, HandleStays, TurnStays
<1>5. /\ 1 \in Stdin /\ c = handle.stdin[1] /\ c \in Commands /\ StdinStays
      /\ \A i \in Stdin' : /\ i + 1 \in Stdin /\ 1 < i + 1 /\ i \in Nat
                           /\ handle'.stdin[i] = handle.stdin[i + 1]
                           /\ User(i)' <=> User(i + 1)
  BY <1>1, <1>2, <1>4, StdinShrinks, StdinTail
<1>6. /\ c.turn \in 1 .. turn /\ c.turn \in Nat /\ UpTo(c.turn) /\ User(1) /\ turn \in Nat
      /\ \A i \in Stdin' : c.turn <= handle'.stdin[i].turn
  <2>1. c.turn \in 1 .. turn /\ turn \in Nat
    BY <1>5, Parts DEF TurnInv, Numbers
  <2>2. UpTo(c.turn) /\ \A i \in Stdin' : c.turn <= handle'.stdin[i].turn
    BY <1>5 DEF TurnInv, InOrder
  <2>3. User(1)
    BY <1>2, <1>5 DEF User
  <2>4. 1 .. turn \subseteq Nat
    OBVIOUS
  <2>. QED BY <2>1, <2>2, <2>3, <2>4
<1>7. /\ Todo' = Todo \union {Len(child.todo) + 1} /\ Len(child.todo) \in Nat
      /\ \A i \in Todo : child'.todo[i] = child.todo[i]
      /\ child'.todo[Len(child.todo) + 1] = c.turn
      /\ Len(child'.todo) = Len(child.todo) + 1
  <2>1. PICK s : s = child'.todo
    OBVIOUS
  <2>2. /\ Len(child.todo) \in Nat /\ Len(s) = Len(child.todo) + 1
        /\ \A i \in 1 .. Len(child.todo) : s[i] = child.todo[i]
        /\ s[Len(child.todo) + 1] = c.turn
    <3>1. child.todo \in Seq(Nat) /\ c.turn \in Nat /\ s = Append(child.todo, c.turn)
      BY <1>3, <1>6, <2>1, Parts
    <3>. QED BY <3>1, Appended
  <2>3. Todo' = 1 .. Len(s) /\ Todo = 1 .. Len(child.todo)
    BY <2>1 DEF Todo
  <2>. QED BY <2>1, <2>2, <2>3, OneMore
<1>8. /\ \A t : UpTo(t) /\ c.turn <= t => UpTo(t)'
  BY <1>3, <1>7 DEF UpTo
<1>9. LineStays /\ OutStays
  BY <1>2, <1>3, SameLine DEF OutStays, Out
<1>10. Numbers'
  <2>1. /\ handle'.generation = handle.generation /\ handle'.owner = handle.owner
        /\ handle'.active = handle.active /\ handle'.interrupted = handle.interrupted
        /\ handle'.slot = handle.slot /\ handle'.last = handle.last
    BY <1>4 DEF HandleStays
  <2>2. \A i \in Stdin' : handle'.stdin[i].turn \in 1 .. turn /\ handle'.stdin[i].id <= asked
    BY <1>5 DEF TurnInv, Numbers
  <2>3. \A i \in Todo' : child'.todo[i] \in 1 .. turn
    BY <1>6, <1>7 DEF TurnInv, Numbers
  <2>4. \A i \in Out' : /\ child'.out[i].type # "none"
                        /\ Answer(i)' => child'.out[i].n \in 1 .. turn
    BY <1>2, <1>3 DEF TurnInv, Numbers, Out, Answer
  <2>5. /\ reader'.gen <= handle'.generation
        /\ Answering' => reader'.line.n \in 1 .. turn
    BY <1>9, <2>1 DEF LineStays
  <2>. QED BY <1>2, <1>3, <1>4, <2>1, <2>2, <2>3, <2>4, <2>5 DEF TurnInv, Numbers
<1>11. InOrder'
  <2>1. \A i, j \in Stdin' : i < j => handle'.stdin[i].turn <= handle'.stdin[j].turn
    <3>1. \A i, j \in Nat : i < j => i + 1 < j + 1
      OBVIOUS
    <3>. QED BY <1>5, <3>1 DEF TurnInv, InOrder
  <2>2. \A i \in Stdin' : UpTo(handle'.stdin[i].turn)
    BY <1>5 DEF TurnInv, InOrder
  <2>3. \A i \in Stdin' : UpTo(handle.stdin[i].turn)'
    BY <1>3, <1>6, <1>7, <2>2 DEF UpTo
  <2>4. handle'.active # 0 =>
           /\ UpTo(handle.owner[handle.active])'
           /\ \A i \in Stdin' : handle'.stdin[i].turn <= handle'.owner[handle'.active]
    <3>1. SUFFICES ASSUME handle.active # 0
          PROVE  /\ UpTo(handle.owner[handle.active])'
                 /\ \A i \in Stdin' : handle'.stdin[i].turn <= handle.owner[handle.active]
      BY <1>4 DEF HandleStays
    <3>2. /\ UpTo(handle.owner[handle.active])
          /\ \A i \in Stdin : handle.stdin[i].turn <= handle.owner[handle.active]
      BY <3>1 DEF TurnInv, InOrder
    <3>3. UpTo(handle.owner[handle.active])'
      BY <1>3, <1>4, <1>5, <1>7, <3>2 DEF UpTo, HandleStays
    <3>. QED BY <1>5, <3>2, <3>3
  <2>. QED BY <1>2, <1>4, <2>1, <2>3, <2>4 DEF InOrder, TurnInv, HandleStays
<1>12. OldIsDone'
  <2>1. SUFFICES ASSUME NEW b \in 1 .. turn, Clean(b) PROVE Since(b)'
    BY <1>2 DEF OldIsDone, Clean
  <2>2. Since(b)
    BY <1>2, <2>1 DEF TurnInv, Undisturbed, OldIsDone
  <2>3. \A i \in Stdin' : User(i)' => b <= handle'.stdin[i].turn
    BY <1>5, <2>2 DEF Since
  <2>4. b <= c.turn
    BY <1>5, <1>6, <2>2 DEF Since
  <2>. QED BY <1>3, <1>7, <2>2, <2>3, <2>4 DEF Since
<1>13. ~NoUser
  BY <1>5, <1>6 DEF NoUser
<1>14. ASSUME Single PROVE Single'
  <2>1. c.turn = turn /\ \A j \in Stdin : User(j) => j = 1
    BY <1>5, <1>6, <1>14 DEF Single
  <2>2. child.doing = 0 /\ child.todo = << >> /\ NoAnswer /\ ~Answering
    BY <1>13, <1>14 DEF Single, NoAnswer
  <2>3. NoUser'
    BY <1>5, <2>1 DEF NoUser
  <2>4. Len(child.todo) = 0
    BY <2>2, EmptySequence
  <2>5. /\ NoAnswer' /\ ~Answering' /\ Len(child'.todo) = 1 /\ child'.todo[1] = turn
        /\ child'.doing = 0
    BY <1>2, <1>3, <1>7, <2>1, <2>2, <2>4 DEF NoAnswer, Answering, Answer, Out
  <2>6. /\ reader'.at \in {"store", "close"} => handle'.active = 0
        /\ handle'.last.of \in {0, turn}
    BY <1>2, <1>4, <1>14 DEF Single, HandleStays
  <2>. QED BY <1>2, <2>3, <2>5, <2>6 DEF Single, NoUser, NoAnswer
<1>. QED BY <1>2, <1>3, <1>4, <1>10, <1>11, <1>12, <1>13, <1>14, BusyKeeps

-----------------------------------------------------------------------------
(* The reader. *)

\* The end of an active generation, the mark, the result and the slot are all that
\* changes.
Reads ==
    /\ TurnStays /\ present /\ child' = child /\ strays' = strays
    /\ handle'.generation = handle.generation /\ handle'.owner = handle.owner
    /\ handle'.stdin = handle.stdin /\ handle'.slot.gen = handle.slot.gen
    /\ handle'.waiters \subseteq handle.waiters /\ handle'.active \in {0, handle.active}
    /\ handle.closing => handle'.closing
    /\ handle'.closing => ~child.up

\* Such a step keeps the invariant if it keeps what is calm.
LEMMA ReaderKeeps ==
    ASSUME TurnTypes, TurnInv, Reads, LineStays,
           handle'.last # NoResult => handle'.last.of \in 1 .. turn,
           acked \subseteq acked', acked' \subseteq 1 .. turn,
           handle'.interrupted <= handle.generation,
           handle'.interrupted # 0 => handle.owner[handle'.interrupted] \in acked',
           Calm => Calm'
    PROVE  TurnInv'
<1>1. /\ UNCHANGED <<turn, runner, cancelled, returned, forwarder, present, asked, child, strays>>
      /\ handle'.generation = handle.generation /\ handle'.owner = handle.owner
      /\ handle'.stdin = handle.stdin /\ handle'.slot.gen = handle.slot.gen /\ present
  BY DEF Reads, TurnStays
<1>2. Stdin' = Stdin /\ Todo' = Todo /\ Out' = Out /\ (\A i : User(i)' <=> User(i))
      /\ \A i : Answer(i)' <=> Answer(i)
  BY <1>1 DEF Stdin, Todo, Out, User, Answer
<1>3. Numbers'
  <2>1. handle'.active <= handle.generation
    BY Parts DEF Reads, TurnInv, Numbers
  <2>. QED BY <1>1, <1>2, <2>1 DEF Reads, LineStays, TurnInv, Numbers
<1>4. Alive' /\ NotSpoiled' /\ (Clean(turn)' => Clean(turn))
  BY <1>1, StaysKeep DEF Reads, NoWork, TurnInv, Alive
<1>5. Marked'
  BY <1>1 DEF TurnInv, Marked
<1>6. InOrder'
  BY <1>1, <1>2 DEF TurnInv, InOrder, UpTo, Reads
<1>7. OldIsDone'
  BY <1>1, <1>2 DEF TurnInv, Undisturbed, OldIsDone, Since, Clean
<1>. QED BY <1>3, <1>4, <1>5, <1>6, <1>7 DEF TurnInv, Undisturbed

\* A reader without a line has no result.
LEMMA ReadsNothing ==
    ASSUME TurnTypes, TurnInv, NEW place \in {"read", "gone"}, reader' = ReaderAt(place)
    PROVE  LineStays /\ ~Answering' /\ reader'.at \notin {"store", "close"}
<1>1. reader'.at = place /\ reader'.gen = 0
  BY NewFacts
<1>. QED BY <1>1, Parts DEF LineStays, Answering

\* A step that stores no result and reads none keeps what is calm.
LEMMA CalmReads ==
    ASSUME TurnTypes, TurnInv, Reads, ~Answering', handle'.last = handle.last,
           handle'.slot.open = handle.slot.open \/ handle'.closing
    PROVE  Calm => Calm'
<1>1. UNCHANGED <<turn, runner, cancelled, returned, forwarder, present, asked, child>>
  BY DEF Reads, TurnStays
<1>2. (NoUser' <=> NoUser) /\ (NoWork' <=> NoWork) /\ (NoAnswer' <=> NoAnswer)
      /\ (\A i : User(i)' <=> User(i)) /\ (\A i : Answer(i)' <=> Answer(i))
      /\ Stdin' = Stdin /\ Out' = Out /\ reader'.at \notin {"store", "close"}
  BY DEF Reads, NoUser, NoWork, NoAnswer, User, Answer, Stdin, Out, Answering
<1>3. Empty => Empty'
  BY <1>2 DEF Empty, Reads
<1>4. Single => Single'
  BY <1>1, <1>2 DEF Single, Reads
<1>5. Rests /\ Prepared => Rests' /\ Prepared'
  BY <1>1, <1>3 DEF Rests, Prepared, Reads
<1>6. Registered => Registered'
  BY <1>1, <1>2 DEF Registered, Reads
<1>7. CutShort /\ Serves => CutShort' /\ Serves'
  BY <1>1, <1>3, <1>4 DEF CutShort, Serves, Reads
<1>. QED BY <1>5, <1>6, <1>7 DEF Calm

\* An acknowledgement frees the active generation and marks it.
LEMMA ReadControlKeeps == TurnTypes /\ TurnInv /\ ReadControl => TurnInv'
<1> SUFFICES ASSUME TurnTypes, TurnInv, ReadControl PROVE TurnInv'
  OBVIOUS
<1>1. /\ UNCHANGED <<turn, runner, cancelled, returned, forwarder, present, asked, child, strays>>
      /\ reader' = ReaderAt("read") /\ reader.at = "control"
      /\ \/ handle' = handle /\ acked' = acked
         \/ \E w \in handle.waiters :
               LET freed == AcknowledgeInterrupt(w.gen, reader.line.good) IN
               /\ handle' = [freed EXCEPT !.waiters = @ \ {w}]
               /\ acked' = IF freed # handle THEN acked \union {handle.owner[w.gen]} ELSE acked
  BY DEF ReadControl, runnerVars, turnVars
<1>2. present
  BY <1>1, NewFacts DEF TurnInv, Alive
<1>3. /\ handle'.generation = handle.generation /\ handle'.owner = handle.owner
      /\ handle'.stdin = handle.stdin /\ handle'.slot = handle.slot
      /\ handle'.closing = handle.closing /\ handle'.last = handle.last
      /\ handle'.waiters \subseteq handle.waiters
      /\ \/ /\ handle'.active = handle.active /\ handle'.interrupted = handle.interrupted
            /\ acked' = acked
         \/ \E w \in handle.waiters :
               /\ handle'.active = 0 /\ handle'.interrupted = w.gen
               /\ acked' = acked \union {handle.owner[w.gen]}
  <2>1. CASE handle' = handle /\ acked' = acked
    BY <2>1
  <2>2. ASSUME NEW w \in handle.waiters,
               handle' = [AcknowledgeInterrupt(w.gen, reader.line.good) EXCEPT !.waiters = @ \ {w}],
               acked' = IF AcknowledgeInterrupt(w.gen, reader.line.good) # handle
                          THEN acked \union {handle.owner[w.gen]} ELSE acked
        PROVE  <1>3
    <3>1. w.gen \in 1 .. handle.generation /\ handle.active \in Nat /\ handle.generation \in Nat
      BY Parts DEF TurnInv, Numbers
    <3>2. CASE reader.line.good /\ handle.active = w.gen
      <4>1. PICK freed : freed = [handle EXCEPT !.active = 0, !.interrupted = w.gen]
        OBVIOUS
      <4>2. freed = AcknowledgeInterrupt(w.gen, reader.line.good)
        BY <3>2, <4>1 DEF AcknowledgeInterrupt
      <4>3. freed \in HandleTypes /\ freed.active = 0 /\ handle.active # 0
        <5>1. w.gen \in Nat /\ w.gen # 0
          BY <3>1
        <5>2. freed \in HandleTypes /\ freed.active = 0
          BY <4>1, <5>1 DEF TurnTypes, HandleTypes
        <5>. QED BY <3>2, <5>1, <5>2
      <4>4. /\ handle' = [freed EXCEPT !.waiters = @ \ {w}]
            /\ acked' = acked \union {handle.owner[w.gen]}
        BY <2>2, <4>2, <4>3
      <4>. QED BY <3>1, <4>1, <4>3, <4>4 DEF TurnTypes, HandleTypes
    <3>3. CASE ~(reader.line.good /\ handle.active = w.gen)
      <4>1. AcknowledgeInterrupt(w.gen, reader.line.good) = handle
        BY <3>3 DEF AcknowledgeInterrupt
      <4>2. handle' = [handle EXCEPT !.waiters = @ \ {w}] /\ acked' = acked
        BY <2>2, <4>1
      <4>. QED BY <4>2 DEF TurnTypes, HandleTypes
    <3>. QED BY <3>2, <3>3
  <2>. QED BY <1>1, <2>1, <2>2
<1>4. Reads
  BY <1>1, <1>2, <1>3 DEF Reads, TurnStays, TurnInv, Alive
<1>5. /\ acked \subseteq acked' /\ acked' \subseteq 1 .. turn
      /\ handle'.interrupted <= handle.generation
      /\ handle'.interrupted # 0 => handle.owner[handle'.interrupted] \in acked'
  <2>1. ASSUME NEW w \in handle.waiters
        PROVE  handle.owner[w.gen] \in 1 .. turn /\ w.gen <= handle.generation
    <3>1. w.gen \in 1 .. handle.generation /\ handle.generation \in Nat
      BY Parts DEF TurnInv, Numbers
    <3>. QED BY <3>1 DEF TurnInv, Numbers
  <2>. QED BY <1>3, <2>1 DEF TurnInv, Numbers, Marked
<1>6. LineStays /\ ~Answering'
  BY <1>1, ReadsNothing
<1>7. handle'.last # NoResult => handle'.last.of \in 1 .. turn
  BY <1>3 DEF TurnInv, Numbers
<1>. QED BY <1>3, <1>4, <1>5, <1>6, <1>7, ReaderKeeps, CalmReads

\* The end of a turn: its generation is freed, its result stored, its slot closed.
LEMMA EndsKeep ==
    ASSUME TurnTypes, TurnInv, FreeActive \/ StoreResult \/ CloseSlot PROVE TurnInv'
<1>1. /\ UNCHANGED <<turn, runner, cancelled, returned, forwarder, present, asked, child, strays,
                     acked>>
      /\ Answering
  BY DEF FreeActive, StoreResult, CloseSlot, Answering, runnerVars, turnVars, interruptVars
<1>2. /\ handle'.generation = handle.generation /\ handle'.owner = handle.owner
      /\ handle'.stdin = handle.stdin /\ handle'.slot.gen = handle.slot.gen
      /\ handle'.closing = handle.closing /\ handle'.waiters = handle.waiters
      /\ handle'.interrupted = handle.interrupted
      /\ \/ /\ reader.at = "result" /\ reader'.at = "store" /\ reader'.gen = reader.gen
            /\ handle'.last = handle.last
            /\ reader'.line = reader.line /\ handle'.slot = handle.slot
            /\ handle'.active = IF handle.active = reader.gen THEN 0 ELSE handle.active
         \/ /\ reader.at = "store" /\ reader'.at = "close" /\ reader'.gen = reader.gen
            /\ reader'.line = reader.line /\ handle'.slot = handle.slot
            /\ handle'.active = handle.active /\ handle'.last.of = reader.line.n
         \/ /\ reader.at = "close" /\ reader' = ReaderAt("read")
            /\ handle'.active = handle.active /\ handle'.last = handle.last
  <2>1. CASE FreeActive
    <3>1. PICK a : a = IF handle.active = reader.gen THEN 0 ELSE handle.active
      OBVIOUS
    <3>2. handle' = [handle EXCEPT !.active = a] /\ reader' = [reader EXCEPT !.at = "store"]
          /\ reader.at = "result"
      BY <2>1, <3>1 DEF FreeActive
    <3>. QED BY <3>1, <3>2 DEF TurnTypes, HandleTypes, ReaderTypes
  <2>2. CASE StoreResult
    <3>1. PICK l : l = [of |-> reader.line.n, success |-> reader.line.good]
      OBVIOUS
    <3>2. handle' = [handle EXCEPT !.last = l] /\ reader' = [reader EXCEPT !.at = "close"]
          /\ reader.at = "store"
      BY <2>2, <3>1 DEF StoreResult
    <3>. QED BY <3>1, <3>2 DEF TurnTypes, HandleTypes, ReaderTypes
  <2>3. CASE CloseSlot
    BY <2>3 DEF CloseSlot, TurnTypes, HandleTypes
  <2>. QED BY <2>1, <2>2, <2>3
<1>3. present
  BY <1>1, NewFacts DEF Answering, TurnInv, Alive
<1>4. Reads
  BY <1>1, <1>2, <1>3 DEF Reads, TurnStays, TurnInv, Alive
<1>5. LineStays
  <2>1. reader' = ReaderAt("read") => LineStays
    BY ReadsNothing
  <2>2. reader'.gen = reader.gen /\ reader'.line = reader.line => LineStays
    BY <1>1 DEF LineStays, TurnInv, Numbers
  <2>. QED BY <1>2, <2>1, <2>2
<1>6. handle'.last # NoResult => handle'.last.of \in 1 .. turn
  BY <1>1, <1>2 DEF TurnInv, Numbers
<1>7. ASSUME Single PROVE ~handle'.slot.open => ~handle.slot.open \/ Empty'
  <2>1. CASE reader.at = "close"
    <3>1. NoUser /\ NoWork /\ NoAnswer /\ handle.active = 0 /\ reader'.at = "read"
      BY <1>1, <1>2, <1>7, <2>1, NewFacts DEF Single
    <3>. QED BY <1>1, <1>2, <2>1, <3>1
         DEF Empty, NoUser, NoWork, NoAnswer, Answering, User, Answer, Stdin, Out
  <2>. QED BY <1>2, <2>1
<1>8. ASSUME Single, handle.active \in {0, handle.generation} PROVE Single'
  <2>1. /\ NoUser /\ NoWork /\ NoAnswer /\ reader.gen = handle.generation
        /\ reader.line.n = turn
    BY <1>1, <1>8 DEF Single
  <2>2. NoUser' /\ NoWork' /\ NoAnswer'
    BY <1>1, <1>2, <2>1 DEF NoUser, NoWork, NoAnswer, User, Answer, Stdin, Out
  <2>3. Answering' => reader'.gen = handle'.generation /\ reader'.line.n = turn
    BY <1>2, <2>1, NewFacts DEF Answering
  <2>4. reader'.at \in {"store", "close"} => handle'.active = 0
    BY <1>2, <1>8, <2>1, NewFacts DEF Single
  <2>5. handle'.last.of \in {0, turn}
    BY <1>2, <1>8, <2>1 DEF Single
  <2>. QED BY <1>1, <2>2, <2>3, <2>4, <2>5 DEF Single, NoUser, NoWork, NoAnswer
<1>9. Calm => Calm'
  <2>1. handle'.active \in {0, handle.active}
    BY <1>2
  <2>. QED BY <1>1, <1>2, <1>4, <1>7, <1>8, <2>1, CalmBusy DEF Reads
<1>10. /\ handle'.interrupted <= handle.generation
       /\ handle'.interrupted # 0 => handle.owner[handle'.interrupted] \in acked'
       /\ acked \subseteq acked' /\ acked' \subseteq 1 .. turn
  BY <1>1, <1>2 DEF TurnInv, Numbers, Marked
<1>. QED BY <1>4, <1>5, <1>6, <1>9, <1>10, ReaderKeeps

\* The reader stops only when the process is gone.
LEMMA QuitKeeps == ASSUME TurnTypes, TurnInv, ReadEnd \/ ReaderCancelled PROVE TurnInv'
<1>1. /\ UNCHANGED <<turn, runner, cancelled, returned, forwarder, present, asked, child, strays,
                     acked>>
      /\ reader.at = "read" /\ reader' = ReaderAt("gone") /\ ~child.up
      /\ handle'.generation = handle.generation /\ handle'.owner = handle.owner
      /\ handle'.stdin = handle.stdin /\ handle'.slot.gen = handle.slot.gen
      /\ handle'.closing = TRUE /\ handle'.waiters = {} /\ handle'.last = handle.last
      /\ handle'.active = handle.active /\ handle'.interrupted = handle.interrupted
  <2>1. PICK closed \in BOOLEAN : Quit(closed) /\ ~child.up
    BY DEF ReadEnd, ReaderCancelled, TurnInv, Alive
  <2>. QED BY <2>1 DEF Quit, TurnTypes, HandleTypes, runnerVars, turnVars, interruptVars
<1>2. present
  BY <1>1, NewFacts DEF TurnInv, Alive
<1>3. Reads
  BY <1>1, <1>2 DEF Reads, TurnStays
<1>4. LineStays /\ ~Answering'
  BY <1>1, ReadsNothing
<1>5. /\ handle'.interrupted <= handle.generation
      /\ handle'.interrupted # 0 => handle.owner[handle'.interrupted] \in acked'
      /\ acked \subseteq acked' /\ acked' \subseteq 1 .. turn
      /\ handle'.last # NoResult => handle'.last.of \in 1 .. turn
  BY <1>1 DEF TurnInv, Numbers, Marked
<1>6. Calm => Calm'
  BY <1>1, <1>3, <1>4, CalmReads
<1>. QED BY <1>3, <1>4, <1>5, <1>6, ReaderKeeps

\* A line is read.
LEMMA OutShrinks ==
    ASSUME TurnTypes, child.out # << >>, child'.out = Tail(child.out)
    PROVE  /\ 1 \in Out /\ Head(child.out) = child.out[1] /\ Head(child.out) \in Lines
           /\ \A i \in Out' : /\ i + 1 \in Out /\ 1 < i + 1
                              /\ child'.out[i] = child.out[i + 1]
                              /\ Answer(i)' <=> Answer(i + 1)
<1>1. PICK s : s = child'.out
  OBVIOUS
<1>2. /\ Len(child.out) \in Nat \ {0} /\ Len(s) = Len(child.out) - 1
      /\ Head(child.out) = child.out[1] /\ Head(child.out) \in Lines
      /\ \A i \in 1 .. Len(s) : s[i] = child.out[i + 1]
  <2>1. child.out \in Seq(Lines)
    BY Parts
  <2>. QED BY <1>1, <2>1, Removed
<1>3. Out' = 1 .. Len(s) /\ Out = 1 .. Len(child.out)
  BY <1>1 DEF Out
<1>4. \A i \in Out' : i + 1 \in Out /\ 1 < i + 1 /\ child'.out[i] = child.out[i + 1]
  BY <1>1, <1>2, <1>3
<1>5. 1 \in Out
  BY <1>2, <1>3
<1>. QED BY <1>2, <1>4, <1>5 DEF Answer

\* A result that is read is the only one, and nothing is left to answer.
LEMMA ReadLineKeeps == TurnTypes /\ TurnInv /\ ReadStdout => TurnInv'
<1> SUFFICES ASSUME TurnTypes, TurnInv, ReadStdout PROVE TurnInv'
  OBVIOUS
<1>1. PICK line : line = Head(child.out)
  OBVIOUS
<1>2. /\ reader.at = "read" /\ child.out # << >> /\ child' = [child EXCEPT !.out = Tail(@)]
      /\ reader' = IF line.type = "event"
                     THEN IF handle.slot.open
                            THEN [at |-> "push", line |-> line, gen |-> handle.slot.gen]
                            ELSE ReaderAt("read")
                     ELSE [at |-> line.type, line |-> line, gen |-> handle.generation]
      /\ UNCHANGED <<turn, runner, cancelled, returned, forwarder, present, handle,
                     asked, strays, acked>>
  BY <1>1 DEF ReadStdout, runnerVars, turnVars, interruptVars
<1>3. /\ child'.up = child.up /\ child'.doing = child.doing /\ child'.todo = child.todo
      /\ child'.out = Tail(child.out)
  BY <1>2 DEF TurnTypes, ChildTypes
<1>4. /\ 1 \in Out /\ line = child.out[1] /\ line \in Lines
      /\ \A i \in Out' : /\ i + 1 \in Out /\ 1 < i + 1
                         /\ child'.out[i] = child.out[i + 1]
                         /\ Answer(i)' <=> Answer(i + 1)
  BY <1>1, <1>2, <1>3, OutShrinks
<1>5. TurnStays /\ HandleStays /\ StdinStays
  BY <1>2, StdinSame DEF TurnStays, HandleStays
<1>6. line.type \in {"event", "result", "control"}
      /\ (line.type = "result" => line.n \in 1 .. turn)
  BY <1>4 DEF Lines, TurnInv, Numbers, Answer
<1>7. LineStays
  <2>1. handle.generation <= handle.generation /\ handle.slot.gen <= handle.generation
    BY Parts DEF TurnInv, Numbers
  <2>2. CASE reader' = ReaderAt("read")
    BY <2>2, ReadsNothing
  <2>3. CASE reader' # ReaderAt("read")
    BY <1>2, <1>6, <2>1, <2>3 DEF LineStays, Answering
  <2>. QED BY <2>2, <2>3
<1>8. present /\ NotSpoiled' /\ strays' = strays /\ ~Answering
  BY <1>2, <1>5, StaysKeep, NewFacts DEF TurnInv, Alive, HandleStays, Answering
<1>9. CASE line.type # "result"
  <2>1. ~Answering'
    BY <1>2, <1>6, <1>9, NewFacts DEF Answering
  <2>2. reader'.at \notin {"store", "close"}
    BY <2>1 DEF Answering
  <2>3. \E read \in {0, 1} : \A i \in Out' :
          \/ i + read \in Out /\ child'.out[i] = child.out[i + read]
          \/ child'.out[i].type \in {"event", "control"}
    BY <1>4
  <2>4. (handle'.closing => ~child'.up) /\ (~child'.up => NoWork')
    BY <1>2, <1>3 DEF TurnInv, Alive, NoWork
  <2>5. Passing
    BY <1>2, <1>3, <1>5, <1>7, <1>8, <2>1, <2>2, <2>3, <2>4 DEF Passing
  <2>. QED BY <1>5, <1>8, <2>5, StraysSame, PassingKeeps
<1>10. CASE line.type = "result"
  <2>1. reader'.at = "result" /\ reader'.line = line /\ reader'.gen = handle.generation
    BY <1>2, <1>10
  <2>2. Answer(1) /\ ~NoAnswer
    BY <1>4, <1>10 DEF Answer, NoAnswer
  <2>3. WorkStays /\ OutStays
    BY <1>3, <1>4 DEF WorkStays, OutStays, Todo
  <2>4. Numbers' /\ InOrder' /\ OldIsDone'
    <3>1. strays' \subseteq [aim : 1 .. turn, hit : 1 .. turn] /\ \A t \in strays' : t.hit < t.aim
      BY <1>5, <1>8, StraysSame
    <3>. QED BY <1>2, <1>3, <1>5, <1>7, <2>3, <3>1, NumbersStay, OrderStays
  <2>5. Alive' /\ Marked' /\ (Clean(turn)' => Clean(turn))
    <3>1. (handle'.closing => ~child'.up) /\ (~child'.up => NoWork')
      BY <1>2, <1>3 DEF TurnInv, Alive, NoWork
    <3>. QED BY <1>2, <1>5, <1>8, <3>1, StaysKeep DEF HandleStays
  <2>6. ASSUME Single PROVE Single'
    <3>1. NoUser /\ NoWork /\ line.n = turn /\ \A j \in Out : Answer(j) => j = 1
      BY <1>4, <2>2, <2>6 DEF Single
    <3>2. NoAnswer'
      BY <1>4, <3>1 DEF NoAnswer
    <3>3. NoUser' /\ NoWork'
      BY <1>2, <1>3, <3>1 DEF NoUser, NoWork, User, Stdin
    <3>4. handle'.last.of \in {0, turn}
      BY <1>2, <2>6 DEF Single
    <3>. QED BY <1>2, <2>1, <3>1, <3>2, <3>3, <3>4 DEF Single, NoUser, NoWork, NoAnswer
  <2>7. Calm => Calm'
    BY <1>2, <1>5, <2>2, <2>6, CalmBusy
  <2>. QED BY <1>8, <2>4, <2>5, <2>7 DEF TurnInv, Undisturbed
<1>. QED BY <1>9, <1>10

-----------------------------------------------------------------------------
(* The theorems. *)

\* The invariant holds at first.
LEMMA TurnInvInit == Init => TurnTypes /\ TurnInv
<1> SUFFICES ASSUME Init PROVE TurnInv
  BY TurnTypesInit
<1>1. /\ turn = 0 /\ runner = "idle" /\ cancelled = {} /\ present = FALSE
      /\ returned = [t \in Ids |-> Nothing] /\ forwarder = NoForwarder /\ handle = NewHandle
      /\ child = NoChild /\ reader = ReaderAt("gone") /\ strays = {} /\ acked = {} /\ asked = 0
  BY DEF Init
<1>2. /\ handle.generation = 0 /\ handle.active = 0 /\ handle.interrupted = 0
      /\ handle.slot.gen = 0 /\ handle.last = NoResult /\ NoResult.of = 0
      /\ handle.waiters = {} /\ Len(handle.owner) = 0 /\ handle.closing = FALSE
      /\ child.doing = 0 /\ child.todo = << >> /\ child.up = FALSE
      /\ reader.at = "gone" /\ reader.gen = 0 /\ forwarder.at = "idle" /\ forwarder.gen = 0
      /\ Stdin = {} /\ Todo = {} /\ Out = {}
  BY <1>1, NewFacts DEF Stdin, Todo, Out
<1>3. \A t \in Ids : returned[t] = Nothing /\ returned[t].kind = "none" /\ returned[t].of = 0
  BY <1>1, NewFacts
<1>4. Numbers
  BY <1>1, <1>2 DEF Numbers, Answering
<1>5. Alive
  BY <1>1, <1>2, <1>3 DEF Alive, NoWork, Moving
<1>6. Marked /\ InOrder /\ OldIsDone /\ NotSpoiled
  BY <1>1, <1>2, <1>3 DEF Marked, InOrder, OldIsDone, NotSpoiled, Spoiled
<1>7. Calm
  BY <1>1, <1>2 DEF Calm, Rests, Prepared, Registered, CutShort, Late, Serves, Moving
<1>. QED BY <1>4, <1>5, <1>6, <1>7 DEF TurnInv, Undisturbed

\* Every step keeps the invariant.
LEMMA TurnInvStep ==
    TurnTypes /\ TurnInv /\ [Next]_vars => TurnTypes' /\ TurnInv'
<1> SUFFICES ASSUME TurnTypes, TurnInv, [Next]_vars PROVE TurnTypes' /\ TurnInv'
  OBVIOUS
<1>1. Numbers /\ (forwarder.at # "idle" \/ runner # "idle" => turn \in Ids)
  BY Parts DEF TurnInv, Alive, TurnTypes, Ids
<1>2. CASE StartTurn
  BY <1>1, <1>2, TypesAside, StartKeeps
<1>3. CASE Cancel
  BY <1>1, <1>3, TypesAside, CancelKeeps
<1>4. CASE ReceiveProgress \/ LeaveLoop \/ EndTurn
  BY <1>1, <1>4, TypesAside, AsideSteps, AsideKeeps
<1>5. CASE ForwardEvent \/ DrainEvent \/ PipeEnds \/ NoticeCancel
  BY <1>1, <1>5, TypesAside, AsideSteps, AsideKeeps
<1>6. CASE DrainExpires \/ InterruptRefused \/ Interrupted \/ Steered
  BY <1>1, <1>6, TypesAside, AsideSteps, AsideKeeps
<1>7. CASE DropStaleProcess \/ SpawnFails \/ Timeout
  BY <1>1, <1>7, TypesAside, KilledSteps, KilledKeeps
<1>8. CASE TakeNothing
  BY <1>1, <1>8, TypesAside, TakesSteps, TakesKeep
<1>9. CASE TakeResult
  BY <1>1, <1>9, TypesHandle, TakesSteps, TakesKeep
<1>10. ASSUME NEW retry \in BOOLEAN, StaleSession(retry) PROVE TurnTypes' /\ TurnInv'
  <2>1. TurnTypes'
    BY <1>1, <1>10, TypesHandle
  <2>2. CASE retry
    BY <1>10, <2>1, <2>2, KilledSteps, KilledKeeps
  <2>3. CASE ~retry
    BY <1>10, <2>1, <2>3, TakesSteps, TakesKeep
  <2>. QED BY <2>2, <2>3
<1>11. CASE Prepare \/ Register
  BY <1>1, <1>11, TypesHandle, PrepareKeeps, RegisterKeeps
<1>12. CASE SendMessage \/ SendFails
  BY <1>1, <1>12, TypesHandle, SendKeeps, SendFailsKeeps
<1>13. CASE Interrupt \/ Steer
  BY <1>1, <1>13, TypesHandle, InterruptKeeps
<1>14. CASE ReadMessage \/ Work \/ EmitEvent
  BY <1>1, <1>14, TypesChild, ReadMessageKeeps, WorkKeeps, EmitEventKeeps
<1>15. ASSUME NEW good \in BOOLEAN, ReadInterrupt(good) \/ EmitResult(good)
       PROVE  TurnTypes' /\ TurnInv'
  BY <1>1, <1>15, TypesChild, ReadInterruptKeeps, EmitResultKeeps
<1>16. CASE (\E hint \in BOOLEAN : Exit(hint)) \/ Reap \/ ReadError
  BY <1>1, <1>16, TypesChild, ExitKeeps
<1>17. CASE ReaderStep
  <2>1. TurnTypes'
    BY <1>1, <1>17, TypesReader
  <2>2. PushEvent => TurnInv'
    BY AsideSteps, AsideKeeps
  <2>. QED BY <1>17, <2>1, <2>2, ReadLineKeeps, ReadControlKeeps, EndsKeep, QuitKeeps
           DEF ReaderStep
<1>18. CASE UNCHANGED vars
  <2>1. TurnTypes'
    BY <1>18 DEF vars, runnerVars, turnVars, processVars, interruptVars, TurnTypes
  <2>2. Aside
    BY <1>18 DEF vars, runnerVars, turnVars, processVars, interruptVars, Aside
  <2>. QED BY <2>1, <2>2, AsideKeeps
<1>. QED BY <1>2, <1>3, <1>4, <1>5, <1>6, <1>7, <1>8, <1>9, <1>10, <1>11, <1>12, <1>13, <1>14,
            <1>15, <1>16, <1>17, <1>18
         DEF Next, RunnerStep, ForwarderStep, Timer, ChildStep

\* So it always holds.
LEMMA TurnsInv == Spec => [](TurnTypes /\ TurnInv)
<1>. QED BY TurnInvInit, TurnInvStep, PTL DEF Spec

\* A turn is reported as interrupted only if an interrupt was acknowledged while this turn
\* was the active one, and an interrupt never aborts a turn that began after it was asked.
THEOREM InterruptsStayOwn == Spec => []InterruptsHitOwnTurn
<1>1. TurnTypes /\ TurnInv => InterruptsHitOwnTurn
  BY DEF TurnInv, Marked, InOrder, InterruptsHitOwnTurn
<1>. QED BY <1>1, TurnsInv, PTL

\* A turn gets the answer to its own message, is not refused and aborts no other turn,
\* unless /esc cancelled a turn before it.
THEOREM OnlyEscSpoils == Spec => []OnlyCancelSpoils
<1>1. TurnTypes /\ TurnInv => OnlyCancelSpoils
  <2>1. ASSUME TurnTypes, NEW t \in Ids, ~Clean(t) PROVE \E u \in cancelled : u < t
    <3>1. cancelled \subseteq Int /\ t \in Int
      BY <2>1, Parts DEF TurnTypes, Ids
    <3>. QED BY <2>1, <3>1 DEF Clean
  <2>. QED BY <2>1 DEF TurnInv, Undisturbed, NotSpoiled, OnlyCancelSpoils
<1>. QED BY <1>1, TurnsInv, PTL

\* The state always has its types, and counts as far as the turns go.
THEOREM TurnTypesCorrect == Spec => []TypeOK
<1>1. TurnTypes /\ TurnInv => TypeOK
  <2> SUFFICES ASSUME TurnTypes, TurnInv PROVE TypeOK
    OBVIOUS
  <2>0. turn \in 0 .. Turns /\ Turns \in Nat /\ turn \in Nat /\ asked \in Nat
    BY Parts, ClaudeAssumption DEF TurnTypes
  <2>1. /\ handle.generation \in 0 .. turn /\ forwarder.gen \in 0 .. turn
        /\ reader.gen \in 0 .. handle.generation
    BY Parts DEF TurnInv, Numbers, Alive
  <2>2. 0 .. turn \subseteq Generations
    BY <2>0 DEF Generations
  <2>3. /\ runner \in {"idle", "loop", "awaiting"} /\ cancelled \subseteq 1 .. turn
        /\ returned \in [Ids -> Returned] /\ pipe \in 0 .. PoolCapacity
        /\ progress \in 0 .. ProgressCapacity /\ lock \in {"free", "turn", "steer"}
        /\ present \in BOOLEAN /\ strays \subseteq [aim : 1 .. turn, hit : 1 .. turn]
        /\ acked \subseteq 1 .. turn
    BY DEF TurnTypes, TurnInv, Numbers
  <2>4. forwarder \in [at : {"idle", "begin", "register", "send", "forward", "passing",
                             "interrupt", "asking", "drain", "passingLate", "take"},
                       gen : Generations, retried : BOOLEAN]
    BY <2>1, <2>2 DEF TurnTypes, ForwarderTypes, Moving
  <2>5. reader \in [at : {"read", "push", "control", "result", "store", "close", "gone"},
                    line : Lines, gen : 0 .. handle.generation]
    BY <2>1 DEF TurnTypes, ReaderTypes
  <2>6. /\ handle.generation \in Generations
        /\ handle.active \in 0 .. handle.generation
        /\ handle.interrupted \in 0 .. handle.generation
    BY <2>1, <2>2, Parts DEF TurnInv, Numbers
  <2>7. handle.slot \in [gen : 0 .. handle.generation, open : BOOLEAN]
    <3>1. handle.slot.gen \in 0 .. handle.generation
      BY Parts DEF TurnInv, Numbers
    <3>. QED BY <3>1, Parts
  <2>8. handle.last \in Results
    <3>1. handle.last.of \in 0 .. Turns
      <4>1. 1 .. turn \subseteq 0 .. Turns /\ 0 \in 0 .. Turns
        BY <2>0
      <4>. QED BY <4>1, NewFacts DEF TurnInv, Numbers
    <3>. QED BY <3>1, Parts DEF Results
  <2>9. handle.waiters \subseteq [id : 1 .. asked, gen : 1 .. handle.generation]
    BY Parts DEF TurnInv, Numbers
  <2>10. handle.stdin \in Seq([cmd : {"user", "interrupt"}, turn : 1 .. turn, id : 0 .. asked])
    <3>. DEFINE C == [cmd : {"user", "interrupt"}, turn : 1 .. turn, id : 0 .. asked]
    <3>1. ASSUME NEW i \in 1 .. Len(handle.stdin) PROVE handle.stdin[i] \in C
      <4>1. handle.stdin[i] \in Commands
        BY Parts, ElementOfSeq
      <4>2. handle.stdin[i].turn \in 1 .. turn /\ handle.stdin[i].id <= asked
        BY DEF TurnInv, Numbers, Stdin
      <4>3. handle.stdin[i].id \in 0 .. asked
        BY <2>0, <4>1, <4>2 DEF Commands
      <4>. QED BY <4>1, <4>2, <4>3 DEF Commands
    <3>2. handle.stdin \in Seq(Commands)
      BY Parts
    <3>. HIDE DEF C
    <3>3. handle.stdin \in Seq(C)
      BY <3>1, <3>2, SeqOf
    <3>. QED BY <3>3 DEF C
  <2>11. handle.owner \in Seq(Ids) /\ Len(handle.owner) = handle.generation
    <3>1. 1 .. turn \subseteq Ids
      BY <2>0 DEF Ids
    <3>2. /\ Len(handle.owner) = handle.generation
          /\ \A g \in 1 .. Len(handle.owner) : handle.owner[g] \in Ids
      BY <3>1 DEF TurnInv, Numbers
    <3>. QED BY <3>2, Parts, SeqOf
  <2>12. child.doing \in 0 .. turn /\ child.out \in Seq(Lines)
    BY Parts DEF TurnInv, Numbers
  <2>. QED BY <2>0, <2>3, <2>4, <2>5, <2>6, <2>7, <2>8, <2>9, <2>10, <2>11, <2>12 DEF TypeOK
<1>. QED BY <1>1, TurnsInv, PTL
=============================================================================
