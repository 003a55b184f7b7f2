----------------------------- MODULE ClaudeTurns -----------------------------
(***************************************************************************)
(* The turns of one conversation on its persistent Claude process          *)
(* (cli_pool.rs, and the pool task and progress loop of                    *)
(* handle_message_inner in runner.rs).                                     *)
(*                                                                         *)
(* The execution worker runs one turn at a time.  Its runner reads the     *)
(* progress channel; a forwarder task begins the turn, moves events from   *)
(* the pool's channel to the progress channel and takes the result; the    *)
(* ingress worker may interrupt the turn for a follow-up; /esc cancels its *)
(* token.  The process is read by one task that knows turns only by the    *)
(* generation counter, and answers when it likes.                          *)
(*                                                                         *)
(* Message t is the message of turn t.  Events carry no data here.         *)
(***************************************************************************)
EXTENDS Naturals, Sequences, FiniteSets

CONSTANTS
    Turns,            \* bound: turns that are run
    Events,           \* bound: events Claude emits for one message
    MaxCancels,       \* bound: turns that /esc cancels
    MaxSteers,        \* bound: interrupts by the ingress worker
    MaxExits,         \* bound: exits and read errors of the Claude process
    PoolCapacity,     \* capacity of the pool's channel of a turn (256)
    ProgressCapacity  \* capacity of the runner's progress channel (64)

ASSUME ClaudeAssumption ==
    /\ Turns \in Nat /\ Events \in Nat
    /\ MaxCancels \in Nat /\ MaxSteers \in Nat /\ MaxExits \in Nat
    /\ PoolCapacity \in Nat \ {0} /\ ProgressCapacity \in Nat \ {0}

VARIABLES
    turn,       \* turns begun so far; the last one is the current turn
    runner,     \* the runner: "idle", "loop" or "awaiting" its forwarder
    cancelled,  \* turns whose token /esc cancelled
    returned,   \* turn -> what the forwarder returned
    forwarder,  \* the forwarder of the current turn: [at, gen, retried]
    pipe,       \* events in the pool's channel of the current turn
    progress,   \* events in the progress channel
    lock,       \* who awaits an answer with the pool's lock: "turn", "steer", or "free"
    present,    \* the pool has a handle for the conversation
    handle,     \* its ProcessHandle
    child,      \* the process: [up, doing, aborted, emitted, todo, out]
    reader,     \* stdout_reader_task: [at, line, gen]
    asked,      \* interrupts asked so far
    strays,     \* interrupts that aborted another turn than they were aimed at
    acked,      \* turns whose interrupt was acknowledged while they were active
    steers,     \* interrupts by the ingress worker so far
    exits       \* exits of the process so far

runnerVars    == <<turn, runner, cancelled, returned>>
turnVars      == <<forwarder, pipe, progress>>
processVars   == <<child, reader, exits>>
interruptVars == <<asked, strays, acked, steers>>

vars == <<runnerVars, turnVars, lock, present, handle, processVars, interruptVars>>

Ids == 1 .. Turns
NoResult == [of |-> 0, success |-> FALSE]
Results == [of : 0 .. Turns, success : BOOLEAN]

\* What a turn ends with: an answer and the turn it answers, or an error of the pool.
Returned == [kind : {"answer", "failure", "interrupted"}, of : Ids]
                \union {[kind |-> k, of |-> 0] : k \in {"none", "refused", "error", "stale"}}
Nothing == [kind |-> "none", of |-> 0]

NewHandle ==
    [generation  |-> 0,             \* turns begun on this process
     active      |-> 0,             \* active_generation
     interrupted |-> 0,             \* interrupted_generation
     slot        |-> [gen |-> 0, open |-> FALSE],   \* progress_slot
     last        |-> NoResult,      \* last_result
     hint        |-> FALSE,         \* stderr says that the session is unknown
     waiters     |-> {},            \* control_waiters: [id, gen]
     stdin       |-> << >>,         \* commands not read yet: [cmd, turn, id]
     closing     |-> FALSE,         \* the cancel token of the process
     owner       |-> << >>]         \* generation -> its turn

NoChild == [up |-> FALSE, doing |-> 0, aborted |-> FALSE, emitted |-> 0,
            todo |-> << >>, out |-> << >>]
NewChild == [NoChild EXCEPT !.up = TRUE]

EventLine == [type |-> "event", n |-> 0, good |-> TRUE]
ResultLine(m, success) == [type |-> "result", n |-> m, good |-> success]
ControlLine(id, ok) == [type |-> "control", n |-> id, good |-> ok]
NoLine == [type |-> "none", n |-> 0, good |-> FALSE]

ReaderAt(place) == [at |-> place, line |-> NoLine, gen |-> 0]

NoForwarder == [at |-> "idle", gen |-> 0, retried |-> FALSE]

Init ==
    /\ turn = 0
    /\ runner = "idle"
    /\ cancelled = {}
    /\ returned = [t \in Ids |-> Nothing]
    /\ forwarder = NoForwarder
    /\ pipe = 0
    /\ progress = 0
    /\ lock = "free"
    /\ present = FALSE
    /\ handle = NewHandle
    /\ child = NoChild
    /\ reader = ReaderAt("gone")
    /\ asked = 0
    /\ strays = {}
    /\ acked = {}
    /\ steers = 0
    /\ exits = 0

-----------------------------------------------------------------------------
(* The runner of the current turn. *)

StartTurn ==
    /\ runner = "idle"
    /\ turn < Turns
    /\ turn' = turn + 1
    /\ runner' = "loop"
    /\ forwarder' = [NoForwarder EXCEPT !.at = "begin"]
    /\ progress' = 0
    /\ UNCHANGED <<cancelled, returned, pipe, lock, present, handle, processVars,
                   interruptVars>>

\* /esc or /cancel: the token is found while the turn is registered.
Cancel ==
    /\ runner = "loop"
    /\ turn \notin cancelled
    /\ Cardinality(cancelled) < MaxCancels
    /\ cancelled' = cancelled \union {turn}
    /\ UNCHANGED <<turn, runner, returned, turnVars, lock, present, handle,
                   processVars, interruptVars>>

ReceiveProgress ==
    /\ runner = "loop"
    /\ progress > 0
    /\ progress' = progress - 1
    /\ UNCHANGED <<runnerVars, forwarder, pipe, lock, present, handle, processVars,
                   interruptVars>>

ForwarderDone == returned[turn].kind # "none"

\* The loop ends when the forwarder dropped its sender, or at once when the
\* token fires; then the runner awaits the forwarder and no longer reads.
LeaveLoop ==
    /\ runner = "loop"
    /\ turn \in cancelled \/ (ForwarderDone /\ progress = 0)
    /\ runner' = "awaiting"
    /\ UNCHANGED <<turn, cancelled, returned, turnVars, lock, present, handle,
                   processVars, interruptVars>>

EndTurn ==
    /\ runner = "awaiting"
    /\ ForwarderDone
    /\ runner' = "idle"
    /\ UNCHANGED <<turn, cancelled, returned, turnVars, lock, present, handle,
                   processVars, interruptVars>>

\* kill: the handle is removed and its tasks are cancelled.
Kill_HandleKept == UNCHANGED <<present, handle, child, reader>>
Kill == /\ present' = FALSE
        /\ handle' = NewHandle
        /\ child' = NoChild
        /\ reader' = ReaderAt("gone")

\* A stale session was reported and is still the current one: the process is
\* dropped before a one-shot CLI answers.
DropStaleProcess ==
    /\ runner = "awaiting"
    /\ returned[turn].kind = "stale" /\ turn \notin cancelled
    /\ lock = "free"
    /\ Kill
    /\ runner' = "idle"
    /\ UNCHANGED <<turn, cancelled, returned, turnVars, lock, exits, interruptVars>>

-----------------------------------------------------------------------------
(* The forwarder: begin_turn. *)

FwdAt(place) == forwarder.at = place
Fwd(place) == forwarder' = [forwarder EXCEPT !.at = place]
Return(result) ==
    /\ returned' = [returned EXCEPT ![turn] = result]
    /\ forwarder' = NoForwarder
    /\ pipe' = 0

\* spawn gives every process its own counters.
Spawned == NewHandle

\* A process is spawned when there is none or its token is cancelled.  Then the
\* stale result is cleared; the lock is kept.
Prepare ==
    /\ FwdAt("begin")
    /\ lock = "free"
    /\ lock' = "turn"
    /\ present' = TRUE
    /\ IF present /\ ~handle.closing
         THEN /\ handle' = [handle EXCEPT !.last = NoResult]
              /\ UNCHANGED <<child, reader>>
         ELSE /\ handle' = Spawned
              /\ child' = NewChild
              /\ reader' = ReaderAt("read")
    /\ Fwd("register")
    /\ UNCHANGED <<runnerVars, pipe, progress, exits, interruptVars>>

\* The command cannot be spawned.
SpawnFails ==
    /\ FwdAt("begin")
    /\ lock = "free"
    /\ ~present \/ handle.closing
    /\ Kill
    /\ Return([kind |-> "error", of |-> 0])
    /\ UNCHANGED <<turn, runner, cancelled, progress, lock, exits, interruptVars>>

\* The generation advances before the active one is claimed, which fails while a
\* turn is active.
Register ==
    LET gen == handle.generation + 1 IN
    /\ FwdAt("register")
    /\ handle' = [handle EXCEPT
            !.generation = gen,
            !.owner = Append(@, turn),
            !.active = IF @ = 0 THEN gen ELSE @]
    /\ \/ /\ handle.active = 0
          /\ forwarder' = [forwarder EXCEPT !.at = "send", !.gen = gen]
          /\ UNCHANGED <<lock, returned, pipe>>
       \/ /\ handle.active # 0
          /\ lock' = "free"
          /\ Return([kind |-> "refused", of |-> 0])
    /\ UNCHANGED <<turn, runner, cancelled, progress, present, processVars,
                   interruptVars>>

\* The writer task takes commands until the process is gone or its token cancelled.
StdinRefuses == handle.closing \/ ~child.up

\* stdin_writer_task writes messages and interrupts in the order of their arrival.
Write_MessagesFirst(command) ==
    IF command.cmd = "user" THEN <<command>> \o handle.stdin
                            ELSE Append(handle.stdin, command)
Write(command) == Append(handle.stdin, command)

\* The slot gets a new channel and the message is written.
SendMessage ==
    /\ FwdAt("send")
    /\ handle' = [handle EXCEPT !.slot = [gen |-> forwarder.gen, open |-> TRUE],
                                !.stdin = Write([cmd |-> "user", turn |-> turn, id |-> 0])]
    /\ pipe' = 0
    /\ lock' = "free"
    /\ Fwd("forward")
    /\ UNCHANGED <<runnerVars, progress, present, processVars, interruptVars>>

SendFails ==
    /\ FwdAt("send")
    /\ StdinRefuses
    /\ handle' = [handle EXCEPT !.slot = [gen |-> forwarder.gen, open |-> FALSE],
                                !.active = IF @ = forwarder.gen THEN 0 ELSE @]
    /\ lock' = "free"
    /\ Return([kind |-> "error", of |-> 0])
    /\ UNCHANGED <<turn, runner, cancelled, progress, present, processVars,
                   interruptVars>>

-----------------------------------------------------------------------------
(* The forwarder: moving events. *)

\* No sender is left: the slot is closed or replaced, and the reader holds no clone.
PipeClosed ==
    /\ ~(handle.slot.open /\ handle.slot.gen = forwarder.gen)
    /\ ~(reader.at = "push" /\ reader.gen = forwarder.gen)

\* An event is received, and the forwarder waits for room in the progress channel.
ReceiveEvent(from, to) ==
    /\ FwdAt(from)
    /\ pipe > 0
    /\ pipe' = pipe - 1
    /\ Fwd(to)
    /\ UNCHANGED <<runnerVars, progress, lock, present, handle, processVars,
                   interruptVars>>

PassEvent(from, to) ==
    /\ FwdAt(from)
    /\ progress < ProgressCapacity
    /\ progress' = progress + 1
    /\ Fwd(to)
    /\ UNCHANGED <<runnerVars, pipe, lock, present, handle, processVars,
                   interruptVars>>

ForwardEvent == ReceiveEvent("forward", "passing") \/ PassEvent("passing", "forward")
DrainEvent == ReceiveEvent("drain", "passingLate") \/ PassEvent("passingLate", "drain")

\* The channel is closed: the turn is complete.
PipeEnds ==
    /\ forwarder.at \in {"forward", "drain"}
    /\ pipe = 0
    /\ PipeClosed
    /\ Fwd("take")
    /\ UNCHANGED <<runnerVars, pipe, progress, lock, present, handle, processVars,
                   interruptVars>>

NoticeCancel ==
    /\ FwdAt("forward")
    /\ turn \in cancelled
    /\ Fwd("interrupt")
    /\ UNCHANGED <<runnerVars, pipe, progress, lock, present, handle, processVars,
                   interruptVars>>

\* Claude did not end the turn in the time it is given to drain.
DrainExpires ==
    /\ FwdAt("drain")
    /\ Fwd("take")
    /\ UNCHANGED <<runnerVars, pipe, progress, lock, present, handle, processVars,
                   interruptVars>>

\* The deadline of the turn, cli_timeout.
Timeout ==
    /\ FwdAt("forward")
    /\ lock = "free"
    /\ Kill
    /\ Fwd("take")
    /\ UNCHANGED <<runnerVars, pipe, progress, lock, exits, interruptVars>>

-----------------------------------------------------------------------------
(* interrupt, by the forwarder or by the ingress worker. *)

\* The active generation is remembered with the waiter, whoever is asking.
Ask(caller) ==
    LET id == asked + 1 IN
    /\ lock = "free"
    /\ present /\ handle.active # 0
    /\ lock' = caller
    /\ asked' = id
    /\ handle' = [handle EXCEPT
            !.waiters = @ \union {[id |-> id, gen |-> handle.active]},
            !.stdin = Write([cmd |-> "interrupt", turn |-> handle.owner[handle.active],
                             id |-> id])]

\* The answer, or five seconds without one: the caller goes on the same way.  The
\* waiter stays after the timeout.
StopAsking_OnAnswer(caller) ==
    /\ lock = caller
    /\ \A w \in handle.waiters : w.id # asked
    /\ lock' = "free"
StopAsking(caller) ==
    /\ lock = caller
    /\ lock' = "free"

Interrupt ==
    /\ FwdAt("interrupt")
    /\ Ask("turn")
    /\ Fwd("asking")
    /\ UNCHANGED <<runnerVars, pipe, progress, present, processVars, strays, acked,
                   steers>>

\* There is no process, no active turn, or no stdin to write to.
InterruptRefused ==
    /\ FwdAt("interrupt")
    /\ lock = "free"
    /\ ~present \/ handle.active = 0 \/ StdinRefuses
    /\ Fwd("drain")
    /\ UNCHANGED <<runnerVars, pipe, progress, lock, present, handle, processVars,
                   interruptVars>>

Interrupted ==
    /\ FwdAt("asking")
    /\ StopAsking("turn")
    /\ Fwd("drain")
    /\ UNCHANGED <<runnerVars, pipe, progress, present, handle, processVars, asked,
                   strays, acked, steers>>

\* The ingress worker saw a turn running when it looked; it may have ended since.
Steer ==
    /\ steers < MaxSteers
    /\ Ask("steer")
    /\ steers' = steers + 1
    /\ UNCHANGED <<runnerVars, turnVars, present, processVars, strays, acked>>

Steered ==
    /\ StopAsking("steer")
    /\ UNCHANGED <<runnerVars, turnVars, present, handle, processVars, asked, strays,
                   acked, steers>>

-----------------------------------------------------------------------------
(* The forwarder: take_last_result. *)

\* apply_acknowledged_interrupt: the mark of the newest generation is used up; a
\* result that succeeded all the same stays a success.
WasInterrupted_AnyTurn == handle.interrupted # 0
WasInterrupted == handle.interrupted = handle.generation
Kind(result) ==
    IF result.success THEN "answer"
    ELSE IF WasInterrupted THEN "interrupted" ELSE "failure"

TakeResult ==
    /\ FwdAt("take")
    /\ lock = "free"
    /\ present /\ handle.last # NoResult /\ ~handle.hint
    /\ handle' = [handle EXCEPT !.last = NoResult,
                                !.interrupted = IF WasInterrupted THEN 0 ELSE @]
    /\ Return([kind |-> Kind(handle.last), of |-> handle.last.of])
    /\ UNCHANGED <<turn, runner, cancelled, progress, lock, present, processVars,
                   interruptVars>>

\* "pool process exited without result"
TakeNothing ==
    /\ FwdAt("take")
    /\ lock = "free"
    /\ ~present \/ (handle.last = NoResult /\ ~handle.hint)
    /\ Return([kind |-> "error", of |-> 0])
    /\ UNCHANGED <<turn, runner, cancelled, progress, lock, present, handle,
                   processVars, interruptVars>>

\* The process does not know the session.  Once, and unless the turn is cancelled or
\* its session was reset, it is killed and the turn begins again without it.
StaleSession(retry) ==
    /\ FwdAt("take")
    /\ lock = "free"
    /\ present /\ handle.hint
    /\ retry => ~forwarder.retried /\ turn \notin cancelled
    /\ \/ /\ retry
          /\ Kill
          /\ forwarder' = [at |-> "begin", gen |-> 0, retried |-> TRUE]
          /\ pipe' = 0
          /\ UNCHANGED returned
       \/ /\ ~retry
          /\ handle' = [handle EXCEPT !.hint = FALSE, !.last = NoResult,
                                      !.interrupted = IF handle.last # NoResult /\ WasInterrupted
                                                        THEN 0 ELSE @]
          /\ Return([kind |-> "stale", of |-> 0])
          /\ UNCHANGED <<present, child, reader>>
    /\ UNCHANGED <<turn, runner, cancelled, progress, lock, exits, interruptVars>>

-----------------------------------------------------------------------------
(* The Claude process. *)

Emit(line) == child.out \o <<line>>

\* It reads a message, at once or while it works on another one.
ReadMessage ==
    /\ child.up /\ handle.stdin # << >> /\ Head(handle.stdin).cmd = "user"
    /\ child' = [child EXCEPT !.todo = Append(@, Head(handle.stdin).turn)]
    /\ handle' = [handle EXCEPT !.stdin = Tail(@)]
    /\ UNCHANGED <<runnerVars, turnVars, lock, present, reader, exits, interruptVars>>

\* It acknowledges an interrupt and will abort what it does, or rejects it.
ReadInterrupt(ok) ==
    LET command == Head(handle.stdin)
        aborts == ok /\ child.doing # 0
    IN
    /\ child.up /\ handle.stdin # << >> /\ command.cmd = "interrupt"
    /\ child' = [child EXCEPT !.out = Emit(ControlLine(command.id, ok)),
                              !.aborted = aborts \/ @]
    /\ strays' = IF aborts /\ child.doing # command.turn
                   THEN strays \union {[aim |-> command.turn, hit |-> child.doing]}
                   ELSE strays
    /\ handle' = [handle EXCEPT !.stdin = Tail(@)]
    /\ UNCHANGED <<runnerVars, turnVars, lock, present, reader, exits, asked, acked,
                   steers>>

Work ==
    /\ child.up /\ child.doing = 0 /\ child.todo # << >>
    /\ child' = [child EXCEPT !.doing = Head(child.todo), !.todo = Tail(@),
                              !.aborted = FALSE, !.emitted = 0]
    /\ UNCHANGED <<runnerVars, turnVars, lock, present, handle, reader, exits,
                   interruptVars>>

EmitEvent ==
    /\ child.up /\ child.doing # 0 /\ child.emitted < Events
    /\ child' = [child EXCEPT !.emitted = @ + 1, !.out = Emit(EventLine)]
    /\ UNCHANGED <<runnerVars, turnVars, lock, present, handle, reader, exits,
                   interruptVars>>

EmitResult(success) ==
    /\ child.up /\ child.doing # 0
    /\ success => ~child.aborted
    /\ child' = [child EXCEPT !.doing = 0, !.aborted = FALSE,
                              !.out = Emit(ResultLine(child.doing, success))]
    /\ UNCHANGED <<runnerVars, turnVars, lock, present, handle, reader, exits,
                   interruptVars>>

\* It exits by itself, perhaps because it does not know the session.
Exit(hint) ==
    /\ child.up
    /\ exits < MaxExits
    /\ exits' = exits + 1
    /\ child' = [child EXCEPT !.up = FALSE, !.doing = 0, !.todo = << >>]
    /\ handle' = [handle EXCEPT !.hint = hint]
    /\ UNCHANGED <<runnerVars, turnVars, lock, present, reader, interruptVars>>

\* The reaper task sees the exit and cancels the token of the process.
Reap ==
    /\ present /\ ~child.up /\ ~handle.closing
    /\ handle' = [handle EXCEPT !.closing = TRUE]
    /\ UNCHANGED <<runnerVars, turnVars, lock, present, processVars, interruptVars>>

-----------------------------------------------------------------------------
(* stdout_reader_task. *)

\* A line, and the generation that is the newest now.
ReadStdout ==
    LET line == Head(child.out) IN
    /\ reader.at = "read" /\ child.out # << >>
    /\ child' = [child EXCEPT !.out = Tail(@)]
    /\ reader' =
          CASE line.type = "event" ->
                 IF handle.slot.open
                   THEN [at |-> "push", line |-> line, gen |-> handle.slot.gen]
                   ELSE ReaderAt("read")
            [] OTHER -> [at |-> line.type, line |-> line, gen |-> handle.generation]
    /\ UNCHANGED <<runnerVars, turnVars, lock, present, handle, exits, interruptVars>>

\* The receiver of a channel lives until its turn has returned or begun again.
Receiving(gen) ==
    /\ forwarder.gen = gen
    /\ forwarder.at \notin {"idle", "begin", "register", "send"}

HasRoom == pipe < PoolCapacity

PushEvent ==
    /\ reader.at = "push"
    /\ \/ Receiving(reader.gen) /\ HasRoom /\ pipe' = pipe + 1
       \/ ~Receiving(reader.gen) /\ UNCHANGED pipe
    /\ reader' = ReaderAt("read")
    /\ UNCHANGED <<runnerVars, forwarder, progress, lock, present, handle, child,
                   exits, interruptVars>>

\* acknowledge_interrupt: a success frees the generation of the waiter and marks it
\* as interrupted, if it is still the active one.
AcknowledgeInterrupt(gen, ok) ==
    IF ok /\ handle.active = gen
      THEN [handle EXCEPT !.active = 0, !.interrupted = gen]
      ELSE handle

ReadControl ==
    LET waiting == {w \in handle.waiters : w.id = reader.line.n} IN
    /\ reader.at = "control"
    /\ reader' = ReaderAt("read")
    /\ \/ waiting = {} /\ UNCHANGED <<handle, acked>>
       \/ \E w \in waiting :
             LET freed == AcknowledgeInterrupt(w.gen, reader.line.good) IN
             /\ handle' = [freed EXCEPT !.waiters = @ \ {w}]
             /\ acked' = IF freed # handle THEN acked \union {handle.owner[w.gen]}
                         ELSE acked
    /\ UNCHANGED <<runnerVars, turnVars, lock, present, child, exits, asked, strays, steers>>

\* The end of a turn, in the order of the code: the newest generation is no longer
\* active, its result is stored, and the slot closed if it is still its own.
FreeActive ==
    /\ reader.at = "result"
    /\ handle' = [handle EXCEPT !.active = IF @ = reader.gen THEN 0 ELSE @]
    /\ reader' = [reader EXCEPT !.at = "store"]
    /\ UNCHANGED <<runnerVars, turnVars, lock, present, child, exits, interruptVars>>

StoreResult ==
    /\ reader.at = "store"
    /\ handle' = [handle EXCEPT
            !.last = [of |-> reader.line.n, success |-> reader.line.good]]
    /\ reader' = [reader EXCEPT !.at = "close"]
    /\ UNCHANGED <<runnerVars, turnVars, lock, present, child, exits, interruptVars>>

CloseSlot ==
    /\ reader.at = "close"
    /\ handle' = [handle EXCEPT
            !.slot.open = IF handle.slot.gen = reader.gen THEN FALSE ELSE @]
    /\ reader' = ReaderAt("read")
    /\ UNCHANGED <<runnerVars, turnVars, lock, present, child, exits, interruptVars>>

\* At the end of the output the slot is closed; a cancelled token stops the reader
\* without it, whatever there is to read.  Both drain the waiters.
Quit(closed) ==
    /\ reader.at = "read"
    /\ reader' = ReaderAt("gone")
    /\ handle' = [handle EXCEPT !.closing = TRUE, !.waiters = {},
                                !.slot.open = IF closed THEN FALSE ELSE @]
    /\ UNCHANGED <<runnerVars, turnVars, lock, present, child, exits, interruptVars>>

ReadEnd == ~child.up /\ child.out = << >> /\ Quit(TRUE)
ReaderCancelled == handle.closing /\ Quit(FALSE)

\* A line that cannot be read, as one that is not UTF-8: the process is killed and
\* its slot stays open.
ReadError ==
    /\ reader.at = "read" /\ child.up
    /\ exits < MaxExits
    /\ exits' = exits + 1
    /\ reader' = ReaderAt("gone")
    /\ child' = NoChild
    /\ handle' = [handle EXCEPT !.closing = TRUE, !.waiters = {}]
    /\ UNCHANGED <<runnerVars, turnVars, lock, present, interruptVars>>

-----------------------------------------------------------------------------
RunnerStep == ReceiveProgress \/ LeaveLoop \/ EndTurn \/ DropStaleProcess

ForwarderStep ==
    \/ Prepare \/ SpawnFails \/ Register \/ SendMessage \/ SendFails
    \/ ForwardEvent \/ DrainEvent \/ PipeEnds \/ NoticeCancel
    \/ Interrupt \/ InterruptRefused
    \/ TakeResult \/ TakeNothing \/ \E retry \in BOOLEAN : StaleSession(retry)

\* Timers: the turn's deadline, the five seconds of an interrupt and the three
\* of the drain; an interrupt is also over when it is answered.
Timer == Timeout \/ DrainExpires \/ Interrupted \/ Steered

ChildStep ==
    \/ ReadMessage \/ Work \/ EmitEvent
    \/ \E good \in BOOLEAN : ReadInterrupt(good) \/ EmitResult(good)

ReaderStep ==
    \/ ReadStdout \/ PushEvent \/ ReadControl
    \/ FreeActive \/ StoreResult \/ CloseSlot
    \/ ReadEnd \/ ReaderCancelled

Next ==
    \/ StartTurn \/ Cancel \/ Steer
    \/ RunnerStep \/ ForwarderStep \/ Timer
    \/ ChildStep \/ (\E hint \in BOOLEAN : Exit(hint)) \/ Reap \/ ReadError
    \/ ReaderStep

Spec == Init /\ [][Next]_vars

\* Tasks run and timers fire.  Claude, users and exits are not fair.
Fairness ==
    /\ WF_vars(RunnerStep)
    /\ WF_vars(ForwarderStep)
    /\ WF_vars(ReaderStep)
    /\ WF_vars(Timeout)
    /\ WF_vars(DrainExpires)
    /\ WF_vars(Interrupted)
    /\ WF_vars(Steered)

FairSpec == Spec /\ Fairness

-----------------------------------------------------------------------------
(* Properties. *)

Generations == 0 .. 2 * Turns
Lines == [type : {"event", "result", "control", "none"}, n : Nat, good : BOOLEAN]

TypeOK ==
    /\ turn \in 0 .. Turns
    /\ runner \in {"idle", "loop", "awaiting"}
    /\ cancelled \subseteq 1 .. turn
    /\ returned \in [Ids -> Returned]
    /\ forwarder \in [at : {"idle", "begin", "register", "send", "forward", "passing",
                            "interrupt", "asking", "drain", "passingLate", "take"},
                      gen : Generations, retried : BOOLEAN]
    /\ pipe \in 0 .. PoolCapacity
    /\ progress \in 0 .. ProgressCapacity
    /\ lock \in {"free", "turn", "steer"}
    /\ present \in BOOLEAN
    /\ handle.generation \in Generations
    /\ handle.active \in 0 .. handle.generation
    /\ handle.interrupted \in 0 .. handle.generation
    /\ handle.slot \in [gen : 0 .. handle.generation, open : BOOLEAN]
    /\ handle.last \in Results
    /\ handle.waiters \subseteq [id : 1 .. asked, gen : 1 .. handle.generation]
    /\ handle.stdin \in Seq([cmd : {"user", "interrupt"}, turn : 1 .. turn, id : 0 .. asked])
    /\ handle.owner \in Seq(Ids) /\ Len(handle.owner) = handle.generation
    /\ child.doing \in 0 .. turn
    /\ child.out \in Seq(Lines)
    /\ reader \in [at : {"read", "push", "control", "result", "store", "close", "gone"},
                   line : Lines, gen : 0 .. handle.generation]
    /\ strays \subseteq [aim : 1 .. turn, hit : 1 .. turn]
    /\ acked \subseteq 1 .. turn

\* An interrupt by a follow-up concerns its own turn only.  A turn is reported as
\* interrupted, which suppresses its reply, only if an interrupt was acknowledged while
\* this very turn was the active one: late acknowledgements and marks of earlier turns
\* never silence a later one.  An interrupt that Claude reads late never aborts a turn
\* that began after it was asked, though nothing in the request names the turn.
InterruptsHitOwnTurn ==
    /\ \A t \in Ids : returned[t].kind = "interrupted" => t \in acked
    /\ \A s \in strays : s.hit < s.aim

Spoiled(t) ==
    \/ returned[t].of \notin {0, t}
    \/ returned[t].kind = "refused"
    \/ \E s \in strays : s.aim = t

\* A turn reports the answer to its own message, is not refused because another one
\* is active, and its interrupt aborts no other turn, unless a turn before it was
\* cancelled with /esc: follow-ups, timeouts, exits and stale sessions leave nothing
\* behind for the next turn.
OnlyCancelSpoils == \A t \in Ids : Spoiled(t) => \E u \in cancelled : u < t

\* Every turn that is not cancelled ends, whatever Claude does: the deadline kills
\* the process and no waiting for a lock, an answer or room in a channel lasts.
TurnEnds ==
    runner # "idle" /\ turn \notin cancelled
        ~> runner = "idle" \/ turn \in cancelled

\* "Give Claude up to 3s to emit result event after interrupt": a cancelled turn
\* ends as well.
CancelledTurnEnds == turn \in cancelled ~> runner = "idle"
=============================================================================
