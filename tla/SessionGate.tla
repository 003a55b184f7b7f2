---------------------------- MODULE SessionGate ----------------------------
(***************************************************************************)
(* The session of one conversation and one CLI: the row in the store, the  *)
(* entry of session_states that guards it, and the process in the pool.    *)
(*                                                                         *)
(* A turn reads the session and registers in one section under the gate,   *)
(* begins on the pool later, and stores the session it ended with in       *)
(* another section, if the generation is still the one it registered with. *)
(* /new, /session switch and the reset policy change the row and advance   *)
(* the generation under the gate and kill the process after it.  The lanes *)
(* of a conversation (its own and /manage) share all of this.              *)
(*                                                                         *)
(* Every write of the row is made under the gate, so a section under it is *)
(* one action.  Generations are u64 and do not wrap here.                  *)
(***************************************************************************)
EXTENDS Naturals, Sequences, FiniteSets

CONSTANTS Messages,     \* messages that become turns
          Manage,       \* those of them in the lane of /manage
          NoEntry, NoProcess,
          MaxCommands,  \* session commands considered
          MaxSpawns,    \* processes considered
          MaxFaults,    \* failing store calls considered
          MaxPanics     \* panics of a worker considered

ASSUME GateAssumption ==
  /\ IsFiniteSet(Messages)
  /\ Manage \subseteq Messages
  /\ {MaxCommands, MaxSpawns, MaxFaults, MaxPanics} \subseteq Nat
  /\ NoEntry \notin [generation : Nat, attempts : Nat]
  /\ NoProcess \notin [id : Nat, session : Nat]

None == 0                        \* no session

VARIABLES
  current,   \* the session marked current in the store
  idle,      \* the reset policy would end it
  entry,     \* this conversation's entry of session_states
  process,   \* the process of the pool
  kill,      \* the main loop is about to kill it
  pc,        \* per turn
  attempt,   \* per turn: session, generation and era it registered with
  on,        \* per turn: the process it began on
  since,     \* per session: the era it belongs to
  era,       \* how often the user or the policy left a session
  spawned,   \* number of processes
  commands, faults,
  leaked,    \* attempts of workers that panicked
  raced      \* a turn began between a reset and its kill, or unaware of one

store == <<current, idle>>
pool  == <<process, spawned>>
gateVars ==
  <<current, idle, entry, process, kill, pc, attempt, on, since, era,
    spawned, commands, faults, leaked, raced>>

Registered == {t \in Messages : pc[t] \in {"autokill", "begin", "running", "stale", "oneshot"}}
Sessions   == 1 .. Len(since)

GateInit ==
  /\ current = None /\ idle = FALSE
  /\ entry = NoEntry /\ process = NoProcess /\ kill = FALSE
  /\ pc = [t \in Messages |-> "new"]
  /\ attempt = [t \in Messages |-> [sid |-> None, generation |-> 0, era |-> 0, retried |-> FALSE]]
  /\ on = [t \in Messages |-> 0]
  /\ since = <<>> /\ era = 0 /\ spawned = 0
  /\ commands = 0 /\ faults = 0 /\ leaked = 0 /\ raced = FALSE

-----------------------------------------------------------------------------
(* The entry of session_states.                                            *)

Advanced_Never(e) == e

Entered(e) == IF e = NoEntry THEN [generation |-> 0, attempts |-> 1]
              ELSE [e EXCEPT !.attempts = @ + 1]

Left(e) == IF e = NoEntry \/ e.attempts <= 1 THEN NoEntry
           ELSE [e EXCEPT !.attempts = @ - 1]

Advanced(e) == IF e = NoEntry THEN NoEntry ELSE [e EXCEPT !.generation = @ + 1]

IsCurrent(t) == entry # NoEntry /\ entry.generation = attempt[t].generation

Fails(f) == IF f THEN faults < MaxFaults /\ faults' = faults + 1 ELSE UNCHANGED faults

\* The session the store holds counts as idle after a day or some hours.
TimePasses ==
  /\ current # None /\ ~idle
  /\ idle' = TRUE
  /\ UNCHANGED <<current, entry, pool, kill, pc, attempt, on, since, era, commands, faults,
                 leaked, raced>>

-----------------------------------------------------------------------------
(* A turn, up to its begin on the pool.                                    *)

LaneFree(t) == \A u \in Registered : (u \in Manage) # (t \in Manage)

\* Read the session and register; the policy may reset the session first.
RegisterTurn(t, f) ==
  LET due   == idle /\ current # None
      reset == due /\ ~f
  IN
  /\ pc[t] = "new" /\ LaneFree(t)
  /\ f => due
  /\ Fails(f)
  /\ current' = IF reset THEN None ELSE current
  /\ idle' = (idle /\ ~reset)
  /\ era' = IF reset THEN era + 1 ELSE era
  /\ LET e == Entered(IF reset THEN Advanced(entry) ELSE entry) IN
       /\ entry' = e
       /\ attempt' = [attempt EXCEPT ![t] = [sid |-> current', generation |-> e.generation,
                                             era |-> era', retried |-> FALSE]]
  /\ pc' = [pc EXCEPT ![t] = IF reset THEN "autokill" ELSE "begin"]
  /\ UNCHANGED <<pool, kill, on, since, commands, leaked, raced>>

AutoKill(t) ==
  /\ pc[t] = "autokill"
  /\ process' = NoProcess
  /\ pc' = [pc EXCEPT ![t] = "begin"]
  /\ UNCHANGED <<store, entry, kill, attempt, on, since, era, spawned, commands, faults,
                 leaked, raced>>

\* start_run refuses a request that was cancelled meanwhile.
NotStarted(t) ==
  /\ pc[t] = "begin" /\ ~attempt[t].retried
  /\ entry' = Left(entry)
  /\ pc' = [pc EXCEPT ![t] = "ended"]
  /\ UNCHANGED <<store, pool, kill, attempt, on, since, era, commands, faults, leaked, raced>>

KillsPending == kill \/ \E u \in Messages : pc[u] \in {"autokill", "stale"}

\* begin_turn: on the process there is, or on a new one that resumes the
\* session of the attempt or starts a session of its own.
Begin(t) ==
  /\ pc[t] = "begin"
  /\ pc' = [pc EXCEPT ![t] = "running"]
  /\ raced' = (raced \/ KillsPending \/ attempt[t].era # era)
  /\ \/ /\ process # NoProcess
        /\ on' = [on EXCEPT ![t] = process.id]
        /\ UNCHANGED <<pool, since>>
     \/ /\ process = NoProcess /\ spawned < MaxSpawns
        /\ since' = IF attempt[t].sid = None THEN Append(since, attempt[t].era) ELSE since
        /\ spawned' = spawned + 1
        /\ process' = [id |-> spawned + 1,
                       session |-> IF attempt[t].sid = None THEN Len(since) + 1
                                   ELSE attempt[t].sid]
        /\ on' = [on EXCEPT ![t] = spawned + 1]
  /\ UNCHANGED <<store, entry, kill, attempt, era, commands, faults, leaked>>

ProcessExits ==
  /\ process # NoProcess
  /\ process' = NoProcess
  /\ UNCHANGED <<store, entry, kill, pc, attempt, on, since, era, spawned, commands, faults,
                 leaked, raced>>

-----------------------------------------------------------------------------
(* The end of a turn.                                                      *)

\* finalize_attempt with the session of the result, if it has one.
Finalize(t, session, success, f) ==
  LET stores  == IsCurrent(t) /\ session # None
      touches == IsCurrent(t) /\ session = None /\ success
  IN
  /\ f => stores \/ touches
  /\ Fails(f)
  /\ current' = IF stores /\ ~f THEN session ELSE current
  /\ idle' = (idle /\ ~((stores \/ touches) /\ ~f))
  /\ entry' = Left(entry)
  /\ pc' = [pc EXCEPT ![t] = "ended"]
  /\ UNCHANGED <<pool, kill, attempt, on, era, commands, leaked, raced>>

\* The CLI is not available, its circuit is open, or it cannot be spawned.
NotBegun(t, f) ==
  /\ pc[t] = "begin"
  /\ Finalize(t, None, FALSE, f)
  /\ UNCHANGED since

\* What the pool holds under the key by now: the process of this turn,
\* another one, or none and then the turn has no result.
Finish(t, success, f) ==
  /\ pc[t] = "running"
  /\ process = NoProcess => ~success
  /\ \E session \in {None} \cup (IF process = NoProcess THEN {} ELSE {process.session}) :
       Finalize(t, session, success, f)
  /\ UNCHANGED since

\* The CLI does not know the session it was told to resume: forget it, if
\* it is still the current one, and try once more without.
FindStale(t, f) ==
  /\ pc[t] = "running" /\ attempt[t].sid # None /\ IsCurrent(t)
  /\ Fails(f)
  /\ IF f
     THEN UNCHANGED <<store, pc, attempt>>
     ELSE /\ current' = None /\ idle' = FALSE
          /\ pc' = [pc EXCEPT ![t] = "stale"]
          /\ UNCHANGED attempt
  /\ UNCHANGED <<entry, pool, kill, on, since, era, commands, leaked, raced>>

\* Kill what resumed it and begin again, on the pool or as a single run.
ForgetStale(t) ==
  /\ pc[t] = "stale"
  /\ process' = NoProcess
  /\ attempt' = [attempt EXCEPT ![t].sid = None, ![t].retried = TRUE]
  /\ \E next \in {"begin", "oneshot"} : pc' = [pc EXCEPT ![t] = next]
  /\ UNCHANGED <<store, entry, kill, on, since, era, spawned, commands, faults, leaked, raced>>

FinishOneShot(t, success, f) ==
  /\ pc[t] = "oneshot"
  /\ \/ /\ since' = Append(since, attempt[t].era)
        /\ Finalize(t, Len(since) + 1, success, f)
     \/ /\ UNCHANGED since
        /\ Finalize(t, None, success, f)

\* The sections under the gate and the kills do not panic.
Panic(t) ==
  /\ pc[t] \in {"begin", "running", "oneshot"} /\ leaked < MaxPanics
  /\ leaked' = leaked + 1
  /\ pc' = [pc EXCEPT ![t] = "ended"]
  /\ UNCHANGED <<store, entry, pool, kill, attempt, on, since, era, commands, faults, raced>>

-----------------------------------------------------------------------------
(* Session commands on the main loop.                                      *)

Invalidate ==
  /\ ~kill /\ commands < MaxCommands
  /\ commands' = commands + 1
  /\ entry' = Advanced(entry)
  /\ kill' = TRUE
  /\ UNCHANGED <<pool, pc, attempt, on, faults, leaked, raced>>

New ==
  /\ Invalidate
  /\ current' = None /\ idle' = FALSE
  /\ era' = era + 1
  /\ UNCHANGED since

Switch(s) ==
  /\ Invalidate
  /\ current' = s /\ idle' = FALSE
  /\ era' = era + 1
  /\ since' = [since EXCEPT ![s] = era + 1]

\* /model, /cli, /workspace keep the session and replace its process.
Reconfigure ==
  /\ Invalidate
  /\ UNCHANGED <<store, since, era>>

KillProcess_Forgotten ==
  /\ kill
  /\ kill' = FALSE
  /\ UNCHANGED <<store, entry, pool, pc, attempt, on, since, era, commands, faults, leaked,
                 raced>>

KillProcess ==
  /\ kill
  /\ kill' = FALSE
  /\ process' = NoProcess
  /\ UNCHANGED <<store, entry, pc, attempt, on, since, era, spawned, commands, faults, leaked,
                 raced>>

-----------------------------------------------------------------------------
Turn(t) ==
  \/ AutoKill(t) \/ NotStarted(t) \/ Begin(t) \/ ForgetStale(t)
  \/ \E f \in BOOLEAN : RegisterTurn(t, f) \/ NotBegun(t, f) \/ FindStale(t, f)
  \/ \E success, f \in BOOLEAN : Finish(t, success, f) \/ FinishOneShot(t, success, f)

Command == New \/ Reconfigure \/ KillProcess \/ \E s \in Sessions : Switch(s)

GateNext ==
  \/ \E t \in Messages : Turn(t) \/ Panic(t)
  \/ Command
  \/ TimePasses
  \/ ProcessExits

GateSpec == GateInit /\ [][GateNext]_gateVars

-----------------------------------------------------------------------------
Attempts == [sid : Sessions \cup {None}, generation : Nat, era : Nat, retried : BOOLEAN]

GateTypeOK ==
  /\ current \in Sessions \cup {None} /\ idle \in BOOLEAN
  /\ entry \in [generation : Nat, attempts : Nat \ {0}] \cup {NoEntry}
  /\ process \in [id : Nat, session : Sessions] \cup {NoProcess}
  /\ kill \in BOOLEAN /\ raced \in BOOLEAN
  /\ pc \in [Messages -> {"new", "autokill", "begin", "running", "stale", "oneshot", "ended"}]
  /\ attempt \in [Messages -> Attempts]
  /\ on \in [Messages -> Nat]
  /\ since \in Seq(Nat)
  /\ {era, spawned, commands, faults, leaked} \subseteq Nat

\* An entry counts the turns that are running and the panics, and is there
\* exactly as long as the count is not zero: a generation is never started
\* again at zero while a turn still holds one.
EntryCountsTurns ==
  IF entry = NoEntry
  THEN Registered = {} /\ leaked = 0
  ELSE entry.attempts = Cardinality(Registered) + leaked

\* A turn that ends after the user or the policy left its session does not
\* bring a session back: it writes the row only in its own era.
OnlyOwnEraStored ==
  [][\A t \in Messages : t \in Registered /\ pc'[t] = "ended" /\ current' # current
                            => attempt[t].era = era]_gateVars

\* A turn runs in a session of the era it registered in, or a later one.
RunsInItsEra(t) ==
  pc[t] = "running" /\ process # NoProcess /\ process.id = on[t]
    => since[process.session] >= attempt[t].era

\* No message of a later turn continues a session that was left by /new, /session
\* switch or the reset policy, unless a turn began between the reset and the kill of
\* its process, or had registered before the reset and began after the kill.
FreshUnlessRaced == raced \/ \A t \in Messages : RunsInItsEra(t)
=============================================================================
