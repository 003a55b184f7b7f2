--------------------------- MODULE SessionsProofs ---------------------------
(***************************************************************************)
(* What holds of the parts that serve one conversation, for any number of  *)
(* turns, commands, tables, callers, sends, lines of output and faults:    *)
(* the session gate, the file store, the replies to a Weixin chat and a    *)
(* CLI spawned for one turn.  A part has a section of its own; ClaudeProofs*)
(* has the Claude process.                                                 *)
(***************************************************************************)
EXTENDS SessionGate, FileStore, WeixinSend, OneShotRun, FiniteSetTheorems, SequenceTheorems,
        TLAPS

-----------------------------------------------------------------------------
(***************************************************************************)
(* SessionGate.  A late turn never brings back a session that was left.    *)
(* The argument: the entry of session_states is there as long as a turn is *)
(* registered, because it counts them; so each reset that happens while a  *)
(* turn runs advances the generation, and a turn whose generation is still *)
(* the entry's saw every reset (Guarded).  Every step does one of five     *)
(* things to the entry, which StepShapes sums up; the invariant is then    *)
(* shown once for each of them.                                            *)
(***************************************************************************)

\* No turn is ahead of the entry, and one that is level with it has seen every
\* reset.
Guarded ==
  entry # NoEntry =>
    \A t \in Registered :
      /\ attempt[t].generation <= entry.generation
      /\ attempt[t].generation = entry.generation => attempt[t].era = era

KeepsAttempts(S) == \A u \in S : /\ attempt'[u].generation = attempt[u].generation
                                 /\ attempt'[u].era = attempt[u].era

Quiet == /\ Registered' = Registered /\ entry' = entry /\ leaked' = leaked /\ era' = era
         /\ KeepsAttempts(Registered)

Enters(t) ==
  /\ t \in Messages \ Registered /\ Registered' = Registered \cup {t}
  /\ leaked' = leaked /\ KeepsAttempts(Registered)
  /\ \/ entry' = Entered(entry) /\ era' = era
     \/ entry' = Entered(Advanced(entry))
  /\ attempt'[t].generation = entry'.generation /\ attempt'[t].era = era'

Leaves(t) ==
  /\ t \in Registered /\ Registered' = Registered \ {t}
  /\ entry' = Left(entry) /\ leaked' = leaked /\ era' = era /\ KeepsAttempts(Registered)

Panics(t) ==
  /\ t \in Registered /\ Registered' = Registered \ {t}
  /\ entry' = entry /\ leaked' = leaked + 1 /\ era' = era /\ KeepsAttempts(Registered)

Advances ==
  /\ Registered' = Registered /\ entry' = Advanced(entry)
  /\ leaked' = leaked /\ KeepsAttempts(Registered)

Shapes == \/ Quiet \/ Advances
          \/ \E t \in Messages : Enters(t) \/ Leaves(t) \/ Panics(t)

-----------------------------------------------------------------------------
(* Types.                                                                  *)

\* The types hold at the start.
LEMMA GateTypeInit == GateInit => GateTypeOK
<1> SUFFICES ASSUME GateInit PROVE GateTypeOK
  OBVIOUS
<1>1. since \in Seq(Nat) /\ {era, spawned, commands, faults, leaked} \subseteq Nat
  BY DEF GateInit
<1>2. attempt \in [Messages -> Attempts]
  BY DEF GateInit, Attempts
<1>3. pc \in [Messages -> {"new", "autokill", "begin", "running", "stale", "oneshot", "ended"}]
  BY DEF GateInit
<1> QED
  BY <1>1, <1>2, <1>3 DEF GateInit, GateTypeOK

\* Helpers on the entry keep its type.
LEMMA EntryType ==
  ASSUME NEW e \in [generation : Nat, attempts : Nat \ {0}] \cup {NoEntry}
  PROVE  /\ Entered(e) \in [generation : Nat, attempts : Nat \ {0}]
         /\ Left(e) \in [generation : Nat, attempts : Nat \ {0}] \cup {NoEntry}
         /\ Advanced(e) \in [generation : Nat, attempts : Nat \ {0}] \cup {NoEntry}
  BY DEF Entered, Left, Advanced

\* finalize_attempt keeps the types when its session is one that exists.
LEMMA FinalizeType ==
  ASSUME GateTypeOK, NEW t \in Messages, NEW s, s \in Sessions' \cup {None}, NEW ok \in BOOLEAN,
         NEW f \in BOOLEAN, Finalize(t, s, ok, f), Sessions \subseteq Sessions',
         since' \in Seq(Nat)
  PROVE  GateTypeOK'
<1>1. Left(entry) \in [generation : Nat, attempts : Nat \ {0}] \cup {NoEntry}
  BY EntryType DEF GateTypeOK
<1>2. current' \in Sessions' \cup {None} /\ idle' \in BOOLEAN
  BY DEF GateTypeOK, Finalize
<1>3. faults' \in Nat
  BY DEF GateTypeOK, Finalize, Fails
<1>4. pc' \in [Messages -> {"new", "autokill", "begin", "running", "stale", "oneshot", "ended"}]
  BY DEF GateTypeOK, Finalize
<1>5. process' \in [id : Nat, session : Sessions'] \cup {NoProcess}
  BY DEF GateTypeOK, Finalize, pool
<1>6. attempt' \in [Messages -> Attempts']
  <2>1. attempt' = attempt /\ attempt \in [Messages -> Attempts]
    BY DEF GateTypeOK, Finalize
  <2>2. Attempts \subseteq Attempts'
    BY DEF Attempts
  <2> QED BY <2>1, <2>2
<1> QED
  BY <1>1, <1>2, <1>3, <1>4, <1>5, <1>6 DEF GateTypeOK, Finalize, pool

\* Sessions are never taken away.
LEMMA Grows ==
  ASSUME since \in Seq(Nat), NEW n \in Nat
  PROVE  /\ since' = since => Sessions \subseteq Sessions' /\ since' \in Seq(Nat)
         /\ since' = Append(since, n)
              => /\ Sessions \subseteq Sessions' /\ since' \in Seq(Nat)
                 /\ Len(since) + 1 \in Sessions'
         /\ \A s \in Sessions : since' = [since EXCEPT ![s] = n]
              => Sessions \subseteq Sessions' /\ since' \in Seq(Nat)
<1>1. Len(since) \in Nat
  OBVIOUS
<1>2. ASSUME since' = since PROVE Sessions \subseteq Sessions' /\ since' \in Seq(Nat)
  BY <1>2 DEF Sessions
<1>3. ASSUME since' = Append(since, n)
      PROVE  /\ Sessions \subseteq Sessions' /\ since' \in Seq(Nat)
             /\ Len(since) + 1 \in Sessions'
  <2>1. since' \in Seq(Nat) /\ Len(since') = Len(since) + 1
    BY <1>3
  <2> QED BY <2>1, <1>1 DEF Sessions
<1>4. ASSUME NEW s \in Sessions, since' = [since EXCEPT ![s] = n]
      PROVE  Sessions \subseteq Sessions' /\ since' \in Seq(Nat)
  <2>1. since' \in Seq(Nat) /\ Len(since') = Len(since)
    BY <1>4, ExceptSeq DEF Sessions
  <2> QED BY <2>1 DEF Sessions
<1> QED
  BY <1>2, <1>3, <1>4

\* Every step keeps the types.
LEMMA GateTypeStep == GateTypeOK /\ [GateNext]_gateVars => GateTypeOK'
<1> SUFFICES ASSUME GateTypeOK, [GateNext]_gateVars PROVE GateTypeOK'
  OBVIOUS
<1> USE DEF store, pool
<1>0. since \in Seq(Nat) /\ era \in Nat /\ Len(since) \in Nat
      /\ (\A t \in Messages : attempt[t] \in Attempts) /\ Len(since) \in Nat
  BY DEF GateTypeOK
<1>a. ASSUME since' = since PROVE Sessions' = Sessions /\ Attempts' = Attempts
  BY <1>a DEF Sessions, Attempts
<1>b. ASSUME NEW t \in Messages, NEW f \in BOOLEAN, RegisterTurn(t, f) PROVE GateTypeOK'
  <2> DEFINE reset == idle /\ current # None /\ ~f
             e == IF reset THEN Advanced(entry) ELSE entry
  <2>1. e \in [generation : Nat, attempts : Nat \ {0}] \cup {NoEntry}
    BY EntryType DEF GateTypeOK
  <2>2. entry' = Entered(e) /\ entry' \in [generation : Nat, attempts : Nat \ {0}]
    BY <1>b, <2>1, EntryType DEF RegisterTurn
  <2>3. current' \in Sessions \cup {None} /\ era' \in Nat /\ faults' \in Nat /\ idle' \in BOOLEAN
    BY <1>b DEF RegisterTurn, GateTypeOK, Fails
  <2>4. attempt' = [attempt EXCEPT ![t] = [sid |-> current', generation |-> entry'.generation,
                                           era |-> era', retried |-> FALSE]]
    BY <1>b DEF RegisterTurn
  <2>5. attempt' \in [Messages -> Attempts]
    BY <2>2, <2>3, <2>4 DEF GateTypeOK, Attempts
  <2>6. since' = since BY <1>b DEF RegisterTurn
  <2> QED BY <1>b, <2>2, <2>3, <2>5, <2>6, <1>a DEF RegisterTurn, GateTypeOK
<1>c. ASSUME NEW t \in Messages, AutoKill(t) \/ Panic(t) PROVE GateTypeOK'
  <2>1. CASE AutoKill(t)
    <3>1. UNCHANGED <<current, idle, entry, kill, attempt, on, since, era, spawned, commands,
                      faults, leaked, raced>>
      BY <2>1 DEF AutoKill
    <3>2. process' = NoProcess /\ pc' = [pc EXCEPT ![t] = "begin"]
      BY <2>1 DEF AutoKill
    <3> QED BY <3>1, <3>2, <1>a DEF GateTypeOK
  <2>2. CASE Panic(t)
    <3>1. UNCHANGED <<current, idle, entry, process, kill, attempt, on, since, era, spawned,
                      commands, faults, raced>>
      BY <2>2 DEF Panic
    <3>2. leaked' = leaked + 1 /\ leaked < MaxPanics /\ pc' = [pc EXCEPT ![t] = "ended"]
      BY <2>2 DEF Panic
    <3> QED BY <3>1, <3>2, <1>a DEF GateTypeOK
  <2> QED BY <1>c, <2>1, <2>2
<1>d. ASSUME NEW t \in Messages, NotStarted(t) PROVE GateTypeOK'
  BY <1>d, <1>a, EntryType DEF NotStarted, GateTypeOK
<1>e. ASSUME NEW t \in Messages, Begin(t) PROVE GateTypeOK'
  <2>1. attempt[t].sid \in Sessions \cup {None} /\ attempt[t].era \in Nat
    BY <1>0 DEF Attempts
  <2>2. Sessions \subseteq Sessions' /\ since' \in Seq(Nat)
    BY <1>e, <1>0, <2>1, Grows DEF Begin
  <2>3. process' \in [id : Nat, session : Sessions'] \cup {NoProcess} /\ spawned' \in Nat
        /\ on' \in [Messages -> Nat]
    <3>1. CASE process # NoProcess /\ process' = process /\ spawned' = spawned
                /\ on' = [on EXCEPT ![t] = process.id]
      BY <3>1, <2>2 DEF GateTypeOK
    <3>2. CASE /\ attempt[t].sid = None /\ since' = Append(since, attempt[t].era)
               /\ process' = [id |-> spawned + 1, session |-> Len(since) + 1]
               /\ spawned' = spawned + 1 /\ on' = [on EXCEPT ![t] = spawned + 1]
      <4>1. Len(since) + 1 \in Sessions'
        BY <3>2, <1>0, <2>1, Grows
      <4> QED BY <4>1, <3>2 DEF GateTypeOK
    <3>3. CASE /\ attempt[t].sid # None
               /\ process' = [id |-> spawned + 1, session |-> attempt[t].sid]
               /\ spawned' = spawned + 1 /\ on' = [on EXCEPT ![t] = spawned + 1]
      BY <3>3, <2>1, <2>2 DEF GateTypeOK
    <3> QED BY <3>1, <3>2, <3>3, <1>e DEF Begin
  <2>4. attempt' \in [Messages -> Attempts']
    <3>1. attempt' = attempt /\ Attempts \subseteq Attempts'
      BY <1>e, <2>2 DEF Begin, Attempts
    <3> QED BY <3>1 DEF GateTypeOK
  <2>5. pc' \in [Messages -> {"new", "autokill", "begin", "running", "stale", "oneshot", "ended"}]
        /\ raced' \in BOOLEAN /\ current' \in Sessions' \cup {None}
    BY <1>e, <2>2 DEF Begin, GateTypeOK, KillsPending
  <2> QED BY <1>e, <2>2, <2>3, <2>4, <2>5 DEF Begin, GateTypeOK
<1>f. ASSUME NEW t \in Messages, NEW f \in BOOLEAN, NotBegun(t, f) PROVE GateTypeOK'
  BY <1>f, <1>0, Grows, FinalizeType DEF NotBegun
<1>g. ASSUME NEW t \in Messages, NEW ok \in BOOLEAN, NEW f \in BOOLEAN, Finish(t, ok, f)
      PROVE GateTypeOK'
  <2>1. PICK s \in {None} \cup (IF process = NoProcess THEN {} ELSE {process.session}) :
               Finalize(t, s, ok, f)
    BY <1>g DEF Finish
  <2>2. s \in Sessions \cup {None} BY <2>1 DEF GateTypeOK
  <2>3. since' = since BY <1>g DEF Finish
  <2> QED BY <2>1, <2>2, <2>3, <1>0, Grows, FinalizeType
<1>h. ASSUME NEW t \in Messages, NEW ok \in BOOLEAN, NEW f \in BOOLEAN, FinishOneShot(t, ok, f)
      PROVE GateTypeOK'
  <2>1. CASE since' = Append(since, attempt[t].era) /\ Finalize(t, Len(since) + 1, ok, f)
    <3>1. attempt[t].era \in Nat BY <1>0 DEF Attempts
    <3>2. Sessions \subseteq Sessions' /\ since' \in Seq(Nat) /\ Len(since) + 1 \in Sessions'
      BY <2>1, <3>1, <1>0, Grows
    <3> QED BY <2>1, <3>2, FinalizeType
  <2>2. CASE since' = since /\ Finalize(t, None, ok, f)
    BY <2>2, <1>0, Grows, FinalizeType
  <2> QED BY <1>h, <2>1, <2>2 DEF FinishOneShot
<1>i. ASSUME NEW t \in Messages, NEW f \in BOOLEAN, FindStale(t, f) PROVE GateTypeOK'
  <2>1. faults' \in Nat BY <1>i DEF FindStale, GateTypeOK, Fails
  <2>2. /\ current' \in Sessions \cup {None} /\ idle' \in BOOLEAN
        /\ pc' \in [Messages -> {"new", "autokill", "begin", "running", "stale", "oneshot", "ended"}]
        /\ attempt' = attempt
    BY <1>i DEF FindStale, GateTypeOK
  <2>3. UNCHANGED <<entry, process, spawned, kill, on, since, era, commands, leaked, raced>>
    BY <1>i DEF FindStale
  <2> QED BY <2>1, <2>2, <2>3, <1>a DEF GateTypeOK
<1>j. ASSUME NEW t \in Messages, ForgetStale(t) PROVE GateTypeOK'
  <2>1. attempt' \in [Messages -> Attempts]
    BY ZenonT(60), <1>j, <1>0 DEF ForgetStale, GateTypeOK, Attempts
  <2>2. process' = NoProcess /\ \E next \in {"begin", "oneshot"} : pc' = [pc EXCEPT ![t] = next]
    BY <1>j DEF ForgetStale
  <2>3. UNCHANGED <<current, idle, entry, kill, on, since, era, spawned, commands, faults,
                    leaked, raced>>
    BY <1>j DEF ForgetStale
  <2> QED BY <2>1, <2>2, <2>3, <1>a DEF GateTypeOK
<1>k. ASSUME New \/ Reconfigure PROVE GateTypeOK'
  <2>1. since' = since BY <1>k DEF New, Reconfigure
  <2>2. Advanced(entry) \in [generation : Nat, attempts : Nat \ {0}] \cup {NoEntry}
    BY EntryType DEF GateTypeOK
  <2>3. /\ entry' = Advanced(entry) /\ kill' \in BOOLEAN
        /\ UNCHANGED <<process, spawned, pc, attempt, on, faults, leaked, raced>>
    BY <1>k DEF New, Reconfigure, Invalidate
  <2>4. current' \in Sessions \cup {None} /\ idle' \in BOOLEAN
    BY <1>k DEF New, Reconfigure, GateTypeOK
  <2>5. commands' \in Nat /\ era' \in Nat
    BY <1>k DEF New, Reconfigure, Invalidate, GateTypeOK
  <2> QED BY <2>1, <2>2, <2>3, <2>4, <2>5, <1>a DEF GateTypeOK
<1>l. ASSUME NEW s \in Sessions, Switch(s) PROVE GateTypeOK'
  <2>0. since' = [since EXCEPT ![s] = era + 1] /\ era + 1 \in Nat
    BY <1>l, <1>0 DEF Switch
  <2>1. Sessions \subseteq Sessions' /\ since' \in Seq(Nat)
    BY <2>0, <1>0, Grows
  <2>2. Advanced(entry) \in [generation : Nat, attempts : Nat \ {0}] \cup {NoEntry}
    BY EntryType DEF GateTypeOK
  <2>3. attempt' \in [Messages -> Attempts']
    <3>1. attempt' = attempt /\ Attempts \subseteq Attempts'
      BY <1>l, <2>1 DEF Switch, Invalidate, Attempts
    <3> QED BY <3>1 DEF GateTypeOK
  <2>4. process' \in [id : Nat, session : Sessions'] \cup {NoProcess}
    BY <1>l, <2>1 DEF Switch, Invalidate, GateTypeOK
  <2>5. /\ entry' = Advanced(entry) /\ kill' \in BOOLEAN
        /\ UNCHANGED <<spawned, pc, on, faults, leaked, raced>>
    BY <1>l DEF Switch, Invalidate
  <2>6. current' \in Sessions' \cup {None} /\ idle' \in BOOLEAN
    BY <1>l, <2>1 DEF Switch
  <2>7. commands' \in Nat /\ era' \in Nat
    BY <1>l DEF Switch, Invalidate, GateTypeOK
  <2> QED BY <2>1, <2>2, <2>3, <2>4, <2>5, <2>6, <2>7 DEF GateTypeOK
<1>m. ASSUME KillProcess \/ TimePasses \/ ProcessExits PROVE GateTypeOK'
  BY <1>m, <1>a DEF KillProcess, TimePasses, ProcessExits, GateTypeOK
<1>n. CASE UNCHANGED gateVars
  BY <1>n, <1>a DEF gateVars, GateTypeOK
<1> QED
  BY <1>b, <1>c, <1>d, <1>e, <1>f, <1>g, <1>h, <1>i, <1>j, <1>k, <1>l, <1>m, <1>n
     DEF GateNext, Turn, Command

\* The types of the session gate.
THEOREM TypeCorrect == GateSpec => []GateTypeOK
  BY GateTypeInit, GateTypeStep, PTL DEF GateSpec

-----------------------------------------------------------------------------
(* What a step does to the entry.                                          *)

LEMMA FinalizeLeaves ==
  ASSUME GateTypeOK, NEW t \in Registered, NEW s, NEW ok \in BOOLEAN, NEW f \in BOOLEAN,
         Finalize(t, s, ok, f)
  PROVE  Leaves(t)
<1>1. pc' = [pc EXCEPT ![t] = "ended"] /\ UNCHANGED <<attempt, era, leaked>> /\ entry' = Left(entry)
  BY DEF Finalize
<1>2. Registered' = Registered \ {t}
  BY <1>1 DEF Registered, GateTypeOK
<1> QED
  BY <1>1, <1>2 DEF Leaves, KeepsAttempts, Registered

\* Every step leaves the entry alone, advances it, or is one turn's arrival,
\* departure or panic.
LEMMA StepShapes == GateTypeOK /\ [GateNext]_gateVars => Shapes
<1> SUFFICES ASSUME GateTypeOK, [GateNext]_gateVars PROVE Shapes
  OBVIOUS
<1> USE DEF store, pool
<1>0. /\ pc \in [Messages -> {"new", "autokill", "begin", "running", "stale", "oneshot", "ended"}]
      /\ attempt \in [Messages -> Attempts] /\ Registered \subseteq Messages
  BY DEF GateTypeOK, Registered
<1>a. ASSUME NEW t \in Messages, NEW f \in BOOLEAN, RegisterTurn(t, f) PROVE Enters(t)
  <2> DEFINE reset == idle /\ current # None /\ ~f
  <2>1. /\ t \notin Registered
        /\ pc' = [pc EXCEPT ![t] = IF reset THEN "autokill" ELSE "begin"]
    BY <1>a DEF RegisterTurn, Registered
  <2>2. Registered' = Registered \cup {t}
    BY <2>1, <1>0 DEF Registered
  <2>3. attempt' = [attempt EXCEPT ![t] = [sid |-> current', generation |-> entry'.generation,
                                           era |-> era', retried |-> FALSE]]
    BY <1>a DEF RegisterTurn
  <2>4. KeepsAttempts(Registered) /\ attempt'[t].generation = entry'.generation /\ attempt'[t].era = era'
    BY <2>1, <2>3, <1>0 DEF KeepsAttempts
  <2>5. leaked' = leaked /\ (\/ entry' = Entered(entry) /\ era' = era
                            \/ entry' = Entered(Advanced(entry)))
    BY <1>a DEF RegisterTurn
  <2> QED BY <2>1, <2>2, <2>4, <2>5 DEF Enters
<1>b. ASSUME NEW t \in Messages, AutoKill(t) \/ Begin(t) \/ (\E f \in BOOLEAN : FindStale(t, f))
      PROVE Quiet
  <2>1. UNCHANGED <<entry, leaked, era, attempt>>
    BY <1>b DEF AutoKill, Begin, FindStale
  <2>2. t \in Registered /\ \E w \in {"begin", "running", "stale"} :
                                pc' = [pc EXCEPT ![t] = w] \/ pc' = pc
    BY <1>b DEF AutoKill, Begin, FindStale, Registered
  <2>3. Registered' = Registered
    BY <2>2, <1>0 DEF Registered
  <2> QED BY <2>1, <2>3 DEF Quiet, KeepsAttempts
<1>c. ASSUME NEW t \in Messages, ForgetStale(t) PROVE Quiet
  <2>1. UNCHANGED <<entry, leaked, era>>
    BY <1>c DEF ForgetStale
  <2>2. t \in Registered /\ \E w \in {"begin", "oneshot"} : pc' = [pc EXCEPT ![t] = w]
    BY <1>c DEF ForgetStale, Registered
  <2>3. Registered' = Registered
    BY <2>2, <1>0 DEF Registered
  <2>4. KeepsAttempts(Registered)
    BY <1>c, <1>0 DEF ForgetStale, KeepsAttempts, Attempts
  <2> QED BY <2>1, <2>3, <2>4 DEF Quiet
<1>d. ASSUME NEW t \in Messages, NotStarted(t) PROVE Leaves(t)
  <2>1. /\ t \in Registered /\ pc' = [pc EXCEPT ![t] = "ended"] /\ entry' = Left(entry)
        /\ UNCHANGED <<leaked, era, attempt>>
    BY <1>d DEF NotStarted, Registered
  <2>2. Registered' = Registered \ {t}
    BY <2>1, <1>0 DEF Registered
  <2> QED BY <2>1, <2>2 DEF Leaves, KeepsAttempts
<1>e. ASSUME NEW t \in Messages, NEW f \in BOOLEAN, NotBegun(t, f) PROVE Leaves(t)
  <2>1. t \in Registered /\ Finalize(t, None, FALSE, f)
    BY <1>e DEF NotBegun, Registered
  <2> QED BY <2>1, FinalizeLeaves
<1>f. ASSUME NEW t \in Messages, NEW ok \in BOOLEAN, NEW f \in BOOLEAN,
             Finish(t, ok, f) \/ FinishOneShot(t, ok, f)
      PROVE  Leaves(t)
  <2>1. t \in Registered /\ \E s : Finalize(t, s, ok, f)
    BY <1>f DEF Finish, FinishOneShot, Registered
  <2> QED BY <2>1, FinalizeLeaves
<1>g. ASSUME NEW t \in Messages, Panic(t) PROVE Panics(t)
  <2>1. /\ t \in Registered /\ pc' = [pc EXCEPT ![t] = "ended"] /\ leaked' = leaked + 1
        /\ UNCHANGED <<entry, era, attempt>>
    BY <1>g DEF Panic, Registered
  <2>2. Registered' = Registered \ {t}
    BY <2>1, <1>0 DEF Registered
  <2> QED BY <2>1, <2>2 DEF Panics, KeepsAttempts
<1>h. ASSUME New \/ Reconfigure \/ (\E s \in Sessions : Switch(s)) PROVE Advances
  <2>1. entry' = Advanced(entry) /\ UNCHANGED <<pc, attempt, leaked>>
    BY <1>h DEF New, Reconfigure, Switch, Invalidate
  <2> QED BY <2>1 DEF Advances, KeepsAttempts, Registered
<1>i. ASSUME KillProcess \/ TimePasses \/ ProcessExits \/ UNCHANGED gateVars PROVE Quiet
  <2>1. UNCHANGED <<entry, era, pc, attempt, leaked>>
    BY <1>i DEF KillProcess, TimePasses, ProcessExits, gateVars
  <2> QED BY <2>1 DEF Quiet, KeepsAttempts, Registered
<1> QED
  BY <1>a, <1>b, <1>c, <1>d, <1>e, <1>f, <1>g, <1>h, <1>i DEF GateNext, Turn, Command, Shapes

-----------------------------------------------------------------------------
(* The invariant.                                                          *)

GateInv == GateTypeOK /\ EntryCountsTurns /\ Guarded

LEMMA CountInit == GateInit => EntryCountsTurns /\ Guarded
<1> SUFFICES ASSUME GateInit PROVE EntryCountsTurns /\ Guarded
  OBVIOUS
<1>1. Registered = {} /\ entry = NoEntry /\ leaked = 0
  BY DEF GateInit, Registered
<1> QED BY <1>1 DEF EntryCountsTurns, Guarded

LEMMA FiniteRegistered == IsFiniteSet(Registered) /\ Cardinality(Registered) \in Nat
  BY GateAssumption, FS_Subset, FS_CardinalityType DEF Registered

\* The entry counts the turns after every step.
LEMMA CountStep == GateTypeOK /\ EntryCountsTurns /\ Shapes => EntryCountsTurns'
<1> SUFFICES ASSUME GateTypeOK, EntryCountsTurns, Shapes PROVE EntryCountsTurns'
  OBVIOUS
<1> DEFINE n == Cardinality(Registered)
<1>0. /\ n \in Nat /\ leaked \in Nat
      /\ entry # NoEntry => entry \in [generation : Nat, attempts : Nat \ {0}]
      /\ NoEntry \notin [generation : Nat, attempts : Nat]
  BY FiniteRegistered, GateAssumption DEF GateTypeOK
<1>1. CASE Quiet
  BY <1>1 DEF Quiet, EntryCountsTurns
<1>2. CASE Advances
  <2>1. CASE entry = NoEntry
    BY <1>2, <2>1 DEF Advances, Advanced, EntryCountsTurns
  <2>2. CASE entry # NoEntry
    <3>1. entry' = [entry EXCEPT !.generation = @ + 1] /\ entry' # NoEntry
          /\ entry'.attempts = entry.attempts
      BY <1>2, <2>2, <1>0 DEF Advances, Advanced
    <3> QED BY <3>1, <2>2, <1>2 DEF Advances, EntryCountsTurns
  <2> QED BY <2>1, <2>2
<1>3. ASSUME NEW t \in Messages, Enters(t) PROVE EntryCountsTurns'
  <2>1. Cardinality(Registered') = n + 1
    BY <1>3, FiniteRegistered, FS_AddElement DEF Enters
  <2>2. PICK e \in {entry, Advanced(entry)} : entry' = Entered(e)
    BY <1>3 DEF Enters
  <2>3. e = NoEntry <=> entry = NoEntry
    BY <1>0 DEF Advanced
  <2>4. CASE entry = NoEntry
    <3>1. entry' = [generation |-> 0, attempts |-> 1] /\ entry' # NoEntry
      BY <2>2, <2>3, <2>4, <1>0 DEF Entered
    <3>2. n = 0 /\ leaked = 0
      BY <2>4, FS_EmptySet DEF EntryCountsTurns
    <3> QED BY <3>1, <3>2, <2>1, <1>3 DEF Enters, EntryCountsTurns
  <2>5. CASE entry # NoEntry
    <3>1. e.attempts = entry.attempts /\ e \in [generation : Nat, attempts : Nat \ {0}]
      BY <2>5, <1>0 DEF Advanced
    <3>2. entry' = [e EXCEPT !.attempts = @ + 1]
      BY <2>2, <2>3, <2>5 DEF Entered
    <3>3. entry' \in [generation : Nat, attempts : Nat] /\ entry'.attempts = entry.attempts + 1
      BY <3>1, <3>2
    <3>4. entry.attempts = n + leaked /\ entry' # NoEntry
      BY <2>5, <3>3, <1>0 DEF EntryCountsTurns
    <3> QED BY <3>3, <3>4, <2>1, <1>0, <1>3 DEF Enters, EntryCountsTurns
  <2> QED BY <2>4, <2>5
<1>4. ASSUME NEW t \in Messages, Leaves(t) PROVE EntryCountsTurns'
  <2>1. Cardinality(Registered') = n - 1 /\ entry # NoEntry /\ n >= 1
    <3>1. Cardinality(Registered') = n - 1
      BY <1>4, FiniteRegistered, FS_RemoveElement DEF Leaves
    <3>2. n # 0
      BY <1>4, FiniteRegistered, FS_EmptySet DEF Leaves
    <3> QED BY <3>1, <3>2, <1>0, <1>4 DEF Leaves, EntryCountsTurns
  <2>2. entry.attempts = n + leaked /\ entry \in [generation : Nat, attempts : Nat \ {0}]
    BY <2>1, <1>0 DEF EntryCountsTurns
  <2>3. CASE entry.attempts <= 1
    <3>1. entry' = NoEntry /\ n = 1 /\ leaked = 0
      BY <2>1, <2>2, <2>3, <1>0, <1>4 DEF Leaves, Left
    <3>2. IsFiniteSet(Registered')
      BY <1>4, FiniteRegistered, FS_RemoveElement DEF Leaves
    <3>3. Registered' = {}
      BY <3>1, <3>2, <2>1, FS_EmptySet
    <3> QED BY <3>1, <3>3, <1>4 DEF Leaves, EntryCountsTurns
  <2>4. CASE ~(entry.attempts <= 1)
    <3>1. entry' = [entry EXCEPT !.attempts = @ - 1]
      BY <1>4, <2>1, <2>4 DEF Leaves, Left
    <3>2. entry'.attempts = entry.attempts - 1 /\ entry' \in [generation : Nat, attempts : Nat]
      BY <3>1, <2>2, <2>4
    <3> QED BY <3>2, <2>1, <2>2, <1>0, <1>4 DEF Leaves, EntryCountsTurns
  <2> QED BY <2>3, <2>4
<1>5. ASSUME NEW t \in Messages, Panics(t) PROVE EntryCountsTurns'
  <2>1. Cardinality(Registered') = n - 1
    BY <1>5, FiniteRegistered, FS_RemoveElement DEF Panics
  <2>2. entry # NoEntry /\ entry.attempts = n + leaked
    BY <1>5 DEF Panics, EntryCountsTurns
  <2> QED BY <2>1, <2>2, <1>0, <1>5 DEF Panics, EntryCountsTurns
<1> QED
  BY <1>1, <1>2, <1>3, <1>4, <1>5 DEF Shapes

\* No turn is ahead of the entry after a step, and one that is level with it
\* has seen every reset.
LEMMA GuardStep == GateInv /\ GateTypeOK' /\ Shapes => Guarded'
<1> SUFFICES ASSUME GateInv, GateTypeOK', Shapes, entry' # NoEntry, NEW u \in Registered'
             PROVE  /\ attempt'[u].generation <= entry'.generation
                    /\ attempt'[u].generation = entry'.generation => attempt'[u].era = era'
  BY DEF Guarded
<1>0. /\ \A t \in Messages : attempt[t].generation \in Nat
      /\ entry # NoEntry => entry \in [generation : Nat, attempts : Nat \ {0}]
      /\ entry' \in [generation : Nat, attempts : Nat \ {0}]
      /\ Registered \subseteq Messages
      /\ NoEntry \notin [generation : Nat, attempts : Nat]
  BY GateAssumption DEF GateInv, GateTypeOK, Attempts, Registered
<1>1. \A t \in Registered :
         entry # NoEntry /\ attempt[t].generation <= entry.generation
         /\ (attempt[t].generation = entry.generation => attempt[t].era = era)
  BY DEF GateInv, EntryCountsTurns, Guarded
<1>2. CASE Quiet
  BY <1>1, <1>2 DEF Quiet, KeepsAttempts
<1>3. ASSUME Advances PROVE entry'.generation = entry.generation + 1 /\ u \in Registered
  BY <1>3, <1>1, <1>0 DEF Advances, Advanced
<1>4. CASE Advances
  BY <1>4, <1>3, <1>1, <1>0 DEF Advances, KeepsAttempts
<1>5. ASSUME NEW t \in Messages, Enters(t)
      PROVE  /\ attempt'[u].generation <= entry'.generation
             /\ attempt'[u].generation = entry'.generation => attempt'[u].era = era'
  <2>1. CASE u = t
    BY <1>5, <2>1, <1>0 DEF Enters
  <2>2. CASE u \in Registered /\ entry' = Entered(entry) /\ era' = era
    <3>1. entry'.generation = entry.generation
      BY <2>2, <1>1, <1>0 DEF Entered
    <3> QED BY <3>1, <2>2, <1>1, <1>5 DEF Enters, KeepsAttempts
  <2>3. CASE u \in Registered /\ entry' = Entered(Advanced(entry))
    <3>1. Advanced(entry) = [entry EXCEPT !.generation = @ + 1]
      BY <2>3, <1>1 DEF Advanced
    <3>2. Advanced(entry) \in [generation : Nat, attempts : Nat]
          /\ Advanced(entry).generation = entry.generation + 1
      BY <3>1, <2>3, <1>1, <1>0
    <3>3. entry'.generation = entry.generation + 1
      BY <3>2, <2>3, <1>0 DEF Entered
    <3> QED BY <3>3, <2>3, <1>1, <1>0, <1>5 DEF Enters, KeepsAttempts
  <2> QED BY <2>1, <2>2, <2>3, <1>5 DEF Enters
<1>6. ASSUME NEW t \in Messages, Leaves(t)
      PROVE  u \in Registered /\ entry'.generation = entry.generation /\ era' = era
  BY <1>6, <1>1, <1>0 DEF Leaves, Left
<1>7. ASSUME NEW t \in Messages, Leaves(t) \/ Panics(t)
      PROVE  /\ attempt'[u].generation <= entry'.generation
             /\ attempt'[u].generation = entry'.generation => attempt'[u].era = era'
  <2>1. CASE Leaves(t)
    BY <2>1, <1>6, <1>1 DEF Leaves, KeepsAttempts
  <2>2. CASE Panics(t)
    BY <2>2, <1>1 DEF Panics, KeepsAttempts
  <2> QED BY <1>7, <2>1, <2>2
<1> QED
  BY <1>2, <1>4, <1>5, <1>7 DEF Shapes

\* The invariant holds in every reachable state.
LEMMA GateInvariant == GateSpec => []GateInv
<1>1. GateInit => GateInv
  BY GateTypeInit, CountInit DEF GateInv
<1>2. GateInv /\ [GateNext]_gateVars => GateInv'
  BY GateTypeStep, StepShapes, CountStep, GuardStep DEF GateInv
<1> QED
  BY <1>1, <1>2, PTL DEF GateSpec

\* The entry of session_states counts the running turns and the panics and is
\* there as long as there is one.
THEOREM EntryCounts == GateSpec => []EntryCountsTurns
<1>1. GateInv => EntryCountsTurns
  BY DEF GateInv
<1> QED
  BY <1>1, GateInvariant, PTL

\* A turn that ends writes the row of its session only in its own era.
THEOREM LateTurnsStoreNothing == GateSpec => OnlyOwnEraStored
<1>1. ASSUME GateInv, [GateNext]_gateVars
      PROVE  [\A t \in Messages : t \in Registered /\ pc'[t] = "ended" /\ current' # current
                                   => attempt[t].era = era]_gateVars
  <2> SUFFICES ASSUME GateNext, NEW t \in Registered, pc'[t] = "ended", current' # current
               PROVE  attempt[t].era = era
    BY <1>1 DEF Registered
  <2> USE DEF store, pool
  <2>0. /\ pc[t] # "ended" /\ t \in Messages
        /\ pc \in [Messages -> {"new", "autokill", "begin", "running", "stale", "oneshot", "ended"}]
    BY <1>1 DEF Registered, GateInv, GateTypeOK
  <2>1. ASSUME IsCurrent(t) PROVE attempt[t].era = era
    BY <2>1, <1>1 DEF IsCurrent, GateInv, Guarded
  <2>2. ASSUME NEW v \in Messages, NEW s, NEW ok \in BOOLEAN, NEW f \in BOOLEAN, Finalize(v, s, ok, f)
        PROVE  IsCurrent(t)
    <3>1. v = t
      BY <2>0, <2>2 DEF Finalize
    <3>2. IsCurrent(v)
      BY <2>2 DEF Finalize
    <3> QED BY <3>1, <3>2
  <2>3. ASSUME NEW v \in Messages, NEW f \in BOOLEAN, NotBegun(v, f) PROVE IsCurrent(t)
    BY <2>2, <2>3 DEF NotBegun
  <2>4. ASSUME NEW v \in Messages, NEW ok \in BOOLEAN, NEW f \in BOOLEAN,
               Finish(v, ok, f) \/ FinishOneShot(v, ok, f)
        PROVE  IsCurrent(t)
    <3>1. \E s : Finalize(v, s, ok, f)
      BY <2>4 DEF Finish, FinishOneShot
    <3> QED BY <3>1, <2>2
  <2>5. ASSUME NEW v \in Messages, NEW f \in BOOLEAN,
               RegisterTurn(v, f) \/ AutoKill(v) \/ Begin(v) \/ FindStale(v, f) \/ ForgetStale(v)
        PROVE  FALSE
    <3>1. \E w \in {"autokill", "begin", "running", "stale", "oneshot"} :
              pc' = [pc EXCEPT ![v] = w] \/ pc' = pc
      BY <2>5 DEF RegisterTurn, AutoKill, Begin, FindStale, ForgetStale
    <3> QED BY <3>1, <2>0
  <2>6. ASSUME New \/ Reconfigure \/ (\E s \in Sessions : Switch(s)) \/ TimePasses
        PROVE  FALSE
    <3>1. pc' = pc
      BY <2>6 DEF New, Reconfigure, Switch, Invalidate, TimePasses
    <3> QED BY <3>1, <2>0
  <2>7. ASSUME (\E v \in Messages : NotStarted(v) \/ Panic(v)) \/ KillProcess \/ ProcessExits
        PROVE  FALSE
    <3>1. current' = current
      BY <2>7 DEF NotStarted, Panic, KillProcess, ProcessExits
    <3> QED BY <3>1
  <2> QED
    BY <2>1, <2>3, <2>4, <2>5, <2>6, <2>7 DEF GateNext, Turn, Command
<1> QED
  BY <1>1, GateInvariant, PTL DEF GateSpec, OnlyOwnEraStored
-----------------------------------------------------------------------------
(* The session a turn runs in.                                             *)

\* A reset is on its way to the pool.
Killing == kill \/ \E u \in Messages : pc[u] = "autokill"

AtLeast(s, e) == s # None => since[s] >= e

\* The process has a session of this era, or a kill is on its way to it and every
\* turn it runs is of an earlier era.
ProcessFresh ==
  process # NoProcess =>
    \/ since[process.session] >= era
    \/ Killing /\ \A t \in Messages : pc[t] = "running" => attempt[t].era # era

\* Processes are numbered in order and no turn is of an era to come.
Numbers ==
  /\ \A t \in Messages : on[t] <= spawned /\ attempt[t].era <= era
  /\ process # NoProcess => process.id <= spawned

SessionsFresh ==
  /\ AtLeast(current, era)
  /\ \A t \in Messages : AtLeast(attempt[t].sid, attempt[t].era)
  /\ ProcessFresh
  /\ \A t \in Messages : RunsInItsEra(t)

FreshInv == Numbers /\ (raced \/ SessionsFresh)

\* What the types say of the eras, in the terms of the steps below.
LEMMA EraTypes ==
  ASSUME GateTypeOK
  PROVE  /\ era \in Nat /\ spawned \in Nat /\ None \notin Sessions /\ Len(since) \in Nat
         /\ \A s \in Sessions : since[s] \in Nat
         /\ current \in Sessions \cup {None}
         /\ \A t \in Messages : /\ attempt[t].sid \in Sessions \cup {None}
                                /\ attempt[t].era \in Nat /\ on[t] \in Nat
         /\ process # NoProcess => process.session \in Sessions /\ process.id \in Nat
<1>1. \A s \in Sessions : since[s] \in Nat
  BY DEF GateTypeOK, Sessions
<1>2. None \notin Sessions /\ Len(since) \in Nat
  BY DEF GateTypeOK, Sessions, None
<1> QED
  BY <1>1, <1>2 DEF GateTypeOK, Attempts

\* A step that resets nothing and begins nothing on the pool: turns register, end or
\* forget their session, the process stays or goes, what becomes current is fresh.
LEMMA CalmStep ==
  ASSUME GateTypeOK, GateTypeOK', FreshInv,
         UNCHANGED <<era, spawned, on, raced>>,
         process' \in {process, NoProcess},
         process' = process /\ Killing => Killing',
         Sessions \subseteq Sessions', \A s \in Sessions : since'[s] = since[s],
         \A t \in Messages :
            /\ pc'[t] = "running" => pc[t] = "running"
            /\ \/ /\ attempt'[t].era = attempt[t].era
                  /\ attempt'[t].sid \in {attempt[t].sid, None}
               \/ /\ attempt'[t].era = era /\ attempt'[t].sid = current
                  /\ pc'[t] # "running",
         raced \/ current' \in {current, None} \/ since'[current'] >= era
  PROVE  FreshInv'
<1> USE EraTypes DEF FreshInv
<1>1. Numbers'
  BY DEF Numbers
<1>2. ASSUME ~raced PROVE SessionsFresh'
  <2>1. AtLeast(current, era)'
    BY <1>2 DEF SessionsFresh, AtLeast
  <2>2. ASSUME NEW t \in Messages PROVE AtLeast(attempt[t].sid, attempt[t].era)'
    BY <1>2 DEF SessionsFresh, AtLeast
  <2>3. ProcessFresh'
    BY <1>2 DEF SessionsFresh, ProcessFresh
  <2>4. ASSUME NEW t \in Messages PROVE RunsInItsEra(t)'
    BY <1>2 DEF SessionsFresh, RunsInItsEra
  <2> QED BY <2>1, <2>2, <2>3, <2>4 DEF SessionsFresh
<1> QED BY <1>1, <1>2

\* A reset: the kill of the process is on its way, and the turns it runs are of an
\* earlier era by now.
LEMMA ResetStep ==
  ASSUME GateTypeOK, GateTypeOK', FreshInv,
         era' = era + 1, UNCHANGED <<process, spawned, on, raced>>, Killing',
         Sessions \subseteq Sessions', \A s \in Sessions : since'[s] \in {since[s], era'},
         \A t \in Messages :
            /\ pc'[t] = "running" => pc[t] = "running"
            /\ \/ attempt'[t].era = attempt[t].era /\ attempt'[t].sid = attempt[t].sid
               \/ attempt'[t].era = era' /\ attempt'[t].sid = None /\ pc'[t] # "running",
         current' = None \/ since'[current'] = era'
  PROVE  FreshInv'
<1> USE EraTypes DEF FreshInv
<1>1. Numbers'
  BY DEF Numbers
<1>2. ASSUME ~raced PROVE SessionsFresh'
  <2>1. AtLeast(current, era)'
    BY DEF AtLeast
  <2>2. ASSUME NEW t \in Messages PROVE AtLeast(attempt[t].sid, attempt[t].era)'
    BY <1>2 DEF SessionsFresh, AtLeast, Numbers
  <2>3. \A t \in Messages : pc'[t] = "running" => attempt'[t].era # era'
    BY DEF Numbers
  <2>4. ASSUME NEW t \in Messages PROVE RunsInItsEra(t)'
    BY <1>2 DEF SessionsFresh, RunsInItsEra, Numbers
  <2> QED BY <2>1, <2>2, <2>3, <2>4 DEF SessionsFresh, ProcessFresh
<1> QED BY <1>1, <1>2

\* A turn begins.  Unless it counts as raced there is no kill under way and the turn
\* is of this era, so the process has a session of this era or gets one.
LEMMA BeginStep ==
  ASSUME GateTypeOK, GateTypeOK', FreshInv, NEW t \in Messages, Begin(t)
  PROVE  FreshInv'
<1> USE EraTypes DEF FreshInv, pool, store
<1>0. /\ UNCHANGED <<current, attempt, era>> /\ pc' = [pc EXCEPT ![t] = "running"]
  BY DEF Begin, GateTypeOK
<1>1. CASE process # NoProcess /\ UNCHANGED <<process, spawned, since>>
           /\ on' = [on EXCEPT ![t] = process.id]
  <2>0. \A u \in Messages : on'[u] = IF u = t THEN process.id ELSE on[u]
    BY <1>1 DEF GateTypeOK
  <2>1. Numbers'
    BY <1>0, <1>1, <2>0 DEF Numbers
  <2>2. ASSUME ~raced' PROVE SessionsFresh'
    <3>1. ~raced /\ ~Killing /\ attempt[t].era = era
      BY <2>2 DEF Begin, KillsPending, Killing
    <3>2. since[process.session] >= era
      BY <1>1, <3>1 DEF SessionsFresh, ProcessFresh
    <3>3. ASSUME NEW u \in Messages PROVE RunsInItsEra(u)'
      BY <1>0, <1>1, <3>2 DEF RunsInItsEra, Numbers
    <3> QED BY <1>0, <1>1, <3>1, <3>2, <3>3 DEF SessionsFresh, ProcessFresh, AtLeast
  <2> QED BY <2>1, <2>2
<1>2. CASE /\ process = NoProcess /\ spawned' = spawned + 1
           /\ since' = IF attempt[t].sid = None THEN Append(since, attempt[t].era) ELSE since
           /\ process' = [id |-> spawned + 1,
                          session |-> IF attempt[t].sid = None THEN Len(since) + 1
                                      ELSE attempt[t].sid]
           /\ on' = [on EXCEPT ![t] = spawned + 1]
  <2>0. \A u \in Messages : on'[u] = IF u = t THEN spawned + 1 ELSE on[u]
    BY <1>2 DEF GateTypeOK
  <2>1. Numbers'
    BY <1>0, <1>2, <2>0 DEF Numbers
  <2>2. ASSUME ~raced' PROVE SessionsFresh'
    <3>1. ~raced /\ attempt[t].era = era
      BY <2>2 DEF Begin
    <3>2. \A s \in Sessions : since'[s] = since[s]
      BY <1>2 DEF GateTypeOK, Sessions
    <3>3. since'[process'.session] >= era
      <4>1. CASE attempt[t].sid = None
        BY <1>2, <4>1, <3>1 DEF GateTypeOK
      <4>2. CASE attempt[t].sid # None
        BY <1>2, <4>2, <3>1 DEF SessionsFresh, AtLeast
      <4> QED BY <4>1, <4>2
    <3>4. ASSUME NEW u \in Messages PROVE RunsInItsEra(u)'
      BY <1>0, <1>2, <2>0, <3>1, <3>3 DEF RunsInItsEra, Numbers
    <3>5. AtLeast(current, era)'
      BY <1>0, <3>1, <3>2 DEF SessionsFresh, AtLeast
    <3>6. ASSUME NEW u \in Messages PROVE AtLeast(attempt[u].sid, attempt[u].era)'
      BY <1>0, <3>1, <3>2 DEF SessionsFresh, AtLeast
    <3> QED BY <1>0, <3>3, <3>4, <3>5, <3>6 DEF SessionsFresh, ProcessFresh
  <2> QED BY <2>1, <2>2
<1> QED BY <1>1, <1>2 DEF Begin

\* finalize_attempt makes a session current only for a turn of this era, so a fresh
\* one if the session it is given is fresh for such a turn.
LEMMA FinalizeStep ==
  ASSUME GateInv, GateTypeOK', FreshInv, NEW t \in Messages, pc[t] \in {"begin", "running", "oneshot"},
         NEW s, NEW ok \in BOOLEAN, NEW f \in BOOLEAN, Finalize(t, s, ok, f),
         Sessions \subseteq Sessions', \A q \in Sessions : since'[q] = since[q],
         ~raced /\ s # None /\ attempt[t].era = era => since'[s] >= era
  PROVE  FreshInv'
<1>1. GateTypeOK /\ t \in Registered
  BY DEF GateInv, Registered
<1>2. /\ UNCHANGED <<process, spawned, kill, attempt, on, era, raced>>
      /\ pc' = [pc EXCEPT ![t] = "ended"]
  BY DEF Finalize, pool
<1>3. \A u \in Messages : pc'[u] = IF u = t THEN "ended" ELSE pc[u]
  BY <1>1, <1>2 DEF GateTypeOK
<1>4. Killing => Killing'
  BY <1>2, <1>3 DEF Killing
<1>5. IsCurrent(t) => attempt[t].era = era
  BY <1>1 DEF IsCurrent, GateInv, Guarded
<1>6. raced \/ current' = current \/ since'[current'] >= era
  BY <1>5 DEF Finalize
<1>7. \A u \in Messages : /\ attempt'[u].era = attempt[u].era /\ attempt'[u].sid = attempt[u].sid
                          /\ pc'[u] = "running" => pc[u] = "running"
  BY <1>2, <1>3
<1> QED BY <1>1, <1>2, <1>4, <1>6, <1>7, CalmStep

\* Every step keeps the sessions fresh.
LEMMA FreshStep == GateInv /\ GateTypeOK' /\ FreshInv /\ [GateNext]_gateVars => FreshInv'
<1> SUFFICES ASSUME GateInv, GateTypeOK', FreshInv, [GateNext]_gateVars PROVE FreshInv'
  OBVIOUS
<1> USE DEF store, pool
<1>0. /\ GateTypeOK /\ since \in Seq(Nat) /\ attempt \in [Messages -> Attempts]
      /\ pc \in [Messages -> {"new", "autokill", "begin", "running", "stale", "oneshot", "ended"}]
  BY DEF GateInv, GateTypeOK
<1>k. since' = since => Sessions \subseteq Sessions' /\ \A q \in Sessions : since'[q] = since[q]
  BY DEF Sessions
<1>a. ASSUME NEW n, since' = Append(since, n), n \in Nat
      PROVE  /\ Sessions \subseteq Sessions' /\ \A q \in Sessions : since'[q] = since[q]
             /\ since'[Len(since) + 1] = n
  BY <1>0, <1>a DEF Sessions
<1>1. ASSUME NEW t \in Messages, NEW f \in BOOLEAN, RegisterTurn(t, f) PROVE FreshInv'
  <2> DEFINE reset == idle /\ current # None /\ ~f
  <2>1. /\ UNCHANGED <<process, spawned, kill, on, since, raced>> /\ pc[t] = "new"
        /\ pc' = [pc EXCEPT ![t] = IF reset THEN "autokill" ELSE "begin"]
        /\ current' = IF reset THEN None ELSE current
        /\ era' = IF reset THEN era + 1 ELSE era
        /\ \E g : attempt' = [attempt EXCEPT ![t] = [sid |-> current', generation |-> g,
                                                     era |-> era', retried |-> FALSE]]
    BY <1>1 DEF RegisterTurn
  <2>2. \A u \in Messages : pc'[u] = IF u = t THEN (IF reset THEN "autokill" ELSE "begin")
                                     ELSE pc[u]
    BY <2>1, <1>0
  <2>3. \A u \in Messages :
            IF u = t THEN attempt'[u].sid = current' /\ attempt'[u].era = era'
                     ELSE attempt'[u] = attempt[u]
    BY <2>1, <1>0
  <2> HIDE DEF reset
  <2>4. \A u \in Messages : pc'[u] = "running" => pc[u] = "running" /\ u # t
    BY <2>2
  <2>5. CASE reset
    <3>1. Killing'
      BY <2>5, <2>2 DEF Killing
    <3>2. era' = era + 1 /\ current' = None
      BY <2>1, <2>5
    <3> QED BY <3>1, <3>2, <2>1, <2>3, <2>4, <1>0, <1>k, ResetStep
  <2>6. CASE ~reset
    <3>1. Killing => Killing'
      BY <2>1, <2>2 DEF Killing
    <3>2. era' = era /\ current' = current
      BY <2>1, <2>6
    <3> QED BY <3>1, <3>2, <2>1, <2>3, <2>4, <1>0, <1>k, CalmStep
  <2> QED BY <2>5, <2>6
<1>2. ASSUME NEW t \in Messages, Begin(t) PROVE FreshInv'
  BY <1>2, <1>0, BeginStep
<1>3. ASSUME UNCHANGED <<era, spawned, on, raced, since>>,
             process' \in {process, NoProcess}, current' \in {current, None},
             process' = process /\ Killing => Killing',
             \A u \in Messages : /\ attempt'[u].era = attempt[u].era
                                 /\ attempt'[u].sid \in {attempt[u].sid, None}
                                 /\ pc'[u] = "running" => pc[u] = "running"
      PROVE  FreshInv'
  BY <1>3, <1>0, <1>k, CalmStep
<1>4. ASSUME NEW t \in Messages, AutoKill(t) PROVE FreshInv'
  <2>1. /\ UNCHANGED <<era, spawned, on, raced, since, current, attempt>> /\ process' = NoProcess
        /\ pc' = [pc EXCEPT ![t] = "begin"]
    BY <1>4 DEF AutoKill
  <2>2. \A u \in Messages : pc'[u] = "running" => pc[u] = "running"
    BY <2>1, <1>0
  <2>3. process = NoProcess => FreshInv'
    BY <2>1, <2>2, EraTypes, <1>0 DEF FreshInv, Numbers, SessionsFresh, AtLeast, ProcessFresh, RunsInItsEra
  <2> QED BY <2>1, <2>2, <2>3, <1>3
<1>5. ASSUME NEW t \in Messages, ForgetStale(t) PROVE FreshInv'
  <2>1. /\ UNCHANGED <<era, spawned, on, raced, since, current, kill>> /\ process' = NoProcess
        /\ attempt' = [attempt EXCEPT ![t].sid = None, ![t].retried = TRUE]
        /\ pc[t] = "stale" /\ \E w \in {"begin", "oneshot"} : pc' = [pc EXCEPT ![t] = w]
    BY <1>5 DEF ForgetStale
  <2>2. \A u \in Messages : /\ pc'[u] = "running" => pc[u] = "running"
                            /\ pc[u] = "autokill" => pc'[u] = "autokill"
    BY <2>1, <1>0
  <2>3. \A u \in Messages : /\ attempt'[u].era = attempt[u].era
                            /\ attempt'[u].sid \in {attempt[u].sid, None}
    BY <2>1, <1>0 DEF Attempts
  <2>4. Killing => Killing'
    BY <2>1, <2>2 DEF Killing
  <2> QED BY <2>1, <2>2, <2>3, <2>4, <1>3
<1>6. ASSUME NEW t \in Messages, NEW f \in BOOLEAN, FindStale(t, f) PROVE FreshInv'
  <2>1. /\ UNCHANGED <<era, spawned, on, raced, since, process, attempt, kill>>
        /\ current' \in {current, None} /\ pc[t] = "running"
        /\ pc' = pc \/ pc' = [pc EXCEPT ![t] = "stale"]
    BY <1>6 DEF FindStale
  <2>2. \A u \in Messages : /\ pc'[u] = "running" => pc[u] = "running"
                            /\ pc[u] = "autokill" => pc'[u] = "autokill"
    BY <2>1, <1>0
  <2>3. Killing => Killing'
    BY <2>1, <2>2 DEF Killing
  <2> QED BY <2>1, <2>2, <2>3, <1>3
<1>7. ASSUME NEW t \in Messages, NotStarted(t) \/ Panic(t) PROVE FreshInv'
  <2>1. /\ UNCHANGED <<era, spawned, on, raced, since, process, current, attempt, kill>>
        /\ pc[t] # "autokill" /\ pc' = [pc EXCEPT ![t] = "ended"]
    BY <1>7 DEF NotStarted, Panic
  <2>2. \A u \in Messages : /\ pc'[u] = "running" => pc[u] = "running"
                            /\ pc[u] = "autokill" => pc'[u] = "autokill"
    BY <2>1, <1>0
  <2>3. Killing => Killing'
    BY <2>1, <2>2 DEF Killing
  <2> QED BY <2>1, <2>2, <2>3, <1>3
<1>8. ASSUME NEW t \in Messages, NEW f \in BOOLEAN, NotBegun(t, f) PROVE FreshInv'
  BY <1>8, <1>k, FinalizeStep DEF NotBegun
<1>9. ASSUME NEW t \in Messages, NEW ok \in BOOLEAN, NEW f \in BOOLEAN, Finish(t, ok, f)
      PROVE  FreshInv'
  <2>1. PICK s \in {None} \cup (IF process = NoProcess THEN {} ELSE {process.session}) :
               Finalize(t, s, ok, f)
    BY <1>9 DEF Finish
  <2>2. since' = since /\ pc[t] = "running"
    BY <1>9 DEF Finish
  <2>3. ~raced /\ s # None /\ attempt[t].era = era => since'[s] >= era
    BY <2>1, <2>2 DEF FreshInv, SessionsFresh, ProcessFresh
  <2> QED BY <2>1, <2>2, <2>3, <1>k, FinalizeStep
<1>10. ASSUME NEW t \in Messages, NEW ok \in BOOLEAN, NEW f \in BOOLEAN, FinishOneShot(t, ok, f)
       PROVE  FreshInv'
  <2>0. pc[t] = "oneshot" /\ attempt[t].era \in Nat /\ era \in Nat
    BY <1>10, <1>0 DEF FinishOneShot, GateTypeOK, Attempts
  <2>1. CASE since' = Append(since, attempt[t].era) /\ Finalize(t, Len(since) + 1, ok, f)
    <3>1. /\ Sessions \subseteq Sessions' /\ \A q \in Sessions : since'[q] = since[q]
          /\ since'[Len(since) + 1] = attempt[t].era
      BY <2>0, <2>1, <1>a
    <3>2. attempt[t].era = era => since'[Len(since) + 1] >= era
      BY <2>0, <3>1
    <3> QED BY <2>0, <2>1, <3>1, <3>2, FinalizeStep
  <2>2. CASE since' = since /\ Finalize(t, None, ok, f)
    BY <2>0, <2>2, <1>k, FinalizeStep
  <2> QED BY <1>10, <2>1, <2>2 DEF FinishOneShot
<1>11. ASSUME New \/ \E s \in Sessions : Switch(s) PROVE FreshInv'
  <2>1. /\ UNCHANGED <<process, spawned, on, raced, attempt, pc>> /\ kill' = TRUE
        /\ era' = era + 1
    BY <1>11 DEF New, Switch, Invalidate
  <2>2. CASE current' = None /\ since' = since
    BY <2>1, <2>2, <1>0, <1>k, ResetStep DEF Killing
  <2>3. ASSUME NEW s \in Sessions, current' = s, since' = [since EXCEPT ![s] = era + 1]
        PROVE  FreshInv'
    <3>1. /\ Sessions \subseteq Sessions'
          /\ \A q \in Sessions : since'[q] = IF q = s THEN era + 1 ELSE since[q]
      BY <2>3, <1>0, ExceptSeq DEF Sessions
    <3> QED BY <3>1, <2>1, <2>3, <1>0, ResetStep DEF Killing
  <2> QED BY <1>11, <2>2, <2>3 DEF New, Switch
<1>12. CASE Reconfigure
  <2>1. /\ UNCHANGED <<era, spawned, on, raced, since, process, current, attempt, pc>>
        /\ kill' = TRUE
    BY <1>12 DEF Reconfigure, Invalidate
  <2>2. Killing'
    BY <2>1 DEF Killing
  <2> QED BY <2>1, <2>2, <1>3
<1>13. CASE KillProcess \/ ProcessExits
  <2>1. /\ UNCHANGED <<era, spawned, on, raced, since, current, attempt, pc>>
        /\ process' = NoProcess
    BY <1>13 DEF KillProcess, ProcessExits
  <2>2. process = NoProcess => FreshInv'
    BY <2>1, EraTypes, <1>0 DEF FreshInv, Numbers, SessionsFresh, AtLeast, ProcessFresh, RunsInItsEra
  <2> QED BY <2>1, <2>2, <1>3
<1>14. CASE TimePasses \/ UNCHANGED gateVars
  <2>1. UNCHANGED <<era, spawned, on, raced, since, process, current, attempt, pc, kill>>
    BY <1>14 DEF TimePasses, gateVars
  <2> QED BY <2>1, <1>3 DEF Killing
<1> QED
  BY <1>1, <1>2, <1>4, <1>5, <1>6, <1>7, <1>8, <1>9, <1>10, <1>11, <1>12, <1>13, <1>14
     DEF GateNext, Turn, Command

\* A message sent after its user or the policy left a session runs in a fresh one,
\* unless a turn slipped in between the reset and the kill of the process: for any
\* number of turns, commands, processes, faults and panics.
THEOREM FreshAfterReset == GateSpec => []FreshUnlessRaced
<1>1. GateInit => FreshInv
  <2> SUFFICES ASSUME GateInit PROVE FreshInv
    OBVIOUS
  <2>1. /\ process = NoProcess /\ current = None /\ era = 0 /\ spawned = 0
        /\ \A t \in Messages : on[t] = 0 /\ attempt[t].era = 0 /\ attempt[t].sid = None
    BY DEF GateInit
  <2> QED
    BY <2>1 DEF FreshInv, Numbers, SessionsFresh, AtLeast, ProcessFresh, RunsInItsEra
<1>2. GateInv /\ FreshInv /\ [GateNext]_gateVars => FreshInv'
  BY FreshStep, GateTypeStep DEF GateInv
<1>3. FreshInv => FreshUnlessRaced
  BY DEF FreshInv, SessionsFresh, FreshUnlessRaced
<1> QED
  BY <1>1, <1>2, <1>3, GateInvariant, PTL DEF GateSpec

-----------------------------------------------------------------------------
(***************************************************************************)
(* FileStore.                                                              *)
(***************************************************************************)

(***************************************************************************)
(* The types.                                                              *)
(***************************************************************************)

\* A call that is under way has its change.
HasChange == \A c \in Callers : call[c].at # "idle" => call[c].change \in Changes

Types == FileTypeOK /\ HasChange

LEMMA NoCallType ==
    NoCall \in [at : Places, file : Files, change : 0..MaxCalls, copy : SUBSET Changes]
  BY FileAssumption DEF NoCall, Places, Files

LEMMA TypeStart == FileInit => Types
<1> SUFFICES ASSUME FileInit PROVE Types
    OBVIOUS
<1>1. call \in [Callers -> [at : Places, file : Files, change : 0..MaxCalls,
                            copy : SUBSET Changes]]
    BY NoCallType DEF FileInit
<1>2. HasChange
    BY DEF FileInit, HasChange, NoCall
<1>3. calls \in 0..MaxCalls /\ broken \in 0..MaxBreaks
    BY FileAssumption DEF FileInit
<1>4. memory \in [Tables -> SUBSET Changes] /\ disk \in [Files -> SUBSET Changes]
    BY DEF FileInit
<1>5. usage \subseteq Changes /\ torn \in BOOLEAN /\ locked \in Callers \union {NoCaller}
    BY DEF FileInit
<1>6. answered \subseteq Changes /\ glued \subseteq Changes
    BY DEF FileInit
<1> QED
    BY <1>1, <1>2, <1>3, <1>4, <1>5, <1>6 DEF Types, FileTypeOK

LEMMA TypeStep == Types /\ [FileNext]_fileVars => Types'
<1> SUFFICES ASSUME Types, [FileNext]_fileVars PROVE Types'
    OBVIOUS
<1> USE FileAssumption
    DEF Types, FileTypeOK, HasChange, Files, Places, Changes, At, Go, Fault, BeginCall, Release
<1>0. /\ NoCall \in [at : Places, file : Files, change : 0..MaxCalls, copy : SUBSET Changes]
      /\ NoCall.at = "idle"
    BY NoCallType DEF NoCall
<1>1. ASSUME NEW c \in Callers, NEW t \in Tables, ChangeTable(c, t) PROVE Types'
    BY <1>1 DEF ChangeTable
<1>2. ASSUME NEW c \in Callers, ChangeSkill(c) PROVE Types'
    BY <1>2 DEF ChangeSkill
<1>3. ASSUME NEW c \in Callers, LockDisk(c) PROVE Types'
    BY <1>3 DEF LockDisk
<1>4. ASSUME NEW c \in Callers, Copy(c) PROVE Types'
  <2>1. Content(c) \in SUBSET Changes
      BY <1>4 DEF Copy, Content
  <2>2. call' = [call EXCEPT ![c] = [call[c] EXCEPT !.at = "writing", !.copy = Content(c)]]
      BY <1>4 DEF Copy
  <2>3. call' \in [Callers -> [at : Places, file : Files, change : 0..MaxCalls,
                               copy : SUBSET Changes]]
      BY ZenonT(60), <2>1, <2>2
  <2>4. UNCHANGED <<memory, disk, usage, torn, locked, calls, broken, answered, glued>>
      BY <1>4 DEF Copy
  <2>5. call'[c].change = call[c].change /\ call[c].change \in Changes
      BY <1>4, <2>2 DEF Copy
  <2>6. \A d \in Callers : d # c => call'[d] = call[d]
      BY <2>2
  <2>7. HasChange'
      BY <2>4, <2>5, <2>6
  <2> QED BY <2>3, <2>4, <2>7
<1>5. ASSUME NEW c \in Callers, Rename(c) PROVE Types'
    BY <1>5 DEF Rename
<1>6. ASSUME NEW c \in Callers, WriteFails(c) PROVE Types'
    BY <1>0, <1>6 DEF WriteFails
<1>7. ASSUME NEW c \in Callers, Acknowledge(c) PROVE Types'
    BY <1>0, <1>7 DEF Acknowledge
<1>8. ASSUME NEW c \in Callers, RecordUsage(c) PROVE Types'
  <2>1. calls + 1 \in Changes
      BY <1>8 DEF RecordUsage
  <2>2. calls' \in 0..MaxCalls
      BY <1>8 DEF RecordUsage
  <2>3. answered' \subseteq Changes /\ usage' \subseteq Changes /\ glued' \subseteq Changes
      BY <1>8, <2>1 DEF RecordUsage
  <2> QED BY <1>8, <2>2, <2>3 DEF RecordUsage
<1>9. ASSUME NEW c \in Callers, RecordTears(c) PROVE Types'
    BY <1>9 DEF RecordTears
<1>10. CASE Reopen
    BY <1>0, <1>10 DEF Reopen
<1>11. CASE UNCHANGED fileVars
    BY <1>11 DEF fileVars
<1> QED
    BY <1>1, <1>2, <1>3, <1>4, <1>5, <1>6, <1>7, <1>8, <1>9, <1>10, <1>11 DEF FileNext

\* The types, for any number of tables and callers.
THEOREM FileTypesCorrect == FileSpec => []FileTypeOK
<1>1. Types => FileTypeOK
    BY DEF Types
<1> QED BY <1>1, TypeStart, TypeStep, PTL DEF FileSpec

(***************************************************************************)
(* The inductive invariant.                                                *)
(***************************************************************************)

\* Who writes a file has disk_write_lock.
WritersHaveLock ==
    \A c \in Callers : call[c].at \in {"locked", "writing", "renamed"} => locked = c

\* The file of a table never has what the table has not.
DiskBehind == \A t \in Tables : disk[t] \subseteq memory[t]

\* The change of a call is in memory while it waits for the lock and until it copies.
InMemory ==
    \A c \in Callers :
        call[c].at # "idle" /\ call[c].file \in Tables => call[c].change \in memory[call[c].file]

\* The copy that is being written has the change of its call and all that it replaces.
CopyIsNewer ==
    \A c \in Callers : call[c].at = "writing" =>
        /\ call[c].change \in call[c].copy
        /\ disk[call[c].file] \subseteq call[c].copy
        /\ call[c].file \in Tables => call[c].copy \subseteq memory[call[c].file]

OnDisk == \A c \in Callers : call[c].at = "renamed" => call[c].change \in disk[call[c].file]

IInv == /\ Types /\ WritersHaveLock /\ DiskBehind /\ InMemory /\ CopyIsNewer /\ OnDisk
        /\ AcknowledgedSurvives

LEMMA Start == FileInit => IInv
<1> SUFFICES ASSUME FileInit PROVE IInv
    OBVIOUS
<1>1. Types
    BY TypeStart
<1>2. \A c \in Callers : call[c].at = "idle"
    BY DEF FileInit, NoCall
<1>3. WritersHaveLock /\ InMemory /\ CopyIsNewer /\ OnDisk
    BY <1>2 DEF WritersHaveLock, InMemory, CopyIsNewer, OnDisk
<1>4. DiskBehind
    BY DEF FileInit, DiskBehind, Files
<1>5. AcknowledgedSurvives
    BY DEF FileInit, AcknowledgedSurvives
<1> QED BY <1>1, <1>3, <1>4, <1>5 DEF IInv

LEMMA Step == IInv /\ [FileNext]_fileVars => IInv'
<1> SUFFICES ASSUME IInv, [FileNext]_fileVars PROVE IInv'
    OBVIOUS
<1> USE FileAssumption DEF IInv
<1>0. Types'
    BY TypeStep
<1> USE DEF At, Go, Fault, BeginCall, Release
<1> DEFINE Others == WritersHaveLock /\ DiskBehind /\ InMemory /\ CopyIsNewer /\ OnDisk
<1>1. ASSUME NEW c \in Callers, NEW t \in Tables, ChangeTable(c, t)
      PROVE Others' /\ AcknowledgedSurvives'
    BY <1>1 DEF ChangeTable, Types, FileTypeOK, WritersHaveLock, DiskBehind, InMemory,
                CopyIsNewer, OnDisk, AcknowledgedSurvives, Kept, Files
<1>2. ASSUME NEW c \in Callers, ChangeSkill(c)
      PROVE Others' /\ AcknowledgedSurvives'
    BY <1>2 DEF ChangeSkill, Types, FileTypeOK, WritersHaveLock, DiskBehind, InMemory,
                CopyIsNewer, OnDisk, AcknowledgedSurvives, Kept, Files
<1>3. ASSUME NEW c \in Callers, LockDisk(c)
      PROVE Others' /\ AcknowledgedSurvives'
    BY <1>3 DEF LockDisk, LockFree, Types, FileTypeOK, WritersHaveLock, DiskBehind, InMemory,
                CopyIsNewer, OnDisk, AcknowledgedSurvives, Kept, Files
<1>4. ASSUME NEW c \in Callers, Copy(c)
      PROVE Others' /\ AcknowledgedSurvives'
    BY <1>4 DEF Copy, Content, Types, FileTypeOK, WritersHaveLock, DiskBehind, InMemory,
                CopyIsNewer, OnDisk, AcknowledgedSurvives, Kept, Files
<1>5. ASSUME NEW c \in Callers, Rename(c)
      PROVE Others' /\ AcknowledgedSurvives'
    BY <1>5 DEF Rename, Types, FileTypeOK, WritersHaveLock, DiskBehind, InMemory,
                CopyIsNewer, OnDisk, AcknowledgedSurvives, Kept, Files
<1>6. ASSUME NEW c \in Callers, WriteFails(c)
      PROVE Others' /\ AcknowledgedSurvives'
    BY <1>6 DEF WriteFails, NoCall, Types, FileTypeOK, WritersHaveLock, DiskBehind, InMemory,
                CopyIsNewer, OnDisk, AcknowledgedSurvives, Kept, Files
<1>7. ASSUME NEW c \in Callers, Acknowledge(c)
      PROVE Others' /\ AcknowledgedSurvives'
    BY <1>7 DEF Acknowledge, NoCall, Types, FileTypeOK, WritersHaveLock, DiskBehind, InMemory,
                CopyIsNewer, OnDisk, AcknowledgedSurvives, Kept, Files
<1>8. ASSUME NEW c \in Callers, RecordUsage(c)
      PROVE Others' /\ AcknowledgedSurvives'
    BY <1>8 DEF RecordUsage, Types, FileTypeOK, WritersHaveLock, DiskBehind, InMemory,
                CopyIsNewer, OnDisk, AcknowledgedSurvives, Kept, Files
<1>9. ASSUME NEW c \in Callers, RecordTears(c)
      PROVE Others' /\ AcknowledgedSurvives'
    BY <1>9 DEF RecordTears, Types, FileTypeOK, WritersHaveLock, DiskBehind, InMemory,
                CopyIsNewer, OnDisk, AcknowledgedSurvives, Kept, Files
<1>10. CASE Reopen
  <2>1. \A c \in Callers : call'[c].at = "idle"
      BY <1>10 DEF Reopen, NoCall
  <2>2. (WritersHaveLock /\ InMemory /\ CopyIsNewer /\ OnDisk)'
      BY <2>1 DEF WritersHaveLock, InMemory, CopyIsNewer, OnDisk
  <2>3. DiskBehind'
      BY <1>10 DEF Reopen, DiskBehind
  <2>4. AcknowledgedSurvives'
      BY <1>10 DEF Reopen, AcknowledgedSurvives, Kept
  <2> QED BY <1>0, <2>2, <2>3, <2>4
<1>11. CASE UNCHANGED fileVars
    BY <1>0, <1>11 DEF fileVars, Types, FileTypeOK, WritersHaveLock, DiskBehind, InMemory,
                 CopyIsNewer, OnDisk, AcknowledgedSurvives, Kept
<1> QED
    BY <1>0, <1>1, <1>2, <1>3, <1>4, <1>5, <1>6, <1>7, <1>8, <1>9, <1>10, <1>11 DEF FileNext

(***************************************************************************)
(* The property.                                                           *)
(***************************************************************************)

\* Whatever the calls write, fail or leave unfinished, and whenever the gateway stops,
\* a change that was acknowledged is on the disk, but for usage appended to a torn line.
THEOREM NothingAcknowledgedIsLost == FileSpec => []AcknowledgedSurvives
<1>1. IInv => AcknowledgedSurvives
    BY DEF IInv
<1> QED BY <1>1, Start, Step, PTL DEF FileSpec

-----------------------------------------------------------------------------
(***************************************************************************)
(* WeixinSend.  The argument: an exchange that no write of the cache       *)
(* overlaps brings a newer token, and its send still has the token that is *)
(* cached (Undisturbed).                                                   *)
(***************************************************************************)

SendRecords ==
    [at : {"idle", "post", "accepted", "fatal"}, token : Nat, bare : BOOLEAN, tries : Nat,
     brought : Nat]

SendTypes ==
    /\ given \in Nat /\ cached \in Nat /\ saved \in Nat /\ poll \in Nat /\ newest \in Nat
    /\ dead \subseteq Nat
    /\ writes \in Nat /\ pollSaw \in Nat /\ sendSaw \in Nat
    /\ send \in SendRecords

\* Nothing is cached, saved or dead that is newer than the newest, which was given out.
NewestIsNewest ==
    /\ cached <= newest /\ saved <= newest /\ newest <= given
    /\ \A t \in dead : t <= newest
    /\ send.token <= newest /\ poll <= given /\ send.brought <= given

\* An exchange that no write of the cache overlapped brings a newer token, and its
\* send still has the token that is cached.
Undisturbed ==
    /\ pollSaw <= writes /\ sendSaw <= writes
    /\ poll # NoToken /\ writes = pollSaw => poll > newest
    /\ send.brought # NoToken => send.at = "accepted"
    /\ send.brought # NoToken /\ writes = sendSaw => send.brought > newest
    /\ send.at # "idle" /\ writes = sendSaw => send.token = cached

SendInv == SendTypes /\ NewestIsNewest /\ Undisturbed /\ NewestIsServed

LEMMA SendStart == SendInit => SendInv
<1> SUFFICES ASSUME SendInit PROVE SendInv
    OBVIOUS
<1>1. send \in SendRecords /\ send.at = "idle" /\ send.token = 0 /\ send.brought = 0
    BY DEF SendInit, NoSend, SendRecords, NoToken
<1>2. SendTypes
    BY <1>1 DEF SendInit, SendTypes, NoToken
<1>3. NewestIsNewest /\ Undisturbed /\ NewestIsServed
    BY <1>1 DEF SendInit, NewestIsNewest, Undisturbed, NewestIsServed, NoToken
<1> QED BY <1>2, <1>3 DEF SendInv

\* A token is cached at the end of an exchange that began when the cache had been
\* written "saw" times.
LEMMA CacheServes ==
    ASSUME SendInv, NEW fresh \in Nat, NEW saw \in Nat, saw <= writes, fresh # NoToken,
           writes = saw => fresh > newest, Cache(fresh, saw), UNCHANGED dead
    PROVE  NewestIsServed' /\ cached' <= newest' /\ newest <= newest' /\ writes' = writes + 1
           /\ cached' \in Nat /\ newest' \in Nat
           /\ newest' \in {newest, fresh}
<1>1. /\ cached' = fresh /\ writes' = writes + 1 /\ behind' = (writes > saw)
      /\ newest' = IF newest > fresh THEN newest ELSE fresh
    BY DEF Cache, Replace, Newer
<1>2. newest \in Nat /\ writes \in Nat /\ dead \subseteq Nat /\ \A t \in dead : t <= newest
    BY DEF SendInv, SendTypes, NewestIsNewest
<1>3. cached' <= newest' /\ newest <= newest' /\ newest' \in {newest, fresh}
    BY <1>1, <1>2
<1>4. NewestIsServed'
  <2>1. CASE writes > saw
      BY <1>1, <2>1 DEF NewestIsServed
  <2>2. CASE writes = saw
    <3>1. newest' = fresh /\ fresh \notin dead
        BY <1>1, <1>2, <2>2
    <3> QED BY <1>1, <3>1 DEF NewestIsServed
  <2> QED BY <1>2, <2>1, <2>2
<1> QED BY <1>1, <1>2, <1>3, <1>4

LEMMA SendStep == SendInv /\ [SendNext]_sendVars => SendInv'
<1> SUFFICES ASSUME SendInv, [SendNext]_sendVars PROVE SendInv'
    OBVIOUS
<1> USE DEF SendRecords
<1>i. /\ given \in Nat /\ cached \in Nat /\ saved \in Nat /\ poll \in Nat /\ newest \in Nat
      /\ dead \subseteq Nat
      /\ writes \in Nat /\ pollSaw \in Nat /\ sendSaw \in Nat
      /\ send \in SendRecords
    BY DEF SendInv, SendTypes
<1>s. NoSend \in SendRecords
      /\ NoSend.at = "idle" /\ NoSend.token = 0 /\ NoSend.brought = 0
    BY DEF NoSend, NoToken
<1>1. CASE PollAnswered
    BY <1>1, <1>i DEF PollAnswered, SendInv, SendTypes, NewestIsNewest, Undisturbed, NewestIsServed,
                      NoToken
<1>2. CASE CacheInbound
  <2>1. /\ poll # NoToken /\ Cache(poll, pollSaw) /\ saved' \in {cached', saved} /\ poll' = NoToken
        /\ UNCHANGED <<given, send, pollSaw, sendSaw, dead>>
      BY <1>2 DEF CacheInbound
  <2>2. /\ NewestIsServed' /\ cached' <= newest' /\ newest <= newest' /\ writes' = writes + 1
        /\ cached' \in Nat /\ newest' \in Nat /\ newest' \in {newest, poll}
      BY <2>1, <1>i, CacheServes DEF SendInv, Undisturbed
  <2> QED BY <2>1, <2>2, <1>i DEF SendInv, SendTypes, NewestIsNewest, Undisturbed, NoToken
<1>3. CASE StartSend
  <2>1. /\ send' = [NoSend EXCEPT !.at = "post", !.token = cached] /\ sendSaw' = writes
        /\ UNCHANGED <<given, cached, saved, poll, writes, pollSaw, newest, dead, behind>>
      BY <1>3 DEF StartSend
  <2>2. /\ send' \in SendRecords
        /\ send'.at = "post" /\ send'.token = cached /\ send'.brought = 0
      BY <2>1, <1>i, <1>s DEF NoSend, NoToken
  <2> QED BY <2>1, <2>2, <1>i DEF SendInv, SendTypes, NewestIsNewest, Undisturbed, NewestIsServed,
                                  NoToken
<1>c. ASSUME UNCHANGED <<cached, saved, poll, writes, pollSaw, sendSaw, newest, dead, behind>>,
             given' = given,
             \/ send' = NoSend
             \/ /\ send' \in SendRecords
                /\ send.at = "post" /\ send'.at # "idle"
                /\ send'.token = send.token /\ send'.brought = send.brought
      PROVE  SendInv'
    BY <1>c, <1>i, <1>s DEF SendInv, SendTypes, NewestIsNewest, Undisturbed, NewestIsServed, NoToken
<1>4. CASE Accepted
  <2>1. /\ send.at = "post" /\ send.brought = 0
        /\ UNCHANGED <<cached, saved, poll, writes, pollSaw, sendSaw, newest, dead, behind>>
      BY <1>4, <1>i DEF Accepted, SendInv, Undisturbed, NoToken
  <2>2. CASE /\ given' = given + 1
             /\ send' = [send EXCEPT !.at = "accepted", !.brought = given + 1]
    <3>1. /\ send' \in SendRecords
          /\ send'.at = "accepted" /\ send'.token = send.token /\ send'.brought = given + 1
      <4>1. given + 1 \in Nat
          BY <1>i
      <4> QED BY <2>2, <4>1, <1>i
    <3> QED BY <2>1, <2>2, <3>1, <1>i DEF SendInv, SendTypes, NewestIsNewest, Undisturbed,
                                          NewestIsServed, NoToken
  <2>3. CASE send' = [send EXCEPT !.at = "accepted"] /\ UNCHANGED given
    <3>1. /\ send' \in SendRecords /\ send'.at = "accepted"
          /\ send'.token = send.token /\ send'.brought = send.brought
        BY <2>3, <1>i
    <3> QED BY <2>1, <2>3, <3>1, <1>c
  <2> QED BY <1>4, <2>2, <2>3 DEF Accepted
<1>r. ASSUME send.at = "post", Retry PROVE
         \/ send' = NoSend
         \/ /\ send' \in SendRecords
            /\ send.at = "post" /\ send'.at # "idle"
            /\ send'.token = send.token /\ send'.brought = send.brought
  <2>1. CASE send' = NoSend
      BY <2>1
  <2>2. CASE send' = [send EXCEPT !.at = "post", !.tries = send.tries + 1]
    <3>1. send.tries + 1 \in Nat
        BY <1>i
    <3> QED BY <1>r, <1>i, <2>2, <3>1
  <2> QED BY <1>r, <2>1, <2>2 DEF Retry
<1>5. CASE AnswerLost
    BY <1>5, <1>r, <1>c DEF AnswerLost
<1>6. ASSUME NEW refusal \in Refusals, Refused(refusal) PROVE SendInv'
  <2>1. /\ UNCHANGED <<cached, saved, poll, writes, pollSaw, sendSaw, newest, dead, behind>>
        /\ given' = given /\ send.at = "post"
      BY <1>6 DEF Refused
  <2>2. \/ send' = NoSend
        \/ send' = [send EXCEPT !.at = "fatal"]
        \/ send' = [send EXCEPT !.tries = @ + 1, !.bare = @ \/ DropsToken(refusal)]
      BY <1>6 DEF Refused
  <2>3. CASE send' = [send EXCEPT !.at = "fatal"]
    <3>1. /\ send' \in SendRecords /\ send'.at = "fatal"
          /\ send'.token = send.token /\ send'.brought = send.brought
        BY <2>3, <1>i
    <3> QED BY <2>1, <3>1, <1>c
  <2>4. CASE send' = [send EXCEPT !.tries = @ + 1, !.bare = @ \/ DropsToken(refusal)]
    <3> DEFINE bare == send.bare \/ DropsToken(refusal)
    <3>1. bare \in BOOLEAN
        BY <1>i DEF DropsToken
    <3>2. send' = [send EXCEPT !.tries = send.tries + 1, !.bare = bare]
        BY <2>4
    <3> HIDE DEF bare
    <3>3. /\ send' \in SendRecords
          /\ send'.at = "post" /\ send'.token = send.token /\ send'.brought = send.brought
      <4>1. send.tries + 1 \in Nat
          BY <1>i
      <4> QED BY <2>1, <3>1, <3>2, <4>1, <1>i
    <3> QED BY <2>1, <3>3, <1>c
  <2> QED BY <2>1, <2>2, <2>3, <2>4, <1>c
<1>7. CASE CacheAnswer
  <2>1. send.at = "accepted" /\ send' = NoSend /\ UNCHANGED <<given, saved, poll, pollSaw, sendSaw, dead>>
      BY <1>7 DEF CacheAnswer
  <2>2. CASE send.brought # NoToken /\ Cache(send.brought, sendSaw)
    <3>1. /\ NewestIsServed' /\ cached' <= newest' /\ newest <= newest' /\ writes' = writes + 1
          /\ cached' \in Nat /\ newest' \in Nat
          /\ newest' \in {newest, send.brought}
        BY <2>1, <2>2, <1>i, CacheServes DEF SendInv, Undisturbed
    <3> QED BY <2>1, <3>1, <1>i, <1>s DEF SendInv, SendTypes, NewestIsNewest, Undisturbed, NoToken
  <2>3. CASE UNCHANGED <<cached, writes, newest, behind>>
      BY <2>1, <2>3, <1>c
  <2> QED BY <1>7, <2>2, <2>3 DEF CacheAnswer
<1>8. CASE Evict
  <2>1. /\ send.at = "fatal" /\ cached' = 0 /\ writes' = writes + 1
        /\ dead' = dead \union {send.token} /\ behind' = (behind \/ writes > sendSaw)
        /\ send' = NoSend /\ UNCHANGED <<given, saved, poll, pollSaw, sendSaw, newest>>
      BY <1>8 DEF Evict, Evicted, NoToken
  <2>2. NewestIsServed'
    <3>5. behind' <=> behind \/ writes > sendSaw
        BY <2>1
    <3>6. ~(writes > sendSaw) => writes = sendSaw
        BY <1>i DEF SendInv, Undisturbed
    <3> SUFFICES ASSUME ~behind, writes = sendSaw PROVE newest \in dead'
        BY <2>1, <3>5, <3>6 DEF NewestIsServed, NoToken
    <3>1. cached = IF newest \in dead THEN 0 ELSE newest
        BY DEF SendInv, NewestIsServed, NoToken
    <3>2. send.token = cached
        BY <2>1 DEF SendInv, Undisturbed
    <3> QED BY <2>1, <3>1, <3>2
  <2>3. SendTypes'
    <3>1. writes' \in Nat /\ send' = NoSend /\ dead' = dead \union {send.token}
        BY <2>1, <1>i
    <3>2. send.token \in Nat /\ dead \subseteq Nat
        BY <1>i
    <3>3. dead' \subseteq Nat
        BY <3>1, <3>2
    <3>4. send' \in SendRecords
        BY <3>1, <1>s
    <3> HIDE DEF SendRecords
    <3> QED BY <2>1, <3>1, <3>3, <3>4, <1>i DEF SendTypes
  <2>4. NewestIsNewest'
      BY <2>1, <1>i, <1>s DEF SendInv, NewestIsNewest
  <2>5. Undisturbed'
      BY <2>1, <1>i, <1>s DEF SendInv, Undisturbed, NoToken
  <2> QED BY <2>2, <2>3, <2>4, <2>5 DEF SendInv
<1>9. CASE ReopenChat
    BY <1>9, <1>i, <1>s DEF ReopenChat, SendInv, SendTypes, NewestIsNewest, Undisturbed,
                            NewestIsServed, NoToken
<1>10. CASE UNCHANGED sendVars
    BY <1>10 DEF sendVars, SendInv, SendTypes, NewestIsNewest, Undisturbed, NewestIsServed
<1> QED BY <1>1, <1>2, <1>3, <1>4, <1>5, <1>6, <1>7, <1>8, <1>9, <1>10 DEF SendNext

\* The newest token is served, and a dead one is not, for any number of texts, tokens,
\* retries and restarts.
THEOREM ServesNewest == SendSpec => []NewestIsServed
<1>1. SendInv => NewestIsServed
    BY DEF SendInv
<1> QED BY <1>1, SendStart, SendStep, PTL DEF SendSpec

-----------------------------------------------------------------------------
(***************************************************************************)
(* OneShotRun.  The argument: a reader is done only when nobody can write  *)
(* to its pipe any more and nothing is left in it (DoneIsEmpty), and the   *)
(* bridge reports a result only when both are done.                        *)
(***************************************************************************)

OneShotTypes ==
    /\ holders \in [Streams -> SUBSET {"child", "helper"}]
    /\ unread \in [Streams -> Nat] /\ written \in [Streams -> Nat] /\ collected \in [Streams -> Nat]
    /\ task \in [Streams -> {"read", "send", "done", "aborted"}]

\* Every line was collected or waits in its pipe, unless the pipe was closed on it.
LinesCounted ==
    \A s \in Streams : s \in spoiled \/ collected[s] + unread[s] = written[s]

\* A reader that is done read all there was, and nobody can write any more.
DoneIsEmpty ==
    \A s \in Streams : task[s] = "done" => s \in spoiled \/ (unread[s] = 0 /\ holders[s] = {})

\* The bridge awaits the readers one after the other.
BridgeAwaits ==
    /\ bridge = "stdout" => task["stderr"] = "done"
    /\ bridge = "over" /\ outcome = "ok" => \A s \in Streams : task[s] = "done"

OneShotInv == OneShotTypes /\ LinesCounted /\ DoneIsEmpty /\ BridgeAwaits

LEMMA OneShotStart == OneShotInit => OneShotInv
    BY DEF OneShotInit, OneShotInv, OneShotTypes, LinesCounted, DoneIsEmpty, BridgeAwaits, Streams

\* Steps of the child, of its helper and of a reader keep the invariant: in the stream
\* s of a step, "done" is the end, and only there may lines be forgotten.
LEMMA StreamStep ==
    ASSUME OneShotInv, OneShotTypes', NEW s \in Streams,
           UNCHANGED <<bridge, outcome>>, spoiled \subseteq spoiled',
           \A r \in Streams : r # s => /\ holders'[r] \subseteq holders[r] /\ task'[r] = task[r]
                                       /\ UNCHANGED <<unread[r], written[r], collected[r]>>,
           s \in spoiled' \/ collected'[s] + unread'[s] = written'[s],
           task'[s] = "done" => s \in spoiled' \/ (unread'[s] = 0 /\ holders'[s] = {}),
           task[s] = "done" => task'[s] = "done"
    PROVE  OneShotInv'
<1>1. LinesCounted'
    BY DEF OneShotInv, LinesCounted
<1>2. DoneIsEmpty'
    BY DEF OneShotInv, DoneIsEmpty
<1>3. \A r \in Streams : task[r] = "done" => task'[r] = "done"
    OBVIOUS
<1>4. BridgeAwaits'
    BY <1>3 DEF OneShotInv, BridgeAwaits, Streams
<1> QED BY <1>1, <1>2, <1>4 DEF OneShotInv

\* Steps of the bridge that write nothing: who holds a stream lets go of it.
LEMMA BridgeStep ==
    ASSUME OneShotInv, UNCHANGED lineVars, OneShotTypes',
           \A s \in Streams : holders'[s] \subseteq holders[s] \/ task'[s] # "done",
           \A s \in Streams : task'[s] = "done" => task[s] = "done", BridgeAwaits'
    PROVE  OneShotInv'
<1>1. LinesCounted'
    BY DEF OneShotInv, LinesCounted, lineVars
<1>2. DoneIsEmpty'
    BY DEF OneShotInv, DoneIsEmpty, lineVars
<1> QED BY <1>1, <1>2 DEF OneShotInv

LEMMA OneShotStep == OneShotInv /\ [OneShotNext]_oneShotVars => OneShotInv'
<1> SUFFICES ASSUME OneShotInv, [OneShotNext]_oneShotVars PROVE OneShotInv'
    OBVIOUS
<1> USE DEF cliVars, taskVars, lineVars, bridgeVars, loopVars
<1>i. /\ OneShotTypes /\ LinesCounted /\ DoneIsEmpty /\ BridgeAwaits
      /\ holders \in [Streams -> SUBSET {"child", "helper"}]
      /\ unread \in [Streams -> Nat] /\ written \in [Streams -> Nat] /\ collected \in [Streams -> Nat]
      /\ task \in [Streams -> {"read", "send", "done", "aborted"}]
    BY DEF OneShotInv, OneShotTypes
<1>s. "stdout" \in Streams /\ "stderr" \in Streams /\ \A s \in Streams : s = "stdout" \/ s = "stderr"
    BY DEF Streams
<1>c. \A who : /\ Closes(who) \in [Streams -> SUBSET {"child", "helper"}]
               /\ \A s \in Streams : Closes(who)[s] \subseteq holders[s]
    BY <1>i DEF Closes
<1>1. ASSUME NEW s \in Streams, WriteLine(s) PROVE OneShotInv'
  <2>1. /\ holders[s] # {} /\ s \notin spoiled /\ UNCHANGED <<holders, task, bridge, outcome, spoiled>>
        /\ written' = [written EXCEPT ![s] = @ + 1] /\ unread' = [unread EXCEPT ![s] = @ + 1]
        /\ UNCHANGED collected
      BY <1>1 DEF WriteLine
  <2>2. OneShotTypes'
      BY <2>1, <1>i DEF OneShotTypes
  <2>3. /\ written'[s] = written[s] + 1 /\ unread'[s] = unread[s] + 1
        /\ \A r \in Streams : r # s => UNCHANGED <<unread[r], written[r], collected[r]>>
      BY <2>1, <1>i
  <2>4. collected'[s] + unread'[s] = written'[s]
      BY <2>1, <2>3, <1>i DEF LinesCounted
  <2>5. task[s] # "done"
      BY <2>1, <1>i DEF DoneIsEmpty
  <2> QED BY <2>1, <2>2, <2>3, <2>4, <2>5, StreamStep
<1>2. CASE StartHelper
  <2>1. PICK inherited \in SUBSET Streams \ {{}} :
            /\ \A s \in inherited : "child" \in holders[s]
            /\ holders' = [s \in Streams |->
                              holders[s] \union IF s \in inherited THEN {"helper"} ELSE {}]
      BY <1>2 DEF StartHelper
  <2>2. UNCHANGED <<unread, written, collected, spoiled, task, bridge, outcome>>
      BY <1>2 DEF StartHelper
  <2>3. OneShotTypes'
      BY <2>1, <2>2, <1>i DEF OneShotTypes
  <2>4. DoneIsEmpty'
    <3> SUFFICES ASSUME NEW s \in Streams, task[s] = "done", s \notin spoiled
                 PROVE  unread[s] = 0 /\ holders'[s] = {}
        BY <2>2 DEF DoneIsEmpty
    <3>1. unread[s] = 0 /\ holders[s] = {}
        BY <1>i DEF DoneIsEmpty
    <3> QED BY <2>1, <3>1
  <2>5. LinesCounted' /\ BridgeAwaits'
      BY <2>2, <1>i DEF LinesCounted, BridgeAwaits
  <2> QED BY <2>3, <2>4, <2>5 DEF OneShotInv
<1>3. ASSUME NEW who \in {"child", "helper"}, NEW streams \in SUBSET Streams, Close(who, streams)
      PROVE  OneShotInv'
  <2>1. /\ holders' = [s \in Streams |-> holders[s] \ IF s \in streams THEN {who} ELSE {}]
        /\ UNCHANGED <<unread, written, collected, spoiled, task, bridge, outcome>>
      BY <1>3 DEF Close
  <2>2. OneShotTypes' /\ \A s \in Streams : holders'[s] \subseteq holders[s]
      BY <2>1, <1>i DEF OneShotTypes
  <2>3. BridgeAwaits'
      BY <2>1, <1>i DEF BridgeAwaits
  <2> QED BY <2>1, <2>2, <2>3, BridgeStep
<1>4. CASE CliExits
  <2>1. holders' = Closes("child") /\ UNCHANGED <<unread, written, collected, spoiled, task, bridge, outcome>>
      BY <1>4 DEF CliExits
  <2>2. OneShotTypes' /\ BridgeAwaits'
      BY <2>1, <1>c, <1>i DEF OneShotTypes, BridgeAwaits
  <2> QED BY <2>1, <2>2, <1>c, BridgeStep
<1>5. ASSUME NEW s \in Streams, ReadLine(s) PROVE OneShotInv'
  <2>1. /\ task[s] = "read" /\ unread[s] > 0
        /\ unread' = [unread EXCEPT ![s] = @ - 1] /\ collected' = [collected EXCEPT ![s] = @ + 1]
        /\ task' = task \/ task' = [task EXCEPT ![s] = "send"]
        /\ UNCHANGED <<holders, spoiled, written, bridge, outcome>>
      BY <1>5 DEF ReadLine
  <2>2. /\ unread'[s] = unread[s] - 1 /\ collected'[s] = collected[s] + 1 /\ unread'[s] \in Nat
        /\ \A r \in Streams : r # s => UNCHANGED <<unread[r], written[r], collected[r], task[r]>>
        /\ task'[s] \in {"read", "send"}
      BY <2>1, <1>i
  <2>3. OneShotTypes'
      BY <2>1, <2>2, <1>i DEF OneShotTypes
  <2>4. s \in spoiled \/ collected'[s] + unread'[s] = written'[s]
      BY <2>1, <2>2, <1>i DEF LinesCounted
  <2> QED BY <2>1, <2>2, <2>3, <2>4, StreamStep
<1>6. ASSUME NEW s \in Streams, ReadFails(s) PROVE OneShotInv'
  <2>1. /\ task[s] = "read" /\ unread' = [unread EXCEPT ![s] = 0] /\ task' = [task EXCEPT ![s] = "done"]
        /\ spoiled' = spoiled \union {s} /\ UNCHANGED <<holders, written, collected, bridge, outcome>>
      BY <1>6 DEF ReadFails
  <2>2. \A r \in Streams : r # s => UNCHANGED <<unread[r], written[r], collected[r], task[r]>>
      BY <2>1, <1>i
  <2>3. OneShotTypes'
      BY <2>1, <1>i DEF OneShotTypes
  <2> QED BY <2>1, <2>2, <2>3, StreamStep
<1>7. ASSUME NEW s \in Streams, SendEvent(s) PROVE OneShotInv'
  <2>1. /\ task[s] = "send" /\ task' = [task EXCEPT ![s] = "read"]
        /\ UNCHANGED <<holders, unread, spoiled, written, collected, bridge, outcome>>
      BY <1>7 DEF SendEvent
  <2>2. OneShotTypes' /\ task'[s] = "read" /\ \A r \in Streams : r # s => task'[r] = task[r]
      BY <2>1, <1>i DEF OneShotTypes
  <2>3. s \in spoiled \/ collected[s] + unread[s] = written[s]
      BY <1>i DEF LinesCounted
  <2> QED BY <2>1, <2>2, <2>3, StreamStep
<1>8. ASSUME NEW s \in Streams, ReaderEnds(s) PROVE OneShotInv'
  <2>1. /\ unread[s] = 0 /\ holders[s] = {} /\ task[s] = "read" /\ task' = [task EXCEPT ![s] = "done"]
        /\ UNCHANGED <<holders, unread, spoiled, written, collected, bridge, outcome>>
      BY <1>8 DEF ReaderEnds, EndOfStream
  <2>2. OneShotTypes' /\ \A r \in Streams : r # s => task'[r] = task[r]
      BY <2>1, <1>i DEF OneShotTypes
  <2>3. s \in spoiled \/ collected[s] + unread[s] = written[s]
      BY <1>i DEF LinesCounted
  <2> QED BY <2>1, <2>2, <2>3, StreamStep
<1>9. CASE Spawn
  <2>1. /\ UNCHANGED <<unread, written, collected, spoiled>>
        /\ \/ /\ bridge' = "wait" /\ holders' = [s \in Streams |-> {"child"}]
              /\ task' = [s \in Streams |-> "read"]
           \/ bridge' = "over" /\ outcome' = "error" /\ UNCHANGED <<holders, task>>
      BY <1>9 DEF Spawn
  <2>2. OneShotTypes' /\ BridgeAwaits'
      BY <2>1, <1>i DEF OneShotTypes, BridgeAwaits
  <2>3. \A s \in Streams : /\ holders'[s] \subseteq holders[s] \/ task'[s] # "done"
                           /\ task'[s] = "done" => task[s] = "done"
      BY <2>1, <1>i
  <2> QED BY <2>1, <2>2, <2>3, BridgeStep
<1>10. CASE ChildExited \/ CollectStderr \/ CollectStdout
  <2>1. UNCHANGED <<unread, written, collected, spoiled, holders, task>>
      BY <1>10 DEF ChildExited, CollectStderr, CollectStdout
  <2>2. OneShotTypes'
      BY <2>1, <1>i DEF OneShotTypes
  <2>3. BridgeAwaits'
      BY <1>10, <1>i, <1>s, <2>1 DEF ChildExited, CollectStderr, CollectStdout, BridgeAwaits
  <2> QED BY <2>1, <2>2, <2>3, BridgeStep
<1>11. CASE TimedOut
  <2>1. /\ UNCHANGED <<unread, written, collected, spoiled, task>> /\ holders' = Closes("child")
        /\ bridge' = "stderr"
      BY <1>11 DEF TimedOut, KillChild
  <2>2. OneShotTypes' /\ BridgeAwaits'
      BY <2>1, <1>c, <1>i DEF OneShotTypes, BridgeAwaits
  <2> QED BY <2>1, <2>2, <1>c, BridgeStep
<1>12. CASE CancelSeen
  <2>1. /\ UNCHANGED <<unread, written, collected, spoiled>> /\ holders' = Closes("child")
        /\ task' = [s \in Streams |-> IF task[s] = "done" THEN "done" ELSE "aborted"]
        /\ bridge' = "over" /\ outcome' = "cancelled"
      BY <1>12 DEF CancelSeen, KillChild
  <2>2. OneShotTypes' /\ BridgeAwaits'
      BY <2>1, <1>c, <1>i DEF OneShotTypes, BridgeAwaits
  <2>3. \A s \in Streams : task'[s] = "done" => task[s] = "done"
      BY <2>1
  <2> QED BY <2>1, <2>2, <2>3, <1>c, BridgeStep
<1>13. CASE StartOneShot
  <2>1. /\ UNCHANGED <<unread, written, collected, spoiled, holders, task, outcome>> /\ bridge' = "spawn"
      BY <1>13 DEF StartOneShot
  <2>2. OneShotTypes' /\ BridgeAwaits'
      BY <2>1, <1>i DEF OneShotTypes, BridgeAwaits
  <2> QED BY <2>1, <2>2, BridgeStep
<1>14. CASE Fire \/ Runner \/ UNCHANGED oneShotVars
  <2>1. UNCHANGED <<unread, written, collected, spoiled, holders, task, bridge, outcome>>
      BY <1>14 DEF Fire, Runner, TakeEvent, StopReading, EndOneShot, oneShotVars
  <2>2. OneShotTypes' /\ BridgeAwaits'
      BY <2>1, <1>i DEF OneShotTypes, BridgeAwaits
  <2> QED BY <2>1, <2>2, BridgeStep
<1> QED
    BY <1>1, <1>2, <1>3, <1>4, <1>5, <1>6, <1>7, <1>8, <1>9, <1>10, <1>11, <1>12, <1>13, <1>14
       DEF OneShotNext, Cli, ReadStream, Bridge

\* The parser of the answer gets all that was written, for any number of lines and
\* any size of the pipes.
THEOREM WholeOutput == OneShotSpec => []OutputIsWhole
<1>1. OneShotInv => OutputIsWhole
  <2> SUFFICES ASSUME OneShotInv, bridge = "over", outcome = "ok", NEW s \in Streams, s \notin spoiled
               PROVE  collected[s] = written[s]
      BY DEF OutputIsWhole
  <2>1. collected[s] \in Nat /\ unread[s] = 0 /\ collected[s] + unread[s] = written[s]
      BY DEF OneShotInv, OneShotTypes, LinesCounted, DoneIsEmpty, BridgeAwaits
  <2> QED BY <2>1
<1> QED BY <1>1, OneShotStart, OneShotStep, PTL DEF OneShotSpec
=============================================================================
