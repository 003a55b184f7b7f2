------------------------------- MODULE MCTurns -------------------------------
(* The turns of a Claude conversation, of an Astra conversation and of a CLI *)
(* that is spawned for its turn.  A behaviour moves one of the three; at     *)
(* most Disturbances cancellations, follow-ups, approvals, exits and kills   *)
(* disturb the turns of a pool.                                              *)
EXTENDS ClaudeTurns

CONSTANTS Astra, Disturbances, MaxLines, PipeRoom

VARIABLES
    moving,
    codexTurn, codexCancelled, codexReturned, task, codexPipe, codexLock, codexPresent,
    codexHandle, call, codexAsked, server, codexReader, steer, outcome, approvals,
    codexExits, applied, runs, ended, crossed,
    loud, cli, holders, lineReader, events, unread, spoiled, written, collected,
    bridge, gives, loop, token

Codex == INSTANCE CodexPool WITH
    turn <- codexTurn, cancelled <- codexCancelled, returned <- codexReturned,
    pipe <- codexPipe, lock <- codexLock, present <- codexPresent, handle <- codexHandle,
    asked <- codexAsked, reader <- codexReader, exits <- codexExits

OneShot == INSTANCE OneShotRun WITH
    LoopCapacity <- ProgressCapacity, task <- lineReader, outcome <- gives

codexVars ==
    <<codexTurn, codexCancelled, codexReturned, task, codexPipe, codexLock, codexPresent,
      codexHandle, call, codexAsked, server, codexReader, steer, outcome, approvals,
      codexExits, applied, runs, ended, crossed>>
oneShotVars ==
    <<loud, cli, holders, lineReader, events, unread, spoiled, written, collected,
      bridge, gives, loop, token>>
turnsVars == <<moving, vars, codexVars, oneShotVars>>

\* The turns that stay do so in one initial state.
TurnsInit ==
    /\ moving \in {"claude", "codex", "one-shot"}
    /\ moving = "one-shot" \/ loud = "stdout"
    /\ Init /\ Codex!Init /\ OneShot!OneShotInit

TurnsNext ==
    /\ UNCHANGED moving
    /\ \/ /\ moving = "claude" /\ Next
          /\ Cardinality(cancelled') + steers' <= Disturbances
          /\ UNCHANGED <<codexVars, oneShotVars>>
       \/ moving = "codex" /\ Codex!Next /\ UNCHANGED <<vars, oneShotVars>>
       \/ moving = "one-shot" /\ OneShot!OneShotNext /\ UNCHANGED <<vars, codexVars>>

TurnsSpec ==
    /\ TurnsInit /\ [][TurnsNext]_turnsVars
    /\ Fairness /\ Codex!Fairness /\ OneShot!OneShotFairness

\* Every await of a turn's tasks and of the loop that reads its progress
\* (handle_message_inner) comes to an end, on all three ways to run a CLI.
EveryTurnEnds ==
    /\ TurnEnds
    /\ Codex!TurnEnds
    /\ OneShot!OneShotEnds
=============================================================================
