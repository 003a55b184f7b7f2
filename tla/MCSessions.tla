----------------------------- MODULE MCSessions -----------------------------
(* What serves one conversation: its session, its Claude process, a CLI      *)
(* spawned for one turn, the files of the store and the replies to a Weixin  *)
(* chat.  A behaviour moves one of them; at most Disturbances cancellations, *)
(* interrupts by a follow-up and exits disturb the turns of the process.     *)
EXTENDS SessionGate, ClaudeTurns, FileStore, WeixinSend, OneShotRun

CONSTANT Disturbances

VARIABLE moving

SessionsInit ==
    /\ moving \in {"session", "claude", "cli", "files", "chat"}
    /\ moving = "cli" \/ loud = "stdout"
    /\ GateInit /\ Init /\ OneShotInit /\ FileInit /\ SendInit

SessionsNext ==
    /\ UNCHANGED moving
    /\ \/ /\ moving = "session" /\ GateNext
          /\ UNCHANGED <<vars, oneShotVars, fileVars, sendVars>>
       \/ /\ moving = "claude" /\ Next
          /\ Cardinality(cancelled') + steers' + exits' <= Disturbances
          /\ UNCHANGED <<gateVars, oneShotVars, fileVars, sendVars>>
       \/ /\ moving = "cli" /\ OneShotNext
          /\ UNCHANGED <<gateVars, vars, fileVars, sendVars>>
       \/ /\ moving = "files" /\ FileNext
          /\ UNCHANGED <<gateVars, vars, oneShotVars, sendVars>>
       \/ /\ moving = "chat" /\ SendNext
          /\ UNCHANGED <<gateVars, vars, oneShotVars, fileVars>>

SessionsSpec ==
    /\ SessionsInit
    /\ [][SessionsNext]_<<moving, gateVars, vars, oneShotVars, fileVars, sendVars>>
=============================================================================
