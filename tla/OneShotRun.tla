------------------------------ MODULE OneShotRun ------------------------------
(***************************************************************************)
(* One turn on a CLI that is spawned for it (run_child_with_cancel_inner   *)
(* of cli_bridge.rs) and the progress loop of its runner.                  *)
(*                                                                         *)
(* The bridge waits for the child, for the deadline or for the token, and  *)
(* unless the token fired it then awaits the two tasks that read stdout    *)
(* and stderr.  A pipe ends when nobody holds its write end: the child, or *)
(* a process that the child started, which is not killed with it.          *)
(***************************************************************************)
EXTENDS Naturals

CONSTANTS
    MaxLines,        \* bound: lines that are written
    PipeRoom,        \* lines that fit into a pipe
    LoopCapacity     \* capacity of the runner's progress channel (64)

ASSUME OneShotAssumption ==
    /\ MaxLines \in Nat
    /\ {PipeRoom, LoopCapacity} \subseteq Nat \ {0}

VARIABLES
    loud,       \* the stream with the progress events: stdout if it is JSONL, else stderr
    cli,        \* the child: "none", "running", "exited" or "killed"
    holders,    \* stream -> who holds its write end
    unread,     \* stream -> lines in its pipe
    task,       \* stream -> its reader: "read", "send" an event, "done" or "aborted"
    events,     \* in the progress channel
    bridge,     \* "none", "spawn", "wait", "stderr", "stdout" or "over"
    outcome,    \* what the bridge returns: "ok", "error", "timeout" or "cancelled"
    loop,       \* the runner: "idle", "loop", "awaiting" the bridge or "ended"
    token,      \* the token of the turn fired
    spoiled,    \* streams with a line that is not UTF-8
    \* history: lines written to and collected from each stream
    written, collected

cliVars    == <<cli, holders>>
taskVars   == <<task, events>>
lineVars   == <<unread, spoiled, written, collected>>
bridgeVars == <<bridge, outcome>>
loopVars   == <<loop, token>>

oneShotVars == <<loud, cliVars, taskVars, lineVars, bridgeVars, loopVars>>

Streams == {"stdout", "stderr"}

OneShotInit ==
    /\ loud \in Streams
    /\ cli = "none" /\ holders = [s \in Streams |-> {}]
    /\ unread = [s \in Streams |-> 0] /\ task = [s \in Streams |-> "done"]
    /\ events = 0
    /\ bridge = "none" /\ outcome = "none"
    /\ loop = "idle" /\ token = FALSE /\ spoiled = {}
    /\ written = [s \in Streams |-> 0] /\ collected = [s \in Streams |-> 0]

-----------------------------------------------------------------------------
(* The CLI and what it starts. *)

WriteLine(s) ==
    /\ holders[s] # {} /\ s \notin spoiled
    /\ written["stdout"] + written["stderr"] < MaxLines /\ unread[s] < PipeRoom
    /\ written' = [written EXCEPT ![s] = @ + 1]
    /\ unread' = [unread EXCEPT ![s] = @ + 1]
    /\ UNCHANGED <<loud, cliVars, spoiled, collected, taskVars, bridgeVars, loopVars>>

\* A process of the CLI inherits some of its streams.
StartHelper ==
    /\ cli = "running"
    /\ \A s \in Streams : "helper" \notin holders[s]
    /\ \E inherited \in SUBSET Streams \ {{}} :
          /\ \A s \in inherited : "child" \in holders[s]
          /\ holders' = [s \in Streams |->
                            holders[s] \union IF s \in inherited THEN {"helper"} ELSE {}]
    /\ UNCHANGED <<loud, cli, lineVars, taskVars, bridgeVars, loopVars>>

\* The child closes a stream, or the helper one or, when it ends, all of its own.
Close(who, streams) ==
    /\ \A s \in streams : who \in holders[s]
    /\ holders' = [s \in Streams |-> holders[s] \ IF s \in streams THEN {who} ELSE {}]
    /\ UNCHANGED <<loud, cli, lineVars, taskVars, bridgeVars, loopVars>>

Closes(who) == [s \in Streams |-> holders[s] \ {who}]

CliExits ==
    /\ cli = "running"
    /\ cli' = "exited" /\ holders' = Closes("child")
    /\ UNCHANGED <<loud, lineVars, taskVars, bridgeVars, loopVars>>

Cli == \/ \E s \in Streams : WriteLine(s)
       \/ StartHelper
       \/ \E who \in {"child", "helper"}, streams \in SUBSET Streams \ {{}} :
             Close(who, streams)
       \/ CliExits

-----------------------------------------------------------------------------
(* The two readers. *)

\* A line of the loud stream may be an event for the runner.
ReadLine(s) ==
    /\ task[s] = "read" /\ unread[s] > 0
    /\ unread' = [unread EXCEPT ![s] = @ - 1]
    /\ collected' = [collected EXCEPT ![s] = @ + 1]
    /\ \/ UNCHANGED task
       \/ s = loud /\ task' = [task EXCEPT ![s] = "send"]
    /\ UNCHANGED <<loud, cliVars, spoiled, written, events, bridgeVars, loopVars>>

\* next_line gives an error: the reader ends and closes its end of the pipe.
ReadFails(s) ==
    /\ task[s] = "read" /\ unread[s] > 0
    /\ unread' = [unread EXCEPT ![s] = 0]
    /\ task' = [task EXCEPT ![s] = "done"]
    /\ spoiled' = spoiled \union {s}
    /\ UNCHANGED <<loud, cliVars, written, collected, events, bridgeVars, loopVars>>

SendEvent(s) ==
    /\ task[s] = "send" /\ events < LoopCapacity
    /\ events' = events + 1
    /\ task' = [task EXCEPT ![s] = "read"]
    /\ UNCHANGED <<loud, cliVars, lineVars, bridgeVars, loopVars>>

EndOfStream_Exit(s) == cli # "running"
EndOfStream(s) == unread[s] = 0 /\ holders[s] = {}

ReaderEnds(s) ==
    /\ task[s] = "read" /\ EndOfStream(s)
    /\ task' = [task EXCEPT ![s] = "done"]
    /\ UNCHANGED <<loud, cliVars, lineVars, events, bridgeVars, loopVars>>

-----------------------------------------------------------------------------
(* The bridge. *)

Spawn ==
    /\ bridge = "spawn"
    /\ \/ /\ bridge' = "wait" /\ cli' = "running"
          /\ holders' = [s \in Streams |-> {"child"}]
          /\ task' = [s \in Streams |-> "read"]
          /\ UNCHANGED outcome
       \/ /\ bridge' = "over" /\ outcome' = "error"
          /\ UNCHANGED <<cliVars, task>>
    /\ UNCHANGED <<loud, lineVars, events, loopVars>>

ChildExited ==
    /\ bridge = "wait" /\ cli = "exited"
    /\ bridge' = "stderr" /\ outcome' = "ok"
    /\ UNCHANGED <<loud, cliVars, lineVars, taskVars, loopVars>>

\* kill and wait: only the child itself.
KillChild_Defused == UNCHANGED <<cliVars>>
KillChild == cli' = "killed" /\ holders' = Closes("child")

TimedOut ==
    /\ bridge = "wait"
    /\ KillChild
    /\ bridge' = "stderr" /\ outcome' = "timeout"
    /\ UNCHANGED <<loud, lineVars, taskVars, loopVars>>

\* abort_child.
CancelSeen ==
    /\ bridge = "wait" /\ token
    /\ KillChild
    /\ task' = [s \in Streams |-> IF task[s] = "done" THEN "done" ELSE "aborted"]
    /\ bridge' = "over" /\ outcome' = "cancelled"
    /\ UNCHANGED <<loud, lineVars, events, loopVars>>

CollectStderr ==
    /\ bridge = "stderr" /\ task["stderr"] = "done"
    /\ bridge' = "stdout"
    /\ UNCHANGED <<loud, cliVars, lineVars, taskVars, outcome, loopVars>>

CollectStdout ==
    /\ bridge = "stdout" /\ task["stdout"] = "done"
    /\ bridge' = "over"
    /\ UNCHANGED <<loud, cliVars, lineVars, taskVars, outcome, loopVars>>

-----------------------------------------------------------------------------
(* The runner. *)

\* A turn takes the one-shot path, and its runner starts to read.
StartOneShot ==
    /\ loop = "idle"
    /\ loop' = "loop" /\ bridge' = "spawn"
    /\ UNCHANGED <<loud, cliVars, lineVars, taskVars, outcome, token>>

\* /esc or /cancel.
Fire ==
    /\ loop = "loop" /\ ~token
    /\ token' = TRUE
    /\ UNCHANGED <<loud, cliVars, lineVars, taskVars, bridgeVars, loop>>

TakeEvent ==
    /\ loop = "loop" /\ events > 0
    /\ events' = events - 1
    /\ UNCHANGED <<loud, cliVars, lineVars, task, bridgeVars, loopVars>>

\* The reader of the loud stream has the only sender.
NoSender == bridge # "spawn" /\ task[loud] \in {"done", "aborted"}

\* The receiver is kept: a reader that has an event to send goes on waiting.
StopReading ==
    /\ loop = "loop"
    /\ token \/ (NoSender /\ events = 0)
    /\ loop' = "awaiting"
    /\ UNCHANGED <<loud, cliVars, lineVars, taskVars, bridgeVars, token>>

EndOneShot ==
    /\ loop = "awaiting" /\ bridge = "over"
    /\ loop' = "ended"
    /\ UNCHANGED <<loud, cliVars, lineVars, taskVars, bridgeVars, token>>

-----------------------------------------------------------------------------

ReadStream(s) == ReadLine(s) \/ ReadFails(s) \/ SendEvent(s) \/ ReaderEnds(s)
Bridge == Spawn \/ ChildExited \/ TimedOut \/ CancelSeen \/ CollectStderr \/ CollectStdout
Runner == TakeEvent \/ StopReading \/ EndOneShot

OneShotNext == Cli \/ (\E s \in Streams : ReadStream(s)) \/ StartOneShot \/ Bridge \/ Fire
               \/ Runner

\* The tasks run, the timer fires, and the select polls what is ready.  The CLI and
\* its helper may do nothing for ever.
OneShotFairness ==
    /\ \A s \in Streams : WF_oneShotVars(ReadStream(s))
    /\ WF_oneShotVars(Bridge)
    /\ WF_oneShotVars(Runner)

OneShotSpec == OneShotInit /\ [][OneShotNext]_oneShotVars /\ OneShotFairness

-----------------------------------------------------------------------------
(* Properties. *)

\* A CLI that exits in its time gives all that it and its helpers wrote to the
\* parser of the answer, though it is gone before its pipes are read.  Only what
\* follows a line that is not UTF-8 is lost.
OutputIsWhole ==
    bridge = "over" /\ outcome = "ok" =>
        \A s \in Streams : collected[s] = written[s] \/ s \in spoiled

\* A helper holds a pipe after the child is gone.
HelperHolds == cli # "running" /\ \E s \in Streams : "helper" \in holders[s]

\* The token fired when the bridge no longer looked at it, and the runner stopped
\* reading while a reader had an event to send.
FiredTooLate == loop = "awaiting" /\ bridge \in {"stderr", "stdout"} /\ task[loud] = "send"

\* A turn ends, whatever the CLI does, with the two exceptions.
OneShotEnds ==
    <>[](loop \in {"idle", "ended"}) \/ <>[]HelperHolds \/ <>[]FiredTooLate

\* "should error on timeout" (cli_timeout_returns_error_message): a turn that ran into
\* its deadline, and that nobody cancels, ends.
TimedOutTurnEnds == (outcome = "timeout" /\ ~token) ~> (bridge = "over" \/ token)
=============================================================================
