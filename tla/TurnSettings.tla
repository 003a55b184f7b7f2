---------------------------- MODULE TurnSettings ----------------------------
(***************************************************************************)
(* What /cli, /model and /workspace choose, and what a turn runs with      *)
(* (handle_fast, handle_message_inner, the pools).                         *)
(*                                                                         *)
(* A user's choices are preferences in the store.  A turn reads them when  *)
(* its worker takes it, and begins on the pool later.  A process of Codex  *)
(* is sent model and directory with each turn; Claude's has those it was   *)
(* spawned with, so a command that changes them kills the process: the one *)
(* of its chat and of the CLI that was chosen when the command came.       *)
(*                                                                         *)
(* A value is the number of the change that chose it, 0 the default.  A    *)
(* resumed Codex thread's own directory is left out.                       *)
(***************************************************************************)
EXTENDS Naturals, Sequences

CONSTANTS
    Users, Chats,       \* users of a chat share its processes
    NoProcess,
    MaxRequests, MaxChanges, MaxExits   \* bounds

ASSUME SettingsAssumption ==
    /\ {MaxRequests, MaxChanges, MaxExits} \subseteq Nat
    /\ NoProcess \notin [by : Users, model : Nat, workspace : Nat, old : BOOLEAN, missed : BOOLEAN]

Clis == {"claude", "codex"}
Lanes == Clis \union {"_manage"}
Keys == Chats \X Clis       \* persistent_pool_key
NoCommand == << >>

VARIABLES
    cliOf,          \* per user
    modelOf,        \* per user and key
    workspaceOf,    \* per user
    request,        \* the messages, in order of arrival
    process,        \* per key: the process, and what it was spawned with
    killing,        \* the key whose process the command will kill
    changes, exits

settingsVars ==
    <<cliOf, modelOf, workspaceOf, request, process, killing, changes, exits>>
preferences == <<cliOf, modelOf, workspaceOf>>

Requests == DOMAIN request
Key(t) == <<request[t].chat, request[t].cli>>
Waits(t, s) == s < t /\ request[s].chat = request[t].chat /\ request[s].lane = request[t].lane
Running == {t \in Requests : request[t].at = "running"}

SettingsInit ==
    /\ cliOf \in [Users -> Clis]
    /\ modelOf = [u \in Users |-> [k \in Keys |-> 0]]
    /\ workspaceOf = [u \in Users |-> 0]
    /\ request = << >>
    /\ process = [k \in Keys |-> NoProcess]
    /\ killing = NoCommand
    /\ changes = 0 /\ exits = 0

\* The main loop handles one message at a time.  "asked" is the model its user had
\* chosen for the CLI it came to.
Arrive(u, c, manage) ==
    /\ killing = NoCommand
    /\ Len(request) < MaxRequests
    /\ request' = Append(request,
          [at |-> "queued", user |-> u, chat |-> c,
           lane |-> IF manage THEN "_manage" ELSE cliOf[u],
           cli |-> cliOf[u], model |-> 0, workspace |-> 0,
           asked |-> modelOf[u][<<c, cliOf[u]>>], old |-> FALSE])
    /\ UNCHANGED <<preferences, process, killing, changes, exits>>

\* resolve_cli_profile reads the CLI and then the model; a command between the two
\* changes the one that was read, or comes before both.
Resolve(t) ==
    LET u == request[t].user IN
    /\ request[t].at = "queued"
    /\ \A s \in Requests : Waits(t, s) => request[s].at = "over"
    /\ request' = [request EXCEPT ![t].at = "resolved", ![t].cli = cliOf[u],
                                  ![t].model = modelOf[u][<<request[t].chat, cliOf[u]>>]]
    /\ UNCHANGED <<preferences, process, killing, changes, exits>>

\* After the session is registered, the run is recorded and the CLI is probed.
ReadWorkspace(t) ==
    /\ request[t].at = "resolved"
    /\ request' = [request EXCEPT ![t].at = "ready",
                                  ![t].workspace = workspaceOf[request[t].user]]
    /\ UNCHANGED <<preferences, process, killing, changes, exits>>

\* begin_turn of the pool.  A live process is used as it is; Claude refuses a second turn.
Spawned(t) ==
    [by |-> request[t].user, model |-> request[t].model, workspace |-> request[t].workspace,
     old |-> request[t].old, missed |-> FALSE]
BeginTurn(t) ==
    LET k == Key(t)
        busy == request[t].cli = "claude" /\ \E s \in Running : Key(s) = k
    IN  /\ request[t].at = "ready"
        /\ \/ process[k] = NoProcess /\ process' = [process EXCEPT ![k] = Spawned(t)]
           \/ process[k] # NoProcess /\ UNCHANGED process
        /\ request' = [request EXCEPT ![t].at = IF busy THEN "over" ELSE "running"]
        /\ UNCHANGED <<preferences, killing, changes, exits>>

TurnEnds(t) ==
    /\ request[t].at = "running"
    /\ request' = [request EXCEPT ![t].at = "over"]
    /\ UNCHANGED <<preferences, process, killing, changes, exits>>

\* The process goes, and with it the turn that runs on it.
Gone(k, requests) ==
    /\ process' = [process EXCEPT ![k] = NoProcess]
    /\ request' = [t \in Requests |->
          IF requests[t].at = "running" /\ Key(t) = k THEN [requests[t] EXCEPT !.at = "over"]
                                                      ELSE requests[t]]

Exit(k) ==
    /\ process[k] # NoProcess /\ exits < MaxExits
    /\ exits' = exits + 1
    /\ Gone(k, request)
    /\ UNCHANGED <<preferences, killing, changes>>

\* What a command of this user changes and a turn has read already.
Outdated(readers) ==
    request' = [t \in Requests |-> [request[t] EXCEPT !.old = @ \/ t \in readers]]
Change == changes < MaxChanges /\ changes' = changes + 1

\* A command writes its preference and kills a process after that.
Command(u, c) ==
    /\ killing = NoCommand
    /\ killing' = <<c, cliOf[u]>>
    /\ Change

SwitchModel(u, c) ==
    /\ Command(u, c)
    /\ modelOf' = [modelOf EXCEPT ![u][<<c, cliOf[u]>>] = changes + 1]
    /\ Outdated({t \in Requests : /\ request[t].at \in {"resolved", "ready"}
                                  /\ request[t].user = u /\ Key(t) = <<c, cliOf[u]>>})
    /\ UNCHANGED <<cliOf, workspaceOf, process, exits>>

SwitchCli(u, c, cli) ==
    /\ Command(u, c)
    /\ cliOf' = [cliOf EXCEPT ![u] = cli]
    /\ UNCHANGED <<modelOf, workspaceOf, request, process, exits>>

\* A change of the directory does not reach the user's processes but the one that
\* the command kills, if there is a command.
Moved(u, killed) ==
    /\ workspaceOf' = [workspaceOf EXCEPT ![u] = changes + 1]
    /\ Outdated({t \in Requests : request[t].at = "ready" /\ request[t].user = u})
    /\ process' = [k \in Keys |->
          IF process[k] # NoProcess /\ k \notin killed /\ process[k].by = u
          THEN [process[k] EXCEPT !.missed = TRUE] ELSE process[k]]
    /\ UNCHANGED <<cliOf, modelOf, exits>>

SwitchWorkspace(u, c) == Command(u, c) /\ Moved(u, {<<c, cliOf[u]>>})

\* gateway_workspace_switch, a tool the agent calls during a turn, for the user its
\* process was spawned for.
ToolSwitch(t) ==
    /\ t \in Running
    /\ Change
    /\ Moved(process[Key(t)].by, {})
    /\ UNCHANGED killing

KillOther(k) == CHOOSE other \in Keys : other[1] = k[1] /\ other # k
Killed_New(k) == KillOther(k)
Killed(k) == k

\* The answer follows.
KillOld ==
    /\ killing # NoCommand
    /\ Gone(Killed(killing), request)
    /\ killing' = NoCommand
    /\ UNCHANGED <<preferences, changes, exits>>

SettingsNext ==
    \/ \E u \in Users, c \in Chats :
          \/ \E manage \in BOOLEAN : Arrive(u, c, manage)
          \/ SwitchModel(u, c) \/ SwitchWorkspace(u, c)
          \/ \E cli \in Clis \ {cliOf[u]} : SwitchCli(u, c, cli)
    \/ \E t \in Requests :
          Resolve(t) \/ ReadWorkspace(t) \/ BeginTurn(t) \/ TurnEnds(t) \/ ToolSwitch(t)
    \/ \E k \in Keys : Exit(k)
    \/ KillOld

SettingsSpec == SettingsInit /\ [][SettingsNext]_settingsVars

-----------------------------------------------------------------------------
(* Properties. *)

Effective(t) ==
    IF request[t].cli = "claude" THEN process[Key(t)] ELSE request[t]

\* A turn runs with the settings it read, although a Claude process keeps those it
\* was spawned with.  The exceptions: the command is about to kill the process, the
\* turn or the one that spawned the process had read before a change and began after
\* it, another user of the chat spawned it, or the directory was changed where the
\* process is not killed: in another chat, under another CLI or by the agent's tool.
RunsAsSet ==
    \A t \in Running :
        LET p == process[Key(t)]
            raced == request[t].old \/ p.old \/ killing = Key(t)
        IN  \/ raced \/ p.by # request[t].user
            \/ /\ Effective(t).model = request[t].model
               /\ p.missed \/ Effective(t).workspace = request[t].workspace

\* "下次消息生效": a message that came after the answer of /model runs with that
\* model, or with one that was chosen later.
NextMessageTakesIt ==
    \A t \in Running :
        request[t].lane = request[t].cli => Effective(t).model >= request[t].asked
=============================================================================
