# Verification of the Astra gateway

TLA+ models of `astra-suite`, checked with TLC and, where marked, proved with
TLAPS. Paths are relative to the repository root; `G/` stands for
`crates/astra-gateway/src/`.

The gateway connects chat platforms (WeCom, Weixin, WhatsApp) to coding CLIs
(Claude, Codex, Astra, others). A message becomes a request with a row in a
trace database, waits in a lane of its conversation, becomes a CLI turn or
steers the turn that is running, and its reply travels through a durable outbox
back to the chat. The difficult part is not any of these steps but that five
kinds of task take them at once (main loop, ingress workers, execution workers,
pool readers, platform adapters), synchronised by a status column, a few
counters, bounded channels and cancellation tokens, while calls fail and
processes stop.

## 1. Inventory

| Component (source) | State it keeps | Operations | What makes it correct | Module |
|---|---|---|---|---|
| Conversation lanes (`G/runner.rs` 3581-3681, 3977-4021) | two maps key -> sender and worker generation, one bounded channel per worker | enqueue with lookup/spawn and one retry, receive with idle timeout, leave, remove if same generation, panic | one reader per lane, FIFO, nothing stranded in a channel whose worker leaves | LaneChannel |
| Request dispatch (`G/runner.rs` 3494-3975, 4023-4203; `G/commands.rs` 1252-1445) | execution counters per key, registry of running turns, permits, trace status | arrive, steer or queue, claim and release, execute, end, `/cancel`, `/esc` | arrival order per conversation, no request twice, cancelled means never run, every request settled | ConversationLanes |
| Trace repository (`G/trace_model.rs`) | requests, runs, events, outbox rows | read, check and compare-and-set; conditional updates; sweeps; events | legal transitions only, a finished row stays, an event tells the truth | TraceRepository |
| Durable outbox (`G/runner.rs` 740-752, 2990-3057, 4205-4443; `G/trace_model.rs` 366-403, 878-949, 2109-2272; `/retry`) | rows pending/sent/failed with a retry count; response channel; replay list | store, send, mark, sweep, replay, dismiss | what is settled was shown, what is stored is tried, duplicates only from restarts | OutboxDelivery |
| Session gate (`G/runner.rs` 1020-1315, 2551-2645, 3061-3190; `G/session_policy.rs`) | generation and running attempts per session, the session row, the pool's process | register, reset, kill, finish, retry a stale session | a late turn never brings back a session that was reset | SessionGate |
| Claude pool (`G/cli_pool.rs`) | process handles, turn generation, active generation, last result, interrupt waiters | spawn, begin turn, interrupt, take result, kill; reader, writer and stderr tasks | a result belongs to the turn it answers; an ended turn frees the process | ClaudeTurns |
| App-server pool (`G/codex_app_pool.rs`) | process handles, active turn id, text, approval, requests in flight | begin turn, steer, interrupt, approve, result, kill; reader and fallback | steering reaches its turn or goes back to the queue; a message runs once | CodexPool |
| Settings (`G/commands.rs` `/cli`, `/model`, `/workspace`; pools; `G/mcp/tools_workspace.rs`) | preferences per user, what a process was spawned with | switch, kill, resolve, spawn | a turn runs with what it read; the next message takes the change | TurnSettings |
| Usage (`G/cli_bridge.rs` 1103-1494, `G/cli_pool.rs`, `G/runner.rs` 3061-3103) | last cumulative report of a process | report, difference, record | nothing is charged twice, nothing for ever lost | UsageLedger |
| One-shot bridge (`G/cli_bridge.rs` 2345-2570) | child process, two pipes and their readers | spawn, read, wait, deadline, cancel, collect | the whole output is collected, every run ends | OneShotRun |
| Main loop and channels (`G/runner.rs` 4260-4560, `G/main.rs`) | six bounded channels | receive, offer to a lane, deliver, notify | the loop that serves every platform comes back | MessageFlow |
| WeCom adapter (`G/platforms/wecom.rs`) | websocket, outbound queue, time of the last message received, acknowledgement waiters of an upload, deduplicator | connect, read, write, heartbeat, time out, upload | a message is handled once per connection, what is lost on its way to WeCom is lost with its connection, within the timeout | MessageFlow |
| Weixin adapter (`G/platforms/weixin.rs`, `G/dedup.rs`) | cursor in memory and in the store, seen ids, channel | poll, store the cursor, hand over | a posted message is run, once | WeixinPoll |
| Weixin replies (`G/platforms/weixin.rs` 345-362, 433-522, 712-733, 1091-1259) | context token per chat in memory and in the store | send with retries, drop, cache and evict a token | the newest token is served, a dead one is not | WeixinSend |
| File store (`G/store/file.rs`) | tables in memory, one file each, files of skills, usage lines | change and flush, read-modify-write, append, reopen | what was acknowledged survives | FileStore |
| Scheduler (`G/scheduler.rs`, `G/mcp/tools_cron.rs`) | due jobs, the snapshot of a tick | tick, remind, turn, poll, create, delete | a reminder is shown, a job is run once per due time, one job does not block the rest | Scheduler |
| Cron times (`G/store/mod.rs`) | `next_run` of a job | read an expression, next run of it in a time zone | later than now; at the named times, none skipped, where the whole expression is read | CronClock |
| Message splitting (`G/runner.rs` 4648-4728) | the rest of a reply | cut a chunk | nothing lost, no chunk too long, each pass ends | MessageSplit |
| Stream text (`G/runner.rs` 4990-5193) | carry-over of a chunk | push, finish | independent of how the text was cut into chunks | StreamFilters |
| Turn progress (`G/runner.rs` 1535-2523) | progress channels, flush timers, stream state | forward, stream, finish, cancel, drain | cancellation always ends the turn | ClaudeTurns, CodexPool, OneShotRun, in part |
| Authorization (`G/runner.rs` 345-352, 2703-2740, 3235-3403, 4730-4881) | failure counter with a cooldown, shared token, credentials file | check, record, get, refresh, login, save, invalidate, `/auth` | a refused token is served no more, a new token closes the circuit, the file keeps its other profiles | AuthGuard |
| WhatsApp adapters and bridge, commands that read, other stores, configuration, access, health, attachments, MCP server, runtime API, client library, installation | none, single rows, or pure I/O | | | none or in part; section 6 |

How they interact: the main loop (`GatewayRunner::run`) receives platform
messages, answers slash commands itself and **awaits** the ingress lane's
channel; lane workers are spawned tasks that share `Arc<GatewayRunner>`; a
reply returns over one bounded channel (64) to the main loop, which is the only
sender of final replies besides the startup replay. The trace row's status is
the only thing the main loop (`/cancel`, `/esc`, delivery), the ingress worker
(steering claim) and the execution worker (start, end) all write. A session row
and its generation are written by the main loop (`/new`, `/session`), by turns
of two lanes (a conversation's own and `/manage`) and by the reset policy. The
scheduler is one more task that begins turns by the same lanes and writes the
same outbox; the tools of a running turn (reminders, workspace) write the store
behind the gateway's back.

The behaviours that are hard to test are listed, each with its line and the
properties that cover it, under `hazards` in `PROJECT.json`.

## 2. Modules and the code they translate

    TraceStatus --+-- ConversationLanes -- MCLanes;  ConversationProofs
                  +-- OutboxDelivery (refines DurableReply) -- OutboxProofs
                  +-- TraceRepository (refines StatusRegister)
    FifoLane <- refined by - LaneChannel -- LaneChannelProofs
    MCQueues = LaneChannel and OutboxDelivery
    MCTurns  = ClaudeTurns, CodexPool, OneShotRun;  ClaudeTurns -- ClaudeProofs
    MCServers = CodexPool, AuthGuard -- ServerProofs
    MCSessions = SessionGate, ClaudeTurns, OneShotRun, FileStore, WeixinSend
    SessionGate, OneShotRun, FileStore, WeixinSend -- SessionsProofs
    MCTasks  = Scheduler, MessageFlow, WeixinPoll -- TasksProofs
    MCParts  = CronClock, MessageSplit, StreamFilters, TraceRepository,
               TurnSettings, UsageLedger;   MCSplit = MessageSplit
    PartsProofs: the modules of MCParts

A module abstracts from what another one shows: ConversationLanes takes lanes
as plain sequences (LaneChannel), a turn as something that begins and ends
(ClaudeTurns, CodexPool), a transition of a row as one step (TraceRepository);
MessageFlow takes a lane as a counter and a delivery as one send
(ConversationLanes, OutboxDelivery).

**FifoLane** (abstract): a bounded queue with one reader; a crash of the reader
drops what is queued.

**LaneChannel**: one lane. `entry` is the map entry, `task[g]` the task of
generation `g`, `buffer[g]` its channel, `pc` and `holds` the producer inside
`enqueue_lane` with its cloned sender. Actions: `Offer`, `Lookup` (the section
under the map's lock), `SendOk`/`SendError` (`tx.send().await`), `RemoveDead`;
`Receive`, `IdleTimeout`, `IdleCheck` (the second locked section, in the order
of the code), `Handled`, `Leave`, `Panic`. Each lane has one producer: the main
loop for an ingress lane, the ingress worker of the key for its execution lane.
`strong_count` is the number of places that hold the sender.

**ConversationLanes**: all keys at once. `main`, `ing[k]` and `ex[k]` are the
program counters of the main loop, the ingress and the execution worker; an
action is the code between two awaits at which another task may act. The order
inside the handlers is kept: the check of the row, the probe of `can_steer`, the
claim (compare-and-set to Running plus its event), the steering call and its
outcomes, the release with its second attempt and its give-up path; `waiting` is
raised before the send and lowered after the receive; `active` is lowered before
the reply is handed over; the permit is held until it was. `/cancel` and `/esc`
read a list first and act on it in a later step; `/esc` fails the row and then,
when that was legal, fires the token. `lost` remembers requests one of whose own
settling writes failed. Data is reduced to a sort (text, attachment, scheduled)
and a backend per key.

**TraceStatus**: the transition tables and the retry limit.

**StatusRegister** (abstract) and **TraceRepository**: one row and any number of
callers. Most operations are two statements, `Select` (read and check the
transition) and `Update` (`WHERE status = ` what was read), others one with its
own condition; `AppendEvent` follows the write. `MatchesSeen`, `MatchesOutbox`,
`MatchesExpected` and `MatchesForced` are the WHERE clauses. The abstract
register changes the row at one instant of the call or refuses.

**DurableReply** (abstract): a stored reply is owed until it was shown and
settled, exhausted its tries after being tried that often, or was dismissed.

**OutboxDelivery**: any number of gateway processes on one database. Rows
(`request`, `row`, `retries`, `created`) survive `Stop`; the response channel,
workers, the replay list, the delivery in progress and an adapter's outbound
queue do not. `Boot`, `Sweep`, `ListRetryable`, `TakeReplay`, `Serve` are the
order of `run`; `TakeReply`, `Send`/`SendQueued`, `MarkSent`,
`CompleteRequest`, `MarkFailed` that of `deliver_outbound`. `Send` may display
without being acknowledged. Replies in `Queued` belong to an adapter (WeCom)
whose `send_text` returns when the text is queued; `Transmit` is its connection
task. `tracked` are the replies carried with their outbox id: when the insert
or its event fails the reply is sent without one.

**SessionGate**: one conversation and CLI. `entry` is its entry of
`session_states` (generation and attempts), `current` the row of the store,
`process` what the pool holds, `pc[t]` a turn: it reads the session and
registers in one section under the gate, begins on the pool later, may meet a
stale session and retry, and stores the session it ended with in another
section, if the generation is the one it registered with; the last one out
removes the entry, so generations start at zero again. `/new`, `/session switch`
and the reset policy change row and generation under the gate and kill the
process after it, in a step of its own (`kill`). `era` is history: how often the
session was left. `raced` marks the one window the code leaves open.

**ClaudeTurns**: the turns of one conversation on its persistent Claude
process; what ConversationLanes sees as one step from `BeginTurn` to `EndTurn`.
`runner` is the progress loop of `handle_message_inner`, `forwarder` the pool
task it spawns (`Prepare`, `Register`, `SendMessage` are `begin_turn`, split
where the reader may act; `ForwardEvent`, `NoticeCancel`, `Interrupt`,
`DrainEvent`, `Timeout` its `select!` arms; `TakeResult`, `TakeNothing`,
`StaleSession` what follows), `handle` the `ProcessHandle` with its counters,
slot, last result and waiters, `lock` the pool's mutex while its owner awaits
an answer, `reader` is `stdout_reader_task` with the generation it read
(`FreeActive`, `StoreResult`, `CloseSlot` in this order). `Steer` is the ingress
worker's interrupt. The Claude process is outside the repository: it reads
messages and interrupts from its input in order, works on one message at a time,
acknowledges or rejects an interrupt, aborts or finishes, writes at any time and
may exit. Events have no content, the heartbeat of the forwarder counts as one.
`strays` and `acked` are history: interrupts that aborted another turn than they
aimed at, and turns whose interrupt was acknowledged while they were active.

**CodexPool**: the same for the app servers of Codex and Astra. Three callers
(the pool task, the steering branch of the ingress worker, `/approve`) send
requests and wait with their timeouts, two of them with the pool's lock. One
reader takes a line at a time: a response wakes its waiter, a notification
changes the fields of the handle (`active`, `text`, `failed`, `approval`), which
do not say whose turn they are about. `Started` writes `active_turn_id` after
the await of `turn/start`; `PrepareSteer` reads it under the lock and
`ExecuteSteer` sends without it; `StartFails` and `OneShot` are the fallback of
Astra. `applied`, `runs`, `ended`, `crossed` are history.

**OneShotRun**: a turn on a CLI that is spawned for it. `bridge` is
`run_child_with_cancel_inner`, `task[s]` the reader of a stream, `loop` the
runner; `holders[s]` is who holds the write end of a pipe, which is the child
and a process that it started. `ChildExited`, `TimedOut` and `CancelSeen` are
the arms of the `select!`, `CollectStderr` and `CollectStdout` the two awaits
after it. `KillChild` kills the child and leaves the helper.

**TurnSettings**: users, their preferences, requests in lanes, the process of
each pool key with the settings it was spawned with. `Resolve` and
`ReadWorkspace` are what a worker reads before its turn, `BeginTurn` the pool
(Claude keeps what it was spawned with, Codex is sent the settings with each
turn), `SwitchModel`, `SwitchCli`, `SwitchWorkspace` the answer of a command and
`KillOld` the kill that follows it, of the key of the profile resolved before
the switch; `ToolSwitch` is the agent's own tool, which kills nothing.

**UsageLedger**: one Claude process. Its reports are cumulative, the pool keeps
the last one and charges the difference (`Difference`, `Delta`, `Baseline`).
Turns give up before their report, reports come late, lack `modelUsage` when a
request failed, and counters may start again.

**Scheduler**: jobs of four kinds, the tick over its snapshot with each store
call a step of its own, the chat that creates (a row first, its time second, as
`remind_after` does) and deletes jobs while the tick runs, stops, failing calls
and silent turns. `shown` counts outcomes handed over, including the reply that
a failing turn stores itself.

**MessageFlow**: the WeCom connection (`link`), the main loop (`main`, `sends`)
and a conversation's two workers with the six bounded channels between them as
counters. Attachments, uploads, welcome texts, reminders, scheduled turns,
repeated messages, links that die and broken connections are `Disturbances`.
`LaneJam` and `LinkJam` name the two circles of full channels. The connection
awaits an answer to an upload and to nothing else, so a text may be written
without an error to a link that has died (`LinkDies`): `silence` is
`last_recv.elapsed()` and `dead` the time since then, in half minutes, and
`GiveUp` is the check of `PONG_TIMEOUT` at the top of the loop. The timeout is of
60 whole seconds, so two half minutes may be enough for it; the loop is certain to
have looked with the heartbeat after it, hence no more writes after four of them
(`CanBeNoticed`, `IsNoticed`, where the half minute it died in counts as one).
What is assumed of the link: one that lives carries what is written and
answers a heartbeat before the next; the heartbeat is sent when it is due; a
write returns. Whether WeCom takes a text that reached it is beyond the model: it
may answer an error, which the code does not read. A hand-over to the main loop
that lasts longer than `PONG_TIMEOUT` ends the connection too, as a `Break`.

**WeixinPoll**: `Poll`, `StoreCursor` and the hand-over of the messages one at a
time, in this order; the deduplicator lives with the process; a full channel
drops.

**WeixinSend**: the poller and the sender of one chat and the token they share
(`cached`, `saved`). `Refused` and `AnswerLost` are the outcomes of one attempt,
`Fatal` and `DropsToken` what `classify_send_error` makes of a refusal.

**FileStore**: any number of callers that change a table in memory and flush it
(`LockDisk`, `Copy`, `Rename`, `Acknowledge`), change a file of skills under the
same lock, or append usage. The content of a table is the set of the changes it
has seen. This backend is a public function of the crate (`open_store`);
`open_store_bundle`, which the gateway itself uses, refuses it
(`G/store/mod.rs` 756-800).

**AuthGuard**: any number of turns and `/auth` commands on an Astra profile; `at`
is where each of them is. `TurnRefused` and `TurnBegins` are the check of the
circuit, `GetCached` to `FillCache` the shared token, `LoadDocument`, `Truncate`
and `WriteDocument` the file, which has no lock. A run that ends with an
authorization error counts, invalidates and, when the CLI exited with it, renews;
`RenewalClears` comes before the cache is filled. `AuthThreshold` is
`AUTH_FAILURE_THRESHOLD`; the server (`Revoke`, logins) is external.

**CronClock**: an expression has five fields, each a sequence of parts as
`is_valid_cron_expr` accepts them (`Expressions`). The functions that compute the
next run read less than that: `Reading` keeps the minute and the hour when they
are `*`, `*/n` or one number, and of the weekdays the parts without `*` and `/`
(`ParseDow`); the day of the month and the month are dropped. `NextRun` is
`next_cron_run_str_with_tz` on the reading, in minutes; the clock, the due test
and a delay before a job runs are the steps. What an expression names
(`Matches`) is said apart from that, of all five fields and of the Gregorian date
of a minute (`Date`; minute 0 is the 1 January 2024, a Monday), with the rule of a
crontab that a day and a weekday that are both given name the days of either.
`RunsWhenTold` is about the expressions that are read whole (`Plain`: a time of
day or a step through all hours, day and month `*`, weekdays `*` or numbers and
ranges); `SkipsNothing` also about those of which date and weekdays are not
read. For the rest see "Scheduler" under the divergences below.
**MessageSplit**: one
pass of `split_message` a step, with the order of break points.
**StreamFilters**: the think filter and the gateway filter in a row, fed with an
answer in pieces of every size; the reference is what the stored reply makes of
the whole answer. The loops of the code are recursive functions on texts over
`Characters`, a superset of the marks of the tags. `WellFormed` names the answers
the two must agree on: blocks and tags are closed, and no tag begins inside of
another one, since `clean.replace` then removes text of a second tag that the
reference leaves. Left out: the white space that is trimmed off a reply, and the text the
stored reply keeps of an unclosed block (such answers are not `WellFormed`).

Every database call that can fail takes a flag; `faults` (`errors`, `mishaps`)
counts failures against its bound. An illegal transition is an error too, and
the callers that ignore it leave the row unchanged.

## 3. What the runs check

| Run | Instance | Shows |
|---|---|---|
| `lanes` | one Codex key, 3 requests (text or scheduled), lanes of capacity 1, no failing call | `HandedInArrivalOrder`, `CancelledNeverHanded`. Three requests are a running turn, one queued and one that could overtake it; capacity 1 makes `enqueue_lane` block. |
| `lanes_end` | a Codex and a Claude key, 1 permit, 2 requests, 1 failing call | `NoneLeftBehind`, `LaneCountersExact`, `TerminalIsFinal`, `EveryRequestEnds`. Two keys compete for the permit; with two requests on one key the second steers, is queued, or loses its claim. |
| `queues` | a lane of capacity 2 with 4 messages and 2 panics; a direct and a queued reply with 3 stops and 1 failing call | refinement of FifoLane (one reader, nothing lost, in order), `OfferedIsTaken`; `OncePerStart`, refinement of DurableReply for direct replies, `StoredIsTried`. Two panics with a capacity of two are what it takes to lose a channel with contents and meet a dead entry twice; three stops reach the retry limit of 3. |
| `sessions` | 3 turns, one of them in the manage lane, 1 session command, 2 processes, 1 failing call, 1 panic; 2 Claude turns, 1 event, 2 of: `/esc`, steering interrupt, exit; 4 lines through pipes of one; 4 calls of 2 callers on 2 tables and a file of skills, 2 failures or stops; 2 sends, 3 tokens, 3 retries, 1 restart | Gate: `FreshUnlessRaced`, `OnlyOwnEraStored`; the reset policy may add resets, and three turns are one before, one across and one after a reset. Claude: `InterruptsHitOwnTurn`, `OnlyCancelSpoils`; two turns are an old one and one it may spoil. One-shot: `OutputIsWhole`. File store: `AcknowledgedSurvives`; two callers are a flush and what comes across it. Weixin: `NewestIsServed`; three tokens are one in use, one polled during the send and one of its answer. |
| `servers` | 2 turns of Astra, 1 event, 2 of: `/esc`, follow-up, approval, exit, kill; capacity 1; 3 turns or `/auth` commands, 2 at a time, 3 tokens, a threshold of 1 | App server: `RequeuedWasNotApplied`, `OnlyAdriftMixesIn`, `AnsweredIsComplete`, `RunsOnce`. Any request may time out; two disturbances are a follow-up and what comes across it. Authorization: `RefusedStaysOut`; three tokens are the first one and two logins at once, three calls two that open the circuit and one that meets it. |
| `ends` | both pools, 2 turns, 1 event, 1 disturbance, channels of capacity 1; a one-shot turn with 3 lines, pipes and channel of capacity 1 | `EveryTurnEnds`: every await of a pool task and of the one-shot bridge ends, a cancelled one-shot turn included. The two exceptions, a helper that keeps a pipe and a token that fires after the child is gone, are named in the formula (`HelperHolds`, `FiredTooLate`). |
| `tasks` | 2 jobs with a period of 1, a day of 2, 2 units of time, 1 stop, 1 failing call; 4 messages, 2 disturbances, every channel of capacity 1; 3 posts, 1 restart, 2 mishaps | Scheduler: `NoneVanishes`, `OncePerDue`, `DeletedStaysDeleted`, `DueIsBegun`. Flow: `LostOnlyWithItsLink`, `MainReturns`. Poller: `PostedIsTaken`. Both: `NoneRunsTwice`. Two jobs are one that holds up another; four messages and two disturbances fill both circles of channels, and let a link die and its connection end in any of three ways. |
| `parts` | fourteen expressions, five of them with a date or weekdays that are not read, five hours behind UTC, 5800 minutes from two starts; every text of up to seven marks in chunks of three; answers of three words and an end; two writers of a row, one failing statement; two users of a chat, 2 messages, 2 changes, 1 exit; three turns, use of up to 2, one counter reset | `RunsAsTold`; `SplitKeeps`, `OnlySpaceStalls`; `ShownAsStored`; `ImplementsRegister`, `EventsTellTheRow`; `RunsAsSet`; `ChargedOnce`. Four days contain two midnights, a weekday filter that skips days and a week's end. |
| `claude_cancel` | 1 turn, 2 events | **violation** of `CancelledTurnEnds`, finding 1 |
| `oneshot_timeout` | 1 line, capacity 1 | **violation** of `TimedOutTurnEnds`, finding 4 |
| `split_stalls` | the texts of `parts` | **violation** of `EveryPassShortens`, finding 2 |
| `next_message` | 1 user, 2 messages, 1 change | **violation** of `NextMessageTakesIt`, finding 3 |

Components that do not interact share a run: `moving` is chosen at the start and
lets one of them move while the others stay in an initial state, so that a run
explores the sum of their states, not the product. A part that stays must not
make the liveness of another vacuous: what it could do under its fairness is
either not enabled in its initial state, or its fairness is conditional
(`QueuesSpec`).

Deadlock is not checked in these runs: each instance ends when its bounded
supply of messages, stops and faults is used up. The liveness properties say
what must have happened by then.

Bounds: constants named `Max...`, `Turns`, `Events`, `Messages`, `Posts`,
`Restarts`, `Reopens`, `Mishaps`, `Disturbances`,
`TextsSent`, `TokensGiven`, `Users`, `Duration`, `Replies` limit what is
considered; `Capacity`, `LaneCapacity` (128), `ReplyCapacity` (64),
`LinkCapacity` (256), `InboxCapacity` (256), `PoolCapacity` (256),
`ProgressCapacity` and `LoopCapacity` (64), `PipeRoom`, `Permits`, `AuthThreshold` (2), `ReplayLimit` (100) and `MaxChunk` are
parameters of the code with smaller values. In `lanes` and `lanes_end` the reply
channel has room for every reply, so that the main loop and a worker never wait
for each other there; that they can is the subject of MessageFlow.

### Fairness

* LaneChannel: tokio runs a task that can run. The idle timer, panics and the
  arrival of messages are not fair. The model polls the channel before the
  timer, as `tokio::time::timeout` does.
* ConversationLanes: the main loop and each worker have weak fairness on the
  disjunction of their steps. A turn that was begun ends; messages, `/cancel`
  and `/esc` are not fair. `EveryRequestEnds` is therefore relative to turns
  that end: `ends` shows it of turns that are not cancelled, and finding 1 is
  the way in which a cancelled one may not.
* ClaudeTurns and CodexPool: the runner, the pool task and the reader are tasks
  that run, and the deadline of a turn, the five seconds of an interrupt, the
  three of the drain and the time limit of a request expire. The processes,
  their exits, `/esc`, steering, approvals and kills are not fair: a process may
  stay silent for ever.
* OneShotRun: the bridge, the two readers and the runner run, and the deadline
  fires. The CLI and what it starts may stay silent, write or exit at any time;
  the arrival of a turn and `/esc` are not fair.
* OutboxDelivery: the tasks of a running process are fair, and so is `Boot`: a
  service manager or an operator starts the gateway again. Nothing can be said
  of a stored reply otherwise. New requests, stops and `/retry` are not fair.
* Scheduler: the ticks come and each goes on; the turn of a job ends (its own
  time limit). The chat, stops and the clock are not fair.
* MessageFlow: the main loop, the connection's task (its timeout `GiveUp`
  included) and the workers run. The server, the users, time, the death of a link
  and a connection that is down are not fair.
* WeixinPoll: the task polls again after an error, and the main loop takes what
  is in the channel. Posts and restarts are not fair.
* TurnSettings, UsageLedger, TraceRepository, CronClock, MessageSplit,
  StreamFilters, SessionGate, FileStore, AuthGuard and WeixinSend have safety properties
  only.

### Findings

1. `claude_cancel`: after `/esc` the runner stops reading progress and awaits
   the pool task, which may wait for room in the progress channel (64): the
   turn, its lane and its permit are stuck. No timer of the pool task runs while
   it waits there.
2. `split_stalls`: a pass of `split_message` that cuts at a space leaves the
   space at the beginning of the rest. When that is the only place to break in
   the next window, the pass pushes and removes nothing, and the loop does not
   end (`G/runner.rs` 4678 against "hard cut" at 4671).
3. `next_message`: a turn that read its model before `/model` was handled, and
   begins after `/model` killed the process, spawns Claude with the old model;
   the next message is given that process (`G/cli_pool.rs` 106) although the
   command answered that it takes effect with the next message
   (`G/commands.rs` 828).
4. `oneshot_timeout`: at the deadline of a one-shot turn the bridge kills the
   child and awaits its pipes (`G/cli_bridge.rs` 2540). A process that the CLI
   started is not killed and keeps them open: the turn, its lane and its permit
   wait for it, and `/esc` is no longer looked at. `tests/integration_runner.rs`
   2405 says "should error on timeout"; the `sleep 5` of its script ends by
   itself.

Divergences that the modelling met and that have no run of their own:

*Requests and replies.*
A scheduled turn without a response skips the branch that settles its row
(`G/runner.rs` 3946 against the comment at 3955) and stays Running when the
earlier writes failed.
The startup sweep fails the running requests of another gateway on the same
database.
A WeCom reply is settled as sent when it is in the adapter's queue.
`ARCHITECTURE.md` 98-100 promises delivery "retried until acknowledged", while
`deliver_outbound` sends once and only a restart replays, three times at most.

*Claude.*
The result of a cancelled turn that comes after the drain of three seconds, when
the next turn has begun, is reported as the next turn's answer.
`begin_turn` advances the generation before it refuses a turn because another is
active; the result of that one then leaves the active generation set, and every
later turn is refused until the process is replaced.
A reader that stops because its token was cancelled leaves the slot open, so
that a turn of a process that died may last until its deadline.

*One-shot runs.*
The same wait follows a normal exit when a helper stays. A token that fires in
it ends the progress loop while a reader may wait for room in its channel, and
the turn is stuck as in finding 1 (`FiredTooLate`). A line that is not UTF-8
ends its reader, and what follows is lost.

*Authorization.*
The circuit trips with `count > AUTH_FAILURE_THRESHOLD` (`G/runner.rs` 3238), one
failure later than "Number of consecutive auth failures before the circuit
breaker trips" (346) says. The send circuit records failures and successes, but
nothing outside its tests asks whether it is open (309).
A turn that validated a token before it was refused may cache it after the
renewal (`overtook`): it is served until it is refused again.
The credentials file is rewritten in place without a lock: a renewal that reads it
while another writes it finds nothing and drops the other profiles (`clobbered`),
and a turn that does so logs in although its token is good.

*App servers.*
`/approve` forgets the current approval after awaiting the response
(`G/codex_app_pool.rs` 254); one asked for in between cannot be answered any
more. The fallback of Astra may run a message a second time when the server died
with `turn/start` unanswered. A spawn that fails in `initialize` or
`thread/start` leaves the child process behind.

*Sessions and settings.*
`/new` kills the process after the gate (`G/runner.rs` 1105): a turn that
registered before and begins after it continues the old conversation, and the
kill may hit a fresh process instead. `/model`, `/cli` and `/workspace` advance
the generation, so the running turn's session id is thrown away with them. A
Claude process stays in the old directory when the workspace is changed in
another chat, under another CLI or by `gateway_workspace_switch`, and users of a
shared chat run on the process that another user's settings spawned. The number
in `/kill N` is resolved against the list at the time of the command.

*Scheduler.*
`is_valid_cron_expr` accepts more than is read (`G/store/mod.rs` 417-421 against
463-516 and 626-640). The day and the month never are: `0 9 1 * *` runs every
day at 9, and a weekday beside a day of the month leaves only the weekday.
Weekdays with `*` or `/` are not: `*/2` or `1-5/2` is no filter, so the job runs
every day, and `6,*` is Saturdays only. A minute or an hour that is a list, a range or
another step is none either: after a fixed minute any such hour is 9, `*` included
(`0 9,18 * * *` and `0 * * * *` run daily at 9; 506-507), after `*/N` it is every
hour, and such a minute is 0. `*/N H` runs once more at the full hour after H; that jump
does not look at the weekday. A job that
produces nothing, or whose platform is gone, is run again every 60 seconds. The
error of a failing turn counts as a visible result and ends a polling job; its
text is also in the outbox, where the next start finds it. A deleted job that is
in the snapshot of the tick still runs once. Two gateways on one database run
every job twice. `remind_after` ignores that its second statement failed.

*Channels and adapters.*
Two circles of full channels stop the gateway for every platform: main loop and
workers (`LaneJam`), main loop and WeCom connection (`LinkJam`); so does WeCom
being unreachable while its channel is full. Texts that are written to a WeCom
link after it died are lost until the timeout notices it
(`G/platforms/wecom.rs` 287, 397-400), any number of them and without a log entry,
while their rows say that they were sent; an error with which WeCom answers a text is not
read either. The log at
`G/platforms/wecom.rs` 819 says that a message is dropped where `send` waits. A
failing upload ends the whole connection, and `attempt` is never reset after a
connection that worked. Weixin messages that are in the process at a stop, after
their cursor was stored, are lost; a full channel drops messages that are
already marked as seen; a cursor that fails to load reads everything again.
A fatal Weixin send evicts whatever token is cached, also a fresh one that came
during the send (`G/platforms/weixin.rs` 473-477); tokens of answers are saved
only with the next inbound one; a group's token is cached under its sender and
looked up under the group; a refusal of the last attempt is never tried without
a token. The send has no time limit (1151) and the main loop awaits it.

*File store.*
A flush that fails leaves the change in memory, so that `delete_cron_job` fails,
its repetition answers that there is no such job, and a restart brings the job
back. A usage line that was cut short takes the next record, which was
acknowledged, with it.

*Text and usage.*
The gateway filter forgets the first bracket of `]]` when a chunk ends after it
(`G/runner.rs` 5149) and hides what follows; an answer with an unclosed think
tag is stored differently than it is shown. A failing first report of a Claude
process forgives the use of lost results before it; a failing `record_usage`
loses a charge.

## 4. What is proved

`tlapm` checks every proof to its leaves. The only assumptions are the named
`ASSUME`s on the constants (positive capacities and limits, natural bounds,
model values that are distinct, finite sets of callers and tasks, the marks of the
tags among the characters), so the
theorems hold for every capacity, number of messages, panics, gateways, turns,
jobs, stops and failed calls, every text and every expression. The two theorems
that hold with one gateway on the database only say so in their statement. The
inductive invariants were model-checked on the instances of the runs before they
were proved.

**LaneChannelProofs**: `TypeCorrect`, `OneServerAtATime`, `TwoTriesAreEnough`,
`LaneIsFifo` (the refinement of FifoLane). `OneServer` is not inductive: a
worker that is leaving might be replaced while an older one still serves. The
invariant `Inv` adds that generations are born in order and all but the newest
have left (`Ages`), that what serves is in the map (`Served`), that a worker
that decided to leave is neither in the map nor held by the producer and that
channels without a reader are empty (`Leaving`), and that after a failed send
the producer meets a generation that has handled nothing and therefore cannot
have panicked (`Retry`). `Counting` bounds generations by attempts. Each action
is one lemma; the refinement maps sends to `Put`, receives to `Take`, panics to
`Crash` and the rest to stuttering.

**ConversationProofs**: `CountersAreExact`, `HandedInOrder`,
`CancelledIsNotHanded`, `NoRequestIsDropped`, `FinishedStaysFinished`, for any
number of conversations, permits, retries and requests. The argument has two
layers. `Flow` reads no row: it says in which places the requests of a
conversation are (handed over, running, waiting, dispatching, arriving, offered),
that the requests of each place are older than those of the next (`InOrder`,
`HandedFirst`), that nothing waits or is about to run while ingress holds a text it may steer
(`NothingOvertaken`) and that `waiting` and `active` count what waits and runs
(`Counters`). `Rows` adds what a place says of the row of the request in it:
open before the turn, running and not cancelled from the claim on, settled
behind it (`RowsFollow`, `RowsBegin`), and that a request in no place is settled or
its reply is with the outbox (`NotDropped`). An action is one lemma per layer.
That a finished row stays is an action property and follows from `RowsKept`:
what an action may write depends on the place the request is in.

**OutboxProofs**: `TypeCorrect` and `NothingFalselySettled` (the property
`SettledMeansShown`), also for several gateways that share the database and
sweep, replay and settle each other's rows. The strengthening says that a
delivery that stands after an acknowledged send has shown its reply; a row once
inserted stays a row (`RowsGrow`), which keeps replay lists and deliveries well
typed. With one gateway (`Instances = {g}`; a second one replays what the first
is about to deliver) also `OneGatewayRepeatsNothing` (`OncePerStart`) and
`OutboxIsDurable` (the refinement of DurableReply): a reply is in one place, be it
the channel, the replay list or the delivery in hand (`Apart`), a start has at most one
send of it left (`Budget`), and what is sent is still owed (`Delivering`), so that
each step is one of the abstract outbox or none.

**SessionsProofs**. SessionGate: `TypeCorrect`, `EntryCounts`,
`LateTurnsStoreNothing`, `FreshAfterReset`. Generations start at zero whenever the
entry is removed, so an equal generation alone means nothing. The argument: the
entry counts the running turns and the panics exactly; so it is present while a
turn is registered; so every reset while that turn runs advances its generation
instead of starting a new count; so a turn whose generation is still the entry's
belongs to the present era. `StepShapes` reduces the actions to the few ways in
which they change the entry. For `FreshUnlessRaced` the invariant adds that
sessions and the process are of eras that have come (`Numbers`) and that, unless
one of the two named races happened, the row and the warm process are of the
present era or about to be killed (`ProcessFresh`), and what a turn resumes is of
no earlier era than the turn (`SessionsFresh`).

FileStore: `FileTypesCorrect` and `NothingAcknowledgedIsLost`, for any tables and
any number of concurrent calls, failing writes and stops. That the file holds what
was acknowledged is not inductive, since a flush writes a copy that it took
earlier. The invariant adds that whoever is between the copy and the answer has
the lock (`WritersHaveLock`), that a file holds nothing that its table in memory
lacks (`DiskBehind`), that a copy holds everything the file holds (`CopyIsNewer`),
and where the change of a call under way can be found (`InMemory`, `OnDisk`).
WeixinSend: `ServesNewest`; what was stored last is the newest (`NewestIsNewest`)
and an exchange that met no other one still holds it (`Undisturbed`). OneShotRun:
`WholeOutput`; each line was collected or waits in its pipe, unless the pipe was
closed on it (`LinesCounted`), a reader that is done left nothing and nobody can
write any more (`DoneIsEmpty`), and the bridge awaits the readers in turn
(`BridgeAwaits`).

**ClaudeProofs**: `InterruptsStayOwn` (the property `InterruptsHitOwnTurn`),
`OnlyEscSpoils` (`OnlyCancelSpoils`) and `TurnTypesCorrect`, for any number of
turns, events, interrupts, exits and cancellations and any capacity of the
channels. Neither an acknowledgement nor a result says which turn it is for, so
both rest on order. For the first, Claude is given commands in the order of the
turns they are for, and what it works on is of no later turn than what is still to
be read (`InOrder`): an interrupt read late meets its own turn or an older one. A
mark is the generation of an acknowledged interrupt (`Marked`) and the newest
generation is the turn's (`Alive`), so a turn takes only its own mark. For the
second, as long as no earlier turn was cancelled: the message of a turn is in one
place until its result was read, be it the input, Claude's queue or hands, its
output, the reader or the slot (`Single`); a turn that is not cancelled leaves
with nothing of its message left, or because its process is gone (`Serves`); so
the next one begins with nothing on its way (`Rests`) and registers with no turn
active and no result stored (`Prepared`, `Registered`). Messages of turns before
such a turn are done with when it runs (`OldIsDone`), so its interrupt meets none
of them, even after it was itself cancelled. The invariant is `TurnInv`; each
lemma `...Keep` is one kind of step.

**TasksProofs**, the tasks around the lanes. Scheduler: `TypeCorrect`,
`NoReminderVanishes`, `DeletedStays`, `ShownOnce`; the invariant relates the
tick's place in its job to the table: a new job is untouched (`NewIsUntouched`),
the job in hand is due and of the kind its step handles (`InHand`), a recurring
job is never deleted by the tick (`RecurringStays`), a response is only held where
one was produced (`Responses`), a row is deleted only after its outcome
(`OutcomeFirst`), and every outcome beyond the first is paid for by a stop or a
failure (`PaidFor`). MessageFlow: `LostWithTheLink`: what the adapter accepted is in its channel or in the
one upload, or went with a connection; the two minutes follow since a link has been
dead for no longer than its connection has been silent, give or take the half
minute it died in (`Dead`), and the silence is looked at before each write.
WeixinPoll: `NothingRunsTwice`, which
ties both adapters together: each run of a message but the first is paid for by a
connection that broke or by the deduplicator that forgot it (`RunsPaidFor`), and
each pass through Weixin's filter but the first by a restart or a forgotten id
(`PassesPaidFor`).

**PartsProofs**, the parts that are one function or one table. MessageSplit:
`SplitKeepsAll` and `SplitStalls`, for every text and limit: a cut lies in its
window (`CutInWindow`), a pass keeps what was pushed and the rest together
(`PushKeeps`). CronClock: `NextRunIsLater`, for every accepted
expression, time zone and moment, and `RunsAsNamed`: at the times the
expression names and at no others for the plain ones, and at no fewer times than it
names where date and weekdays are not read. `next` is `NextRun` of the moment
it was written at; for a plain expression the reading names the same moments as
the five fields (`TimeMatches`, `NamedDays`), for the others it names no
fewer (`NeverTooRare`); lemmas about division by 60 and 1440 carry the
arithmetic. TraceRepository:
`RowsAreAtomic` (the refinement of StatusRegister) and `EventsAgree`, for any
number of callers between their statements: what a caller has read allows what it
is about to write (`SeenAllows`; if the row has changed since, the UPDATE matches
nothing); an event that is told or about to be tells of a status that stays
(`EventsStay`); failures told or about to be have been counted
(`FailuresCounted`). UsageLedger: `NeverChargedTwice`; what is charged and what
would be charged for the counters as they are has been used (`Covered`); as long
as no counter was reset, the last report is what was charged (`Exact`). TurnSettings: `TurnsRunAsSet`; what a
turn has read still holds until it begins, unless it is marked (`ReadsHold`); a
process has what its user has chosen, unless a command is about to kill it
(`ProcessesHold`); so a turn has what it read (`TurnsMatch`). StreamFilters:
`StreamShowsStored`, for every answer and every way to cut it. Its functions
recurse on what follows the first block of a text, which is shorter; that they
have a value at all is proved from the least element of a set of lengths (`Shortest`,
`Recursion`, `Defined`), and so is every fact about them, by induction over the
length of a text (`Induction`, which takes a set in place of a predicate). No tag
is part of another one (`Tags`), so text in front in which no tag begins changes
nothing of what is found behind it (`Skip`), a tag that was found stays the first
one whatever follows (`Extend`), and what a filter gives out can begin no tag
with what it holds and what comes (`Held`). So a push gives out and holds exactly
what it was fed with (`ThinkKeeps`, `TagKeeps`: the latter unless a push ends
between the brackets of "]]", or a tag stays open). The invariant `StreamInv`
says that what was shown, followed by what the reference makes of what the filters hold
and what is to come, is the stored reply.

**ServerProofs**. CodexPool: `NoFollowupTwice`, `MessageRunsOnce`, `AnswersOwnText` and
`AnswersWhenDone` (the properties `RequeuedWasNotApplied`, `RunsOnce`,
`OnlyAdriftMixesIn`, `AnsweredIsComplete`), for any number of turns, deltas and
disturbances and any room in the channel, from one inductive invariant
(`PoolHolds`) in two layers over the types. `Asks` is about requests. Two
requests in the pipe are never for the same work (`Distinct`), and what they ask
for is not done yet (`RequestsOnce`); an id belongs to one call, so a response in
the output and a reply taken from it are true of what the call asked
(`CallsAnswered`): after an error nothing of it was done and nothing of it
is in the pipe, whoever asks again. A call that ended otherwise knows
nothing, and no outcome or fallback claims more (`OutcomesTrue`, `RunsCounted`). `Tells` is
about lines, which do not say whom they are for. Nothing of a turn follows its
completion (`Ordered`), and the server completes a turn before it leaves it
(`LinesOrdered`); so what a process that is still read has left to say of an earlier turn is
of one that was left adrift or comes after one (`LeftIsAdrift`), a slot that was closed too early was closed by
such a line (`ClosedIsOver`), and what text a handle holds is known
(`TextsKnown`). `EachServerAlone` relates the specification of the run to those
of the two components.

AuthGuard: `AuthTypesCorrect`, `NoRefusedTokenIsServed`, `ProfilesSurvive` and
`CircuitCountsUnanswered`, for any number of turns and commands, any number of
tokens and any threshold. A refused token is a revoked one, so no later
validation lets it pass; who still holds it was overtaken by the invalidation
(`FreshUnlessOvertaken`). Who is about to write the file has read the other
profiles (`DocumentsKeep`). For the counter, a turn in renewal owes one failure
until it clears the counter (`Pending`), which is before it fills the cache.

Proved and not part of a run: the type invariants of these components,
`ProfilesKept`, `CountedIsUnanswered`, `OneServer`, `EntryCountsTurns`,
`SettledMeansShown`, `SecondTrySucceeds`, `RunsLater`.

Model-checked only: all liveness (out of the prover's reach, as is ENABLED), and
the four runs that expect a violation. Every safety property of the passing runs
is a theorem.

An attempt to prove `OnlyAdriftMixesIn` showed it to be stated too strongly: with
three turns, the late completion of an abandoned first turn ends the slot of the second,
whose own text then reaches the third. The property now counts every turn up
to the one whose text it is (`AdriftUpTo`); two turns, as in the run, do not show
the difference.

## 5. Plan

What is left to model: panics in ConversationLanes, whose counters they leave as
they were; a second lane on the pool key of ClaudeTurns.

## 6. Not modelled

* The send circuit: nothing but its tests reads it. Of the authorization circuit
  the counters of other profiles, whose turns invalidate the shared token as well,
  and `/status`, which removes an expired entry like the next check would. The
  Astra CLI writes the credentials file itself; what it does there is not here.
* Configuration, access lists, health, workspace lookups, attachments, the
  session list of Codex: stateless or I/O. Installation: scripts. The Astra
  client library: an HTTP client and a line parser whose properties are about
  bytes. WhatsApp, its bridge and the frame formats of every platform.
* One-shot runs: command lines, the parsing of what was collected, an error of
  waiting for the child.
* The file store's rows: which of two changes of a row wins is their order in
  memory, which the model keeps but does not look into.
* Inside a turn: flush timers, stream chunks and heartbeats as such; for Claude
  system status output and the limit of 32 commands waiting for its input; for
  the app servers thread ids, tool summaries and answers to requests of the
  server. The runner's progress channel is in ClaudeTurns only.
* TurnSettings leaves out a resumed Codex thread's own directory, the display of
  reasoning and access tokens. UsageLedger assumes that Claude's results carry
  `modelUsage` unless the request failed.
* The retries inside one platform send, chunks and files: `Send` is one send
  with or without acknowledgement and display. Progress messages, which no row
  stands for. Adapters that close.
* A row whose `begin` failed half-way stays Accepted until the next sweep; the
  request runs untracked (`Arrive` with "orphan") and the properties are about
  tracked requests.
* Panics inside ConversationLanes (LaneChannel has them) and `/esc` on a row left
  by an earlier process.

More than two fifths of the implementation's lines are tests beside the code;
what is mapped is to be read against the rest.
