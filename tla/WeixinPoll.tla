------------------------------ MODULE WeixinPoll ------------------------------
(***************************************************************************)
(* Long polling of the Weixin adapter (platforms/weixin.rs): a cursor that *)
(* is advanced and stored before the messages of a response are handed to  *)
(* the main loop, a deduplicator that lives with the process, and a full   *)
(* channel that drops.                                                     *)
(*                                                                         *)
(* The server numbers what users post; a cursor is the number of the last  *)
(* message it returned.                                                    *)
(***************************************************************************)
EXTENDS Naturals, Sequences

CONSTANTS
    Posts,           \* bound: messages users post
    Restarts,        \* bound: stops of the gateway
    Mishaps,         \* bound: failing polls, responses without a cursor, failing store
                     \* calls and messages the deduplicator forgets, together
    InboxCapacity    \* capacity of the adapter's channel (256)

ASSUME PollAssumption ==
    /\ {Posts, Restarts, Mishaps} \subseteq Nat
    /\ InboxCapacity \in Nat \ {0}

VARIABLES
    posted,          \* messages posted so far
    cursor, stored,  \* sync_buf of the task and of the store
    poller,          \* "polling", "saving" or "handing"
    updates,         \* what is left of the response
    known,           \* the deduplicator
    inbox,           \* the channel to the main loop
    \* history: how often the main loop took a message, what the full channel dropped,
    \* and what was in the process when it stopped and will not be polled again
    taken, dropped, cut,
    restarts, mishaps, forgotten

pollVars == <<posted, cursor, stored, poller, updates, known, inbox, taken, dropped, cut,
              restarts, mishaps, forgotten>>

Posted == 1..Posts
From(a, b) == [i \in 1..(b - a) |-> a + i]   \* the messages after a up to b
In(s) == {s[i] : i \in DOMAIN s}

PollInit ==
    /\ posted = 0 /\ cursor = 0 /\ stored = 0
    /\ poller = "polling" /\ updates = << >> /\ known = {} /\ inbox = << >>
    /\ taken = [m \in Posted |-> 0] /\ dropped = {} /\ cut = {}
    /\ restarts = 0 /\ mishaps = 0 /\ forgotten = 0

Smooth == UNCHANGED mishaps
Mishap == mishaps < Mishaps /\ mishaps' = mishaps + 1

Post ==
    /\ posted < Posts
    /\ posted' = posted + 1
    /\ UNCHANGED <<cursor, stored, poller, updates, known, inbox, taken, dropped, cut,
                   restarts, mishaps, forgotten>>

\* A poll that fails or ends with an error leaves the cursor as it was.
AfterError_Advanced(buf) == buf
AfterError(buf) == cursor

\* poll_updates up to the cursor of the task: the server returns some of what it has
\* after the cursor that was sent.
PollUpdates ==
    /\ poller = "polling"
    /\ \E buf \in (cursor + 1)..posted :
          \/ /\ Smooth
             /\ cursor' = buf /\ updates' = From(cursor, buf) /\ poller' = "saving"
          \/ /\ Mishap   \* without get_updates_buf
             /\ updates' = From(cursor, buf) /\ poller' = "handing" /\ UNCHANGED cursor
          \/ /\ Mishap
             /\ cursor' = AfterError(buf) /\ UNCHANGED <<updates, poller>>
    /\ UNCHANGED <<posted, stored, known, inbox, taken, dropped, cut, restarts, forgotten>>

\* save_credential, whose failure is ignored.
SaveCursor ==
    /\ poller = "saving"
    /\ poller' = "handing"
    /\ \/ Smooth /\ stored' = cursor
       \/ Mishap /\ UNCHANGED stored
    /\ UNCHANGED <<posted, cursor, updates, known, inbox, taken, dropped, cut, restarts,
                   forgotten>>

Known_Never(m) == FALSE
Known(m) == m \in known

\* The next message: known ones are skipped, unless they came again after five
\* minutes or a thousand others; deliver_weixin_inbound drops at a full channel.
HandUpdate ==
    /\ poller = "handing" /\ updates # << >>
    /\ LET m == Head(updates)
       IN  \/ Known(m) /\ Smooth /\ UNCHANGED <<known, inbox, dropped, forgotten>>
           \/ /\ \/ ~Known(m) /\ Smooth /\ UNCHANGED forgotten
                 \/ m \in known /\ Mishap /\ forgotten' = forgotten + 1
              /\ known' = known \union {m}
              /\ \/ Len(inbox) < InboxCapacity /\ inbox' = Append(inbox, m)
                    /\ UNCHANGED dropped
                 \/ Len(inbox) = InboxCapacity /\ dropped' = dropped \union {m}
                    /\ UNCHANGED inbox
    /\ updates' = Tail(updates)
    /\ UNCHANGED <<posted, cursor, stored, poller, taken, cut, restarts>>

PollEnds ==
    /\ poller = "handing" /\ updates = << >>
    /\ poller' = "polling"
    /\ UNCHANGED <<posted, cursor, stored, updates, known, inbox, taken, dropped, cut,
                   restarts, mishaps, forgotten>>

\* recv_from_any of the main loop.
TakeUpdate ==
    /\ inbox # << >>
    /\ taken' = [taken EXCEPT ![Head(inbox)] = @ + 1]
    /\ inbox' = Tail(inbox)
    /\ UNCHANGED <<posted, cursor, stored, poller, updates, known, dropped, cut, restarts,
                   mishaps, forgotten>>

\* The gateway stops and starts again; a cursor that cannot be read is the empty one.
Restart ==
    /\ restarts < Restarts
    /\ restarts' = restarts + 1
    /\ \/ Smooth /\ cursor' = stored
       \/ Mishap /\ cursor' = 0
    /\ cut' = cut \union {m \in In(updates) \union In(inbox) : m <= cursor'}
    /\ poller' = "polling" /\ updates' = << >> /\ known' = {} /\ inbox' = << >>
    /\ UNCHANGED <<posted, stored, taken, dropped, forgotten>>

PollStep == PollUpdates \/ SaveCursor \/ HandUpdate \/ PollEnds

PollNext == Post \/ PollStep \/ TakeUpdate \/ Restart

\* The loop polls again after every error, and the main loop comes back (MainReturns).
PollFairness == WF_pollVars(PollStep) /\ WF_pollVars(TakeUpdate)

-----------------------------------------------------------------------------
(* Properties. *)

\* Every message a user posts is run, unless the full channel dropped it or it was
\* on its way through the process at a stop: failing polls, lost cursors and
\* failing store calls cost nothing.
PostedIsTaken ==
    []<>(\A m \in 1..posted : taken[m] > 0 \/ m \in dropped \/ m \in cut)

\* A message that is polled twice runs once, but for restarts and messages that
\* the deduplicator forgot.
TakenOncePerStart == \A m \in Posted : taken[m] <= 1 + restarts + forgotten
=============================================================================
