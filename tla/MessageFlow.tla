----------------------------- MODULE MessageFlow -----------------------------
(***************************************************************************)
(* The way of a message through the gateway's bounded channels: the WeCom  *)
(* connection (platforms/wecom.rs), the main loop and the workers of a     *)
(* conversation (run and the lane workers of runner.rs), and back.         *)
(*                                                                         *)
(* The connection and the main loop are one task each, and each awaits     *)
(* room in a channel that only the other one drains; so do the main loop   *)
(* and the workers.  Here a turn is just something that ends, with or      *)
(* without a reply (ConversationLanes has what it does); what is in a channel is     *)
(* counted, messages have ids until they are handed over.                  *)
(*                                                                         *)
(* The connection awaits an answer to the frames of an upload and to       *)
(* nothing else.  A link may go dead without a sign: then what is written  *)
(* does not reach WeCom although the write succeeds, and nothing comes     *)
(* back.  Of a link that lives it is assumed that what is written reaches  *)
(* WeCom, and that a heartbeat is answered before the next.  Whether WeCom *)
(* takes a text that reached it is not known here: the code does not read  *)
(* its answer.  Time passes in half minutes, the heartbeat's interval.     *)
(***************************************************************************)
EXTENDS Naturals, Sequences, FiniteSets

CONSTANTS
    Messages,         \* bound: messages users send
    Disturbances,     \* bound: attachments, welcome texts, reminders, scheduled turns,
                      \* messages that the server sends again or the connection forgets,
                      \* links that go dead and connections that break together
    LinkCapacity,     \* capacity of the adapter's two channels (256)
    LaneCapacity,     \* capacity of a lane (128)
    ReplyCapacity     \* capacity of the response and outbound channels (64)

ASSUME FlowAssumption ==
    /\ {Messages, Disturbances} \subseteq Nat
    /\ {LinkCapacity, LaneCapacity, ReplyCapacity} \subseteq Nat \ {0}

VARIABLES
    \* the WeCom connection: "down", "up", "uploading"; the message it hands over
    link, handing, seen,
    \* half minutes: last_recv.elapsed(), and how long the link has been dead (from 1;
    \* 0 while it lives)
    silence, dead,
    \* how many are in the channels; what is to be sent: "text" or "file"
    inbound, ingress, execution, replies, notices, outbound,
    \* the main loop: "select", "offer" a message, or "send" what is left to send
    main, sends,
    \* the ingress worker has a message; the execution worker
    forwards, worker,
    \* history: messages sent by the server so far, how often each was handed to the
    \* main loop, how many texts and files the adapter accepted that did not reach
    \* WeCom; of them, how many a connection was sending when it ended, and how many
    \* were written to a link that had died two minutes before at most
    arrived, handed, owed, cutOff, unseen,
    \* connections that broke, messages forgotten, and the other disturbances
    breaks, forgets, extras

lossVars  == <<silence, dead, cutOff, unseen>>
linkVars  == <<link, handing, seen, lossVars>>
laneVars  == <<ingress, execution, forwards, worker>>
mainVars  == <<main, sends>>
boundVars == <<breaks, forgets, extras>>

flowVars == <<linkVars, inbound, laneVars, replies, notices, outbound, mainVars, arrived,
              handed, owed, boundVars>>

Ids == 1..Messages
None == 0

FlowInit ==
    /\ link = "down" /\ handing = None /\ seen = {}
    /\ silence = 0 /\ dead = 0 /\ cutOff = 0 /\ unseen = 0
    /\ inbound = 0 /\ ingress = 0 /\ execution = 0
    /\ replies = 0 /\ notices = 0 /\ outbound = << >>
    /\ main = "select" /\ sends = << >>
    /\ forwards = FALSE /\ worker = "idle"
    /\ arrived = 0 /\ handed = [m \in Ids |-> 0] /\ owed = 0
    /\ breaks = 0 /\ forgets = 0 /\ extras = 0

Undisturbed == breaks + forgets + extras < Disturbances

-----------------------------------------------------------------------------
(* The connection. *)

\* What the connection has taken and not written: the file it uploads.
Uploading == IF link = "uploading" THEN 1 ELSE 0

\* The loop of WeComAdapter::start goes on to the next connection, without what
\* this one was sending.
Disconnect(sending) ==
    /\ link' = "down" /\ silence' = 0 /\ dead' = 0
    /\ breaks' = breaks + 1 /\ cutOff' = cutOff + sending

\* A dead link may show it at any time.
MayFail == Undisturbed \/ dead > 0

\* Half minutes of silence: from 2 on it can be longer than PONG_TIMEOUT, and with 4
\* a heartbeat has passed since, after which the loop looked at it.
CanBeNoticed == 2
IsNoticed == 4
Overdue == silence >= IsNoticed

\* connect_async and aibot_subscribe; the deduplicator is made anew.
Connect ==
    /\ link = "down"
    /\ link' = "up" /\ seen' = {}
    /\ UNCHANGED <<handing, lossVars, inbound, laneVars, replies, notices, outbound,
                   mainVars, arrived, handed, owed, boundVars>>

Duplicate_Never(m) == FALSE
Duplicate(m) == m \in seen

\* A frame with a message: a new one, one that the server sends again, or one that
\* it sends again after five minutes or a thousand messages, when the deduplicator
\* has forgotten it.  Also while an upload waits for its answer.
Receive ==
    /\ link \in {"up", "uploading"} /\ dead = 0 /\ handing = None
    /\ \E m \in Ids :
          /\ seen' = seen \union {m}
          /\ \/ /\ m = arrived + 1 /\ arrived' = m /\ handing' = m
                /\ UNCHANGED <<forgets, extras>>
             \/ /\ m <= arrived /\ Undisturbed /\ extras' = extras + 1
                /\ handing' = IF Duplicate(m) THEN None ELSE m
                /\ UNCHANGED <<arrived, forgets>>
             \/ /\ m \in seen /\ Undisturbed /\ forgets' = forgets + 1
                /\ handing' = m
                /\ UNCHANGED <<arrived, extras>>
    /\ UNCHANGED <<link, lossVars, inbound, laneVars, replies, notices, outbound, mainVars,
                   handed, owed, breaks>>

\* msg_tx.send(msg).await; nothing else happens on the connection before.
HandOver ==
    /\ handing # None /\ inbound < LinkCapacity
    /\ inbound' = inbound + 1
    /\ handing' = None
    /\ handed' = [handed EXCEPT ![handing] = @ + 1]
    /\ UNCHANGED <<link, seen, lossVars, laneVars, replies, notices, outbound, mainVars,
                   arrived, owed, boundVars>>

\* The next connection receives from the same channel.
AfterBreak_New(queue) == << >>
AfterBreak(queue) == queue

\* The socket closes, a read or the write of a heartbeat fails, or handing over took
\* longer than PONG_TIMEOUT.
Break ==
    /\ link \in {"up", "uploading"} /\ handing = None /\ MayFail
    /\ Disconnect(Uploading)
    /\ outbound' = AfterBreak(outbound)
    /\ UNCHANGED <<handing, seen, inbound, laneVars, replies, notices, mainVars, arrived,
                   handed, owed, unseen, forgets, extras>>

\* From here on nothing gets through, in either direction.
LinkDies ==
    /\ link \in {"up", "uploading"} /\ dead = 0 /\ Undisturbed
    /\ dead' = 1 /\ extras' = extras + 1
    /\ UNCHANGED <<link, handing, seen, silence, inbound, laneVars, replies, notices, outbound,
                   mainVars, arrived, handed, owed, cutOff, unseen, breaks, forgets>>

\* What half a minute with a heartbeat adds to last_recv.elapsed().
Elapsed_SinceHeartbeat == 0
Elapsed == silence + 1

\* Half a minute on a dead link.  (While the connection hands over or uploads
\* nothing is written, and on a link that lives the heartbeat's answer ends the
\* silence.)  The heartbeat is due before more time passes, and the check with it.
HalfMinute ==
    /\ link = "up" /\ handing = None /\ dead > 0 /\ ~Overdue
    /\ silence' = Elapsed /\ dead' = dead + 1
    /\ UNCHANGED <<link, handing, seen, inbound, laneVars, replies, notices, outbound,
                   mainVars, arrived, handed, owed, cutOff, unseen, boundVars>>

\* The check at the top of the loop.
GiveUp ==
    /\ link = "up" /\ handing = None /\ silence >= CanBeNoticed
    /\ Disconnect(0)
    /\ outbound' = AfterBreak(outbound)
    /\ UNCHANGED <<handing, seen, inbound, laneVars, replies, notices, mainVars, arrived,
                   handed, owed, unseen, forgets, extras>>

\* A text is written, or the write fails and it is gone; an attachment is uploaded
\* first.
Transmit ==
    /\ link = "up" /\ handing = None /\ ~Overdue /\ outbound # << >>
    /\ outbound' = Tail(outbound)
    /\ \/ /\ Head(outbound) = "text"
          /\ IF dead = 0 THEN owed' = owed - 1 /\ UNCHANGED unseen
                         ELSE /\ unseen' = unseen + (IF dead <= IsNoticed THEN 1 ELSE 0)
                              /\ UNCHANGED owed
          /\ UNCHANGED <<link, silence, dead, cutOff, breaks>>
       \/ /\ Head(outbound) = "file"
          /\ link' = "uploading"
          /\ UNCHANGED <<lossVars, owed, breaks>>
       \/ MayFail /\ Disconnect(1) /\ UNCHANGED <<owed, unseen>>
    /\ UNCHANGED <<handing, seen, inbound, laneVars, replies, notices, mainVars, arrived,
                   handed, forgets, extras>>

\* The server answered the frames of the upload and the attachment is written, if
\* the link is not dead by then.
Uploaded ==
    /\ link = "uploading" /\ dead = 0 /\ handing = None
    /\ link' = "up"
    /\ \/ owed' = owed - 1 /\ UNCHANGED <<dead, unseen, extras>>
       \/ /\ Undisturbed /\ extras' = extras + 1
          /\ dead' = 1 /\ unseen' = unseen + 1 /\ UNCHANGED owed
    /\ UNCHANGED <<handing, seen, silence, cutOff, inbound, laneVars, replies, notices,
                   outbound, mainVars, arrived, handed, breaks, forgets>>

HasDeadline_Never == FALSE
HasDeadline == TRUE

\* 30 seconds without an answer, or an error answer, cost the connection.
UploadFails ==
    /\ link = "uploading" /\ handing = None /\ HasDeadline
    /\ Disconnect(1)
    /\ UNCHANGED <<handing, seen, inbound, laneVars, replies, notices, outbound, mainVars,
                   arrived, handed, owed, unseen, forgets, extras>>

-----------------------------------------------------------------------------
(* The main loop. *)

\* A slash command is answered at once or says nothing, as feedback does; anything
\* else goes to its lane.
TakeInbound ==
    /\ main = "select" /\ inbound > 0
    /\ inbound' = inbound - 1
    /\ \/ main' = "send" /\ sends' = <<"text">>
       \/ main' \in {"select", "offer"} /\ UNCHANGED sends
    /\ UNCHANGED <<linkVars, laneVars, replies, notices, outbound, arrived, handed, owed,
                   boundVars>>

\* scheduled_turn_rx and inject_rx
TakeScheduled ==
    /\ main = "select" /\ Undisturbed
    /\ extras' = extras + 1
    /\ main' = "offer"
    /\ UNCHANGED <<linkVars, inbound, laneVars, replies, notices, outbound, sends, arrived,
                   handed, owed, breaks, forgets>>

\* cli_resp_rx; a text is one chunk here.
TakeReply ==
    /\ main = "select" /\ replies > 0
    /\ replies' = replies - 1
    /\ main' = "send" /\ sends' = <<"text">>
    /\ UNCHANGED <<linkVars, inbound, laneVars, notices, outbound, arrived, handed, owed,
                   boundVars>>

\* cron_rx
TakeNotice ==
    /\ main = "select" /\ notices > 0
    /\ notices' = notices - 1
    /\ main' = "send" /\ sends' = <<"text">>
    /\ UNCHANGED <<linkVars, inbound, laneVars, replies, outbound, arrived, handed, owed,
                   boundVars>>

\* runtime_cmd_rx: an attachment, perhaps with a caption.
TakeFile ==
    /\ main = "select" /\ Undisturbed
    /\ extras' = extras + 1
    /\ main' = "send" /\ sends' \in {<<"file">>, <<"text", "file">>}
    /\ UNCHANGED <<linkVars, inbound, laneVars, replies, notices, outbound, arrived, handed,
                   owed, breaks, forgets>>

\* enqueue_lane awaits room in the ingress lane.
Offer ==
    /\ main = "offer" /\ ingress < LaneCapacity
    /\ ingress' = ingress + 1
    /\ main' = "select"
    /\ UNCHANGED <<linkVars, inbound, execution, forwards, worker, replies, notices,
                   outbound, sends, arrived, handed, owed, boundVars>>

\* out_tx.send awaits room in the adapter's channel.
SendOut ==
    /\ main = "send" /\ Len(outbound) < LinkCapacity
    /\ outbound' = Append(outbound, Head(sends))
    /\ owed' = owed + 1
    /\ sends' = Tail(sends)
    /\ main' = IF Tail(sends) = << >> THEN "select" ELSE "send"
    /\ UNCHANGED <<linkVars, inbound, laneVars, replies, notices, arrived, handed,
                   boundVars>>

-----------------------------------------------------------------------------
(* The workers of the conversation. *)

IngressTakes ==
    /\ ~forwards /\ ingress > 0
    /\ forwards' = TRUE /\ ingress' = ingress - 1
    /\ UNCHANGED <<linkVars, inbound, execution, worker, replies, notices, outbound, mainVars,
                   arrived, handed, owed, boundVars>>

\* The message steers the running turn or is dropped, or the worker awaits room
\* in the execution lane.
Forward ==
    /\ forwards
    /\ forwards' = FALSE
    /\ \/ UNCHANGED execution
       \/ execution < LaneCapacity /\ execution' = execution + 1
    /\ UNCHANGED <<linkVars, inbound, ingress, worker, replies, notices, outbound, mainVars,
                   arrived, handed, owed, boundVars>>

WorkerTakes ==
    /\ worker = "idle" /\ execution > 0
    /\ execution' = execution - 1
    /\ \/ worker' = "turn" /\ UNCHANGED extras
       \/ Undisturbed /\ extras' = extras + 1 /\ worker' = "welcome"
    /\ UNCHANGED <<linkVars, inbound, ingress, forwards, replies, notices, outbound, mainVars,
                   arrived, handed, owed, breaks, forgets>>

\* The first message of a user is answered with a welcome before its turn.
Welcome ==
    /\ worker = "welcome" /\ notices < ReplyCapacity
    /\ notices' = notices + 1 /\ worker' = "turn"
    /\ UNCHANGED <<linkVars, inbound, ingress, execution, forwards, replies, outbound,
                   mainVars, arrived, handed, owed, boundVars>>

TurnEnds ==
    /\ worker = "turn"
    /\ worker' \in {"reply", "idle"}
    /\ UNCHANGED <<linkVars, inbound, ingress, execution, forwards, replies, notices,
                   outbound, mainVars, arrived, handed, owed, boundVars>>

\* cli_resp_tx.send awaits room in the response channel.
Reply ==
    /\ worker = "reply" /\ replies < ReplyCapacity
    /\ replies' = replies + 1 /\ worker' = "idle"
    /\ UNCHANGED <<linkVars, inbound, ingress, execution, forwards, notices, outbound,
                   mainVars, arrived, handed, owed, boundVars>>

\* The scheduler's texts take the same channel (progress is dropped when it is
\* full).
Remind ==
    /\ Undisturbed /\ notices < ReplyCapacity
    /\ notices' = notices + 1 /\ extras' = extras + 1
    /\ UNCHANGED <<linkVars, inbound, laneVars, replies, outbound, mainVars, arrived, handed,
                   owed, breaks, forgets>>

-----------------------------------------------------------------------------

LinkStep == HandOver \/ Transmit \/ GiveUp \/ UploadFails
MainStep == TakeInbound \/ TakeReply \/ TakeNotice \/ Offer \/ SendOut
IngressStep == IngressTakes \/ Forward
WorkerStep == WorkerTakes \/ Welcome \/ TurnEnds \/ Reply

FlowNext ==
    \/ Connect \/ Receive \/ Break \/ LinkDies \/ HalfMinute \/ Uploaded \/ LinkStep
    \/ MainStep \/ TakeScheduled \/ TakeFile
    \/ IngressStep \/ WorkerStep \/ Remind

FlowSpec == FlowInit /\ [][FlowNext]_flowVars

\* Tasks run and turns end; the server, users and connecting are not fair.  The
\* connection's select is random: a text to send is not passed over for ever.
FlowFairness ==
    /\ WF_flowVars(LinkStep) /\ WF_flowVars(MainStep)
    /\ WF_flowVars(IngressStep) /\ WF_flowVars(WorkerStep)

FairFlow == FlowSpec /\ FlowFairness

-----------------------------------------------------------------------------
(* Properties. *)

\* A full circle of channels between the main loop and the workers ...
LaneJam ==
    /\ main = "offer" /\ ingress = LaneCapacity
    /\ forwards /\ execution = LaneCapacity
    /\ \/ worker = "reply" /\ replies = ReplyCapacity
       \/ worker = "welcome" /\ notices = ReplyCapacity

\* ... and one between the main loop and the connection.
LinkJam ==
    /\ main = "send" /\ Len(outbound) = LinkCapacity
    /\ handing # None /\ inbound = LinkCapacity

\* The main loop, which serves every platform, comes back to its select: only a
\* full circle of channels holds it for good, or WeCom being unreachable.
MainReturns == []<>(main = "select" \/ LaneJam \/ LinkJam \/ link = "down")

\* What the adapter accepted waits for the next connection, over any number of them.
\* A connection that ends costs at most the one text or file it was sending, and the
\* ones it wrote within two minutes after its link had died unnoticed: no link is
\* written to for longer than that (PONG_TIMEOUT).
LostOnlyWithItsLink ==
    /\ owed = Len(outbound) + Uploading + cutOff + unseen
    /\ cutOff <= breaks

\* A message that the server repeats runs again only on another connection or when
\* it is forgotten.
RunsOncePerLink == \A m \in Ids : handed[m] <= 1 + breaks + forgets
=============================================================================
