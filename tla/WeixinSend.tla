------------------------------ MODULE WeixinSend ------------------------------
(***************************************************************************)
(* Sending to one Weixin chat (platforms/weixin.rs): the context token     *)
(* that iLink wants with every message, and the retries of a send.         *)
(*                                                                         *)
(* A token comes with an inbound message or with the answer to a send; the *)
(* poller and the sender write the same cache without looking at it.  The  *)
(* server numbers its tokens as it gives them out, and may refuse any.     *)
(***************************************************************************)
EXTENDS Naturals

CONSTANTS
    SendMaxRetries,    \* SEND_MAX_RETRIES (3)
    TextsSent,         \* bound: texts and attachments that are sent
    TokensGiven,       \* bound: tokens the server gives out
    Reopens            \* bound: restarts of the gateway

ASSUME SendAssumption == {SendMaxRetries, TextsSent, TokensGiven, Reopens} \subseteq Nat

VARIABLES
    given,      \* tokens the server gave out
    cached,     \* context_tokens[chat_id] in memory
    saved,      \* and in the store
    poll,       \* the token that poll_updates has received and not cached yet
    send,       \* send_text: [at, token, bare, tries, brought]
    \* history: how often the cache was written; what it was when the poll was answered
    \* and the send began
    writes, pollSaw, sendSaw,
    newest,     \* the newest token that was ever cached
    dead,       \* tokens of sends that failed for good
    behind,     \* the last write came from an exchange that another write overlapped, or
                \* from the store
    texts, reopens

sendVars == <<given, cached, saved, poll, send, writes, pollSaw, sendSaw, newest, dead, behind,
              texts, reopens>>

NoToken == 0
Tokens == 1..TokensGiven
NoSend == [at |-> "idle", token |-> NoToken, bare |-> FALSE, tries |-> 0, brought |-> NoToken]

SendInit ==
    /\ given = 0 /\ cached = NoToken /\ saved = NoToken /\ poll = NoToken /\ send = NoSend
    /\ writes = 0 /\ pollSaw = 0 /\ sendSaw = 0
    /\ newest = NoToken /\ dead = {} /\ behind = FALSE
    /\ texts = 0 /\ reopens = 0

Newer(a, b) == IF a > b THEN a ELSE b

-----------------------------------------------------------------------------
(* The poller. *)

\* The server answers a poll with a message and a new token.
PollAnswered ==
    /\ poll = NoToken /\ given < TokensGiven
    /\ given' = given + 1 /\ poll' = given + 1 /\ pollSaw' = writes
    /\ UNCHANGED <<cached, saved, send, writes, sendSaw, newest, dead, behind,
                   texts, reopens>>

Replace_IfNone(token) == IF cached = NoToken THEN token ELSE cached
Replace(token) == token

Cache(token, saw) ==
    /\ cached' = Replace(token)
    /\ writes' = writes + 1
    /\ newest' = Newer(newest, token)
    /\ behind' = (writes > saw)

\* The token is cached and all tokens are saved, whose failure is ignored.
CacheInbound ==
    /\ poll # NoToken
    /\ Cache(poll, pollSaw)
    /\ saved' \in {cached', saved}
    /\ poll' = NoToken
    /\ UNCHANGED <<given, send, pollSaw, sendSaw, dead, texts, reopens>>

-----------------------------------------------------------------------------
(* The sender. *)

StartSend ==
    /\ send.at = "idle" /\ texts < TextsSent
    /\ texts' = texts + 1
    /\ send' = [NoSend EXCEPT !.at = "post", !.token = cached]
    /\ sendSaw' = writes
    /\ UNCHANGED <<given, cached, saved, poll, writes, pollSaw, newest, dead, behind, reopens>>

\* The next attempt, or the end of the send.
Retry == IF send.tries < SendMaxRetries
         THEN send' = [send EXCEPT !.at = "post", !.tries = @ + 1]
         ELSE send' = NoSend

\* The server takes the text and gives a new token or none.
Accepted ==
    /\ send.at = "post"
    /\ \/ /\ given < TokensGiven /\ given' = given + 1
          /\ send' = [send EXCEPT !.at = "accepted", !.brought = given + 1]
       \/ send' = [send EXCEPT !.at = "accepted"] /\ UNCHANGED given
    /\ UNCHANGED <<cached, saved, poll, writes, pollSaw, sendSaw, newest, dead, behind,
                   texts, reopens>>

\* An HTTP error, or an answer that is not JSON.
AnswerLost ==
    /\ send.at = "post"
    /\ Retry
    /\ UNCHANGED <<given, cached, saved, poll, writes, pollSaw, sendSaw, newest, dead, behind,
                   texts, reopens>>

\* classify_send_error: a stale session, a rate limit, or something else that iLink
\* answers with -2 or with another code.
Refusals == {"stale", "rate limit", "odd", "other"}
Fatal(refusal) == send.bare /\ refusal \in {"stale", "odd"}
DropsToken(refusal) == ~send.bare /\ refusal = "stale"

Refused(refusal) ==
    /\ send.at = "post"
    /\ IF Fatal(refusal) THEN send' = [send EXCEPT !.at = "fatal"]
       ELSE IF send.tries < SendMaxRetries
       THEN send' = [send EXCEPT !.tries = @ + 1, !.bare = @ \/ DropsToken(refusal)]
       ELSE send' = NoSend
    /\ UNCHANGED <<given, cached, saved, poll, writes, pollSaw, sendSaw, newest, dead, behind,
                   texts, reopens>>

\* send_text caches the token of the answer; it is saved with the next inbound one.
CacheAnswer ==
    /\ send.at = "accepted"
    /\ IF send.brought # NoToken THEN Cache(send.brought, sendSaw)
                              ELSE UNCHANGED <<cached, writes, newest, behind>>
    /\ send' = NoSend
    /\ UNCHANGED <<given, saved, poll, pollSaw, sendSaw, dead, texts, reopens>>

Evicted_Never == cached
Evicted == NoToken

\* The token that is cached is removed, which need not be the one the send used.
Evict ==
    /\ send.at = "fatal"
    /\ cached' = Evicted
    /\ writes' = writes + 1
    /\ dead' = dead \union {send.token}
    /\ behind' = (behind \/ writes > sendSaw)
    /\ send' = NoSend
    /\ UNCHANGED <<given, saved, poll, pollSaw, sendSaw, newest, texts, reopens>>

-----------------------------------------------------------------------------

\* The gateway stops; connect reads the tokens from the store.
ReopenChat ==
    /\ reopens < Reopens
    /\ reopens' = reopens + 1
    /\ cached' = saved /\ writes' = writes + 1 /\ behind' = TRUE
    /\ poll' = NoToken /\ send' = NoSend
    /\ UNCHANGED <<given, saved, pollSaw, sendSaw, newest, dead, texts>>

SendNext ==
    \/ PollAnswered \/ CacheInbound
    \/ StartSend \/ Accepted \/ AnswerLost \/ CacheAnswer \/ Evict
    \/ \E refusal \in Refusals : Refused(refusal)
    \/ ReopenChat

SendSpec == SendInit /\ [][SendNext]_sendVars

-----------------------------------------------------------------------------
(* Properties. *)

SendTypeOK ==
    /\ given \in 0..TokensGiven
    /\ {cached, saved, poll, newest} \subseteq 0..given /\ dead \subseteq 0..given
    /\ send \in [at : {"idle", "post", "accepted", "fatal"}, token : 0..given, bare : BOOLEAN,
                 tries : 0..SendMaxRetries, brought : 0..given]

\* The next send takes the newest token the gateway has, or none if iLink refused the
\* newest for good, unless two exchanges overlapped or the gateway was restarted since:
\* a dead token is not served again, and a fresh one is.
NewestIsServed ==
    behind \/ cached = IF newest \in dead THEN NoToken ELSE newest
=============================================================================
