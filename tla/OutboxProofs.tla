---------------------------- MODULE OutboxProofs ----------------------------
(***************************************************************************)
(* What holds of OutboxDelivery for any number of gateways on the database *)
(* and any number of replies, crashes and failed calls: its types, and     *)
(* that nothing is settled as sent or completed that the chat never        *)
(* showed.                                                                 *)
(*                                                                         *)
(* The argument: rows are never taken away (RowsGrow), a delivery gets to  *)
(* the point of writing "sent" only behind an acknowledged send            *)
(* (Acknowledged), and shown is never reset.                               *)
(*                                                                         *)
(* With one gateway on the database more holds: a reply is in one place    *)
(* (Apart), a start has one send of it left at most (Budget), what is sent *)
(* is owed (Delivering), so every step is one of DurableReply.             *)
(***************************************************************************)
EXTENDS OutboxDelivery, FiniteSetTheorems, SequenceTheorems, TLAPS

\* A delivery that is about to write its success was shown, where the adapter
\* waits for the platform.
Acknowledged ==
    \A i \in Instances :
        at[i] \in {"sent", "complete"} /\ current[i] \in Direct => shown[current[i]] > 0

Inv == TypeOK /\ Acknowledged /\ SettledMeansShown

\* Every action but the ones that write rows leaves them as they are, and those
\* never unstore one.
LEMMA RowsGrow == TypeOK /\ [Next]_vars => Rows \subseteq Rows'
<1> SUFFICES ASSUME TypeOK, [Next]_vars PROVE Rows \subseteq Rows'
  OBVIOUS
<1>1. ASSUME NEW i \in Instances, NEW r \in Replies, NEW s \in RequestStatus,
             NEW inserted \in BOOLEAN, NEW logged \in BOOLEAN,
             Store(i, r, s, inserted, logged)
      PROVE  Rows \subseteq Rows'
  BY <1>1 DEF Store, TypeOK, Rows, Stored, OutboxStatus
<1>2. ASSUME NEW i \in Instances, NEW ok \in BOOLEAN,
             MarkSent(i, ok) \/ MarkFailed(i, ok)
      PROVE  Rows \subseteq Rows'
  BY <1>2 DEF MarkSent, MarkFailed, Countable, CanDeliver, TypeOK, Rows, Stored, OutboxStatus
<1>3. ASSUME NEW i \in Instances, NEW r \in Replies, Dismiss(i, r)
      PROVE  Rows \subseteq Rows'
  BY <1>3 DEF Dismiss, TypeOK, Rows, Stored, OutboxStatus
<1>4. CASE UNCHANGED row
  BY <1>4 DEF Rows, Stored
<1>5. ASSUME NEW i \in Instances, NEW r \in Replies, Run(i, r) \/ HandOver(i, r)
      PROVE  UNCHANGED row
  BY <1>5 DEF Run, HandOver, rowVars
<1>6. ASSUME NEW i \in Instances, TakeReply(i) \/ TakeReplay(i) \/ Stop(i) \/ Boot(i) \/ Serve(i)
      PROVE  UNCHANGED row
  BY <1>6 DEF TakeReply, TakeReplay, Stop, Boot, Serve, rowVars
<1>7. ASSUME NEW i \in Instances, NEW a \in BOOLEAN, NEW b \in BOOLEAN,
             Send(i, a, b) \/ CompleteRequest(i, a) \/ Sweep(i, a) \/ ListRetryable(i, a)
      PROVE  UNCHANGED row
  BY <1>7 DEF Send, CompleteRequest, Sweep, ListRetryable, rowVars
<1>8. ASSUME NEW i \in Instances, SendQueued(i) \/ Connection(i)
      PROVE  UNCHANGED row
  BY <1>8 DEF SendQueued, Connection, Transmit, rowVars
<1>9. CASE UNCHANGED vars
  BY <1>9, <1>4 DEF vars, rowVars
<1>. QED BY <1>1, <1>2, <1>3, <1>4, <1>5, <1>6, <1>7, <1>8, <1>9
         DEF Next, Worker, Deliver, Start

\* created_at is a number.
LEMMA NowNat == Now \in Nat
<1>1. IsFiniteSet(Rows)
  BY FS_Subset, OutboxAssumption DEF Rows
<1>. QED BY <1>1, FS_CardinalityType DEF Now

\* A database call counts its failure within the bound.
LEMMA DbType ==
    ASSUME NEW ok \in BOOLEAN, faults \in 0 .. MaxFaults, Db(ok)
    PROVE  faults' \in 0 .. MaxFaults
BY OutboxAssumption DEF Db

-----------------------------------------------------------------------------
\* Initially nothing is stored or shown.
LEMMA InvInit == Init => Inv
<1>1. Init => TypeOK
  BY OutboxAssumption, EmptySeq
     DEF Init, TypeOK, Rows, OutboxMaxRetries, Places
<1>2. Init => Acknowledged /\ SettledMeansShown
  BY OutboxAssumption DEF Init, Acknowledged, SettledMeansShown, Direct
<1>. QED BY <1>1, <1>2 DEF Inv

-----------------------------------------------------------------------------
(* The steps of a worker. *)

\* Starting a turn preserves the invariant.
LEMMA RunInv ==
    ASSUME Inv, NEW i \in Instances, NEW r \in Replies, Run(i, r), Rows \subseteq Rows'
    PROVE  Inv'
<1> USE DEF Run, rowVars, deliveryVars, chatVars
<1>1. TypeOK'
  BY DEF Inv, TypeOK, RequestStatus
<1>2. Acknowledged' /\ SettledMeansShown'
  BY DEF Inv, TypeOK, Acknowledged, SettledMeansShown
<1>. QED BY <1>1, <1>2 DEF Inv

\* Storing the reply preserves the invariant: a stored row is pending.
LEMMA StoreInv ==
    ASSUME Inv, NEW i \in Instances, NEW r \in Replies, NEW status \in RequestStatus,
           NEW inserted \in BOOLEAN, NEW logged \in BOOLEAN,
           Store(i, r, status, inserted, logged), Rows \subseteq Rows'
    PROVE  Inv'
<1> USE DEF Store, deliveryVars, chatVars
<1>1. faults' \in 0 .. MaxFaults
  BY DbType DEF Inv, TypeOK
<1>2. created' \in [Replies -> Nat]
  BY NowNat DEF Inv, TypeOK
<1>3. row' = [row EXCEPT ![r] = IF inserted THEN "pending" ELSE "unstored"]
  OBVIOUS
<1>4. tracked' \subseteq Rows'
  <2>1. logged => r \in Rows'
    BY <1>3 DEF Inv, TypeOK, Rows, Stored, OutboxStatus
  <2>. QED BY <2>1 DEF Inv, TypeOK, WithOutbox
<1>5. row' \in [Replies -> OutboxStatus \union {"none", "unstored"}]
  BY <1>3 DEF Inv, TypeOK, OutboxStatus
<1>6. TypeOK'
  BY <1>1, <1>2, <1>4, <1>5 DEF Inv, TypeOK
<1>7. Acknowledged'
  BY DEF Inv, Acknowledged
<1>8. SettledMeansShown'
  BY <1>3 DEF Inv, TypeOK, SettledMeansShown
<1>. QED BY <1>6, <1>7, <1>8 DEF Inv

\* Handing the reply over preserves the invariant.
LEMMA HandOverInv ==
    ASSUME Inv, NEW i \in Instances, NEW r \in Replies, HandOver(i, r), Rows \subseteq Rows'
    PROVE  Inv'
<1> USE DEF HandOver, rowVars, deliveryVars, chatVars
<1>1. channel' \in [Instances -> Seq(Replies)]
  BY AppendProperties DEF Inv, TypeOK
<1>2. TypeOK'
  BY <1>1 DEF Inv, TypeOK
<1>3. Acknowledged' /\ SettledMeansShown'
  BY DEF Inv, Acknowledged, SettledMeansShown
<1>. QED BY <1>2, <1>3 DEF Inv

-----------------------------------------------------------------------------
(* The steps of a delivery. *)

\* Beginning a delivery of r preserves the invariant.
LEMMA BeginInv ==
    ASSUME Inv, NEW i \in Instances, NEW r \in Replies, Begin(i, r),
           channel' \in [Instances -> Seq(Replies)],
           replay' \in [Instances -> SUBSET Rows],
           tracked' \subseteq Rows,
           UNCHANGED <<rowVars, worker, phase, outgoing, chatVars, crashes, faults>>
    PROVE  Inv'
<1> USE DEF Begin, Go, rowVars, chatVars
<1>1. Rows' = Rows
  BY DEF Rows, Stored
<1>2. TypeOK'
  BY <1>1, OutboxAssumption DEF Inv, TypeOK, Places
<1>3. Acknowledged' /\ SettledMeansShown'
  BY DEF Inv, TypeOK, Acknowledged, SettledMeansShown, Places
<1>. QED BY <1>2, <1>3 DEF Inv

\* Taking a reply from the response channel preserves the invariant.
LEMMA TakeReplyInv ==
    ASSUME Inv, NEW i \in Instances, TakeReply(i)
    PROVE  Inv'
<1>1. /\ Head(channel[i]) \in Replies
      /\ Tail(channel[i]) \in Seq(Replies)
  BY HeadTailProperties DEF TakeReply, Inv, TypeOK
<1>2. channel' \in [Instances -> Seq(Replies)]
  BY <1>1 DEF TakeReply, Inv, TypeOK
<1>. QED BY <1>1, <1>2, BeginInv DEF TakeReply, Inv, TypeOK

\* Taking a row of the startup replay preserves the invariant.
LEMMA TakeReplayInv ==
    ASSUME Inv, NEW i \in Instances, TakeReplay(i)
    PROVE  Inv'
<1>1. PICK r \in replay[i] : /\ Begin(i, r)
                             /\ replay' = [replay EXCEPT ![i] = @ \ {r}]
                             /\ tracked' = tracked \union {r}
  BY DEF TakeReplay
<1>2. r \in Rows /\ r \in Replies
  BY DEF Inv, TypeOK, Rows
<1>3. replay' \in [Instances -> SUBSET Rows] /\ tracked' \subseteq Rows
  BY <1>1, <1>2 DEF Inv, TypeOK
<1>. QED BY <1>1, <1>2, <1>3, BeginInv DEF TakeReplay, Inv, TypeOK

\* What a delivery does with the answer to its send, given that a positive one
\* from the platform itself comes with the reply on display.
LEMMA AfterAnswerInv ==
    ASSUME Inv, NEW i \in Instances, NEW acknowledged \in BOOLEAN, at[i] = "send",
           AfterAnswer(i, acknowledged),
           attempts' = [attempts EXCEPT ![current[i]] = @ + 1],
           shown' \in [Replies -> Nat],
           \A r \in Replies : shown'[r] >= shown[r],
           acknowledged /\ current[i] \in Direct => shown'[current[i]] > 0,
           outgoing' \in [Instances -> Seq(Queued)],
           UNCHANGED <<rowVars, processVars, crashes, faults>>
    PROVE  Inv'
<1> USE DEF AfterAnswer, Go, Finish, rowVars, processVars
<1>1. current[i] \in Replies
  BY DEF Inv, TypeOK
<1>2. Rows' = Rows
  BY DEF Rows, Stored
<1>3. attempts' \in [Replies -> Nat]
  BY <1>1 DEF Inv, TypeOK
<1>4. TypeOK'
  <2>1. at' \in [Instances -> Places] /\ current' \in [Instances -> Replies \union {NoReply}]
    BY DEF Inv, TypeOK, Places, AfterSend
  <2>2. \A j \in Instances : at'[j] = "idle" <=> current'[j] = NoReply
    BY SMTT(30), <1>1, OutboxAssumption DEF Inv, TypeOK, AfterSend
  <2>3. replay' \in [Instances -> SUBSET Rows'] /\ tracked' \subseteq Rows'
    BY <1>2 DEF Inv, TypeOK
  <2>4. UNCHANGED <<request, row, retries, created, dismissed, worker, phase, channel, crashes,
                    faults>>
    OBVIOUS
  <2>. QED BY <2>1, <2>2, <2>3, <2>4, <1>3 DEF Inv, TypeOK
<1>5. \A r \in Direct : shown[r] > 0 => shown'[r] > 0
  <2> SUFFICES ASSUME NEW r \in Replies, shown[r] > 0 PROVE shown'[r] > 0
    BY DEF Direct
  <2>1. shown[r] \in Nat /\ shown'[r] \in Nat /\ shown'[r] >= shown[r]
    BY DEF Inv, TypeOK
  <2>. QED BY <2>1
<1>6. Acknowledged'
  <2> SUFFICES ASSUME NEW j \in Instances, at'[j] \in {"sent", "complete"},
                      current'[j] \in Direct
               PROVE  shown'[current'[j]] > 0
    BY DEF Acknowledged
  <2>1. CASE j = i
    <3>1. at'[i] = "sent" => acknowledged
      BY DEF Inv, TypeOK, AfterSend
    <3>2. at'[i] # "idle" => current' = current
      BY DEF Inv, TypeOK
    <3>. QED BY <2>1, <3>1, <3>2 DEF Inv, TypeOK, AfterSend
  <2>2. CASE j # i
    BY ZenonT(60), <2>2, <1>5 DEF Inv, TypeOK, Acknowledged
  <2>. QED BY <2>1, <2>2
<1>7. SettledMeansShown'
  BY <1>5 DEF Inv, SettledMeansShown
<1>. QED BY <1>4, <1>6, <1>7 DEF Inv

\* A send preserves the invariant: an acknowledged one was displayed.
LEMMA SendInv ==
    ASSUME Inv, NEW i \in Instances, NEW acknowledged \in BOOLEAN,
           NEW displayed \in BOOLEAN, Send(i, acknowledged, displayed)
    PROVE  Inv'
<1>1. current[i] \in Replies
  BY DEF Send, Inv, TypeOK
<1>2. /\ shown' \in [Replies -> Nat]
      /\ \A r \in Replies : shown'[r] >= shown[r]
      /\ displayed => shown'[current[i]] > 0
  BY SMTT(30), <1>1 DEF Send, Inv, TypeOK
<1>3. outgoing' \in [Instances -> Seq(Queued)]
  BY DEF Send, Inv, TypeOK
<1>. QED BY <1>2, <1>3, AfterAnswerInv DEF Send

\* A queued send preserves the invariant, which promises nothing of it.
LEMMA SendQueuedInv ==
    ASSUME Inv, NEW i \in Instances, SendQueued(i)
    PROVE  Inv'
<1>1. outgoing' \in [Instances -> Seq(Queued)]
  BY AppendProperties DEF SendQueued, Inv, TypeOK
<1>2. /\ shown' \in [Replies -> Nat]
      /\ \A r \in Replies : shown'[r] >= shown[r]
  BY DEF SendQueued, chatVars, Inv, TypeOK
<1>3. current[i] \notin Direct
  BY DEF SendQueued, Direct
<1>. QED BY <1>1, <1>2, <1>3, AfterAnswerInv DEF SendQueued

\* The connection task preserves the invariant: what is shown stays shown.
LEMMA TransmitInv ==
    ASSUME Inv, NEW i \in Instances, NEW displayed \in BOOLEAN, Transmit(i, displayed)
    PROVE  Inv'
<1> USE DEF Transmit, rowVars, processVars
<1>1. /\ Head(outgoing[i]) \in Replies
      /\ Tail(outgoing[i]) \in Seq(Queued)
  BY HeadTailProperties, OutboxAssumption DEF Inv, TypeOK
<1>2. /\ shown' \in [Replies -> Nat]
      /\ \A r \in Replies : shown'[r] >= shown[r]
  BY SMTT(30), <1>1 DEF Inv, TypeOK
<1>3. Rows' = Rows
  BY DEF Rows, Stored
<1>4. TypeOK'
  <2>1. outgoing' \in [Instances -> Seq(Queued)]
    BY <1>1 DEF Inv, TypeOK
  <2>2. UNCHANGED <<request, row, retries, created, dismissed, worker, phase, channel, replay,
                    tracked, at, current, attempts, crashes, faults>>
    OBVIOUS
  <2>. QED BY <1>2, <1>3, <2>1, <2>2 DEF Inv, TypeOK
<1>5. \A r \in Replies : shown[r] > 0 => shown'[r] > 0
  <2> SUFFICES ASSUME NEW r \in Replies, shown[r] > 0 PROVE shown'[r] > 0
    OBVIOUS
  <2>1. shown[r] \in Nat /\ shown'[r] \in Nat /\ shown'[r] >= shown[r]
    BY <1>2 DEF Inv, TypeOK
  <2>. QED BY <2>1
<1>6. UNCHANGED <<at, current, row, request, dismissed>>
  OBVIOUS
<1>7. Acknowledged'
  BY <1>5, <1>6 DEF Inv, Acknowledged, Direct
<1>8. SettledMeansShown'
  BY <1>5, <1>6 DEF Inv, SettledMeansShown, Direct
<1>. QED BY <1>4, <1>7, <1>8 DEF Inv

\* Marking the row as sent preserves the invariant: the delivery was shown.
LEMMA MarkSentInv ==
    ASSUME Inv, NEW i \in Instances, NEW ok \in BOOLEAN, MarkSent(i, ok),
           Rows \subseteq Rows'
    PROVE  Inv'
<1>1. faults' \in 0 .. MaxFaults
  <2>1. Db(ok) /\ faults \in 0 .. MaxFaults
    BY DEF MarkSent, Inv, TypeOK
  <2>. QED BY <2>1, DbType
<1>2. current[i] \in Replies /\ (current[i] \in Direct => shown[current[i]] > 0)
  BY DEF MarkSent, Inv, TypeOK, Acknowledged
<1>3. UNCHANGED <<request, retries, created, dismissed, worker, phase, channel, replay, tracked,
                  outgoing, attempts, shown, crashes>>
  BY DEF MarkSent, processVars, chatVars
<1>4. \/ row' = [row EXCEPT ![current[i]] = "sent"]
      \/ row' = row
  BY <1>2 DEF MarkSent, Inv, TypeOK
<1>5. \/ at' = [at EXCEPT ![i] = "complete"] /\ current' = current
      \/ at' = [at EXCEPT ![i] = "idle"] /\ current' = [current EXCEPT ![i] = NoReply]
  BY DEF MarkSent, Go, Finish
<1>6. TypeOK'
  <2>1. row' \in [Replies -> OutboxStatus \union {"none", "unstored"}]
    BY <1>2, <1>4 DEF Inv, TypeOK, OutboxStatus
  <2>2. at' \in [Instances -> Places] /\ current' \in [Instances -> Replies \union {NoReply}]
    BY <1>5 DEF Inv, TypeOK, Places
  <2>3. \A j \in Instances : at'[j] = "idle" <=> current'[j] = NoReply
    BY <1>2, <1>5, OutboxAssumption DEF Inv, TypeOK
  <2>4. replay' \in [Instances -> SUBSET Rows'] /\ tracked' \subseteq Rows'
    BY <1>3 DEF Inv, TypeOK
  <2>. QED BY <1>1, <1>3, <2>1, <2>2, <2>3, <2>4 DEF Inv, TypeOK
<1>7. Acknowledged'
  BY <1>2, <1>3, <1>5 DEF Inv, TypeOK, Acknowledged, Direct
<1>8. SettledMeansShown'
  BY <1>2, <1>3, <1>4 DEF Inv, TypeOK, SettledMeansShown, Direct
<1>. QED BY <1>6, <1>7, <1>8 DEF Inv

\* Completing the request preserves the invariant: the delivery was shown.
LEMMA CompleteRequestInv ==
    ASSUME Inv, NEW i \in Instances, NEW ok \in BOOLEAN, CompleteRequest(i, ok)
    PROVE  Inv'
<1> USE DEF CompleteRequest, Go, Finish, processVars, chatVars
<1>1. faults' \in 0 .. MaxFaults
  BY DbType DEF Inv, TypeOK
<1>2. current[i] \in Replies /\ (current[i] \in Direct => shown[current[i]] > 0)
  BY DEF Inv, TypeOK, Acknowledged
<1>3. Rows' = Rows
  BY DEF Rows, Stored
<1>4. TypeOK'
  BY <1>1, <1>2, <1>3, OutboxAssumption DEF Inv, TypeOK, Places, RequestStatus
<1>5. Acknowledged'
  BY <1>2 DEF Inv, TypeOK, Acknowledged
<1>6. SettledMeansShown'
  BY <1>2 DEF Inv, TypeOK, SettledMeansShown
<1>. QED BY <1>4, <1>5, <1>6 DEF Inv

\* Marking the row as failed preserves the invariant: attempts stay in bounds.
LEMMA MarkFailedInv ==
    ASSUME Inv, NEW i \in Instances, NEW ok \in BOOLEAN, MarkFailed(i, ok),
           Rows \subseteq Rows'
    PROVE  Inv'
<1> USE DEF MarkFailed, Go, Finish, processVars, chatVars
<1>1. faults' \in 0 .. MaxFaults
  BY DbType DEF Inv, TypeOK
<1>2. current[i] \in Replies
  BY DEF Inv, TypeOK
<1>3. retries' \in [Replies -> 0 .. OutboxMaxRetries]
  BY <1>2 DEF Inv, TypeOK, Countable, OutboxMaxRetries
<1>4. TypeOK'
  BY <1>1, <1>2, <1>3, OutboxAssumption DEF Inv, TypeOK, Places, OutboxStatus
<1>5. Acknowledged'
  BY OutboxAssumption DEF Inv, TypeOK, Acknowledged, Direct
<1>6. SettledMeansShown'
  BY DEF Inv, TypeOK, SettledMeansShown
<1>. QED BY <1>4, <1>5, <1>6 DEF Inv

-----------------------------------------------------------------------------
(* Start, stop and /retry. *)

\* A stop preserves the invariant: what is lost was only in memory.
LEMMA StopInv ==
    ASSUME Inv, NEW i \in Instances, Stop(i)
    PROVE  Inv'
<1> USE DEF Stop, Go, Finish, rowVars, chatVars
<1>1. Rows' = Rows
  BY DEF Rows, Stored
<1>2. /\ channel' \in [Instances -> Seq(Replies)]
      /\ outgoing' \in [Instances -> Seq(Queued)]
      /\ crashes' \in 0 .. MaxCrashes
      /\ worker' \in [Replies -> Instances \union {NoInstance}]
  BY EmptySeq, OutboxAssumption DEF Inv, TypeOK
<1>3. TypeOK'
  BY <1>1, <1>2, OutboxAssumption DEF Inv, TypeOK, Places
<1>4. Acknowledged' /\ SettledMeansShown'
  BY DEF Inv, TypeOK, Acknowledged, SettledMeansShown
<1>. QED BY <1>3, <1>4 DEF Inv

\* The phases of a start preserve the invariant: the sweep only fails requests,
\* the list only holds stored rows.
LEMMA StartInv ==
    ASSUME Inv, NEW i \in Instances, Start(i)
    PROVE  Inv'
<1> USE DEF rowVars, deliveryVars, chatVars
<1>1. CASE Boot(i) \/ Serve(i)
  <2>1. Rows' = Rows /\ TypeOK'
    BY <1>1 DEF Boot, Serve, Inv, TypeOK, Rows, Stored
  <2>2. Acknowledged' /\ SettledMeansShown'
    BY <1>1 DEF Boot, Serve, Inv, Acknowledged, SettledMeansShown
  <2>. QED BY <2>1, <2>2 DEF Inv
<1>2. ASSUME NEW ok \in BOOLEAN, Sweep(i, ok) PROVE Inv'
  <2>1. Rows' = Rows /\ faults' \in 0 .. MaxFaults
    BY <1>2, DbType DEF Sweep, Inv, TypeOK, Rows, Stored
  <2>2. TypeOK'
    BY <1>2, <2>1 DEF Sweep, Inv, TypeOK, RequestStatus
  <2>3. Acknowledged' /\ SettledMeansShown'
    BY <1>2 DEF Sweep, Inv, TypeOK, Acknowledged, SettledMeansShown, Direct
  <2>. QED BY <2>2, <2>3 DEF Inv
<1>3. ASSUME NEW ok \in BOOLEAN, ListRetryable(i, ok) PROVE Inv'
  <2>1. Rows' = Rows /\ faults' \in 0 .. MaxFaults
    BY <1>3, DbType DEF ListRetryable, Inv, TypeOK, Rows, Stored
  <2>2. TypeOK'
    BY <1>3, <2>1 DEF ListRetryable, Inv, TypeOK
  <2>3. Acknowledged' /\ SettledMeansShown'
    BY <1>3 DEF ListRetryable, Inv, TypeOK, Acknowledged, SettledMeansShown
  <2>. QED BY <2>2, <2>3 DEF Inv
<1>. QED BY <1>1, <1>2, <1>3 DEF Start

\* Dismissing a row preserves the invariant: it is remembered as dismissed.
LEMMA DismissInv ==
    ASSUME Inv, NEW i \in Instances, NEW r \in Replies, Dismiss(i, r),
           Rows \subseteq Rows'
    PROVE  Inv'
<1> USE DEF Dismiss, processVars, deliveryVars, chatVars
<1>1. TypeOK'
  BY DEF Inv, TypeOK, OutboxStatus
<1>2. Acknowledged' /\ SettledMeansShown'
  BY DEF Inv, TypeOK, Acknowledged, SettledMeansShown
<1>. QED BY <1>1, <1>2 DEF Inv

-----------------------------------------------------------------------------
\* Every step preserves the invariant.
LEMMA InvNext == Inv /\ [Next]_vars => Inv'
<1> SUFFICES ASSUME Inv, [Next]_vars PROVE Inv'
  OBVIOUS
<1>1. Rows \subseteq Rows'
  BY RowsGrow DEF Inv
<1>2. ASSUME NEW i \in Instances, Worker(i) PROVE Inv'
  BY <1>1, <1>2, StoreInv, HandOverInv DEF Worker
<1>3. ASSUME NEW i \in Instances, Deliver(i) PROVE Inv'
  BY <1>1, <1>3, TakeReplyInv, TakeReplayInv, SendInv, SendQueuedInv, MarkSentInv,
     CompleteRequestInv, MarkFailedInv DEF Deliver
<1>4. ASSUME NEW i \in Instances, Start(i) \/ Stop(i) PROVE Inv'
  BY <1>4, StartInv, StopInv
<1>5. ASSUME NEW i \in Instances, NEW r \in Replies, Run(i, r) \/ Dismiss(i, r) PROVE Inv'
  BY <1>1, <1>5, RunInv, DismissInv
<1>6. ASSUME NEW i \in Instances, Connection(i) PROVE Inv'
  BY <1>6, TransmitInv DEF Connection
<1>7. CASE UNCHANGED vars
  BY <1>7 DEF vars, rowVars, processVars, deliveryVars, chatVars, Inv, TypeOK,
              Acknowledged, SettledMeansShown, Rows, Stored
<1>. QED BY <1>2, <1>3, <1>4, <1>5, <1>6, <1>7 DEF Next

\* The invariant holds in every reachable state.
LEMMA Invariant == Spec => []Inv
BY InvInit, InvNext, PTL DEF Spec

\* Type correctness for every number of gateways, replies, crashes and faults: in
\* particular no row counts more attempts than OUTBOX_MAX_RETRIES, and only
\* stored rows are replayed or carried with an outbox id.
THEOREM TypeCorrect == Spec => []TypeOK
BY Invariant, PTL DEF Inv

\* Where the adapter waits for the platform, nothing is reported as delivered that
\* the chat never showed (deliver_outbound, mark_outbox_sent), also when gateways
\* share the database.
THEOREM NothingFalselySettled == Spec => []SettledMeansShown
BY Invariant, PTL DEF Inv
-----------------------------------------------------------------------------
(* One gateway on the database: at any time a start has one way left to send a reply. *)


\* The replies in the response channel, each of them once.
Chan(g) == {channel[g][k] : k \in 1 .. Len(channel[g])}
Distinct(g) ==
    \A k, l \in 1 .. Len(channel[g]) : channel[g][k] = channel[g][l] => k = l

\* Workers and channel are in use while the gateway serves, the list of a start while
\* it replays, and deliveries only then.
AtWork(g) ==
    /\ phase[g] # "serve" => Chan(g) = {} /\ \A r \in Replies : worker[r] # g
    /\ phase[g] # "replay" => replay[g] = {}
    /\ phase[g] \notin {"replay", "serve"} => at[g] = "idle"

\* A reply is in one place.
Apart(g) ==
    /\ Distinct(g)
    /\ \A r \in Replies : worker[r] = g => r \notin Chan(g) /\ current[g] # r
    /\ current[g] \notin Chan(g) /\ current[g] \notin replay[g]

\* What has not come to the channel was not sent, and its row is new.
Fresh(g) ==
    \A r \in Replies :
        /\ request[r] = "none" => worker[r] # g /\ row[r] = "none"
        /\ row[r] = "none" => attempts[r] = 0 /\ retries[r] = 0 /\ r \notin Chan(g) /\ current[g] # r
        /\ worker[r] = g \/ r \in Chan(g) =>
              attempts[r] = 0 /\ retries[r] = 0 /\ row[r] \in {"none", "pending", "unstored"}

\* Where this start may still send a reply, it has not sent it yet.
Due(g, r) ==
    \/ phase[g] \in {"down", "sweep", "list"}
    \/ r \in replay[g]
    \/ current[g] = r /\ at[g] = "send"

Budget(g) ==
    \A r \in Replies : attempts[r] <= crashes + 1 /\ (Due(g, r) => attempts[r] <= crashes)

\* What is sent is owed, or could not be stored and goes out for the first time.
Owed(r) == Retryable(r) /\ r \notin dismissed

Delivering(g) ==
    /\ \A r \in replay[g] : Owed(r)
    /\ at[g] = "send" =>
          Owed(current[g]) \/ (row[current[g]] = "unstored" /\ attempts[current[g]] = 0)
    /\ at[g] \in {"sent", "failed"} =>
          Owed(current[g]) /\ attempts[current[g]] > retries[current[g]]

\* A failure was counted for a send.
Counted ==
    \A r \in Replies :
        /\ retries[r] <= attempts[r]
        /\ row[r] = "failed" => retries[r] > 0
        /\ r \in dismissed => row[r] = "sent"

Alone(g) == AtWork(g) /\ Apart(g) /\ Fresh(g) /\ Budget(g) /\ Delivering(g) /\ Counted

\* Initially nothing is anywhere.
LEMMA AloneInit == ASSUME NEW g \in Instances, Init PROVE Alone(g)
<1>1. Chan(g) = {} /\ Distinct(g)
  BY DEF Init, Chan, Distinct
<1>2. AtWork(g) /\ Apart(g)
  BY <1>1, OutboxAssumption DEF Init, AtWork, Apart
<1>3. Fresh(g)
  BY <1>1, OutboxAssumption DEF Init, Fresh
<1>4. Budget(g) /\ Delivering(g) /\ Counted
  BY DEF Init, Budget, Delivering, Counted
<1>. QED BY <1>2, <1>3, <1>4 DEF Alone

\* What a reply at the end of the channel changes.
LEMMA AppendChan ==
    ASSUME Inv, NEW g \in Instances, NEW x \in Replies,
           channel' = [channel EXCEPT ![g] = Append(@, x)]
    PROVE  /\ Chan(g)' = Chan(g) \union {x}
           /\ Distinct(g) /\ x \notin Chan(g) => Distinct(g)'
<1> DEFINE s == channel[g]
           t == Append(s, x)
<1>1. s \in Seq(Replies) /\ channel'[g] = t
  BY DEF Inv, TypeOK
<1>2. /\ Len(t) = Len(s) + 1 /\ Len(s) \in Nat
      /\ \A k \in 1 .. Len(s) : t[k] = s[k]
      /\ t[Len(s) + 1] = x
  BY <1>1, AppendProperties, LenProperties
<1> HIDE DEF t
<1>3. Chan(g)' = Chan(g) \union {x}
  BY <1>1, <1>2 DEF Chan
<1>4. ASSUME Distinct(g), x \notin Chan(g) PROVE Distinct(g)'
  BY <1>1, <1>2, <1>4 DEF Chan, Distinct
<1>. QED BY <1>3, <1>4

\* What taking the first reply of the channel changes.
LEMMA TailChan ==
    ASSUME Inv, NEW g \in Instances, Distinct(g), channel[g] # << >>,
           channel' = [channel EXCEPT ![g] = Tail(@)]
    PROVE  /\ Head(channel[g]) \in Chan(g)
           /\ Chan(g)' = Chan(g) \ {Head(channel[g])}
           /\ Distinct(g)'
<1> DEFINE s == channel[g]
           t == Tail(s)
<1>1. s \in Seq(Replies) /\ channel'[g] = t
  BY DEF Inv, TypeOK
<1>2. /\ Len(t) = Len(s) - 1 /\ Len(s) \in Nat \ {0}
      /\ \A k \in 1 .. Len(t) : t[k] = s[k + 1]
      /\ Head(s) = s[1]
  BY <1>1, HeadTailProperties, EmptySeq, LenProperties
<1> HIDE DEF t
<1>3. Head(s) \in Chan(g)
  BY <1>2 DEF Chan
<1>4. Distinct(g)'
  BY <1>1, <1>2 DEF Distinct
<1>5. Chan(g)' = Chan(g) \ {Head(s)}
  <2>1. Chan(g)' = {t[k] : k \in 1 .. Len(t)}
    BY <1>1 DEF Chan
  <2>2. ASSUME NEW k \in 1 .. Len(t) PROVE t[k] \in Chan(g) \ {Head(s)}
    <3>1. k + 1 \in 1 .. Len(s) /\ 1 \in 1 .. Len(s) /\ k + 1 # 1
      BY <1>2
    <3>. QED BY <3>1, <1>2 DEF Chan, Distinct
  <2>3. ASSUME NEW r \in Chan(g), r # Head(s) PROVE \E k \in 1 .. Len(t) : r = t[k]
    <3>1. PICK l \in 1 .. Len(s) : r = s[l]
      BY DEF Chan
    <3>2. l - 1 \in 1 .. Len(t) /\ (l - 1) + 1 = l
      BY <3>1, <2>3, <1>2
    <3>. QED BY <3>1, <3>2, <1>2
  <2>. QED BY <2>1, <2>2, <2>3
<1>. QED BY <1>3, <1>4, <1>5

-----------------------------------------------------------------------------
(* Its steps. *)

\* The channel is where it was.
LEMMA SameChan ==
    ASSUME NEW g, UNCHANGED channel
    PROVE  Chan(g)' = Chan(g) /\ Distinct(g)' = Distinct(g)
BY DEF Chan, Distinct

\* Starting a turn: the worker is the only place of its reply.
LEMMA AloneRun ==
    ASSUME Inv, NEW g \in Instances, Alone(g), NEW r \in Replies, Run(g, r)
    PROVE  Alone(g)'
<1> USE DEF Run, rowVars, deliveryVars, chatVars
<1>1. Chan(g)' = Chan(g) /\ Distinct(g)' = Distinct(g)
  BY SameChan
<1>2. row[r] = "none" /\ attempts[r] = 0 /\ retries[r] = 0 /\ r \notin Chan(g) /\ current[g] # r
  BY DEF Alone, Fresh
<1>3. AtWork(g)'
  BY <1>1 DEF Alone, AtWork
<1>4. Apart(g)'
  BY <1>1, <1>2 DEF Inv, TypeOK, Alone, Apart
<1>5. Fresh(g)'
  BY <1>1, <1>2 DEF Inv, TypeOK, Alone, Fresh
<1>6. Budget(g)' /\ Delivering(g)' /\ Counted'
  BY DEF Alone, Budget, Due, Delivering, Owed, Retryable, Counted
<1>. QED BY <1>3, <1>4, <1>5, <1>6 DEF Alone

\* Storing the reply: it was not sent yet.
LEMMA AloneStore ==
    ASSUME Inv, NEW g \in Instances, Alone(g), NEW r \in Replies, NEW status \in RequestStatus,
           NEW inserted \in BOOLEAN, NEW logged \in BOOLEAN,
           Store(g, r, status, inserted, logged)
    PROVE  Alone(g)'
<1> USE DEF Store, deliveryVars, chatVars
<1>1. Chan(g)' = Chan(g) /\ Distinct(g)' = Distinct(g)
  BY SameChan
<1>2. attempts[r] = 0 /\ retries[r] = 0 /\ r \notin Chan(g) /\ current[g] # r
  BY DEF Alone, Fresh
<1>3. /\ row' \in [Replies -> OutboxStatus \union {"none", "unstored"}]
      /\ row'[r] \in {"pending", "unstored"}
      /\ \A q \in Replies : q # r => row'[q] = row[q] /\ request'[q] = request[q]
      /\ request'[r] # "none"
  BY DEF Inv, TypeOK, OutboxStatus, RequestStatus
<1>4. r \notin replay[g] /\ r \notin dismissed
  BY DEF Alone, Delivering, Owed, Retryable, Counted
<1>5. AtWork(g)' /\ Apart(g)'
  BY <1>1 DEF Alone, AtWork, Apart
<1>6. Fresh(g)'
  BY <1>1, <1>2, <1>3 DEF Alone, Fresh
<1>7. Budget(g)'
  BY DEF Alone, Budget, Due
<1>8. Delivering(g)'
  BY <1>2, <1>3, <1>4 DEF Inv, TypeOK, Alone, Delivering, Owed, Retryable, Rows
<1>9. Counted'
  BY <1>2, <1>3, <1>4 DEF Alone, Counted
<1>. QED BY <1>5, <1>6, <1>7, <1>8, <1>9 DEF Alone

\* Handing the reply over: it moves from the worker to the channel.
LEMMA AloneHandOver ==
    ASSUME Inv, NEW g \in Instances, Alone(g), NEW r \in Replies, HandOver(g, r)
    PROVE  Alone(g)'
<1> USE DEF HandOver, rowVars, deliveryVars, chatVars
<1>1. r \notin Chan(g) /\ current[g] # r /\ attempts[r] = 0 /\ retries[r] = 0
      /\ row[r] \in {"pending", "unstored"} /\ phase[g] = "serve" /\ request[r] # "none"
  BY DEF Alone, Apart, Fresh, AtWork
<1>2. Chan(g)' = Chan(g) \union {r} /\ Distinct(g)'
  BY <1>1, AppendChan DEF Alone, Apart
<1>3. /\ worker'[r] # g
      /\ \A q \in Replies : q # r => worker'[q] = worker[q]
  BY OutboxAssumption DEF Inv, TypeOK
<1>4. AtWork(g)'
  BY <1>1, <1>2, <1>3 DEF Alone, AtWork
<1>5. Apart(g)'
  BY <1>1, <1>2, <1>3, OutboxAssumption DEF Alone, Apart, AtWork
<1>6. Fresh(g)'
  BY <1>1, <1>2, <1>3 DEF Alone, Fresh
<1>7. Budget(g)' /\ Delivering(g)' /\ Counted'
  BY DEF Alone, Budget, Due, Delivering, Owed, Retryable, Counted
<1>. QED BY <1>4, <1>5, <1>6, <1>7 DEF Alone

\* Taking a reply from the channel: it goes out for the first time.
LEMMA AloneTakeReply ==
    ASSUME Inv, NEW g \in Instances, Alone(g), TakeReply(g)
    PROVE  Alone(g)'
<1> DEFINE r == Head(channel[g])
<1> USE DEF TakeReply, Begin, Go, rowVars, chatVars
<1>1. r \in Chan(g) /\ Chan(g)' = Chan(g) \ {r} /\ Distinct(g)'
  BY TailChan DEF Alone, Apart
<1>2. r \in Replies
  BY HeadTailProperties DEF Inv, TypeOK
<1>3. /\ at[g] = "idle" /\ phase[g] = "serve" /\ at'[g] = "send" /\ current'[g] = r
      /\ UNCHANGED <<request, row, retries, dismissed, worker, phase, replay, attempts, crashes>>
  BY DEF Inv, TypeOK
<1> HIDE DEF r, TakeReply, Begin, Go
<1>4. attempts[r] = 0 /\ retries[r] = 0 /\ row[r] \in {"pending", "unstored"} /\ worker[r] # g
  BY <1>1, <1>2 DEF Alone, Fresh, Apart
<1>5. replay[g] = {}
  BY <1>3 DEF Alone, AtWork
<1>6. AtWork(g)'
  BY <1>1, <1>3 DEF Alone, AtWork
<1>7. Apart(g)'
  BY <1>1, <1>3, <1>4, <1>5 DEF Alone, Apart
<1>8. Fresh(g)'
  BY <1>1, <1>2, <1>3, <1>4 DEF Alone, Fresh
<1>9. Budget(g)'
  BY <1>2, <1>3, <1>4, <1>5 DEF Inv, TypeOK, Alone, Budget, Due
<1>10. r \notin dismissed
  BY <1>2, <1>4 DEF Alone, Counted
<1>11. Delivering(g)'
  BY <1>3, <1>4, <1>5, <1>10 DEF Delivering, Owed, Retryable, OutboxMaxRetries
<1>12. Counted'
  BY <1>3 DEF Alone, Counted
<1>. QED BY <1>6, <1>7, <1>8, <1>9, <1>11, <1>12 DEF Alone

\* Taking a row of the startup replay: it leaves the list.
LEMMA AloneTakeReplay ==
    ASSUME Inv, NEW g \in Instances, Alone(g), TakeReplay(g)
    PROVE  Alone(g)'
<1>1. PICK r \in replay[g] : Begin(g, r) /\ replay' = [replay EXCEPT ![g] = @ \ {r}]
  BY DEF TakeReplay
<1>2. r \in Rows /\ r \in Replies
  BY DEF Inv, TypeOK, Rows
<1>3. /\ at[g] = "idle" /\ phase[g] = "replay" /\ at'[g] = "send" /\ current'[g] = r
      /\ replay'[g] = replay[g] \ {r}
      /\ UNCHANGED <<request, row, retries, dismissed, worker, phase, channel, attempts, crashes>>
  BY <1>1 DEF TakeReplay, Begin, Go, rowVars, chatVars, Inv, TypeOK
<1>4. Chan(g)' = Chan(g) /\ Distinct(g)' = Distinct(g)
  BY <1>3, SameChan
<1>5. Chan(g) = {} /\ \A q \in Replies : worker[q] # g
  BY <1>3 DEF Alone, AtWork
<1>6. AtWork(g)' /\ Apart(g)'
  BY <1>3, <1>4, <1>5 DEF Alone, AtWork, Apart
<1>7. row[r] # "none"
  BY <1>2 DEF Rows, Stored, OutboxStatus
<1>8. Fresh(g)'
  BY <1>2, <1>3, <1>4, <1>7 DEF Alone, Fresh
<1>9. Budget(g)'
  BY <1>1, <1>3 DEF Alone, Budget, Due
<1>10. Delivering(g)'
  BY <1>1, <1>3 DEF Alone, Delivering, Owed, Retryable
<1>11. Counted'
  BY <1>3 DEF Alone, Counted
<1>. QED BY <1>6, <1>8, <1>9, <1>10, <1>11 DEF Alone

\* A send uses up what was due.
LEMMA AloneAfterAnswer ==
    ASSUME Inv, NEW g \in Instances, Alone(g), NEW acknowledged \in BOOLEAN, at[g] = "send",
           AfterAnswer(g, acknowledged),
           attempts' = [attempts EXCEPT ![current[g]] = @ + 1],
           UNCHANGED <<rowVars, processVars, crashes>>
    PROVE  Alone(g)'
<1> DEFINE r == current[g]
<1>1. r \in Replies /\ r # NoReply
  BY OutboxAssumption DEF Inv, TypeOK
<1>2. UNCHANGED <<request, row, retries, dismissed, worker, phase, replay, channel, crashes>>
  BY DEF rowVars, processVars
<1>3. \/ r \in tracked /\ at'[g] \in {"sent", "failed"} /\ current' = current
      \/ r \notin tracked /\ at'[g] = "idle" /\ current'[g] = NoReply
  BY DEF AfterAnswer, Go, Finish, AfterSend, Inv, TypeOK
<1>4. /\ attempts' \in [Replies -> Nat] /\ attempts'[r] = attempts[r] + 1
      /\ \A q \in Replies : q # r => attempts'[q] = attempts[q]
  BY <1>1 DEF Inv, TypeOK
<1>5. Chan(g)' = Chan(g) /\ Distinct(g)' = Distinct(g)
  BY <1>2, SameChan
<1>6. /\ r \notin Chan(g) /\ r \notin replay[g] /\ worker[r] # g
      /\ phase[g] \in {"replay", "serve"} /\ row[r] # "none" /\ attempts[r] <= crashes
  BY <1>1 DEF Alone, Apart, AtWork, Fresh, Budget, Due
<1>7. NoReply \notin Chan(g) /\ NoReply \notin replay[g]
  <2>1. Chan(g) \subseteq Replies
    BY DEF Chan, Inv, TypeOK
  <2>. QED BY <2>1, OutboxAssumption DEF Inv, TypeOK, Rows
<1>8. r \in tracked => row[r] # "unstored"
  BY DEF Inv, TypeOK, Rows, Stored, OutboxStatus
<1> HIDE DEF r
<1>9. AtWork(g)'
  BY <1>2, <1>5, <1>6 DEF Alone, AtWork
<1>10. Apart(g)'
  <2>1. current'[g] \in {r, NoReply}
    BY <1>3 DEF r
  <2>. QED BY <1>2, <1>5, <1>6, <1>7, <2>1, OutboxAssumption DEF Alone, Apart
<1>11. Fresh(g)'
  <2>1. current'[g] \in {current[g], NoReply}
    BY <1>3 DEF r
  <2>. QED BY <1>1, <1>2, <1>4, <1>5, <1>6, <2>1, OutboxAssumption DEF Alone, Fresh
<1>12. Budget(g)'
  <2> SUFFICES ASSUME NEW q \in Replies
               PROVE  attempts'[q] <= crashes + 1 /\ (Due(g, q)' => attempts'[q] <= crashes)
    BY <1>2 DEF Budget
  <2>1. CASE q = r
    <3>1. ~Due(g, q)'
      BY <2>1, <1>2, <1>3, <1>6 DEF Due
    <3>. QED BY <2>1, <3>1, <1>4, <1>6, <1>1 DEF Inv, TypeOK
  <2>2. CASE q # r
    <3>1. Due(g, q)' => Due(g, q)
      BY <2>2, <1>2, <1>3 DEF Due, r
    <3>. QED BY <2>2, <3>1, <1>4 DEF Alone, Budget
  <2>. QED BY <2>1, <2>2
<1>13. Delivering(g)'
  <2>1. \A q \in replay[g] : Owed(q)'
    BY <1>2 DEF Alone, Delivering, Owed, Retryable
  <2>2. ASSUME at'[g] \in {"sent", "failed"}
        PROVE  Owed(current[g])' /\ attempts'[current[g]] > retries[current[g]]
    <3>1. r \in tracked /\ row[r] # "unstored" /\ current' = current
      BY <1>3, <1>8, <2>2
    <3>2. Owed(current[g])
      BY <3>1 DEF Alone, Delivering, r
    <3>3. Owed(current[g])'
      BY <1>2, <3>1, <3>2 DEF Owed, Retryable
    <3>4. attempts[r] >= retries[r] /\ attempts[r] \in Nat /\ retries[r] \in Nat
      BY <1>1 DEF Alone, Counted, Inv, TypeOK
    <3>. QED BY <3>1, <3>4, <3>3, <1>4 DEF r
  <2>. QED BY <1>2, <1>3, <2>1, <2>2 DEF Delivering
<1>14. Counted'
  <2> SUFFICES ASSUME NEW q \in Replies PROVE retries[q] <= attempts'[q]
    BY <1>2 DEF Alone, Counted
  <2>1. attempts[q] \in Nat /\ retries[q] \in Nat
    BY DEF Inv, TypeOK
  <2>2. attempts'[q] = attempts[q] \/ attempts'[q] = attempts[q] + 1
    BY <1>4
  <2>. QED BY <2>1, <2>2 DEF Alone, Counted
<1>. QED BY <1>9, <1>10, <1>11, <1>12, <1>13, <1>14 DEF Alone

\* What a delivery writes after its send leaves the other replies alone.
LEMMA AloneMark ==
    ASSUME Inv, NEW g \in Instances, Alone(g), at[g] \in {"sent", "complete", "failed"},
           \/ Finish(g)
           \/ UNCHANGED current /\ at'[g] = "complete",
           \A q \in Replies : q # current[g] => row'[q] = row[q] /\ retries'[q] = retries[q],
           row'[current[g]] # "none",
           \A q \in Replies : request'[q] = "none" => request[q] = "none",
           Counted',
           UNCHANGED <<processVars, dismissed, attempts, crashes>>
    PROVE  Alone(g)'
<1> DEFINE x == current[g]
<1>1. UNCHANGED <<worker, phase, channel, replay, dismissed, attempts, crashes>>
  BY DEF processVars
<1>2. \/ at'[g] = "idle" /\ current'[g] = NoReply
      \/ at'[g] = "complete" /\ current' = current
  BY DEF Finish, Go, Inv, TypeOK
<1>3. Chan(g)' = Chan(g) /\ Distinct(g)' = Distinct(g)
  BY <1>1, SameChan
<1>4. NoReply \notin Chan(g) /\ NoReply \notin replay[g] /\ replay[g] \subseteq Replies
  <2>1. Chan(g) \subseteq Replies
    BY DEF Chan, Inv, TypeOK
  <2>. QED BY <2>1, OutboxAssumption DEF Inv, TypeOK, Rows
<1>5. x \in Replies
  BY DEF Inv, TypeOK
<1>6. x \notin Chan(g) /\ x \notin replay[g] /\ worker[x] # g /\ row[x] # "none"
  BY <1>5 DEF Alone, Apart, Fresh
<1>7. current'[g] \in {x, NoReply}
  BY <1>2
<1> HIDE DEF x
<1>8. AtWork(g)'
  BY <1>1, <1>2, <1>3 DEF Alone, AtWork
<1>9. Apart(g)'
  BY <1>1, <1>3, <1>4, <1>6, <1>7, OutboxAssumption DEF Alone, Apart
<1>10. Fresh(g)'
  <2> SUFFICES ASSUME NEW r \in Replies
               PROVE  /\ request'[r] = "none" => worker[r] # g /\ row'[r] = "none"
                      /\ row'[r] = "none" => attempts[r] = 0 /\ retries'[r] = 0 /\ r \notin Chan(g)
                                             /\ current'[g] # r
                      /\ worker[r] = g \/ r \in Chan(g) =>
                            attempts[r] = 0 /\ retries'[r] = 0 /\ row'[r] \in {"none", "pending", "unstored"}
    BY <1>1, <1>3 DEF Fresh
  <2>1. CASE r = x
    <3>1. row'[x] # "none" /\ request[x] # "none"
      BY <1>5, <1>6 DEF Alone, Fresh, x
    <3>. QED BY <2>1, <3>1, <1>5, <1>6
  <2>2. CASE r # x
    <3>1. row'[r] = row[r] /\ retries'[r] = retries[r]
      BY <2>2 DEF x
    <3>. QED BY <2>2, <3>1, <1>7, OutboxAssumption DEF Alone, Fresh, x
  <2>. QED BY <2>1, <2>2
<1>11. Budget(g)'
  BY <1>1, <1>2 DEF Alone, Budget, Due
<1>12. Delivering(g)'
  <2>1. ASSUME NEW r \in replay[g] PROVE Owed(r)'
    BY <2>1, <1>1, <1>4, <1>6 DEF Alone, Delivering, Owed, Retryable, x
  <2>. QED BY <2>1, <1>1, <1>2 DEF Delivering
<1>. QED BY <1>8, <1>9, <1>10, <1>11, <1>12 DEF Alone

\* Marking the row as sent.
LEMMA AloneMarkSent ==
    ASSUME Inv, NEW g \in Instances, Alone(g), NEW ok \in BOOLEAN, MarkSent(g, ok)
    PROVE  Alone(g)'
<1>1. current[g] \in Replies
  BY DEF MarkSent, Inv, TypeOK
<1>2. \/ row' = [row EXCEPT ![current[g]] = "sent"]
      \/ row' = row
  BY <1>1 DEF MarkSent, Inv, TypeOK
<1>3. /\ at[g] = "sent"
      /\ Finish(g) \/ (UNCHANGED current /\ at'[g] = "complete")
      /\ UNCHANGED <<request, retries, dismissed, processVars, attempts, crashes>>
  BY DEF MarkSent, Go, chatVars, Inv, TypeOK
<1>4. row[current[g]] # "none" /\ row'[current[g]] # "none"
  BY <1>1, <1>2 DEF Alone, Fresh, Inv, TypeOK
<1>5. Counted'
  BY <1>2, <1>3 DEF Alone, Counted, Inv, TypeOK
<1>6. \A q \in Replies : q # current[g] => row'[q] = row[q] /\ retries'[q] = retries[q]
  BY <1>2, <1>3 DEF Inv, TypeOK
<1>. QED BY <1>3, <1>4, <1>5, <1>6, AloneMark

\* Completing the request.
LEMMA AloneComplete ==
    ASSUME Inv, NEW g \in Instances, Alone(g), NEW ok \in BOOLEAN, CompleteRequest(g, ok)
    PROVE  Alone(g)'
<1>1. current[g] \in Replies
  BY DEF CompleteRequest, Inv, TypeOK
<1>2. /\ at[g] = "complete" /\ Finish(g)
      /\ UNCHANGED <<row, retries, dismissed, processVars, attempts, crashes>>
  BY DEF CompleteRequest, chatVars
<1>3. \A q \in Replies : request'[q] = "none" => request[q] = "none"
  BY <1>1 DEF CompleteRequest, Inv, TypeOK
<1>4. row'[current[g]] # "none"
  BY <1>1, <1>2 DEF Alone, Fresh
<1>5. Counted'
  BY <1>2 DEF Alone, Counted
<1>. QED BY <1>2, <1>3, <1>4, <1>5, AloneMark

\* Marking the row as failed: the send was counted before.
LEMMA AloneMarkFailed ==
    ASSUME Inv, NEW g \in Instances, Alone(g), NEW ok \in BOOLEAN, MarkFailed(g, ok)
    PROVE  Alone(g)'
<1> DEFINE x == current[g]
<1>1. x \in Replies
  BY DEF MarkFailed, Inv, TypeOK
<1>2. \/ row' = [row EXCEPT ![x] = "failed"] /\ retries' = [retries EXCEPT ![x] = @ + 1]
      \/ row' = row /\ retries' = retries
  BY <1>1 DEF MarkFailed, Inv, TypeOK
<1>3. /\ at[g] = "failed" /\ Finish(g)
      /\ UNCHANGED <<request, dismissed, processVars, attempts, crashes>>
  BY DEF MarkFailed, chatVars
<1>4. row[x] # "none" /\ row'[x] # "none"
  BY <1>1, <1>2 DEF Alone, Fresh, Inv, TypeOK
<1>5. x \notin dismissed /\ attempts[x] > retries[x] /\ attempts[x] \in Nat /\ retries[x] \in Nat
  BY <1>1, <1>3 DEF Alone, Delivering, Owed, Inv, TypeOK
<1>6. \A q \in Replies : q # x => row'[q] = row[q] /\ retries'[q] = retries[q]
  BY <1>2 DEF Inv, TypeOK
<1>7. Counted'
  <2> SUFFICES ASSUME NEW q \in Replies
               PROVE  /\ retries'[q] <= attempts[q]
                      /\ row'[q] = "failed" => retries'[q] > 0
                      /\ q \in dismissed => row'[q] = "sent"
    BY <1>3 DEF Counted
  <2>1. CASE q # x
    BY <2>1, <1>6 DEF Alone, Counted
  <2>2. CASE q = x
    BY <2>2, <1>1, <1>2, <1>5 DEF Alone, Counted, Inv, TypeOK
  <2>. QED BY <2>1, <2>2
<1>. QED BY <1>3, <1>4, <1>6, <1>7, AloneMark

\* The connection task moves no reply.
LEMMA AloneTransmit ==
    ASSUME Inv, NEW g \in Instances, Alone(g), NEW displayed \in BOOLEAN, Transmit(g, displayed)
    PROVE  Alone(g)'
<1>1. UNCHANGED <<request, row, retries, dismissed, worker, phase, replay, channel, at, current,
                  attempts, crashes>>
  BY DEF Transmit, rowVars, processVars
<1>2. Chan(g)' = Chan(g) /\ Distinct(g)' = Distinct(g)
  BY <1>1, SameChan
<1>3. AtWork(g)' /\ Apart(g)' /\ Fresh(g)'
  BY <1>1, <1>2 DEF Alone, AtWork, Apart, Fresh
<1>4. Budget(g)' /\ Delivering(g)' /\ Counted'
  BY <1>1 DEF Alone, Budget, Due, Delivering, Owed, Retryable, Counted
<1>. QED BY <1>3, <1>4 DEF Alone

\* A stop forgets every place and allows another send of each reply.
LEMMA AloneStop ==
    ASSUME Inv, NEW g \in Instances, Alone(g), Stop(g)
    PROVE  Alone(g)'
<1>1. /\ channel'[g] = << >> /\ replay'[g] = {} /\ phase'[g] = "down" /\ at'[g] = "idle"
      /\ current'[g] = NoReply /\ crashes' = crashes + 1
      /\ \A r \in Replies : worker'[r] # g
      /\ UNCHANGED <<request, row, retries, dismissed, attempts>>
  BY OutboxAssumption DEF Stop, Finish, Go, rowVars, chatVars, Inv, TypeOK
<1>2. Chan(g)' = {} /\ Distinct(g)'
  BY <1>1 DEF Chan, Distinct
<1>3. AtWork(g)' /\ Apart(g)'
  BY <1>1, <1>2 DEF AtWork, Apart
<1>4. Fresh(g)'
  BY <1>1, <1>2, OutboxAssumption DEF Alone, Fresh
<1>5. Budget(g)'
  BY <1>1 DEF Alone, Budget, Inv, TypeOK
<1>6. Delivering(g)' /\ Counted'
  BY <1>1 DEF Alone, Delivering, Counted
<1>. QED BY <1>3, <1>4, <1>5, <1>6 DEF Alone

\* A phase of the start, or none: what may be sent becomes less.
LEMMA AlonePhase ==
    ASSUME Inv, NEW g \in Instances, Alone(g), phase[g] # "serve", at[g] = "idle",
           replay'[g] \subseteq Replies, \A r \in replay'[g] : Owed(r),
           phase'[g] # "replay" => replay'[g] = {},
           \A r \in Replies : Due(g, r)' => Due(g, r),
           \A r \in Replies : request'[r] = "none" => request[r] = "none",
           UNCHANGED <<row, retries, dismissed, worker, channel, tracked, deliveryVars, chatVars,
                       crashes>>
    PROVE  Alone(g)'
<1> USE DEF deliveryVars, chatVars
<1>1. Chan(g)' = Chan(g) /\ Distinct(g)' = Distinct(g)
  BY SameChan
<1>2. current[g] = NoReply /\ Chan(g) = {} /\ \A r \in Replies : worker[r] # g
  BY DEF Alone, AtWork, Inv, TypeOK
<1>3. NoReply \notin replay'[g]
  BY OutboxAssumption
<1>4. AtWork(g)' /\ Apart(g)'
  BY <1>1, <1>2, <1>3 DEF Alone, AtWork, Apart
<1>5. Fresh(g)'
  BY <1>1 DEF Alone, Fresh
<1>6. Budget(g)'
  BY DEF Alone, Budget
<1>7. Delivering(g)' /\ Counted'
  BY DEF Alone, Delivering, Owed, Retryable, Counted
<1>. QED BY <1>4, <1>5, <1>6, <1>7 DEF Alone

\* The start of the gateway.
LEMMA AloneStart ==
    ASSUME Inv, NEW g \in Instances, Alone(g), Start(g)
    PROVE  Alone(g)'
<1>1. replay[g] \subseteq Replies /\ \A r \in replay[g] : Owed(r)
  BY DEF Inv, TypeOK, Rows, Alone, Delivering
<1>2. phase[g] \notin {"serve", "replay"} => at[g] = "idle" /\ replay[g] = {}
  BY DEF Alone, AtWork
<1>3. ASSUME Boot(g) \/ Serve(g) PROVE Alone(g)'
  <2>1. /\ phase[g] # "serve" /\ at[g] = "idle"
        /\ replay' = replay /\ replay[g] = {} /\ at' = at /\ current' = current
        /\ phase'[g] \in {"sweep", "serve"}
        /\ phase'[g] = "sweep" => phase[g] = "down"
    BY <1>2, <1>3 DEF Boot, Serve, deliveryVars, Inv, TypeOK
  <2>2. \A r \in Replies : Due(g, r)' => Due(g, r)
    BY <2>1 DEF Due
  <2>3. UNCHANGED <<request, row, retries, dismissed, worker, channel, tracked, deliveryVars,
                    chatVars, crashes>>
    BY <1>3 DEF Boot, Serve, rowVars
  <2>. QED BY <1>1, <2>1, <2>2, <2>3, AlonePhase
<1>4. ASSUME NEW ok \in BOOLEAN, Sweep(g, ok) PROVE Alone(g)'
  <2>1. /\ phase[g] = "sweep" /\ at[g] = "idle"
        /\ replay' = replay /\ replay[g] = {} /\ phase'[g] = "list"
        /\ \A r \in Replies : request'[r] = "none" => request[r] = "none"
        /\ UNCHANGED <<row, retries, dismissed, worker, channel, tracked, deliveryVars, chatVars,
                       crashes>>
    BY <1>2, <1>4 DEF Sweep, Inv, TypeOK
  <2>2. \A r \in Replies : Due(g, r)
    BY <2>1 DEF Due
  <2>. QED BY <1>1, <2>1, <2>2, AlonePhase
<1>5. ASSUME NEW ok \in BOOLEAN, ListRetryable(g, ok) PROVE Alone(g)'
  <2>1. /\ phase[g] = "list" /\ at[g] = "idle" /\ phase'[g] = "replay"
        /\ UNCHANGED <<request, row, retries, dismissed, worker, channel, tracked, deliveryVars,
                       chatVars, crashes>>
    BY <1>2, <1>5 DEF ListRetryable, rowVars, Inv, TypeOK
  <2>2. \A r \in replay'[g] : r \in Replies /\ Retryable(r)
    BY <1>5 DEF ListRetryable, Rows, Inv, TypeOK
  <2>3. \A r \in replay'[g] : Owed(r)
    BY <2>2 DEF Owed, Retryable, Alone, Counted
  <2>4. \A r \in Replies : Due(g, r)
    BY <2>1 DEF Due
  <2>. QED BY <2>1, <2>2, <2>3, <2>4, AlonePhase
<1>. QED BY <1>3, <1>4, <1>5 DEF Start

\* /retry dismiss settles a row no delivery works on.
LEMMA AloneDismiss ==
    ASSUME Inv, NEW g \in Instances, Alone(g), NEW r \in Replies, Dismiss(g, r)
    PROVE  Alone(g)'
<1> USE DEF Dismiss, processVars, deliveryVars, chatVars
<1>1. Chan(g)' = Chan(g) /\ Distinct(g)' = Distinct(g)
  BY SameChan
<1>2. row[r] = "failed" /\ at[g] = "idle" /\ phase[g] = "serve"
  OBVIOUS
<1>3. /\ row'[r] = "sent" /\ dismissed' = dismissed \union {r}
      /\ \A q \in Replies : q # r => row'[q] = row[q]
      /\ UNCHANGED <<request, retries, worker, phase, channel, replay, at, current, attempts,
                     crashes>>
  BY DEF Inv, TypeOK
<1>4. worker[r] # g /\ r \notin Chan(g) /\ request[r] # "none" /\ replay[g] = {}
  BY <1>2 DEF Alone, Fresh, AtWork
<1> HIDE DEF Dismiss
<1>5. AtWork(g)' /\ Apart(g)'
  BY <1>1, <1>3 DEF Alone, AtWork, Apart
<1>6. Fresh(g)'
  BY <1>1, <1>3, <1>4 DEF Alone, Fresh
<1>7. Budget(g)'
  BY <1>3 DEF Alone, Budget, Due
<1>8. Delivering(g)'
  BY <1>2, <1>3, <1>4 DEF Delivering
<1>9. Counted'
  BY <1>2, <1>3 DEF Alone, Counted
<1>. QED BY <1>5, <1>6, <1>7, <1>8, <1>9 DEF Alone

\* One gateway keeps the invariant.
LEMMA AloneNext ==
    ASSUME NEW g, Instances = {g}
    PROVE  Inv /\ Alone(g) /\ [Next]_vars => Alone(g)'
<1> SUFFICES ASSUME Inv, Alone(g), [Next]_vars PROVE Alone(g)'
  OBVIOUS
<1>. g \in Instances
  OBVIOUS
<1>1. ASSUME Worker(g) PROVE Alone(g)'
  BY <1>1, AloneStore, AloneHandOver DEF Worker
<1>2. ASSUME Deliver(g) PROVE Alone(g)'
  <2>1. ASSUME NEW a \in BOOLEAN, NEW d \in BOOLEAN, Send(g, a, d) PROVE Alone(g)'
    BY <2>1, AloneAfterAnswer DEF Send
  <2>2. ASSUME SendQueued(g) PROVE Alone(g)'
    BY <2>2, AloneAfterAnswer DEF SendQueued
  <2>. QED BY <1>2, <2>1, <2>2, AloneTakeReply, AloneTakeReplay, AloneMarkSent, AloneComplete,
              AloneMarkFailed DEF Deliver
<1>3. ASSUME Connection(g) PROVE Alone(g)'
  BY <1>3, AloneTransmit DEF Connection
<1>4. ASSUME Start(g) \/ Stop(g) PROVE Alone(g)'
  BY <1>4, AloneStart, AloneStop
<1>5. ASSUME NEW r \in Replies, Run(g, r) \/ Dismiss(g, r) PROVE Alone(g)'
  BY <1>5, AloneRun, AloneDismiss
<1>6. CASE UNCHANGED vars
  <2>1. UNCHANGED <<request, row, retries, dismissed, worker, phase, replay, channel, at, current,
                    attempts, crashes>>
    BY <1>6 DEF vars, rowVars, processVars, deliveryVars, chatVars
  <2>2. Chan(g)' = Chan(g) /\ Distinct(g)' = Distinct(g)
    BY <2>1, SameChan
  <2>3. AtWork(g)' /\ Apart(g)' /\ Fresh(g)'
    BY <2>1, <2>2 DEF Alone, AtWork, Apart, Fresh
  <2>4. Budget(g)' /\ Delivering(g)' /\ Counted'
    BY <2>1 DEF Alone, Budget, Due, Delivering, Owed, Retryable, Counted
  <2>. QED BY <2>3, <2>4 DEF Alone
<1>. QED BY <1>1, <1>2, <1>3, <1>4, <1>5, <1>6 DEF Next

\* With one gateway on the database a reply is sent at most once between two starts
\* (runner.rs: the response channel and the startup replay never hold it both).
THEOREM OneGatewayRepeatsNothing ==
    ASSUME NEW g, Instances = {g}
    PROVE  Spec => []OncePerStart
<1>1. Init => Alone(g)
  BY AloneInit
<1>2. Alone(g) => OncePerStart
  BY DEF Alone, Budget, OncePerStart
<1>3. Inv /\ Alone(g) /\ [Next]_vars => Alone(g)'
  BY AloneNext
<1>. QED BY <1>1, <1>2, <1>3, Invariant, PTL DEF Spec

-----------------------------------------------------------------------------
(* One gateway implements DurableReply. *)

DebtMap == [r \in Direct |-> Debt(r)]
TryMap == [r \in Direct |-> attempts[r]]
ShowMap == [r \in Direct |-> shown[r]]

\* What the row says of the debt.
DebtFacts ==
    \A r \in Replies : (r \in dismissed => row[r] = "sent") =>
        /\ row[r] = "none" => Debt(r) = "none"
        /\ row[r] = "unstored" => Debt(r) = IF attempts[r] = 0 THEN "unstored" ELSE "tried"
        /\ Owed(r) => Debt(r) = "owed"
        /\ row[r] = "sent" => Debt(r) = IF r \in dismissed THEN "dismissed" ELSE "sent"
        /\ row[r] = "failed" /\ ~Retryable(r) => Debt(r) = "expired"

LEMMA DebtOf == DebtFacts /\ DebtFacts'
<1>1. DebtFacts
  <2> SUFFICES ASSUME NEW r \in Replies, r \in dismissed => row[r] = "sent"
               PROVE  /\ row[r] = "none" => Debt(r) = "none"
                      /\ row[r] = "unstored" =>
                            Debt(r) = IF attempts[r] = 0 THEN "unstored" ELSE "tried"
                      /\ Owed(r) => Debt(r) = "owed"
                      /\ row[r] = "sent" => Debt(r) = IF r \in dismissed THEN "dismissed" ELSE "sent"
                      /\ row[r] = "failed" /\ ~Retryable(r) => Debt(r) = "expired"
    BY DEF DebtFacts
  <2>1. row[r] = "none" => Debt(r) = "none"
    BY DEF Debt, Retryable
  <2>2. row[r] = "unstored" => Debt(r) = IF attempts[r] = 0 THEN "unstored" ELSE "tried"
    BY DEF Debt, Retryable
  <2>3. Owed(r) => Debt(r) = "owed"
    BY DEF Debt, Owed, Retryable
  <2>4. row[r] = "sent" => Debt(r) = IF r \in dismissed THEN "dismissed" ELSE "sent"
    BY DEF Debt, Retryable
  <2>5. row[r] = "failed" /\ ~Retryable(r) => Debt(r) = "expired"
    BY DEF Debt
  <2>. QED BY <2>1, <2>2, <2>3, <2>4, <2>5
<1>2. DebtFacts'
  BY <1>1, PTL
<1>. QED BY <1>1, <1>2

\* A step that touches one reply, or none.
LEMMA OneReply ==
    ASSUME NEW q \in Direct,
           \A p \in Direct \ {q} : /\ row'[p] = row[p] /\ retries'[p] = retries[p]
                                   /\ p \in dismissed' <=> p \in dismissed
                                   /\ attempts'[p] = attempts[p] /\ shown'[p] = shown[p]
    PROVE  /\ DebtMap' = [DebtMap EXCEPT ![q] = Debt(q)']
           /\ TryMap' = [TryMap EXCEPT ![q] = attempts'[q]]
           /\ ShowMap' = [ShowMap EXCEPT ![q] = shown'[q]]
<1>1. \A p \in Direct : p # q => Debt(p)' = Debt(p)
  <2> SUFFICES ASSUME NEW p \in Direct, p # q PROVE Debt(p)' = Debt(p)
    OBVIOUS
  <2>1. Retryable(p)' <=> Retryable(p)
    BY DEF Retryable
  <2>. QED BY <2>1 DEF Debt
<1>. QED BY <1>1 DEF DebtMap, TryMap, ShowMap

LEMMA NoReplyTouched ==
    ASSUME \A p \in Direct : /\ row'[p] = row[p] /\ retries'[p] = retries[p]
                             /\ p \in dismissed' <=> p \in dismissed
                             /\ attempts'[p] = attempts[p] /\ shown'[p] = shown[p]
    PROVE  UNCHANGED Reply!replyVars
<1>1. \A p \in Direct : Debt(p)' = Debt(p)
  <2> SUFFICES ASSUME NEW p \in Direct PROVE Debt(p)' = Debt(p)
    OBVIOUS
  <2>1. Retryable(p)' <=> Retryable(p)
    BY DEF Retryable
  <2>. QED BY <2>1 DEF Debt
<1>. QED BY <1>1 DEF Reply!replyVars

\* Initially nothing is owed.
LEMMA ReplyInit == Init => Reply!Init
<1> SUFFICES ASSUME Init PROVE Reply!Init
  OBVIOUS
<1>1. \A r \in Direct : Debt(r) = "none" /\ attempts[r] = 0 /\ shown[r] = 0
  BY DebtOf DEF Init, Direct, DebtFacts
<1>. QED BY <1>1 DEF Reply!Init

\* Storing the reply owes it.
LEMMA StoreOwes ==
    ASSUME Inv, NEW g \in Instances, Alone(g), NEW r \in Direct, NEW status \in RequestStatus,
           NEW inserted \in BOOLEAN, NEW logged \in BOOLEAN,
           Store(g, r, status, inserted, logged)
    PROVE  Reply!Owe(r)
<1>1. r \in Replies
  BY DEF Direct
<1>2. /\ row[r] = "none" /\ row' = [row EXCEPT ![r] = IF inserted THEN "pending" ELSE "unstored"]
      /\ UNCHANGED <<retries, dismissed, attempts, shown>>
  BY DEF Store, chatVars
<1>3. attempts[r] = 0 /\ retries[r] = 0 /\ r \notin dismissed
  BY <1>1, <1>2 DEF Alone, Fresh, Counted
<1>4. \A p \in Replies : p # r => row'[p] = row[p]
  BY <1>2 DEF Inv, TypeOK
<1>5. /\ DebtMap' = [DebtMap EXCEPT ![r] = Debt(r)']
      /\ TryMap' = [TryMap EXCEPT ![r] = attempts'[r]]
      /\ ShowMap' = [ShowMap EXCEPT ![r] = shown'[r]]
  BY <1>2, <1>4, OneReply DEF Direct
<1>6. Debt(r)' \in {"owed", "unstored"}
  <2>1. row'[r] \in {"pending", "unstored"}
    BY <1>1, <1>2 DEF Inv, TypeOK
  <2>2. row'[r] = "pending" => Owed(r)'
    BY <1>2, <1>3 DEF Owed, Retryable, OutboxMaxRetries
  <2>. QED BY <2>1, <2>2, <1>1, <1>2, <1>3, DebtOf DEF DebtFacts
<1>7. UNCHANGED <<TryMap, ShowMap>>
  BY <1>2 DEF TryMap, ShowMap
<1>8. DebtMap[r] = "none"
  BY <1>1, <1>2, <1>3, DebtOf DEF DebtMap, DebtFacts
<1>. QED BY <1>5, <1>6, <1>7, <1>8 DEF Reply!Owe, DebtMap, TryMap, ShowMap

\* A send tries it.
LEMMA SendTries ==
    ASSUME Inv, NEW g \in Instances, Alone(g), NEW acknowledged \in BOOLEAN,
           NEW displayed \in BOOLEAN, Send(g, acknowledged, displayed),
           NEW r \in Direct, current[g] = r
    PROVE  Reply!Try(r)
<1>1. r \in Replies
  BY DEF Direct
<1>2. /\ attempts' = [attempts EXCEPT ![r] = @ + 1]
      /\ shown' = [shown EXCEPT ![r] = IF displayed THEN @ + 1 ELSE @]
      /\ UNCHANGED <<row, retries, dismissed>>
      /\ Owed(r) \/ (row[r] = "unstored" /\ attempts[r] = 0)
  BY DEF Send, rowVars, Alone, Delivering
<1>3. /\ attempts'[r] = attempts[r] + 1 /\ attempts[r] \in Nat
      /\ \E more \in {0, 1} : shown'[r] = shown[r] + more
      /\ \A p \in Replies : p # r => attempts'[p] = attempts[p] /\ shown'[p] = shown[p]
  BY <1>1, <1>2 DEF Inv, TypeOK
<1>4. /\ DebtMap' = [DebtMap EXCEPT ![r] = Debt(r)']
      /\ TryMap' = [TryMap EXCEPT ![r] = attempts'[r]]
      /\ ShowMap' = [ShowMap EXCEPT ![r] = shown'[r]]
  BY <1>1, <1>2, <1>3, OneReply DEF Direct
<1>5. DebtMap[r] = Debt(r) /\ TryMap[r] = attempts[r] /\ ShowMap[r] = shown[r]
  BY <1>1 DEF DebtMap, TryMap, ShowMap
<1>6. /\ r \in dismissed => row[r] = "sent"
      /\ r \in dismissed' => row'[r] = "sent"
  BY <1>1, <1>2 DEF Alone, Counted
<1>7. \/ Debt(r) = "owed" /\ Debt(r)' = "owed"
      \/ Debt(r) = "unstored" /\ Debt(r)' = "tried"
  <2>1. CASE Owed(r)
    <3>1. Owed(r)'
      BY <2>1, <1>2 DEF Owed, Retryable
    <3>. QED BY <2>1, <3>1, <1>1, <1>6, DebtOf DEF DebtFacts
  <2>2. CASE row[r] = "unstored" /\ attempts[r] = 0
    <3>1. attempts'[r] # 0 /\ row'[r] = "unstored"
      BY <2>2, <1>2, <1>3
    <3>. QED BY <2>2, <3>1, <1>1, <1>6, DebtOf DEF DebtFacts
  <2>. QED BY <2>1, <2>2, <1>2
<1>8. \/ DebtMap[r] = "owed" /\ DebtMap' = DebtMap
      \/ DebtMap[r] = "unstored" /\ DebtMap' = [DebtMap EXCEPT ![r] = "tried"]
  BY <1>4, <1>5, <1>7 DEF DebtMap
<1>9. /\ TryMap' = [TryMap EXCEPT ![r] = @ + 1]
      /\ \E more \in {0, 1} : ShowMap' = [ShowMap EXCEPT ![r] = @ + more]
  BY <1>3, <1>4, <1>5
<1>. QED BY <1>8, <1>9 DEF Reply!Try, DebtMap, TryMap, ShowMap

\* A row is settled by the delivery that tried it, or by the user.
LEMMA Settles ==
    ASSUME Inv, NEW g \in Instances, Alone(g), NEW r \in Direct, Owed(r),
           NEW status \in {"sent", "failed"}, row' = [row EXCEPT ![r] = status],
           \A p \in Replies : p # r =>
               retries'[p] = retries[p] /\ (p \in dismissed' <=> p \in dismissed),
           UNCHANGED <<attempts, shown>>,
           \/ status = "sent" /\ dismissed' = dismissed /\ shown[r] > 0
           \/ status = "sent" /\ r \in dismissed' /\ attempts[r] > 0
           \/ status = "failed" /\ dismissed' = dismissed /\ retries'[r] = retries[r] + 1
              /\ attempts[r] > retries[r]
    PROVE  Reply!Settle(r) \/ UNCHANGED Reply!replyVars
<1>1. r \in Replies /\ r \notin dismissed
  BY DEF Direct, Owed
<1>2. row'[r] = status /\ \A p \in Replies : p # r => row'[p] = row[p]
  BY <1>1 DEF Inv, TypeOK
<1>3. /\ DebtMap' = [DebtMap EXCEPT ![r] = Debt(r)']
      /\ UNCHANGED <<TryMap, ShowMap>>
  BY <1>1, <1>2, OneReply DEF Direct, TryMap, ShowMap
<1>4. DebtMap[r] = "owed" /\ TryMap[r] = attempts[r] /\ ShowMap[r] = shown[r]
  BY <1>1, DebtOf DEF DebtMap, TryMap, ShowMap, DebtFacts
<1>5. r \in dismissed' => row'[r] = "sent"
  BY <1>1, <1>2
<1>6. \/ Debt(r)' = "sent" /\ shown[r] > 0
      \/ Debt(r)' = "dismissed" /\ attempts[r] > 0
      \/ Debt(r)' = "expired" /\ attempts[r] >= OutboxMaxRetries
      \/ Debt(r)' = "owed"
  <2>1. CASE status = "sent"
    BY <2>1, <1>1, <1>2, <1>5, DebtOf DEF DebtFacts
  <2>2. CASE status = "failed"
    <3>1. retries'[r] = retries[r] + 1 /\ attempts[r] > retries[r] /\ r \notin dismissed'
      BY <2>2, <1>1
    <3>2. retries[r] \in Nat /\ attempts[r] \in Nat
      BY <1>1 DEF Inv, TypeOK
    <3>3. CASE retries'[r] < OutboxMaxRetries
      <4>1. Owed(r)'
        BY <2>2, <3>1, <3>3, <1>2 DEF Owed, Retryable
      <4>. QED BY <4>1, <1>1, <1>5, DebtOf DEF DebtFacts
    <3>4. CASE ~(retries'[r] < OutboxMaxRetries)
      <4>1. attempts[r] >= OutboxMaxRetries
        BY <3>1, <3>2, <3>4 DEF OutboxMaxRetries
      <4>2. ~Retryable(r)' /\ row'[r] = "failed"
        BY <2>2, <3>4, <1>2 DEF Retryable
      <4>. QED BY <4>1, <4>2, <1>1, <1>5, DebtOf DEF DebtFacts
    <3>. QED BY <3>3, <3>4
  <2>. QED BY <2>1, <2>2
<1>7. ASSUME Debt(r)' = "owed" PROVE UNCHANGED Reply!replyVars
  BY <1>3, <1>4, <1>7 DEF Reply!replyVars, DebtMap, TryMap, ShowMap
<1>8. ASSUME Debt(r)' # "owed" PROVE Reply!Settle(r)
  BY <1>3, <1>4, <1>6, <1>8 DEF Reply!Settle, DebtMap, TryMap, ShowMap
<1>. QED BY <1>7, <1>8

\* What a delivery writes into the row settles the reply, counts a failure, or
\* concerns a queued one.
LEMMA MarkSettles ==
    ASSUME Inv, NEW g \in Instances, Alone(g), NEW ok \in BOOLEAN,
           MarkSent(g, ok) \/ MarkFailed(g, ok)
    PROVE  (\E r \in Direct : Reply!Settle(r)) \/ UNCHANGED Reply!replyVars
<1>1. PICK q \in Replies : current[g] = q
  BY DEF MarkSent, MarkFailed, Inv, TypeOK
<1>2. Owed(q) /\ attempts[q] > retries[q]
  BY <1>1 DEF MarkSent, MarkFailed, Alone, Delivering
<1>3. UNCHANGED <<dismissed, attempts, shown>>
  BY DEF MarkSent, MarkFailed, chatVars
<1>4. \/ /\ at[g] = "sent" /\ row' = [row EXCEPT ![q] = "sent"] /\ retries' = retries
      \/ /\ row' = [row EXCEPT ![q] = "failed"] /\ retries' = [retries EXCEPT ![q] = @ + 1]
      \/ row' = row /\ retries' = retries
  BY <1>1 DEF MarkSent, MarkFailed, Inv, TypeOK
<1>5. CASE row' = row /\ retries' = retries
  BY <1>3, <1>5, NoReplyTouched
<1>6. CASE q \in Direct /\ at[g] = "sent" /\ row' = [row EXCEPT ![q] = "sent"] /\ retries' = retries
  <2>1. shown[q] > 0
    BY <1>1, <1>6 DEF Inv, Acknowledged
  <2>. QED BY <1>2, <1>3, <1>6, <2>1, Settles
<1>7. CASE q \in Direct /\ row' = [row EXCEPT ![q] = "failed"]
           /\ retries' = [retries EXCEPT ![q] = @ + 1]
  <2>1. /\ retries'[q] = retries[q] + 1
        /\ \A p \in Replies : p # q => retries'[p] = retries[p]
    BY <1>1, <1>7 DEF Inv, TypeOK
  <2>. QED BY <1>2, <1>3, <1>7, <2>1, Settles
<1>8. CASE q \notin Direct
  <2>1. \A p \in Direct : row'[p] = row[p] /\ retries'[p] = retries[p]
    BY <1>4, <1>8 DEF Inv, TypeOK, Direct
  <2>. QED BY <1>3, <2>1, NoReplyTouched
<1>. QED BY <1>4, <1>5, <1>6, <1>7, <1>8

\* /retry dismiss settles a reply that was tried.
LEMMA DismissSettles ==
    ASSUME Inv, NEW g \in Instances, Alone(g), NEW r \in Replies, Dismiss(g, r)
    PROVE  (\E q \in Direct : Reply!Settle(q)) \/ UNCHANGED Reply!replyVars
<1>1. /\ row[r] = "failed" /\ Retryable(r)
      /\ row' = [row EXCEPT ![r] = "sent"] /\ dismissed' = dismissed \union {r}
      /\ UNCHANGED <<retries, attempts, shown>>
  BY DEF Dismiss, chatVars
<1>2. Owed(r) /\ attempts[r] > 0
  <2>1. retries[r] > 0 /\ retries[r] <= attempts[r] /\ retries[r] \in Nat /\ attempts[r] \in Nat
    BY <1>1 DEF Alone, Counted, Inv, TypeOK
  <2>2. r \notin dismissed
    BY <1>1 DEF Alone, Counted
  <2>. QED BY <1>1, <2>1, <2>2 DEF Owed
<1>3. CASE r \in Direct
  BY <1>1, <1>2, <1>3, Settles
<1>4. CASE r \notin Direct
  <2>1. \A p \in Direct : row'[p] = row[p] /\ (p \in dismissed' <=> p \in dismissed)
    BY <1>1, <1>4 DEF Inv, TypeOK, Direct
  <2>. QED BY <1>1, <2>1, NoReplyTouched
<1>. QED BY <1>3, <1>4

\* Every step of one gateway is a step of DurableReply or none.
LEMMA ReplyNext ==
    ASSUME NEW g, Instances = {g}
    PROVE  Inv /\ Alone(g) /\ [Next]_vars => [Reply!Next]_(Reply!replyVars)
<1> SUFFICES ASSUME Inv, Alone(g), [Next]_vars
             PROVE  Reply!Next \/ UNCHANGED Reply!replyVars
  OBVIOUS
<1>. g \in Instances
  OBVIOUS
<1>1. CASE UNCHANGED <<row, retries, dismissed, attempts, shown>>
  BY <1>1, NoReplyTouched
<1>2. ASSUME NEW r \in Replies, NEW status \in RequestStatus, NEW inserted \in BOOLEAN,
             NEW logged \in BOOLEAN, Store(g, r, status, inserted, logged)
      PROVE  Reply!Next \/ UNCHANGED Reply!replyVars
  <2>1. CASE r \in Direct
    BY <1>2, <2>1, StoreOwes DEF Reply!Next
  <2>2. CASE r \notin Direct
    <3>1. \A p \in Direct : row'[p] = row[p] /\ retries'[p] = retries[p]
                            /\ attempts'[p] = attempts[p] /\ shown'[p] = shown[p]
      BY <1>2, <2>2 DEF Store, chatVars, Inv, TypeOK, Direct
    <3>2. dismissed' = dismissed
      BY <1>2 DEF Store
    <3>. QED BY <3>1, <3>2, NoReplyTouched
  <2>. QED BY <2>1, <2>2
<1>3. ASSUME NEW a \in BOOLEAN, NEW d \in BOOLEAN, Send(g, a, d)
      PROVE  Reply!Next \/ UNCHANGED Reply!replyVars
  <2>1. PICK r \in Direct : current[g] = r
    BY <1>3 DEF Send, Direct, Inv, TypeOK
  <2>. QED BY <1>3, <2>1, SendTries DEF Reply!Next
<1>4. ASSUME SendQueued(g) PROVE Reply!Next \/ UNCHANGED Reply!replyVars
  <2>1. \A p \in Direct : attempts'[p] = attempts[p]
    BY <1>4 DEF SendQueued, Inv, TypeOK, Direct
  <2>2. UNCHANGED <<row, retries, dismissed, shown>>
    BY <1>4 DEF SendQueued, rowVars
  <2>. QED BY <2>1, <2>2, NoReplyTouched
<1>5. ASSUME Connection(g) PROVE Reply!Next \/ UNCHANGED Reply!replyVars
  <2>1. PICK displayed \in BOOLEAN : Transmit(g, displayed)
    BY <1>5 DEF Connection
  <2>2. Head(outgoing[g]) \in Queued
    BY <2>1, HeadTailProperties DEF Transmit, Inv, TypeOK
  <2>3. \A p \in Direct : shown'[p] = shown[p]
    BY <2>1, <2>2 DEF Transmit, Inv, TypeOK, Direct
  <2>4. UNCHANGED <<row, retries, dismissed, attempts>>
    BY <2>1 DEF Transmit, rowVars
  <2>. QED BY <2>3, <2>4, NoReplyTouched
<1>6. ASSUME NEW ok \in BOOLEAN, MarkSent(g, ok) \/ MarkFailed(g, ok)
      PROVE  Reply!Next \/ UNCHANGED Reply!replyVars
  BY <1>6, MarkSettles DEF Reply!Next
<1>7. ASSUME NEW r \in Replies, Dismiss(g, r) PROVE Reply!Next \/ UNCHANGED Reply!replyVars
  BY <1>7, DismissSettles DEF Reply!Next
<1>8. ASSUME NEW r \in Replies, Run(g, r) \/ HandOver(g, r)
      PROVE  UNCHANGED <<row, retries, dismissed, attempts, shown>>
  BY <1>8 DEF Run, HandOver, rowVars, chatVars
<1>9. ASSUME TakeReply(g) \/ TakeReplay(g) \/ Stop(g) \/ Boot(g) \/ Serve(g)
      PROVE  UNCHANGED <<row, retries, dismissed, attempts, shown>>
  BY <1>9 DEF TakeReply, TakeReplay, Stop, Boot, Serve, rowVars, chatVars
<1>10. ASSUME NEW ok \in BOOLEAN, CompleteRequest(g, ok) \/ Sweep(g, ok) \/ ListRetryable(g, ok)
       PROVE  UNCHANGED <<row, retries, dismissed, attempts, shown>>
  BY <1>10 DEF CompleteRequest, Sweep, ListRetryable, rowVars, chatVars
<1>11. CASE UNCHANGED vars
  BY <1>11, <1>1 DEF vars, rowVars, chatVars
<1>12. CASE Worker(g)
  BY <1>12, <1>1, <1>2, <1>8 DEF Worker
<1>13. CASE Deliver(g)
  BY <1>13, <1>1, <1>3, <1>4, <1>6, <1>9, <1>10 DEF Deliver
<1>14. CASE Start(g) \/ Stop(g)
  BY <1>14, <1>1, <1>9, <1>10 DEF Start
<1>. QED BY <1>1, <1>5, <1>7, <1>8, <1>11, <1>12, <1>13, <1>14 DEF Next

\* With one gateway on the database, final replies are owed, tried and settled as
\* DurableReply says (outbound_response, deliver_outbound, replay_retryable_outbox):
\* none is shown after it was settled and none is given up before its last retry,
\* whatever stops and whichever call fails.
THEOREM OutboxIsDurable ==
    ASSUME NEW g, Instances = {g}
    PROVE  Spec => ImplementsDurableReply
<1>1. Init => Alone(g)
  BY AloneInit
<1>2. Inv /\ Alone(g) /\ [Next]_vars => Alone(g)'
  BY AloneNext
<1>3. Inv /\ Alone(g) /\ [Next]_vars => [Reply!Next]_(Reply!replyVars)
  BY ReplyNext
<1>. QED BY <1>1, <1>2, <1>3, ReplyInit, Invariant, PTL
         DEF Spec, ImplementsDurableReply, Reply!Spec
=============================================================================
