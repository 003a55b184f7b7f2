------------------------------ MODULE TasksProofs ------------------------------
(***************************************************************************)
(* What holds of the tasks around the lanes, for any number of jobs,       *)
(* messages, stops and failing calls and for channels of any capacity: the *)
(* scheduler, the WeCom connection with the main loop, and the poll loop of*)
(* Weixin.  A task has a section of its own.                               *)
(***************************************************************************)
EXTENDS MCTasks, FiniteSetTheorems, SequenceTheorems, TLAPS

-----------------------------------------------------------------------------
(***************************************************************************)
(* Scheduler.                                                              *)
(***************************************************************************)

(***************************************************************************)
(* The types.                                                              *)
(***************************************************************************)

LEMMA TypeStep == TypeOK /\ [Next]_vars => TypeOK'
<1> SUFFICES ASSUME TypeOK, [Next]_vars PROVE TypeOK'
    OBVIOUS
<1> USE SchedulerAssumption DEF TypeOK, table, tick, history
<1>1. CASE TimePasses
    BY <1>1 DEF TimePasses
<1>2. ASSUME NEW j \in Jobs, Create(j) PROVE TypeOK'
    BY <1>2 DEF Create, NextRun, Kinds
<1>3. ASSUME NEW j \in Jobs, SetTime(j) PROVE TypeOK'
    BY <1>3 DEF SetTime, WithNextRun, NoRow, Works, Fails
<1>4. ASSUME NEW j \in Jobs, Delete(j) PROVE TypeOK'
    BY <1>4 DEF Delete, NoRow
<1>5. CASE Poll
    BY <1>5 DEF Poll, Works, Fails
<1>6. CASE NextJob
    BY <1>6 DEF NextJob
<1>7. CASE TickEnds
    BY <1>7 DEF TickEnds
<1>8. CASE TurnAnswers
    BY <1>8 DEF TurnAnswers, AfterTurn, Works, Fails
<1>9. CASE TurnFails
    BY <1>9 DEF TurnFails, AfterTurn, Fails
<1>10. CASE Store
    BY <1>10 DEF Store, Works, Fails
<1>11. CASE Send
    BY <1>11 DEF Send
<1>12. CASE Settle
    BY <1>12 DEF Settle, NextRun, WithNextRun, NoRow, NoJob, Works, Fails
<1>13. CASE Stop
    BY <1>13 DEF Stop, NoJob
<1>14. CASE UNCHANGED vars
    BY <1>14 DEF vars
<1> QED
    BY <1>1, <1>2, <1>3, <1>4, <1>5, <1>6, <1>7, <1>8, <1>9, <1>10, <1>11, <1>12, <1>13, <1>14
       DEF Next, Tick

\* The types, for any number of jobs; while the tick works it works on a job.
THEOREM TypeCorrect == Spec => []TypeOK
<1>1. Init => TypeOK
    BY SchedulerAssumption DEF Init, TypeOK, Jobs, Kinds, NoRow, NoJob
<1> QED BY <1>1, TypeStep, PTL DEF Spec

(***************************************************************************)
(* The inductive invariant.                                                *)
(***************************************************************************)

\* A job gets its kind when it is created; before, it has no trace anywhere.
NewIsUntouched ==
    \A j \in Jobs :
        /\ kind[j] = "none" => life[j] = "new"
        /\ life[j] = "new" => ~HasRow(j) /\ shown[j] = 0 /\ j \notin batch /\ ~Working(j)

\* The job of the tick is not in the rest of its snapshot.
InHand == \A j \in Jobs : Working(j) => j \notin batch

\* Only its chat removes a recurring job.
RecurringStays ==
    \A j \in Jobs : kind[j] = "recurring" /\ life[j] \in {"inserted", "told"} => HasRow(j)

\* A silent response is settled at once; what else is stored, sent or settled is a
\* reminder or a visible response.
Responses ==
    /\ response = "silent" => pc = "settle"
    /\ pc \in {"store", "send", "sendPlain", "settle"} =>
          Reminder(job) \/ response \in {"visible", "silent"}

\* The outcome comes before the row is deleted.
OutcomeFirst ==
    /\ pc = "send" => shown[job] > 0
    /\ pc = "settle" => shown[job] > 0 \/ job \in silent \/ ~Completed(job)

\* The run of a job at which its outcome was shown and its row is not settled yet.
Shown(j) == Working(j) /\ (pc = "send" \/ (pc = "settle" /\ response # "silent"))

\* A job that a tick may still run, now or later.
Open(j) == HasRow(j) \/ j \in batch \/ Working(j)

\* Each outcome but the last of a job that is open was paid for with a fault.
PaidFor ==
    \A j \in Jobs :
        shown[j] <= (IF Open(j) /\ ~Shown(j) THEN 0 ELSE 1) + stops + faults

IInv ==
    /\ TypeOK /\ NewIsUntouched /\ InHand /\ RecurringStays /\ Responses /\ OutcomeFirst
    /\ NoneVanishes /\ DeletedStaysDeleted /\ PaidFor

LEMMA Step == IInv /\ [Next]_vars => IInv'
<1> SUFFICES ASSUME IInv, [Next]_vars PROVE IInv'
    OBVIOUS
<1>0. TypeOK /\ TypeOK'
    BY TypeStep DEF IInv
<1> USE <1>0, SchedulerAssumption DEF TypeOK, HasRow, Working, Reminder
<1>1. CASE TimePasses
  <2>1. NewIsUntouched'
      BY <1>1 DEF IInv, NewIsUntouched, TimePasses, table, tick, history
  <2>2. InHand'
      BY <1>1 DEF IInv, InHand, TimePasses, table, tick, history
  <2>3. RecurringStays'
      BY <1>1 DEF IInv, RecurringStays, TimePasses, table, tick, history
  <2>4. Responses'
      BY <1>1 DEF IInv, Responses, TimePasses, table, tick, history
  <2>5. OutcomeFirst'
      BY <1>1 DEF IInv, OutcomeFirst, Completed, OneShot, TimePasses, table, tick, history
  <2>6. NoneVanishes'
      BY <1>1 DEF IInv, NoneVanishes, Completed, OneShot, OutcomeFirst, RecurringStays, NewIsUntouched, TimePasses, table, tick, history
  <2>7. DeletedStaysDeleted'
      BY <1>1 DEF IInv, DeletedStaysDeleted, TimePasses, table, tick, history
  <2>8. PaidFor'
      BY <1>1 DEF IInv, PaidFor, Open, Shown, TimePasses, table, tick, history
  <2> QED BY <2>1, <2>2, <2>3, <2>4, <2>5, <2>6, <2>7, <2>8 DEF IInv
<1>2. ASSUME NEW j \in Jobs, Create(j) PROVE IInv'
  <2>0. life[j] = "new" /\ ~Working(j)
      BY <1>2 DEF Create, Jobs, IInv, NewIsUntouched
  <2>1. NewIsUntouched'
      BY <1>2 DEF IInv, NewIsUntouched, Create, tick, history, Kinds, NextRun, NoRow
  <2>2. InHand'
      BY <1>2 DEF IInv, InHand, Create, tick, history, Kinds, NextRun, NoRow
  <2>3. RecurringStays'
      BY <1>2 DEF IInv, RecurringStays, Create, tick, history, Kinds, NextRun, NoRow
  <2>4. Responses'
      BY <1>2, <2>0 DEF IInv, Responses, Create, tick, history, Kinds, NextRun, NoRow
  <2>5. OutcomeFirst'
      BY <1>2, <2>0 DEF IInv, OutcomeFirst, Completed, OneShot, Create, tick, history, Kinds, NextRun, NoRow
  <2>6. NoneVanishes'
      BY <1>2 DEF IInv, NoneVanishes, Completed, OneShot, OutcomeFirst, RecurringStays, NewIsUntouched, Create, tick, history, Kinds, NextRun, NoRow
  <2>7. DeletedStaysDeleted'
      BY <1>2 DEF IInv, DeletedStaysDeleted, Create, tick, history, Kinds, NextRun, NoRow
  <2>8. PaidFor'
      BY <1>2, <2>0 DEF IInv, NewIsUntouched, PaidFor, Open, Shown, Create, tick, history, Kinds, NextRun, NoRow
  <2> QED BY <2>1, <2>2, <2>3, <2>4, <2>5, <2>6, <2>7, <2>8 DEF IInv
<1>3. ASSUME NEW j \in Jobs, SetTime(j) PROVE IInv'
  <2>1. NewIsUntouched'
      BY <1>3 DEF IInv, NewIsUntouched, SetTime, WithNextRun, Works, Fails, tick, history, NoRow
  <2>2. InHand'
      BY <1>3 DEF IInv, InHand, SetTime, WithNextRun, Works, Fails, tick, history, NoRow
  <2>3. RecurringStays'
      BY <1>3 DEF IInv, RecurringStays, SetTime, WithNextRun, Works, Fails, tick, history, NoRow
  <2>4. Responses'
      BY <1>3 DEF IInv, Responses, SetTime, WithNextRun, Works, Fails, tick, history, NoRow
  <2>5. OutcomeFirst'
      BY <1>3 DEF IInv, OutcomeFirst, Completed, OneShot, SetTime, WithNextRun, Works, Fails, tick, history, NoRow
  <2>6. NoneVanishes'
      BY <1>3 DEF IInv, NoneVanishes, Completed, OneShot, OutcomeFirst, RecurringStays, NewIsUntouched, SetTime, WithNextRun, Works, Fails, tick, history, NoRow
  <2>7. DeletedStaysDeleted'
      BY <1>3 DEF IInv, DeletedStaysDeleted, SetTime, WithNextRun, Works, Fails, tick, history, NoRow
  <2>8. PaidFor'
      BY <1>3 DEF IInv, PaidFor, Open, Shown, SetTime, WithNextRun, Works, Fails, tick, history, NoRow
  <2> QED BY <2>1, <2>2, <2>3, <2>4, <2>5, <2>6, <2>7, <2>8 DEF IInv
<1>4. ASSUME NEW j \in Jobs, Delete(j) PROVE IInv'
  <2>1. NewIsUntouched'
      BY <1>4 DEF IInv, NewIsUntouched, Delete, tick, history, NoRow
  <2>2. InHand'
      BY <1>4 DEF IInv, InHand, Delete, tick, history, NoRow
  <2>3. RecurringStays'
      BY <1>4 DEF IInv, RecurringStays, Delete, tick, history, NoRow
  <2>4. Responses'
      BY <1>4 DEF IInv, Responses, Delete, tick, history, NoRow
  <2>5. OutcomeFirst'
      BY <1>4 DEF IInv, OutcomeFirst, Completed, OneShot, Delete, tick, history, NoRow
  <2>6. NoneVanishes'
      BY <1>4 DEF IInv, NoneVanishes, Completed, OneShot, OutcomeFirst, RecurringStays, NewIsUntouched, Delete, tick, history, NoRow
  <2>7. DeletedStaysDeleted'
      BY <1>4 DEF IInv, DeletedStaysDeleted, Delete, tick, history, NoRow
  <2>8. PaidFor'
      BY <1>4 DEF IInv, PaidFor, Open, Shown, Delete, tick, history, NoRow
  <2> QED BY <2>1, <2>2, <2>3, <2>4, <2>5, <2>6, <2>7, <2>8 DEF IInv
<1>5. CASE Poll
  <2>1. NewIsUntouched'
      BY <1>5 DEF IInv, NewIsUntouched, Poll, Due, Works, Fails, table, history
  <2>2. InHand'
      BY <1>5 DEF IInv, InHand, Poll, Due, Works, Fails, table, history
  <2>3. RecurringStays'
      BY <1>5 DEF IInv, RecurringStays, Poll, Due, Works, Fails, table, history
  <2>4. Responses'
      BY <1>5 DEF IInv, Responses, Poll, Due, Works, Fails, table, history
  <2>5. OutcomeFirst'
      BY <1>5 DEF IInv, OutcomeFirst, Completed, OneShot, Poll, Due, Works, Fails, table, history
  <2>6. NoneVanishes'
      BY <1>5 DEF IInv, NoneVanishes, Completed, OneShot, OutcomeFirst, RecurringStays, NewIsUntouched, Poll, Due, Works, Fails, table, history
  <2>7. DeletedStaysDeleted'
      BY <1>5 DEF IInv, DeletedStaysDeleted, Poll, Due, Works, Fails, table, history
  <2>8. PaidFor'
      BY <1>5 DEF IInv, PaidFor, Open, Shown, Poll, Due, Works, Fails, table, history
  <2> QED BY <2>1, <2>2, <2>3, <2>4, <2>5, <2>6, <2>7, <2>8 DEF IInv
<1>6. CASE NextJob
  <2>1. NewIsUntouched'
      BY <1>6 DEF IInv, NewIsUntouched, NextJob, table, history
  <2>2. InHand'
      BY <1>6 DEF IInv, InHand, NextJob, table, history
  <2>3. RecurringStays'
      BY <1>6 DEF IInv, RecurringStays, NextJob, table, history
  <2>4. Responses'
      BY <1>6 DEF IInv, Responses, NextJob, table, history
  <2>5. OutcomeFirst'
      BY <1>6 DEF IInv, OutcomeFirst, Completed, OneShot, NextJob, table, history
  <2>6. NoneVanishes'
      BY <1>6 DEF IInv, NoneVanishes, Completed, OneShot, OutcomeFirst, RecurringStays, NewIsUntouched, NextJob, table, history
  <2>7. DeletedStaysDeleted'
      BY <1>6 DEF IInv, DeletedStaysDeleted, NextJob, table, history
  <2>8. PaidFor'
      BY <1>6 DEF IInv, PaidFor, Open, Shown, NextJob, table, history
  <2> QED BY <2>1, <2>2, <2>3, <2>4, <2>5, <2>6, <2>7, <2>8 DEF IInv
<1>7. CASE TickEnds
  <2>1. NewIsUntouched'
      BY <1>7 DEF IInv, NewIsUntouched, TickEnds, table, history
  <2>2. InHand'
      BY <1>7 DEF IInv, InHand, TickEnds, table, history
  <2>3. RecurringStays'
      BY <1>7 DEF IInv, RecurringStays, TickEnds, table, history
  <2>4. Responses'
      BY <1>7 DEF IInv, Responses, TickEnds, table, history
  <2>5. OutcomeFirst'
      BY <1>7 DEF IInv, OutcomeFirst, Completed, OneShot, TickEnds, table, history
  <2>6. NoneVanishes'
      BY <1>7 DEF IInv, NoneVanishes, Completed, OneShot, OutcomeFirst, RecurringStays, NewIsUntouched, TickEnds, table, history
  <2>7. DeletedStaysDeleted'
      BY <1>7 DEF IInv, DeletedStaysDeleted, TickEnds, table, history
  <2>8. PaidFor'
      BY <1>7 DEF IInv, PaidFor, Open, Shown, TickEnds, table, history
  <2> QED BY <2>1, <2>2, <2>3, <2>4, <2>5, <2>6, <2>7, <2>8 DEF IInv
<1>8. CASE TurnAnswers
  <2>1. NewIsUntouched'
      BY <1>8 DEF IInv, NewIsUntouched, TurnAnswers, AfterTurn, Works, Fails, table
  <2>2. InHand'
      BY <1>8 DEF IInv, InHand, TurnAnswers, AfterTurn, Works, Fails, table
  <2>3. RecurringStays'
      BY <1>8 DEF IInv, RecurringStays, TurnAnswers, AfterTurn, Works, Fails, table
  <2>4. Responses'
      BY <1>8 DEF IInv, Responses, TurnAnswers, AfterTurn, Works, Fails, table
  <2>5. OutcomeFirst'
      BY <1>8 DEF IInv, OutcomeFirst, Completed, OneShot, TurnAnswers, AfterTurn, Works, Fails, table
  <2>6. NoneVanishes'
      BY <1>8 DEF IInv, NoneVanishes, Completed, OneShot, OutcomeFirst, RecurringStays, NewIsUntouched, TurnAnswers, AfterTurn, Works, Fails, table
  <2>7. DeletedStaysDeleted'
      BY <1>8 DEF IInv, DeletedStaysDeleted, TurnAnswers, AfterTurn, Works, Fails, table
  <2>8. PaidFor'
      BY <1>8 DEF IInv, PaidFor, Open, Shown, TurnAnswers, AfterTurn, Works, Fails, table
  <2> QED BY <2>1, <2>2, <2>3, <2>4, <2>5, <2>6, <2>7, <2>8 DEF IInv
<1>9. CASE TurnFails
  <2>1. NewIsUntouched'
      BY <1>9 DEF IInv, NewIsUntouched, TurnFails, AfterTurn, Fails, table
  <2>2. InHand'
      BY <1>9 DEF IInv, InHand, TurnFails, AfterTurn, Fails, table
  <2>3. RecurringStays'
      BY <1>9 DEF IInv, RecurringStays, TurnFails, AfterTurn, Fails, table
  <2>4. Responses'
      BY <1>9 DEF IInv, Responses, TurnFails, AfterTurn, Fails, table
  <2>5. OutcomeFirst'
      BY <1>9 DEF IInv, OutcomeFirst, Completed, OneShot, TurnFails, AfterTurn, Fails, table
  <2>6. NoneVanishes'
      BY <1>9 DEF IInv, NoneVanishes, Completed, OneShot, OutcomeFirst, RecurringStays, NewIsUntouched, TurnFails, AfterTurn, Fails, table
  <2>7. DeletedStaysDeleted'
      BY <1>9 DEF IInv, DeletedStaysDeleted, TurnFails, AfterTurn, Fails, table
  <2>8. PaidFor'
      BY <1>9 DEF IInv, PaidFor, Open, Shown, TurnFails, AfterTurn, Fails, table
  <2> QED BY <2>1, <2>2, <2>3, <2>4, <2>5, <2>6, <2>7, <2>8 DEF IInv
<1>10. CASE Store
  <2>1. NewIsUntouched'
      BY <1>10 DEF IInv, NewIsUntouched, Store, Works, Fails, table
  <2>2. InHand'
      BY <1>10 DEF IInv, InHand, Store, Works, Fails, table
  <2>3. RecurringStays'
      BY <1>10 DEF IInv, RecurringStays, Store, Works, Fails, table
  <2>4. Responses'
      BY <1>10 DEF IInv, Responses, Store, Works, Fails, table
  <2>5. OutcomeFirst'
      BY <1>10 DEF IInv, OutcomeFirst, Completed, OneShot, Store, Works, Fails, table
  <2>6. NoneVanishes'
      BY <1>10 DEF IInv, NoneVanishes, Completed, OneShot, OutcomeFirst, RecurringStays, NewIsUntouched, Store, Works, Fails, table
  <2>7. DeletedStaysDeleted'
      BY <1>10 DEF IInv, DeletedStaysDeleted, Store, Works, Fails, table
  <2>8. PaidFor'
      BY <1>10 DEF IInv, PaidFor, Open, Shown, Store, Works, Fails, table
  <2> QED BY <2>1, <2>2, <2>3, <2>4, <2>5, <2>6, <2>7, <2>8 DEF IInv
<1>11. CASE Send
  <2>1. NewIsUntouched'
      BY <1>11 DEF IInv, NewIsUntouched, Send, table
  <2>2. InHand'
      BY <1>11 DEF IInv, InHand, Send, table
  <2>3. RecurringStays'
      BY <1>11 DEF IInv, RecurringStays, Send, table
  <2>4. Responses'
      BY <1>11 DEF IInv, Responses, Send, table
  <2>5. OutcomeFirst'
      BY <1>11 DEF IInv, OutcomeFirst, Completed, OneShot, Send, table
  <2>6. NoneVanishes'
      BY <1>11 DEF IInv, NoneVanishes, Completed, OneShot, OutcomeFirst, RecurringStays, NewIsUntouched, Send, table
  <2>7. DeletedStaysDeleted'
      BY <1>11 DEF IInv, DeletedStaysDeleted, Send, table
  <2>8. PaidFor'
      BY <1>11 DEF IInv, Responses, PaidFor, Open, Shown, Send, table
  <2> QED BY <2>1, <2>2, <2>3, <2>4, <2>5, <2>6, <2>7, <2>8 DEF IInv
<1>12. CASE Settle
  <2>1. NewIsUntouched'
      BY <1>12 DEF IInv, NewIsUntouched, Settle, WithNextRun, NextRun, Works, Fails, NoRow, NoJob
  <2>2. InHand'
      BY <1>12 DEF IInv, InHand, Settle, WithNextRun, NextRun, Works, Fails, NoRow, NoJob
  <2>3. RecurringStays'
      BY <1>12 DEF IInv, RecurringStays, Completed, OneShot, Settle, WithNextRun, NextRun, Works, Fails, NoRow, NoJob
  <2>4. Responses'
      BY <1>12 DEF IInv, Responses, Settle, WithNextRun, NextRun, Works, Fails, NoRow, NoJob
  <2>5. OutcomeFirst'
      BY <1>12 DEF IInv, OutcomeFirst, Completed, OneShot, Settle, WithNextRun, NextRun, Works, Fails, NoRow, NoJob
  <2>6. NoneVanishes'
      BY <1>12 DEF IInv, NoneVanishes, Completed, OneShot, OutcomeFirst, RecurringStays, NewIsUntouched, Settle, WithNextRun, NextRun, Works, Fails, NoRow, NoJob
  <2>7. DeletedStaysDeleted'
      BY <1>12 DEF IInv, DeletedStaysDeleted, Settle, WithNextRun, NextRun, Works, Fails, NoRow, NoJob
  <2>8. PaidFor'
    <3> SUFFICES ASSUME NEW i \in Jobs
                 PROVE  shown'[i] <= (IF Open(i)' /\ ~Shown(i)' THEN 0 ELSE 1) + stops' + faults'
        BY DEF PaidFor
    <3>1. shown[i] <= (IF Open(i) /\ ~Shown(i) THEN 0 ELSE 1) + stops + faults
        BY DEF IInv, PaidFor
    <3>2. stops' = stops /\ faults' >= faults /\ faults' \in Nat /\ ~Shown(i)'
        BY <1>12 DEF Settle, Works, Fails, Shown
    <3>3. CASE i # job
      <4>1. shown'[i] = shown[i] /\ row'[i] = row[i] /\ ~Shown(i) /\ (Open(i)' => Open(i))
          BY <1>12, <3>3 DEF Settle, WithNextRun, Works, Fails, Open, Shown
      <4> QED BY <3>1, <3>2, <4>1
    <3>4. CASE i = job /\ faults' = faults + 1
      <4>1. shown'[i] <= shown[i] /\ shown'[i] \in Nat
          BY <1>12 DEF Settle
      <4> QED BY <3>1, <3>2, <3>4, <4>1
    <3>5. CASE i = job /\ faults' # faults + 1
      <4>1. shown'[i] \in Nat /\ shown'[i] <= shown[i] /\ faults' = faults
          BY <1>12, <3>5 DEF Settle, Works, Fails
      <4>2. CASE Completed(i)
        <5>1. ~Open(i)'
            BY <1>12, <3>5, <4>2 DEF Settle, Works, Fails, Open, IInv, InHand, NoRow
        <5> QED BY <3>1, <3>2, <4>1, <5>1
      <4>3. CASE ~Completed(i) /\ response = "silent"
        <5>1. Open(i) /\ ~Shown(i)
            BY <1>12, <3>5, <4>3 DEF Settle, Open, Shown
        <5> QED BY <3>1, <3>2, <4>1, <5>1
      <4>4. CASE ~Completed(i) /\ response # "silent"
        <5>1. response = "visible"
            BY <1>12, <3>5, <4>4 DEF Settle, IInv, Responses, Completed, OneShot
        <5>2. kind[i] # "none"
            BY <1>12, <3>5 DEF Settle, IInv, NewIsUntouched
        <5>3. kind[i] = "recurring"
            BY <4>4, <5>1, <5>2 DEF Completed, OneShot, Kinds
        <5>4. shown'[i] = 0
            BY <1>12, <3>5, <5>3 DEF Settle, Works, Fails
        <5> QED BY <3>2, <4>1, <5>4
      <4> QED BY <4>2, <4>3, <4>4
    <3> QED BY <3>3, <3>4, <3>5
  <2> QED BY <2>1, <2>2, <2>3, <2>4, <2>5, <2>6, <2>7, <2>8 DEF IInv
<1>13. CASE Stop
  <2>1. NewIsUntouched'
      BY <1>13 DEF IInv, NewIsUntouched, Stop, history, NoJob
  <2>2. InHand'
      BY <1>13 DEF IInv, InHand, Stop, history, NoJob
  <2>3. RecurringStays'
      BY <1>13 DEF IInv, RecurringStays, Stop, history, NoJob
  <2>4. Responses'
      BY <1>13 DEF IInv, Responses, Stop, history, NoJob
  <2>5. OutcomeFirst'
      BY <1>13 DEF IInv, OutcomeFirst, Completed, OneShot, Stop, history, NoJob
  <2>6. NoneVanishes'
      BY <1>13 DEF IInv, NoneVanishes, Completed, OneShot, OutcomeFirst, RecurringStays, NewIsUntouched, Stop, history, NoJob
  <2>7. DeletedStaysDeleted'
      BY <1>13 DEF IInv, DeletedStaysDeleted, Stop, history, NoJob
  <2>8. PaidFor'
      BY <1>13 DEF IInv, PaidFor, Open, Shown, Stop, history, NoJob
  <2> QED BY <2>1, <2>2, <2>3, <2>4, <2>5, <2>6, <2>7, <2>8 DEF IInv
<1>14. CASE UNCHANGED vars
    BY <1>14 DEF vars, IInv, NewIsUntouched, InHand, RecurringStays, Responses, OutcomeFirst, NoneVanishes,
       DeletedStaysDeleted, PaidFor, Open, Shown, Completed, OneShot
<1> QED
    BY <1>1, <1>2, <1>3, <1>4, <1>5, <1>6, <1>7, <1>8, <1>9, <1>10, <1>11, <1>12, <1>13, <1>14
       DEF Next, Tick

LEMMA Start == Init => IInv
  BY SchedulerAssumption
     DEF Init, IInv, TypeOK, Jobs, Kinds, NoRow, NoJob, NewIsUntouched, InHand, RecurringStays, Responses,
         OutcomeFirst, NoneVanishes, DeletedStaysDeleted, PaidFor, HasRow, Working, Open, Shown

(***************************************************************************)
(* The properties.                                                         *)
(***************************************************************************)

\* No stop, failing call or turn without a response costs a job: what is gone from
\* the table was deleted by its chat or had its outcome (tick: "will re-fire").
THEOREM NoReminderVanishes == Spec => []NoneVanishes
<1>1. IInv => NoneVanishes
    BY DEF IInv
<1> QED BY <1>1, Start, Step, PTL DEF Spec

\* However the tick and the commands write the row of a job, what a chat deleted
\* does not come back.
THEOREM DeletedStays == Spec => []DeletedStaysDeleted
<1>1. IInv => DeletedStaysDeleted
    BY DEF IInv
<1> QED BY <1>1, Start, Step, PTL DEF Spec

\* Every outcome of a job beyond the one it is due was paid for with a stop or a
\* fault, however many jobs, ticks and times it was due.
THEOREM ShownOnce == Spec => []OncePerDue
<1>1. IInv => OncePerDue
  <2> SUFFICES ASSUME IInv, NEW j \in Jobs PROVE shown[j] <= 1 + stops + faults
      BY DEF OncePerDue
  <2>1. shown[j] <= (IF Open(j) /\ ~Shown(j) THEN 0 ELSE 1) + stops + faults
      BY DEF IInv, PaidFor
  <2>2. shown[j] \in Nat /\ stops \in Nat /\ faults \in Nat
      BY SchedulerAssumption DEF IInv, TypeOK
  <2> QED BY <2>1, <2>2
<1> QED BY <1>1, Start, Step, PTL DEF Spec

-----------------------------------------------------------------------------
(***************************************************************************)
(* MessageFlow.  The argument: what the adapter accepted is in its channel *)
(* or in the one upload, or was lost with a link.  What is written to a    *)
(* dead link counts while it has been dead for two minutes at most, and it *)
(* has not been dead for longer than the connection has been silent, give  *)
(* or take the half minute it died in (Dead); so the check of the silence, *)
(* before every write, bounds it.  And a message that the connection has   *)
(* not seen came over one that broke since (Runs).                         *)
(***************************************************************************)

FlowTypes ==
    /\ link \in {"down", "up", "uploading"}
    /\ handing \in Ids \union {None} /\ seen \subseteq 1..arrived
    /\ outbound \in Seq({"text", "file"}) /\ sends \in Seq({"text", "file"})
    /\ main = "send" => sends # << >>
    /\ arrived \in 0..Messages /\ handed \in [Ids -> Nat]
    /\ owed \in Int /\ breaks \in Nat /\ forgets \in Nat
    /\ {silence, dead, cutOff, unseen} \subseteq Nat

\* A link that died is silent since then.
Dead ==
    /\ dead <= silence + 1
    /\ link = "down" => silence = 0 /\ dead = 0

\* How often a message was handed over, or is about to be.
Runs(m) == handed[m] + (IF handing = m THEN 1 ELSE 0)

\* Every run but one is paid for by a connection that broke or by the deduplicator
\* that forgot the message; and so is the first, where the connection that stands
\* has not seen it.
RunsPaidFor ==
    \A m \in Ids :
        /\ Runs(m) <= 1 + breaks + forgets
        /\ link = "down" \/ m \notin seen => Runs(m) <= breaks + forgets

FlowInv == FlowTypes /\ Dead /\ RunsPaidFor /\ LostOnlyWithItsLink

LEMMA FlowStart == FlowInit => FlowInv
<1> SUFFICES ASSUME FlowInit PROVE FlowInv
    OBVIOUS
<1>1. << >> \in Seq({"text", "file"}) /\ Len(<< >>) = 0
    BY EmptySeq
<1>2. FlowTypes
    BY <1>1, FlowAssumption DEF FlowInit, FlowTypes, Ids, None
<1>3. RunsPaidFor
    BY DEF FlowInit, RunsPaidFor, Runs, Ids, None
<1>4. LostOnlyWithItsLink
    BY <1>1 DEF FlowInit, LostOnlyWithItsLink, Uploading
<1>5. Dead
    BY DEF FlowInit, Dead
<1> QED
    BY <1>2, <1>3, <1>4, <1>5 DEF FlowInv

\* A step that hands nothing over and leaves the connection as it is.
LEMMA FlowElsewhere ==
    ASSUME FlowInv, UNCHANGED <<linkVars, arrived, handed, breaks, forgets>>,
           UNCHANGED <<outbound, owed>>,
           sends' \in Seq({"text", "file"}), main' = "send" => sends' # << >>
    PROVE  FlowInv'
<1> USE DEF linkVars, lossVars
<1>1. FlowTypes'
    BY DEF FlowInv, FlowTypes
<1>2. RunsPaidFor'
    BY DEF FlowInv, RunsPaidFor, Runs, Ids
<1>3. LostOnlyWithItsLink'
    BY DEF FlowInv, LostOnlyWithItsLink, Uploading
<1>4. Dead'
    BY DEF FlowInv, Dead
<1> QED
    BY <1>1, <1>2, <1>3, <1>4 DEF FlowInv

\* A connection that breaks pays for what it had seen and for the one text or file
\* it was sending.
LEMMA BreakPays ==
    ASSUME FlowInv, UNCHANGED <<handing, seen, arrived, handed, owed, unseen, forgets, mainVars>>,
           link # "down", NEW sending \in {0, 1}, Disconnect(sending),
           outbound' \in Seq({"text", "file"}),
           Len(outbound') + sending = Len(outbound) + Uploading
    PROVE  FlowInv'
<1> USE DEF mainVars, Disconnect
<1>1. FlowTypes'
    BY DEF FlowInv, FlowTypes
<1>2. ASSUME NEW m \in Ids PROVE Runs(m)' <= breaks' + forgets' /\ Runs(m)' \in Nat
    <2>1. handed[m] \in Nat /\ breaks \in Nat /\ forgets \in Nat
        BY DEF FlowInv, FlowTypes
    <2> QED
        BY <2>1 DEF FlowInv, RunsPaidFor, Runs
<1>3. RunsPaidFor'
    <2>1. breaks \in Nat /\ forgets \in Nat
        BY DEF FlowInv, FlowTypes
    <2> QED
        BY <1>2, <2>1 DEF RunsPaidFor, Ids
<1>4. LostOnlyWithItsLink'
    <2>1. /\ Len(outbound) \in Nat /\ Len(outbound)' \in Nat /\ Uploading \in Nat
          /\ owed \in Int /\ breaks \in Nat /\ cutOff \in Nat /\ unseen \in Nat
        BY LenProperties DEF FlowInv, FlowTypes, Uploading
    <2>2. Uploading' = 0
        BY DEF Uploading
    <2>3. owed = Len(outbound) + Uploading + cutOff + unseen /\ cutOff <= breaks
        BY DEF FlowInv, LostOnlyWithItsLink
    <2> QED
        BY <2>1, <2>2, <2>3 DEF LostOnlyWithItsLink
<1>5. Dead'
    BY DEF Dead
<1> QED
    BY <1>1, <1>3, <1>4, <1>5 DEF FlowInv

\* Texts for the adapter.
LEMMA SendsTypes ==
    /\ \A x \in {"text", "file"} : <<x>> \in Seq({"text", "file"}) /\ <<x>> # << >>
    /\ <<"text", "file">> \in Seq({"text", "file"}) /\ <<"text", "file">> # << >>
<1>1. << >> \in Seq({"text", "file"})
    BY EmptySeq
<1>2. \A x \in {"text", "file"} : <<x>> = Append(<< >>, x)
    OBVIOUS
<1>3. <<"text", "file">> = Append(<<"text">>, "file")
    OBVIOUS
<1> QED
    BY <1>1, <1>2, <1>3, AppendProperties

\* Every step keeps the invariant: those of the connection, ...
LEMMA LinkFlow ==
    ASSUME FlowInv, Connect \/ Receive \/ Break \/ LinkDies \/ HalfMinute \/ Uploaded \/ LinkStep
    PROVE  FlowInv'
<1>1. /\ link \in {"down", "up", "uploading"} /\ handing \in Ids \union {None}
      /\ seen \subseteq 1..arrived
      /\ outbound \in Seq({"text", "file"}) /\ Len(outbound) \in Nat
      /\ sends \in Seq({"text", "file"}) /\ (main = "send" => sends # << >>)
      /\ arrived \in 0..Messages /\ Messages \in Nat /\ handed \in [Ids -> Nat]
      /\ owed \in Int /\ breaks \in Nat /\ forgets \in Nat
      /\ silence \in Nat /\ dead \in Nat /\ cutOff \in Nat /\ unseen \in Nat
    BY LenProperties, FlowAssumption DEF FlowInv, FlowTypes
<1>2. ASSUME NEW m \in Ids
      PROVE  /\ handed[m] \in Nat /\ m # None
             /\ Runs(m) <= 1 + breaks + forgets
             /\ link = "down" \/ m \notin seen => Runs(m) <= breaks + forgets
    BY <1>1 DEF FlowInv, RunsPaidFor, Ids, None
<1>3. /\ owed = Len(outbound) + Uploading + cutOff + unseen /\ cutOff <= breaks
      /\ Uploading = IF link = "uploading" THEN 1 ELSE 0
    BY DEF FlowInv, LostOnlyWithItsLink, Uploading
<1>4. dead <= silence + 1 /\ (link = "down" => silence = 0 /\ dead = 0)
    BY DEF FlowInv, Dead
<1>5. CASE Connect
    <2>1. /\ link = "down" /\ link' = "up" /\ seen' = {}
          /\ UNCHANGED <<handing, silence, dead, cutOff, unseen, outbound, main, sends,
                         arrived, handed, owed, breaks, forgets>>
        BY <1>5 DEF Connect, lossVars, mainVars, boundVars
    <2>2. FlowTypes'
        BY <1>1, <2>1 DEF FlowTypes
    <2>3. RunsPaidFor'
        BY <1>1, <1>2, <2>1 DEF RunsPaidFor, Runs, Ids
    <2>4. LostOnlyWithItsLink'
        BY <1>1, <1>3, <2>1 DEF LostOnlyWithItsLink, Uploading
    <2>5. Dead'
        BY <1>1, <1>4, <2>1 DEF Dead
    <2> QED
        BY <2>2, <2>3, <2>4, <2>5 DEF FlowInv
<1>6. CASE Receive
    <2>1. PICK m \in Ids :
              /\ link # "down" /\ handing = None /\ seen' = seen \union {m}
              /\ \/ /\ m = arrived + 1 /\ arrived' = m /\ handing' = m /\ forgets' = forgets
                 \/ /\ m <= arrived /\ arrived' = arrived /\ forgets' = forgets
                    /\ handing' = (IF m \in seen THEN None ELSE m)
                 \/ /\ m \in seen /\ arrived' = arrived /\ forgets' = forgets + 1
                    /\ handing' = m
              /\ UNCHANGED <<link, lossVars, outbound, main, sends, handed, owed, breaks>>
        BY <1>6 DEF Receive, Duplicate, mainVars
    <2>2. m \in Nat /\ m >= 1 /\ m <= Messages /\ m # None
        BY <1>1 DEF Ids, None
    <2>3. FlowTypes'
        <3>1. arrived' \in 0..Messages /\ arrived <= arrived' /\ m <= arrived'
            BY <1>1, <2>1, <2>2
        <3>2. seen' \subseteq 1..arrived'
            BY <1>1, <2>1, <2>2, <3>1
        <3> QED
            BY <1>1, <2>1, <3>1, <3>2 DEF FlowTypes, lossVars
    <2>4. RunsPaidFor'
        <3> SUFFICES ASSUME NEW n \in Ids
                     PROVE  /\ Runs(n)' <= 1 + breaks' + forgets'
                            /\ link' = "down" \/ n \notin seen' => Runs(n)' <= breaks' + forgets'
            BY DEF RunsPaidFor, Ids
        <3>1. CASE n # m
            BY <1>1, <1>2, <2>1, <3>1 DEF Runs
        <3>2. CASE n = m
            <4>1. Runs(m) = handed[m]
                BY <1>2, <2>1, <2>2 DEF Runs
            <4>2. m = arrived + 1 => m \notin seen
                BY <1>1, <2>2
            <4> QED
                BY <1>1, <1>2, <2>1, <2>2, <3>2, <4>1, <4>2 DEF Runs
        <3> QED
            BY <3>1, <3>2
    <2>5. LostOnlyWithItsLink'
        BY <1>3, <2>1 DEF LostOnlyWithItsLink, Uploading, lossVars
    <2>6. Dead'
        BY <1>4, <2>1 DEF Dead, lossVars
    <2> QED
        BY <2>3, <2>4, <2>5, <2>6 DEF FlowInv
<1>7. CASE HandOver
    <2>1. /\ handing \in Ids /\ handing' = None
          /\ handed' = [handed EXCEPT ![handing] = @ + 1]
          /\ UNCHANGED <<link, seen, lossVars, outbound, main, sends, arrived, owed, breaks, forgets>>
        BY <1>1, <1>7 DEF HandOver, mainVars, boundVars
    <2>2. FlowTypes'
        BY <1>1, <2>1 DEF FlowTypes, lossVars
    <2>3. ASSUME NEW n \in Ids PROVE Runs(n)' = Runs(n)
        BY <1>1, <1>2, <2>1 DEF Runs
    <2>4. RunsPaidFor'
        BY <1>2, <2>1, <2>3 DEF RunsPaidFor, Ids
    <2>5. LostOnlyWithItsLink'
        BY <1>3, <2>1 DEF LostOnlyWithItsLink, Uploading, lossVars
    <2>6. Dead'
        BY <1>4, <2>1 DEF Dead, lossVars
    <2> QED
        BY <2>2, <2>4, <2>5, <2>6 DEF FlowInv
<1>8. CASE LinkDies \/ HalfMinute
    <2>1. /\ link # "down" /\ {silence', dead'} \subseteq Nat /\ dead' <= silence' + 1
          /\ UNCHANGED <<link, handing, seen, cutOff, unseen, outbound, main, sends, arrived,
                         handed, owed, breaks, forgets>>
        BY <1>1, <1>4, <1>8 DEF LinkDies, HalfMinute, Elapsed, mainVars, boundVars
    <2>2. FlowTypes'
        BY <1>1, <2>1 DEF FlowTypes
    <2>3. RunsPaidFor'
        BY <1>2, <2>1 DEF RunsPaidFor, Runs, Ids
    <2>4. LostOnlyWithItsLink'
        BY <1>3, <2>1 DEF LostOnlyWithItsLink, Uploading
    <2>5. Dead'
        BY <2>1 DEF Dead
    <2> QED
        BY <2>2, <2>3, <2>4, <2>5 DEF FlowInv
<1>9. CASE Break
    <2>1. Uploading \in {0, 1} /\ Len(outbound) + Uploading = Len(outbound) + Uploading
        BY <1>3
    <2> QED
        BY <1>1, <1>9, <2>1, BreakPays DEF Break, AfterBreak
<1>10. CASE GiveUp
    <2>1. Len(outbound) + 0 = Len(outbound) + Uploading
        BY <1>1, <1>3, <1>10 DEF GiveUp
    <2> QED
        BY <1>1, <1>10, <2>1, BreakPays DEF GiveUp, AfterBreak
<1>11. CASE Transmit
    <2>1. PICK rest : rest = Tail(outbound)
        OBVIOUS
    <2>2. rest \in Seq({"text", "file"}) /\ Len(rest) \in Nat /\ Len(rest) + 1 = Len(outbound)
        BY <1>1, <1>11, <2>1, HeadTailProperties, LenProperties DEF Transmit
    <2>3. /\ link = "up" /\ silence < 4 /\ outbound' = rest
          /\ UNCHANGED <<handing, seen, mainVars, arrived, handed, forgets>>
          /\ \/ /\ IF dead = 0 THEN owed' = owed - 1 /\ unseen' = unseen
                                ELSE /\ unseen' = unseen + (IF dead <= 4 THEN 1 ELSE 0)
                                     /\ owed' = owed
                /\ UNCHANGED <<link, silence, dead, cutOff, breaks>>
             \/ link' = "uploading" /\ UNCHANGED <<silence, dead, cutOff, unseen, owed, breaks>>
             \/ Disconnect(1) /\ UNCHANGED <<owed, unseen>>
        BY <1>1, <1>11, <2>1 DEF Transmit, Overdue, IsNoticed, lossVars
    <2>4. CASE Disconnect(1) /\ UNCHANGED <<owed, unseen>>
        <3>1. Len(rest) + 1 = Len(outbound) + Uploading
            BY <1>1, <1>3, <2>2, <2>3
        <3> QED
            BY <2>2, <2>3, <2>4, <3>1, BreakPays
    <2>5. CASE link' = "uploading" /\ UNCHANGED <<silence, dead, cutOff, unseen, owed, breaks>>
        <3>1. FlowTypes'
            BY <1>1, <2>2, <2>3, <2>5 DEF FlowTypes, mainVars
        <3>2. RunsPaidFor'
            BY <1>2, <2>3, <2>5 DEF RunsPaidFor, Runs, Ids
        <3>3. LostOnlyWithItsLink'
            BY <1>1, <1>3, <2>2, <2>3, <2>5 DEF LostOnlyWithItsLink, Uploading
        <3>4. Dead'
            BY <1>4, <2>5 DEF Dead
        <3> QED
            BY <3>1, <3>2, <3>3, <3>4 DEF FlowInv
    <2>6. CASE /\ IF dead = 0 THEN owed' = owed - 1 /\ unseen' = unseen
                              ELSE /\ unseen' = unseen + (IF dead <= 4 THEN 1 ELSE 0)
                                   /\ owed' = owed
               /\ UNCHANGED <<link, silence, dead, cutOff, breaks>>
        <3>1. \/ owed' = owed - 1 /\ unseen' = unseen
              \/ owed' = owed /\ unseen' = unseen + 1
            BY <1>1, <1>4, <2>3, <2>6
        <3>2. FlowTypes'
            BY <1>1, <2>2, <2>3, <2>6, <3>1 DEF FlowTypes, mainVars
        <3>3. RunsPaidFor'
            BY <1>2, <2>3, <2>6 DEF RunsPaidFor, Runs, Ids
        <3>4. LostOnlyWithItsLink'
            <4>1. Uploading = 0 /\ Uploading' = 0
                BY <2>3, <2>6 DEF Uploading
            <4>2. Len(outbound') + 1 = Len(outbound) /\ cutOff' = cutOff /\ breaks' = breaks
                BY <2>2, <2>3, <2>6
            <4>3. Len(outbound') \in Nat
                BY <2>2, <2>3
            <4>4. owed = Len(outbound) + cutOff + unseen
                BY <1>1, <1>3, <4>1
            <4>5. owed' = Len(outbound') + cutOff' + unseen'
                <5>1. owed \in Int /\ cutOff \in Nat /\ unseen \in Nat
                    BY <1>1
                <5>2. CASE owed' = owed - 1 /\ unseen' = unseen
                    BY <4>2, <4>3, <4>4, <5>1, <5>2
                <5>3. CASE owed' = owed /\ unseen' = unseen + 1
                    BY <4>2, <4>3, <4>4, <5>1, <5>3
                <5> QED
                    BY <3>1, <5>2, <5>3
            <4> QED
                BY <1>1, <1>3, <4>1, <4>2, <4>3, <4>5, <3>2 DEF LostOnlyWithItsLink, FlowTypes
        <3>5. Dead'
            BY <1>4, <2>6 DEF Dead
        <3> QED
            BY <3>2, <3>3, <3>4, <3>5 DEF FlowInv
    <2> QED
        BY <2>3, <2>4, <2>5, <2>6
<1>12. CASE Uploaded
    <2>1. /\ link = "uploading" /\ link' = "up" /\ dead = 0
          /\ \/ owed' = owed - 1 /\ dead' = 0 /\ unseen' = unseen
             \/ owed' = owed /\ dead' = 1 /\ unseen' = unseen + 1
          /\ UNCHANGED <<handing, seen, silence, cutOff, outbound, main, sends, arrived, handed,
                         breaks, forgets>>
        BY <1>12 DEF Uploaded, mainVars, boundVars
    <2>2. FlowTypes'
        BY <1>1, <2>1 DEF FlowTypes
    <2>3. RunsPaidFor'
        BY <1>2, <2>1 DEF RunsPaidFor, Runs, Ids
    <2>4. LostOnlyWithItsLink'
        BY <1>1, <1>3, <2>1 DEF LostOnlyWithItsLink, Uploading
    <2>5. Dead'
        BY <1>1, <2>1 DEF Dead
    <2> QED
        BY <2>2, <2>3, <2>4, <2>5 DEF FlowInv
<1>13. CASE UploadFails
    <2>1. Len(outbound) + 1 = Len(outbound) + Uploading
        BY <1>3, <1>13 DEF UploadFails
    <2> QED
        BY <1>1, <1>13, <2>1, BreakPays DEF UploadFails
<1> QED
    BY <1>5, <1>6, <1>7, <1>8, <1>9, <1>10, <1>11, <1>12, <1>13 DEF LinkStep

\* ... of the main loop, ...
LEMMA MainFlow ==
    ASSUME FlowInv, MainStep \/ TakeScheduled \/ TakeFile
    PROVE  FlowInv'
<1>1. /\ outbound \in Seq({"text", "file"}) /\ Len(outbound) \in Nat
      /\ sends \in Seq({"text", "file"}) /\ (main = "send" => sends # << >>)
      /\ owed \in Int /\ breaks \in Nat /\ cutOff \in Nat /\ unseen \in Nat
      /\ Uploading \in Nat
    BY LenProperties DEF FlowInv, FlowTypes, Uploading
<1>2. CASE SendOut
    <2>1. PICK text, rest : text = Head(sends) /\ rest = Tail(sends)
        OBVIOUS
    <2>2. text \in {"text", "file"} /\ rest \in Seq({"text", "file"})
        BY <1>1, <1>2, <2>1, HeadTailProperties DEF SendOut
    <2>3. /\ outbound' = Append(outbound, text) /\ owed' = owed + 1 /\ sends' = rest
          /\ main' = IF rest = << >> THEN "select" ELSE "send"
          /\ UNCHANGED <<link, handing, seen, silence, dead, cutOff, unseen, arrived, handed,
                         breaks, forgets>>
        BY <1>2, <2>1 DEF SendOut, linkVars, lossVars, boundVars
    <2>4. outbound' \in Seq({"text", "file"}) /\ Len(outbound') = Len(outbound) + 1
        BY <1>1, <2>2, <2>3, AppendProperties
    <2>5. FlowTypes'
        BY <1>1, <2>2, <2>3, <2>4 DEF FlowInv, FlowTypes
    <2>6. RunsPaidFor'
        BY <2>3 DEF FlowInv, RunsPaidFor, Runs, Ids
    <2>7. LostOnlyWithItsLink'
        <3>1. Uploading' = Uploading
            BY <2>3 DEF Uploading
        <3> QED
            BY <1>1, <2>3, <2>4, <3>1 DEF FlowInv, LostOnlyWithItsLink
    <2>8. Dead'
        BY <2>3 DEF FlowInv, Dead
    <2> QED
        BY <2>5, <2>6, <2>7, <2>8 DEF FlowInv
<1>3. CASE TakeInbound \/ TakeReply \/ TakeNotice \/ Offer \/ TakeScheduled
    <2>1. /\ UNCHANGED <<linkVars, arrived, handed, breaks, forgets>> /\ UNCHANGED <<outbound, owed>>
          /\ \/ main' # "send" /\ UNCHANGED sends
             \/ main' = "send" /\ sends' = <<"text">>
        BY <1>3 DEF TakeInbound, TakeReply, TakeNotice, Offer, TakeScheduled, boundVars
    <2> QED
        BY <1>1, <2>1, SendsTypes, FlowElsewhere
<1>4. CASE TakeFile
    <2>1. /\ UNCHANGED <<linkVars, arrived, handed, breaks, forgets>> /\ UNCHANGED <<outbound, owed>>
          /\ sends' = <<"file">> \/ sends' = <<"text", "file">>
        BY <1>4 DEF TakeFile
    <2> QED
        BY <2>1, SendsTypes, FlowElsewhere
<1> QED
    BY <1>2, <1>3, <1>4 DEF MainStep

\* ... and of the workers.
LEMMA FlowStep == FlowInv /\ [FlowNext]_flowVars => FlowInv'
<1> SUFFICES ASSUME FlowInv, [FlowNext]_flowVars PROVE FlowInv'
    OBVIOUS
<1>1. CASE Connect \/ Receive \/ Break \/ LinkDies \/ HalfMinute \/ Uploaded \/ LinkStep
    BY <1>1, LinkFlow
<1>2. CASE MainStep \/ TakeScheduled \/ TakeFile
    BY <1>2, MainFlow
<1>3. CASE IngressStep \/ WorkerStep \/ Remind \/ UNCHANGED flowVars
    <2>1. /\ UNCHANGED <<linkVars, arrived, handed, breaks, forgets>> /\ UNCHANGED <<outbound, owed>>
          /\ UNCHANGED mainVars
        BY <1>3 DEF IngressStep, IngressTakes, Forward, WorkerStep, WorkerTakes, Welcome, TurnEnds,
                    Reply, Remind, flowVars, boundVars
    <2>2. sends \in Seq({"text", "file"}) /\ (main = "send" => sends # << >>)
        BY DEF FlowInv, FlowTypes
    <2> QED
        BY <2>1, <2>2, FlowElsewhere DEF mainVars
<1> QED
    BY <1>1, <1>2, <1>3 DEF FlowNext

\* What is lost on its way to WeCom: of every connection that ended the one text or
\* file it was sending, and what it wrote to a link that had died less than two
\* minutes before (last_recv and PONG_TIMEOUT in wecom.rs), for any capacities and
\* any number of messages, dead links, breaks, uploads and reminders.
THEOREM LostWithTheLink == FlowSpec => []LostOnlyWithItsLink
<1>1. FlowInv => LostOnlyWithItsLink
    BY DEF FlowInv
<1> QED
    BY <1>1, FlowStart, FlowStep, PTL DEF FlowSpec

-----------------------------------------------------------------------------
(***************************************************************************)
(* WeixinPoll.  The argument: a message is in the inbox or was taken once  *)
(* for each time the deduplicator did not know it, and it knows what it    *)
(* let pass until a restart or until it forgets (PassesPaidFor).           *)
(***************************************************************************)

PollTypes ==
    /\ {posted, cursor, stored} \subseteq 0..Posts
    /\ updates \in Seq(Posted) /\ inbox \in Seq(Posted) /\ known \subseteq Posted
    /\ taken \in [Posted -> Nat] /\ restarts \in Nat /\ forgotten \in Nat

\* The places of a message in the inbox, and how often it passed.
Places(s, m) == {i \in 1 .. Len(s) : s[i] = m}
PlacesOf(m) == Places(inbox, m)
Passes(m) == taken[m] + Cardinality(PlacesOf(m))

PassesPaidFor ==
    \A m \in Posted :
        /\ Passes(m) <= 1 + restarts + forgotten
        /\ m \notin known => Passes(m) <= restarts + forgotten

PollInv == PollTypes /\ PassesPaidFor

\* Finitely many places.
LEMMA PlacesFinite ==
    ASSUME NEW m, NEW s \in Seq(Posted)
    PROVE  IsFiniteSet(Places(s, m)) /\ Cardinality(Places(s, m)) \in Nat
<1>1. Len(s) \in Nat
    BY LenProperties
<1>2. IsFiniteSet(1 .. Len(s))
    BY <1>1, FS_Interval
<1>3. Places(s, m) \subseteq 1 .. Len(s)
    BY DEF Places
<1> QED
    BY <1>2, <1>3, FS_Subset, FS_CardinalityType

\* The places of m when x is appended.
LEMMA PlacesAppend ==
    ASSUME NEW m, NEW x \in Posted, NEW s \in Seq(Posted)
    PROVE  Cardinality(Places(Append(s, x), m))
              = Cardinality(Places(s, m)) + (IF x = m THEN 1 ELSE 0)
<1>1. PICK t : t = Append(s, x)
    OBVIOUS
<1>2. /\ Len(s) \in Nat /\ Len(t) = Len(s) + 1 /\ t[Len(s) + 1] = x
      /\ \A i \in 1 .. Len(s) : t[i] = s[i]
    BY <1>1, LenProperties, AppendProperties
<1>3. IsFiniteSet(Places(s, m)) /\ Cardinality(Places(s, m)) \in Nat
    BY PlacesFinite
<1>4. CASE x = m
    <2>1. Places(t, m) = Places(s, m) \union {Len(s) + 1} /\ Len(s) + 1 \notin Places(s, m)
        BY <1>2, <1>4 DEF Places
    <2>2. Cardinality(Places(t, m)) = Cardinality(Places(s, m)) + 1
        BY <1>3, <2>1, FS_AddElement
    <2> QED
        BY <1>1, <1>4, <2>2
<1>5. CASE x # m
    <2>1. Places(t, m) = Places(s, m)
        BY <1>2, <1>5 DEF Places
    <2> QED
        BY <1>1, <1>3, <1>5, <2>1
<1> QED
    BY <1>4, <1>5

\* The places of m when the head is taken.
LEMMA PlacesTail ==
    ASSUME NEW m, NEW s \in Seq(Posted), s # << >>
    PROVE  Cardinality(Places(s, m))
              = Cardinality(Places(Tail(s), m)) + (IF Head(s) = m THEN 1 ELSE 0)
<1>1. PICK t : t = Tail(s)
    OBVIOUS
<1>2. /\ t \in Seq(Posted) /\ Len(s) \in Nat /\ Len(t) \in Nat /\ Len(s) = Len(t) + 1
      /\ \A i \in 1 .. Len(t) : t[i] = s[i + 1]
      /\ s[1] = Head(s)
    BY <1>1, LenProperties, HeadTailProperties
<1> DEFINE later == {i \in 2 .. Len(s) : s[i] = m}
<1>3. IsFiniteSet(Places(t, m)) /\ Cardinality(Places(t, m)) \in Nat
    BY <1>2, PlacesFinite
<1>4. Cardinality(later) = Cardinality(Places(t, m)) /\ IsFiniteSet(later)
    <2> DEFINE shift == [i \in Places(t, m) |-> i + 1]
    <2>1. shift \in [Places(t, m) -> later]
        BY <1>2 DEF Places
    <2>2. \A i, j \in Places(t, m) : shift[i] = shift[j] => i = j
        BY DEF Places
    <2>3. \A j \in later : \E i \in Places(t, m) : shift[i] = j
        <3>1. \A j \in later : j - 1 \in Places(t, m) /\ shift[j - 1] = j
            BY <1>2 DEF Places
        <3> QED
            BY <3>1
    <2> HIDE DEF shift, later
    <2>4. shift \in Bijection(Places(t, m), later)
        BY <2>1, <2>2, <2>3 DEF Bijection, Injection, Surjection, IsInjective
    <2>5. ExistsBijection(Places(t, m), later)
        BY <2>4 DEF ExistsBijection
    <2> QED
        BY <1>3, <2>5, FS_Bijection
<1>5. CASE Head(s) = m
    <2>1. Places(s, m) = later \union {1} /\ 1 \notin later
        BY <1>2, <1>5 DEF Places
    <2> HIDE DEF later
    <2>2. Cardinality(Places(s, m)) = Cardinality(later) + 1
        BY <1>4, <2>1, FS_AddElement
    <2> QED
        BY <1>1, <1>3, <1>4, <1>5, <2>2
<1>6. CASE Head(s) # m
    <2>1. Places(s, m) = later
        BY <1>2, <1>6 DEF Places
    <2> HIDE DEF later
    <2> QED
        BY <1>1, <1>3, <1>4, <1>6, <2>1
<1> QED
    BY <1>5, <1>6

LEMMA PollStart == PollInit => PollInv
<1> SUFFICES ASSUME PollInit PROVE PollInv
    OBVIOUS
<1>1. << >> \in Seq(Posted) /\ Len(<< >>) = 0
    BY EmptySeq
<1>2. PollTypes
    BY <1>1, PollAssumption DEF PollInit, PollTypes
<1>3. ASSUME NEW m \in Posted PROVE Passes(m) = 0
    <2>1. PlacesOf(m) = {}
        BY <1>1 DEF PollInit, PlacesOf, Places
    <2> QED
        BY <2>1, FS_EmptySet DEF PollInit, Passes
<1>4. PassesPaidFor
    BY <1>3 DEF PollInit, PassesPaidFor
<1> QED
    BY <1>2, <1>4 DEF PollInv

\* A step that neither passes a message nor takes one.
LEMMA PollElsewhere ==
    ASSUME PollInv, UNCHANGED <<known, inbox, taken, restarts, forgotten>>,
           {posted', cursor', stored'} \subseteq 0..Posts, updates' \in Seq(Posted)
    PROVE  PollInv'
<1>1. PollTypes'
    BY DEF PollInv, PollTypes
<1>2. PassesPaidFor'
    <2>1. \A m : Passes(m)' = Passes(m)
        BY DEF Passes, PlacesOf
    <2> QED
        BY <2>1 DEF PollInv, PassesPaidFor
<1> QED
    BY <1>1, <1>2 DEF PollInv

\* What a response holds was posted.
LEMMA FromType ==
    ASSUME NEW a \in 0..Posts, NEW b \in (a + 1)..Posts
    PROVE  From(a, b) \in Seq(Posted)
<1>1. Posts \in Nat /\ a \in Nat /\ b \in Nat /\ b - a \in Nat /\ b <= Posts
    BY PollAssumption
<1>2. \A i \in 1..(b - a) : a + i \in Posted
    BY <1>1 DEF Posted
<1> QED
    BY <1>1, <1>2 DEF From

\* Every step keeps the invariant.
LEMMA PollStepKeeps == PollInv /\ [PollNext]_pollVars => PollInv'
<1> SUFFICES ASSUME PollInv, [PollNext]_pollVars PROVE PollInv'
    OBVIOUS
<1>1. /\ posted \in 0..Posts /\ cursor \in 0..Posts /\ stored \in 0..Posts /\ Posts \in Nat
      /\ updates \in Seq(Posted) /\ inbox \in Seq(Posted) /\ known \subseteq Posted
      /\ taken \in [Posted -> Nat] /\ restarts \in Nat /\ forgotten \in Nat
    BY PollAssumption DEF PollInv, PollTypes
<1>2. ASSUME NEW m \in Posted
      PROVE  /\ taken[m] \in Nat /\ Cardinality(PlacesOf(m)) \in Nat
             /\ Passes(m) = taken[m] + Cardinality(PlacesOf(m))
             /\ Passes(m) <= 1 + restarts + forgotten
             /\ m \notin known => Passes(m) <= restarts + forgotten
    BY <1>1, PlacesFinite DEF PollInv, PassesPaidFor, PlacesOf, Passes
<1>3. CASE Post
    BY <1>1, <1>3, PollElsewhere DEF Post
<1>4. CASE PollUpdates
    <2>1. PICK buf \in (cursor + 1)..posted :
              /\ cursor' \in {cursor, buf}
              /\ updates' \in {updates, From(cursor, buf)}
        BY <1>4 DEF PollUpdates, AfterError
    <2>2. buf \in (cursor + 1)..Posts
        BY <1>1
    <2>3. From(cursor, buf) \in Seq(Posted) /\ buf \in 0..Posts
        BY <1>1, <2>2, FromType
    <2> QED
        BY <1>1, <1>4, <2>1, <2>3, PollElsewhere DEF PollUpdates
<1>5. CASE SaveCursor
    BY <1>1, <1>5, PollElsewhere DEF SaveCursor
<1>6. CASE HandUpdate
    <2>1. PICK m, rest : m = Head(updates) /\ rest = Tail(updates)
        OBVIOUS
    <2>2. m \in Posted /\ rest \in Seq(Posted)
        BY <1>1, <1>6, <2>1, HeadTailProperties DEF HandUpdate
    <2>3. /\ updates' = rest
          /\ UNCHANGED <<posted, cursor, stored, taken, restarts>>
          /\ \/ UNCHANGED <<known, inbox, forgotten>>
             \/ /\ known' = known \union {m}
                /\ \/ m \notin known /\ forgotten' = forgotten
                   \/ m \in known /\ forgotten' = forgotten + 1
                /\ \/ inbox' = Append(inbox, m)
                   \/ inbox' = inbox
        BY <1>6, <2>1 DEF HandUpdate, Known
    <2>4. CASE UNCHANGED <<known, inbox, forgotten>>
        BY <1>1, <2>2, <2>3, <2>4, PollElsewhere
    <2>5. CASE ~UNCHANGED <<known, inbox, forgotten>>
        <3>1. /\ known' = known \union {m}
              /\ \/ m \notin known /\ forgotten' = forgotten
                 \/ m \in known /\ forgotten' = forgotten + 1
              /\ inbox' = Append(inbox, m) \/ inbox' = inbox
            BY <2>3, <2>5
        <3>2. Append(inbox, m) \in Seq(Posted)
            BY <1>1, <2>2, AppendProperties
        <3>3. PollTypes'
            <4>1. inbox' \in Seq(Posted)
                <5>1. CASE inbox' = inbox
                    BY <1>1, <5>1
                <5>2. CASE inbox' = Append(inbox, m)
                    BY <3>2, <5>2
                <5> QED
                    BY <3>1, <5>1, <5>2
            <4>2. known' \subseteq Posted /\ forgotten' \in Nat
                BY <1>1, <2>2, <3>1
            <4> QED
                BY <1>1, <2>2, <2>3, <4>1, <4>2 DEF PollTypes
        <3>4. ASSUME NEW n \in Posted
              PROVE  /\ Passes(n)' \in Nat /\ Passes(n) \in Nat
                     /\ Passes(n)' <= Passes(n) + (IF n = m THEN 1 ELSE 0)
            <4>1. Cardinality(PlacesOf(n)') \in Nat
                  /\ Cardinality(PlacesOf(n)') <= Cardinality(PlacesOf(n)) + (IF n = m THEN 1 ELSE 0)
                <5>1. CASE inbox' = inbox
                    <6>1. PlacesOf(n)' = PlacesOf(n)
                        BY <5>1 DEF PlacesOf
                    <6> QED
                        BY <1>2, <6>1
                <5>2. CASE inbox' = Append(inbox, m)
                    <6>1. Cardinality(PlacesOf(n)')
                             = Cardinality(PlacesOf(n)) + (IF m = n THEN 1 ELSE 0)
                        BY <1>1, <2>2, <5>2, PlacesAppend DEF PlacesOf
                    <6> QED
                        BY <1>2, <6>1
                <5> QED
                    BY <3>1, <5>1, <5>2
            <4>2. taken'[n] = taken[n] /\ Passes(n)' = taken'[n] + Cardinality(PlacesOf(n)')
                BY <2>3 DEF Passes
            <4> QED
                BY <1>2, <4>1, <4>2
        <3>5. PassesPaidFor'
            <4> SUFFICES ASSUME NEW n \in Posted
                         PROVE  /\ Passes(n)' <= 1 + restarts' + forgotten'
                                /\ n \notin known' => Passes(n)' <= restarts' + forgotten'
                BY DEF PassesPaidFor
            <4> QED
                BY <1>1, <1>2, <2>3, <3>1, <3>4
        <3> QED
            BY <3>3, <3>5 DEF PollInv
    <2> QED
        BY <2>4, <2>5
<1>7. CASE PollEnds
    BY <1>1, <1>7, PollElsewhere DEF PollEnds
<1>8. CASE TakeUpdate
    <2>1. PICK m, rest : m = Head(inbox) /\ rest = Tail(inbox)
        OBVIOUS
    <2>2. m \in Posted /\ rest \in Seq(Posted)
        BY <1>1, <1>8, <2>1, HeadTailProperties DEF TakeUpdate
    <2>3. /\ taken' = [taken EXCEPT ![m] = @ + 1] /\ inbox' = rest
          /\ UNCHANGED <<posted, cursor, stored, updates, known, restarts, forgotten>>
        BY <1>8, <2>1 DEF TakeUpdate
    <2>4. PollTypes'
        BY <1>1, <2>2, <2>3 DEF PollTypes
    <2>5. ASSUME NEW n \in Posted PROVE Passes(n)' = Passes(n)
        <3>1. Cardinality(PlacesOf(n))
                 = Cardinality(PlacesOf(n)') + (IF m = n THEN 1 ELSE 0)
            BY <1>1, <1>8, <2>1, <2>3, PlacesTail DEF PlacesOf, TakeUpdate
        <3>2. Cardinality(PlacesOf(n)') \in Nat
            BY <2>2, <2>3, PlacesFinite DEF PlacesOf
        <3>3. taken'[n] = taken[n] + (IF m = n THEN 1 ELSE 0)
            BY <1>1, <2>3
        <3>4. Passes(n)' = taken'[n] + Cardinality(PlacesOf(n)')
            BY DEF Passes
        <3> QED
            BY <1>2, <3>1, <3>2, <3>3, <3>4
    <2>6. PassesPaidFor'
        BY <1>2, <2>3, <2>5 DEF PassesPaidFor
    <2> QED
        BY <2>4, <2>6 DEF PollInv
<1>9. CASE Restart
    <2>1. /\ restarts' = restarts + 1 /\ cursor' \in {stored, 0}
          /\ updates' = << >> /\ known' = {} /\ inbox' = << >>
          /\ UNCHANGED <<posted, stored, taken, forgotten>>
        BY <1>9 DEF Restart
    <2>2. << >> \in Seq(Posted) /\ Len(<< >>) = 0
        BY EmptySeq
    <2>3. PollTypes'
        BY <1>1, <2>1, <2>2 DEF PollTypes
    <2>4. ASSUME NEW n \in Posted PROVE Passes(n)' = taken[n]
        <3>1. PlacesOf(n)' = {}
            BY <2>1, <2>2 DEF PlacesOf, Places
        <3>2. Cardinality(PlacesOf(n)') = 0
            BY <3>1, FS_EmptySet
        <3>3. Passes(n)' = taken'[n] + Cardinality(PlacesOf(n)')
            BY DEF Passes
        <3> QED
            BY <1>2, <2>1, <3>2, <3>3
    <2>5. PassesPaidFor'
        <3> SUFFICES ASSUME NEW n \in Posted
                     PROVE  /\ Passes(n)' <= 1 + restarts' + forgotten'
                            /\ n \notin known' => Passes(n)' <= restarts' + forgotten'
            BY DEF PassesPaidFor
        <3> QED
            BY <1>1, <1>2, <2>1, <2>4
    <2> QED
        BY <2>3, <2>5 DEF PollInv
<1>10. CASE UNCHANGED pollVars
    BY <1>1, <1>10, PollElsewhere DEF pollVars
<1> QED
    BY <1>3, <1>4, <1>5, <1>6, <1>7, <1>8, <1>9, <1>10 DEF PollNext, PollStep

-----------------------------------------------------------------------------
(* The tasks together. *)

\* No message that a server repeats runs twice on one connection or in one process,
\* unless the deduplicator forgot it (DedupFilter in dedup.rs), for any number of
\* messages, connections, restarts and repetitions.
THEOREM NothingRunsTwice == TasksSpec => []NoneRunsTwice
<1>1. TasksInit => FlowInv /\ PollInv
    BY FlowStart, PollStart DEF TasksInit
<1>2. FlowInv /\ PollInv /\ [TasksNext]_<<moving, flowVars, vars, pollVars>> => (FlowInv /\ PollInv)'
    <2> SUFFICES ASSUME FlowInv, PollInv, [TasksNext]_<<moving, flowVars, vars, pollVars>>
                 PROVE  FlowInv' /\ PollInv'
        OBVIOUS
    <2>1. [FlowNext]_flowVars /\ [PollNext]_pollVars
        BY DEF TasksNext
    <2> QED
        BY <2>1, FlowStep, PollStepKeeps
<1>3. FlowInv /\ PollInv => NoneRunsTwice
    <2> SUFFICES ASSUME FlowInv, PollInv PROVE NoneRunsTwice
        OBVIOUS
    <2>1. RunsOncePerLink
        <3> SUFFICES ASSUME NEW m \in Ids PROVE handed[m] <= 1 + breaks + forgets
            BY DEF RunsOncePerLink
        <3>1. handed[m] \in Nat /\ breaks \in Nat /\ forgets \in Nat
            BY DEF FlowInv, FlowTypes
        <3> QED
            BY <3>1 DEF FlowInv, RunsPaidFor, Runs
    <2>2. TakenOncePerStart
        <3> SUFFICES ASSUME NEW m \in Posted PROVE taken[m] <= 1 + restarts + forgotten
            BY DEF TakenOncePerStart
        <3>1. taken[m] \in Nat /\ restarts \in Nat /\ forgotten \in Nat
            BY DEF PollInv, PollTypes
        <3>2. Cardinality(PlacesOf(m)) \in Nat
            BY PlacesFinite DEF PollInv, PollTypes, PlacesOf
        <3> QED
            BY <3>1, <3>2 DEF PollInv, PassesPaidFor, Passes
    <2> QED
        BY <2>1, <2>2 DEF NoneRunsTwice
<1> QED
    BY <1>1, <1>2, <1>3, PTL DEF TasksSpec
================================================================================
