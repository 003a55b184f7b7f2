----------------------------- MODULE UsageLedger -----------------------------
(***************************************************************************)
(* What the turns on one Claude process are charged (take_last_result,     *)
(* normalize_claude_pool_usage, finalize_attempt).                         *)
(*                                                                         *)
(* Claude reports with each result what the process used so far; the pool  *)
(* keeps the last report and charges the difference.  A result that comes  *)
(* after its turn gave up is dropped by the next turn, or taken as its     *)
(* own.  One token counter stands for the four; cost is counted apart.     *)
(*                                                                         *)
(* Of Claude it is assumed that results carry modelUsage; only one that    *)
(* reports a failed request may lack it.                                   *)
(***************************************************************************)
EXTENDS Naturals

CONSTANTS MaxTurns, MaxUse, MaxResets   \* bounds

ASSUME LedgerAssumption == {MaxTurns, MaxUse, MaxResets} \subseteq Nat

Counters == {"tokens", "cost"}
Zero == [f \in Counters |-> 0]
NoReport == [kind |-> "none"]
Kinds == {"success", "failed", "interrupted"}

VARIABLES
    counter,    \* what Claude reports as used by the process
    used,       \* what it did use
    snapshot,   \* last_usage_snapshot: {} or one report
    lastResult, \* the slot last_result
    asked,      \* turns Claude has yet to answer
    turn,       \* "none" or "open"
    charged,    \* recorded for the turns on this process
    inexact,    \* a counter was reset, or a failing first report forgave something
    caughtUp,   \* no use since a report was charged
    turns, resets

ledgerVars ==
    <<counter, used, snapshot, lastResult, asked, turn, charged, inexact, caughtUp,
      turns, resets>>

LedgerInit ==
    /\ counter = Zero /\ used = Zero /\ snapshot = {} /\ lastResult = NoReport
    /\ asked = 0 /\ turn = "none" /\ charged = Zero
    /\ inexact = FALSE /\ caughtUp = TRUE
    /\ turns = 0 /\ resets = 0

StartTurn ==
    /\ turn = "none" /\ turns < MaxTurns
    /\ turn' = "open" /\ turns' = turns + 1
    /\ lastResult' = NoReport
    /\ asked' = asked + 1
    /\ UNCHANGED <<counter, used, snapshot, charged, inexact, caughtUp, resets>>

\* A failed request used nothing of its own.  Counters may start again, one by one.
Answer(kind, n, whole, again) ==
    LET now == [f \in Counters |-> (IF f \in again THEN 0 ELSE counter[f]) + n]
    IN  /\ asked > 0 /\ asked' = asked - 1
        /\ kind = "failed" => n = 0
        /\ ~whole => kind = "failed"
        /\ again # {} => resets < MaxResets
        /\ resets' = IF again = {} THEN resets ELSE resets + 1
        /\ inexact' = (inexact \/ again # {})
        /\ counter' = now
        /\ used' = [f \in Counters |-> used[f] + n]
        /\ caughtUp' = (caughtUp /\ n = 0)
        /\ lastResult' = [kind |-> kind, own |-> n,
                          report |-> IF whole THEN now ELSE [now EXCEPT !["tokens"] = n]]
        /\ UNCHANGED <<snapshot, charged, turn, turns>>

\* normalize_claude_pool_usage
FailedWithoutUse(r) == r.kind = "failed" /\ r.own = 0

Difference_Whole(r) ==
    IF snapshot = {} \/ \E old \in snapshot, f \in Counters : r.report[f] < old[f]
    THEN r.report
    ELSE LET old == CHOOSE o \in snapshot : TRUE
         IN  [f \in Counters |-> r.report[f] - old[f]]
Difference(r) ==
    IF snapshot = {} THEN r.report
    ELSE LET old == CHOOSE o \in snapshot : TRUE
         IN  [f \in Counters |-> IF r.report[f] >= old[f] THEN r.report[f] - old[f]
                                                           ELSE r.report[f]]
Delta(r) == IF FailedWithoutUse(r) THEN Zero ELSE Difference(r)

Baseline_OfAny(r) == {r.report}
Baseline(r) == IF FailedWithoutUse(r) /\ snapshot # {} THEN snapshot ELSE {r.report}

\* A turn that failed without tokens costs nothing.
Recorded(r) ==
    IF r.kind # "success" /\ Delta(r)["tokens"] = 0
    THEN [Delta(r) EXCEPT !["cost"] = 0] ELSE Delta(r)

\* The turn takes what is in the slot, if anything, and its attempt is recorded.
TakeResult ==
    LET r == lastResult
    IN  /\ turn = "open" /\ turn' = "none"
        /\ lastResult' = NoReport
        /\ IF r = NoReport
           THEN UNCHANGED <<snapshot, charged, inexact, caughtUp>>
           ELSE /\ snapshot' = Baseline(r)
                /\ charged' = [f \in Counters |-> charged[f] + Recorded(r)[f]]
                /\ inexact' = (inexact \/ (FailedWithoutUse(r) /\ snapshot = {} /\ used # Zero))
                /\ caughtUp' = (caughtUp \/ ~FailedWithoutUse(r))
        /\ UNCHANGED <<counter, used, asked, turns, resets>>

\* Another process begins with nothing.
NewProcess ==
    /\ used # Zero
    /\ counter' = Zero /\ used' = Zero /\ snapshot' = {} /\ lastResult' = NoReport
    /\ asked' = 0 /\ turn' = "none" /\ charged' = Zero
    /\ inexact' = FALSE /\ caughtUp' = TRUE
    /\ UNCHANGED <<turns, resets>>

LedgerNext ==
    \/ StartTurn \/ TakeResult \/ NewProcess
    \/ \E kind \in Kinds, n \in 0..MaxUse, whole \in BOOLEAN, again \in SUBSET Counters :
          Answer(kind, n, whole, again)

LedgerSpec == LedgerInit /\ [][LedgerNext]_ledgerVars

-----------------------------------------------------------------------------
(* Properties. *)

\* Nothing is charged twice, whatever results are lost, late, failing or counted from
\* zero again; and once a result that reports use is taken, everything the process
\* used is charged, the turns whose results were lost included.
ChargedOnce ==
    /\ \A f \in Counters : charged[f] <= used[f]
    /\ caughtUp /\ ~inexact => charged = used
=============================================================================
