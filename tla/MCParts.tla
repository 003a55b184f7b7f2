---------------------------- MODULE MCParts -------------------------------
(* Instances of the gateway's small parts.  A behaviour moves one           *)
(* of them, the others stay in one of their initial states.                  *)
EXTENDS CronClock, MCSplit, StreamFilters, TraceRepository, TurnSettings, UsageLedger

VARIABLE moving

Star == <<[kind |-> "any", slash |-> NoSlash]>>
Step(n) == <<[kind |-> "any", slash |-> n]>>
At(n) == <<[kind |-> "at", n |-> n, slash |-> NoSlash]>>
From(a, b) == <<[kind |-> "range", from |-> a, to |-> b, slash |-> NoSlash]>>
FromBy(a, b, n) == <<[kind |-> "range", from |-> a, to |-> b, slash |-> n]>>

Dated(minute, hour, day, month, weekday) ==
    [minute |-> minute, hour |-> hour, day |-> day, month |-> month, weekday |-> weekday]
Job(minute, hour, weekday) == Dated(minute, hour, Star, Star, weekday)

MCExprs ==
    { Job(At(30), At(15), Star),
      Job(At(0), At(0), From(1, 5)),
      Job(At(59), At(23), At(7)),
      Job(Star, Star, From(1, 5)),
      Job(Step(25), Star, Star),
      Job(Step(20), Star, At(3) \o At(6)),
      Job(Step(20), At(9), From(1, 5)),
      Job(At(0), At(9) \o At(18), Star),
      Job(At(0) \o At(30), At(23), At(1)),
      \* What is not read, or not all: 0 9 1 * *, 0 9 * * */2, 30 23 * 2-6 1-5/2,
      \* 0 9 13 * 1 and 15 6 * * 6,*
      Dated(At(0), At(9), At(1), Star, Star),
      Job(At(0), At(9), Step(2)),
      Dated(At(30), At(23), Star, From(2, 6), FromBy(1, 5, 2)),
      Dated(At(0), At(9), At(13), Star, At(1)),
      Job(At(15), At(6), At(6) \o Star) }

FiveHoursBehind == -5

\* Thursday 13:58 and Sunday 23:59, local time.
MCStarts == { 10080 + 3 * 1440 + 18 * 60 + 58, 10080 + 7 * 1440 + 4 * 60 + 59 }

MCCharacters == {"<", "/", "t", "g", ">", "[", "G", "]", "x"}
Words ==
    ThinkOpen \union ThinkClose
        \union { TagStart, TagEnd, <<"x">>, <<"<">>, <<"<", "t">>, <<"t", ">">>, <<"[">>, <<"]">> }
MCAnswers == { a \o b \o c \o d : a, b, c \in Words, d \in {<<"x">>, TagEnd} }

\* The parts that stay do so in one initial state.
Moves(part, still) == moving = part \/ (moving # part /\ still)

PartsInit ==
    /\ moving \in {"clock", "split", "stream", "repository", "settings", "ledger"}
    /\ Moves("clock", expr = Job(At(30), At(15), Star) /\ now = 15538)
    /\ Moves("split", text = << >>)
    /\ Moves("stream", answer = <<"<", "<", "<", "x">>)
    /\ Moves("repository", table = "run")
    /\ Moves("settings", cliOf = [u \in Users |-> "claude"])
    /\ CronInit /\ SplitInit /\ StreamInit /\ RepositoryInit /\ SettingsInit /\ LedgerInit

PartsNext ==
    /\ UNCHANGED moving
    /\ \/ /\ moving = "clock" /\ CronNext
          /\ UNCHANGED <<splitVars, streamVars, repositoryVars, settingsVars, ledgerVars>>
       \/ /\ moving = "split" /\ SplitNext
          /\ UNCHANGED <<cronVars, streamVars, repositoryVars, settingsVars, ledgerVars>>
       \/ /\ moving = "stream" /\ StreamNext
          /\ UNCHANGED <<cronVars, splitVars, repositoryVars, settingsVars, ledgerVars>>
       \/ /\ moving = "repository" /\ RepositoryNext
          /\ UNCHANGED <<cronVars, splitVars, streamVars, settingsVars, ledgerVars>>
       \/ /\ moving = "settings" /\ SettingsNext
          /\ UNCHANGED <<cronVars, splitVars, streamVars, repositoryVars, ledgerVars>>
       \/ /\ moving = "ledger" /\ LedgerNext
          /\ UNCHANGED <<cronVars, splitVars, streamVars, repositoryVars, settingsVars>>

PartsSpec ==
    /\ PartsInit
    /\ [][PartsNext]_<<moving, cronVars, splitVars, streamVars, repositoryVars, settingsVars,
                       ledgerVars>>
=============================================================================
