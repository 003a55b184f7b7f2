----------------------------- MODULE CronClock -----------------------------
(***************************************************************************)
(* When a recurring job runs: next_cron_run_str_with_tz and the arithmetic *)
(* below it (store/mod.rs), which every store calls when a job is created  *)
(* and each time it has run, and the due test of the stores.               *)
(*                                                                         *)
(* is_valid_cron_expr accepts more than these functions read: they never   *)
(* look at the day of the month and at the month, they know a minute or an *)
(* hour only as "*", "*/n" or one number, and parse_dow drops every part   *)
(* of the weekdays with "*" or "/".  An expression here has all five       *)
(* fields as they were accepted, Reading is what is left of it.            *)
(*                                                                         *)
(* Time is a number of minutes; minute 0 is a Monday, 00:00 UTC.  Seconds  *)
(* make no difference: every result has second 0 and is compared with >.   *)
(***************************************************************************)
EXTENDS Integers, Sequences

CONSTANTS
    Exprs,      \* accepted cron expressions the jobs have
    TzOffset,   \* hours the configured time zone is ahead of UTC
    Starts,     \* minutes at which a job may be created
    Duration,   \* bound: minutes that are watched from then on
    MaxLate     \* bound: minutes a run may be held up by other jobs

\* What follows the "/" of a part: a number, nothing (0), or there is no "/".
NoSlash == -1
Slashes == Nat \union {NoSlash}

\* The parts of a field between its commas: "*", a number or a range.
Parts(lo, hi) ==
    [kind : {"any"}, slash : Slashes] \union [kind : {"at"}, n : lo..hi, slash : Slashes]
        \union { p \in [kind : {"range"}, from : lo..hi, to : lo..hi, slash : Slashes] :
                   p.from <= p.to }

Field(lo, hi) == Seq(Parts(lo, hi)) \ {<< >>}

\* What is_valid_cron_expr accepts; 0 and 7 are Sunday.
Expressions ==
    [minute : Field(0, 59), hour : Field(0, 23), day : Field(1, 31), month : Field(1, 12),
     weekday : Field(0, 7)]

ASSUME CronAssumption ==
    /\ Exprs \subseteq Expressions
    /\ TzOffset \in -12..14
    /\ Starts \subseteq Nat
    /\ Duration \in Nat
    /\ MaxLate \in Nat

VARIABLES
    expr,    \* the job's expression
    now,     \* the minute, UTC
    since,   \* when next_run was last written
    next     \* next_run, UTC

cronVars == <<expr, now, since, next>>

-----------------------------------------------------------------------------
(* What is read of an expression. *)

IsStar(f) == f = <<[kind |-> "any", slash |-> NoSlash]>>
IsStep(f) == Len(f) = 1 /\ f[1].kind = "any" /\ f[1].slash > 0
IsNumber(f) == Len(f) = 1 /\ f[1].kind = "at" /\ f[1].slash = NoSlash

\* The minute and the hour: == "*", strip_prefix("*/") and parse.
ReadField(f) ==
    CASE IsStar(f)   -> [kind |-> "any"]
      [] IsStep(f)   -> [kind |-> "step", n |-> f[1].slash]
      [] IsNumber(f) -> [kind |-> "at", n |-> f[1].n]
      [] OTHER       -> [kind |-> "other"]

\* A weekday of the expression, where 0 is Sunday, as chrono counts, from Monday.
FromMonday_AsIs(d) == d % 7
FromMonday(d) == (d + 6) % 7

\* Numbers and ranges are read, parts with "*" or "/" are not.
IsRead(p) == p.kind # "any" /\ p.slash = NoSlash
Days(p) ==
    IF p.kind = "at" THEN {FromMonday(p.n)} ELSE { FromMonday(d) : d \in p.from..p.to }
ParseDow(f) == UNION { Days(f[i]) : i \in {j \in DOMAIN f : IsRead(f[j])} }

\* Without days every day is allowed.
Reading(e) ==
    [minute |-> ReadField(e.minute), hour |-> ReadField(e.hour), days |-> ParseDow(e.weekday)]

-----------------------------------------------------------------------------
(* The arithmetic, on local minutes; r is the reading of an expression. *)

Minute(t) == t % 60
Hour(t) == (t % 1440) \div 60
Midnight(t) == t - (t % 1440)
Weekday(t) == (t \div 1440) % 7

Allowed(r, t) == r.days = {} \/ Weekday(t) \in r.days

\* The time of day of t on the first day from t on that passes the filter.
FirstAllowed(r, t) ==
    t + 1440 * (CHOOSE k \in 0..6 : /\ Allowed(r, t + 1440 * k)
                                    /\ \A j \in 0..6 : Allowed(r, t + 1440 * j) => k <= j)

\* str::parse with unwrap_or
Number(f, default) == IF f.kind = "at" THEN f.n ELSE default

\* A fixed minute of a fixed hour, today or tomorrow.
FixedTime_FromTomorrow(r, t) ==
    FirstAllowed(r, Midnight(t) + 60 * Number(r.hour, 9) + Number(r.minute, 0) + 1440)
FixedTime(r, t) ==
    LET today == Midnight(t) + 60 * Number(r.hour, 9) + Number(r.minute, 0)
    IN  FirstAllowed(r, IF today > t THEN today ELSE today + 1440)

\* The jump to the hour, whatever the day.
TargetHour(r, t) ==
    LET today == Midnight(t) + 60 * r.hour.n
    IN  IF today > t THEN today ELSE today + 1440

\* The next multiple of the step, or the next full hour.
NextStep(step, t) ==
    LET minute == (Minute(t) \div step + 1) * step
    IN  t - Minute(t) + (IF minute < 60 THEN minute ELSE 60)

\* From a day that the filter excludes to the hour's start on the next that it
\* allows.
NextDay(r, t) == FirstAllowed(r, Midnight(t) + 1440 + 60 * Number(r.hour, 0))

StepTime(r, step, t) ==
    IF r.hour.kind = "at" /\ Hour(t) # r.hour.n
      THEN TargetHour(r, t)
      ELSE LET candidate == NextStep(step, t)
           IN  IF Allowed(r, candidate) THEN candidate ELSE NextDay(r, candidate)

NextLocal(r, t) ==
    CASE r.minute.kind = "any" -> StepTime(r, 1, t)
      [] r.minute.kind = "step" /\ r.minute.n < 60 -> StepTime(r, r.minute.n, t)
      [] OTHER -> FixedTime(r, t)

ToLocal(t) == t + 60 * TzOffset
ToUtc(t) == t - 60 * TzOffset

NextRun_LocalStored(e, t) == NextLocal(Reading(e), ToLocal(t))
NextRun(e, t) == ToUtc(NextLocal(Reading(e), ToLocal(t)))

-----------------------------------------------------------------------------
(* A job through its runs. *)

\* create_cron_job
CronInit ==
    /\ expr \in Exprs
    /\ now \in Starts
    /\ since = now
    /\ next = NextRun(expr, now)

\* get_due_jobs
Due == next <= now

Tick ==
    /\ \E s \in Starts : now - s \in 0..(Duration - 1)
    /\ Due => now - next < MaxLate
    /\ now' = now + 1
    /\ UNCHANGED <<expr, since, next>>

\* The job has run and mark_job_run writes the next time.
MarkRun ==
    /\ Due
    /\ since' = now
    /\ next' = NextRun(expr, now)
    /\ UNCHANGED <<expr, now>>

CronNext == Tick \/ MarkRun

CronSpec == CronInit /\ [][CronNext]_cronVars

-----------------------------------------------------------------------------
(* What the fields mean, whatever is read of them. *)

Named(p, lo, hi) ==
    LET first == CASE p.kind = "any" -> lo [] p.kind = "at" -> p.n [] OTHER -> p.from
        last  == CASE p.kind = "at" /\ p.slash = NoSlash -> p.n
                   [] p.kind = "range" -> p.to
                   [] OTHER -> hi
        step  == IF p.slash > 0 THEN p.slash ELSE 1
    IN  { v \in first..last : (v - first) % step = 0 }

Values(f, lo, hi) == UNION { Named(f[i], lo, hi) : i \in DOMAIN f }

\* The date of a minute, where minute 0 is the 1 January 2024 of the Gregorian
\* calendar: years are counted from March on.
Date(t) ==
    LET day   == (t \div 1440 + 739191) % 146097
        year  == (day - day \div 1460 + day \div 36524 - day \div 146096) \div 365
        ofYear == day - (365 * year + year \div 4 - year \div 100)
        month == (5 * ofYear + 2) \div 153
    IN  [day |-> ofYear - (153 * month + 2) \div 5 + 1,
         month |-> IF month < 10 THEN month + 3 ELSE month - 9]

\* A minute that the expression names.  A day of the month and a weekday that are
\* both given name the days of either, as in a crontab.
Matches(e, t) ==
    LET onDate    == Date(t).day \in Values(e.day, 1, 31)
        onWeekday == \E d \in Values(e.weekday, 0, 7) : d % 7 = (Weekday(t) + 1) % 7
    IN  /\ Minute(t) \in Values(e.minute, 0, 59)
        /\ Hour(t) \in Values(e.hour, 0, 23)
        /\ IsStar(e.month) \/ Date(t).month \in Values(e.month, 1, 12)
        /\ IF IsStar(e.day) THEN onWeekday
                            ELSE onDate \/ (~IsStar(e.weekday) /\ onWeekday)

\* A time of day, or a step through all hours: the forms of the doc comment that
\* the code keeps, but for the step within one hour.
HasPlainTime(e) ==
    \/ IsNumber(e.minute) /\ IsNumber(e.hour)
    \/ /\ IsStar(e.minute) \/ (IsStep(e.minute) /\ e.minute[1].slash < 60)
       /\ IsStar(e.hour)

AllDaysRead(e) == \A i \in DOMAIN e.weekday : IsRead(e.weekday[i])
NoDaysRead(e) == \A i \in DOMAIN e.weekday : ~IsRead(e.weekday[i])

\* The expressions that the code reads whole.
Plain(e) ==
    /\ HasPlainTime(e) /\ IsStar(e.day) /\ IsStar(e.month)
    /\ IsStar(e.weekday) \/ AllDaysRead(e)

\* next_run is later than the moment it was computed at, whatever the
\* expression: a job that was marked is not due again at once (mark_job_run,
\* get_due_jobs).
RunsLater == next > since

\* A plain job (its day and month are "*", its weekdays "*" or numbers and ranges)
\* is only due at a time its expression names, in the configured time zone and on
\* its weekdays.
RunsWhenTold == Plain(expr) => Matches(expr, ToLocal(next))

\* A job with a plain time skips nothing: when its expression names a minute after
\* its last run, it is due by then.  What is accepted and not read, a month, a day
\* or weekdays in steps, makes it run too often, never too rarely; but a day
\* beside weekdays, or weekdays of which some parts are read, can be missed.
SkipsNothing ==
    /\ HasPlainTime(expr)
    /\ NoDaysRead(expr) \/ (AllDaysRead(expr) /\ IsStar(expr.day))
    /\ since < now /\ Matches(expr, ToLocal(now))
    => Due

\* Every job moves on; one that is plain runs at the times its expression names and
\* at no others; one of which the date or all weekdays are not read misses none.
RunsAsTold == RunsLater /\ RunsWhenTold /\ SkipsNothing
=============================================================================
