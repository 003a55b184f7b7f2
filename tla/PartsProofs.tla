---------------------------- MODULE PartsProofs -----------------------------
(***************************************************************************)
(* What holds of the small parts of the gateway for every input and any    *)
(* number of steps: the cron arithmetic, the splitting of messages, the    *)
(* statements on a trace row, the settings of a turn, the token ledger and *)
(* the filters of the stream.  A part has a section of its own.            *)
(***************************************************************************)
EXTENDS CronClock, MessageSplit, StreamFilters, TraceRepository, TurnSettings, UsageLedger,
        FiniteSetTheorems, SequenceTheorems, WellFoundedInduction, TLAPS

-----------------------------------------------------------------------------
(***************************************************************************)
(* CronClock.  The cron arithmetic is right for the expressions that the   *)
(* code reads whole, in every time zone and at every moment; it never runs *)
(* a job too rarely where it reads nothing of the weekdays or only not the *)
(* date; and it moves forward for every accepted expression.               *)
(***************************************************************************)

-----------------------------------------------------------------------------
(* Division. *)

\* Quotient and remainder.
LEMMA Quotient ==
    ASSUME NEW m \in Int, NEW n \in Nat \ {0}
    PROVE  /\ m \div n \in Int /\ m % n \in 0..(n - 1)
           /\ m = n * (m \div n) + (m % n)
    OBVIOUS

\* A multiple leaves no remainder.
LEMMA Multiple ==
    ASSUME NEW q \in Int, NEW n \in Nat \ {0}
    PROVE  (q * n) % n = 0
    OBVIOUS

\* The multiple of a step that NextStep takes, the first after m.
Following(m, n) == (m \div n + 1) * n

LEMMA FollowingIsNext ==
    ASSUME NEW m \in Int, NEW n \in Nat \ {0}
    PROVE  /\ Following(m, n) \in Int /\ Following(m, n) > m /\ Following(m, n) % n = 0
           /\ \A k \in Int : k % n = 0 /\ k > m => k >= Following(m, n)
<1> DEFINE q == m \div n
<1>1. m = n * q + (m % n) /\ q \in Int /\ m % n \in 0..(n - 1)
    BY Quotient
<1>2. Following(m, n) = n * q + n /\ Following(m, n) % n = 0
    BY <1>1, Multiple DEF Following
<1> HIDE DEF q
<1>3. ASSUME NEW k \in Int, k % n = 0, k > m
      PROVE  k >= Following(m, n)
  <2>1. k = n * (k \div n) /\ k \div n \in Int
      BY <1>3, Quotient
  <2>2. ASSUME k \div n <= q PROVE FALSE
      BY <1>1, <1>3, <2>1, <2>2
  <2>3. n * (k \div n) >= n * (q + 1)
      BY <1>1, <2>1, <2>2
  <2> QED BY <1>1, <1>2, <2>1, <2>3
<1> QED BY <1>1, <1>2, <1>3

\* A moment put together from its parts.
LEMMA Calendar ==
    ASSUME NEW t \in Int
    PROVE  /\ Minute(t) \in 0..59 /\ Hour(t) \in 0..23 /\ Weekday(t) \in 0..6
           /\ t = Midnight(t) + 60 * Hour(t) + Minute(t)
           /\ Midnight(t) = 1440 * (t \div 1440) /\ Midnight(t) \in Int /\ t \div 1440 \in Int
    BY DEF Minute, Hour, Weekday, Midnight

-----------------------------------------------------------------------------
(* What is read of an expression. *)

\* What ReadField and ParseDow leave of the fields.
ReadFields(hi) ==
    [kind : {"any", "other"}] \union [kind : {"step"}, n : Nat \ {0}]
        \union [kind : {"at"}, n : 0..hi]
Readings == [minute : ReadFields(59), hour : ReadFields(23), days : SUBSET (0..6)]

LEMMA ReadingFields ==
    ASSUME NEW r \in Readings
    PROVE  /\ r.minute.kind = "at" => r.minute.n \in 0..59
           /\ r.minute.kind = "step" => r.minute.n \in Nat \ {0}
           /\ r.hour.kind = "at" => r.hour.n \in 0..23
           /\ r.days \subseteq 0..6
<1>1. \A hi \in Nat : \A f \in ReadFields(hi) :
          /\ f.kind = "at" => f.n \in 0..hi
          /\ f.kind = "step" => f.n \in Nat \ {0}
    BY DEF ReadFields
<1>2. r.minute \in ReadFields(59) /\ r.hour \in ReadFields(23) /\ r.days \subseteq 0..6
    BY DEF Readings
<1> QED BY <1>1, <1>2

\* The parts of an accepted field.
LEMMA PartTypes ==
    ASSUME NEW lo, NEW hi, NEW f \in Field(lo, hi), NEW i \in DOMAIN f
    PROVE  /\ f \in Seq(Parts(lo, hi)) /\ f # << >> /\ f[i] \in Parts(lo, hi)
           /\ f[i].kind \in {"any", "at", "range"}
           /\ f[i].slash \in Slashes
           /\ f[i].kind = "at" => f[i].n \in lo..hi
           /\ f[i].kind = "range" =>
                 f[i].from \in lo..hi /\ f[i].to \in lo..hi /\ f[i].from <= f[i].to
<1>1. f \in Seq(Parts(lo, hi)) /\ f # << >> /\ f[i] \in Parts(lo, hi)
    BY DEF Field
<1>2. \A p \in Parts(lo, hi) :
           /\ p.kind \in {"any", "at", "range"}
           /\ p.slash \in Slashes
           /\ p.kind = "at" => p.n \in lo..hi
           /\ p.kind = "range" => p.from \in lo..hi /\ p.to \in lo..hi /\ p.from <= p.to
    BY DEF Parts
<1> QED BY <1>1, <1>2

\* The forms that the parsers tell apart exclude each other.
LEMMA ReadFieldForms ==
    ASSUME NEW f
    PROVE  /\ IsStar(f) => ReadField(f) = [kind |-> "any"]
           /\ IsStep(f) => ReadField(f) = [kind |-> "step", n |-> f[1].slash]
           /\ IsNumber(f) => ReadField(f) = [kind |-> "at", n |-> f[1].n]
           /\ ~IsStar(f) /\ ~IsStep(f) /\ ~IsNumber(f) => ReadField(f) = [kind |-> "other"]
<1>1. /\ IsStar(f) => f[1].kind = "any" /\ f[1].slash = -1
      /\ IsStep(f) => f[1].kind = "any" /\ f[1].slash > 0
      /\ IsNumber(f) => f[1].kind = "at"
    BY DEF IsStar, IsStep, IsNumber, NoSlash
<1>2. ~(IsStar(f) /\ IsStep(f)) /\ ~(IsStar(f) /\ IsNumber(f)) /\ ~(IsStep(f) /\ IsNumber(f))
    BY <1>1
<1> QED BY <1>2 DEF ReadField

LEMMA ReadFieldType ==
    ASSUME NEW hi \in Nat, NEW f \in Field(0, hi)
    PROVE  ReadField(f) \in ReadFields(hi)
<1>1. ASSUME Len(f) = 1 PROVE 1 \in DOMAIN f
    BY <1>1 DEF Field
<1>2. ASSUME IsStep(f) PROVE f[1].slash \in Nat \ {0}
  <2>1. Len(f) = 1 /\ f[1].slash > 0
      BY <1>2 DEF IsStep
  <2>2. f[1].slash \in Slashes
      BY <1>1, <2>1, PartTypes
  <2> QED BY <2>1, <2>2 DEF Slashes, NoSlash
<1>3. ASSUME IsNumber(f) PROVE f[1].n \in 0..hi
  <2>1. Len(f) = 1 /\ f[1].kind = "at"
      BY <1>3 DEF IsNumber
  <2> QED BY <1>1, <2>1, PartTypes
<1> QED BY <1>2, <1>3, ReadFieldForms DEF ReadFields

LEMMA ReadingType ==
    ASSUME NEW e \in Exprs
    PROVE  /\ Reading(e) \in Readings
           /\ e.minute \in Field(0, 59) /\ e.hour \in Field(0, 23) /\ e.weekday \in Field(0, 7)
<1>1. e.minute \in Field(0, 59) /\ e.hour \in Field(0, 23) /\ e.weekday \in Field(0, 7)
    BY CronAssumption DEF Expressions
<1>2. ReadField(e.minute) \in ReadFields(59) /\ ReadField(e.hour) \in ReadFields(23)
    BY <1>1, ReadFieldType
<1>3. ASSUME NEW i \in DOMAIN e.weekday, IsRead(e.weekday[i])
      PROVE  Days(e.weekday[i]) \subseteq 0..6
  <2> DEFINE p == e.weekday[i]
  <2>1. /\ p.kind \in {"any", "at", "range"}
        /\ p.kind = "at" => p.n \in 0..7
        /\ p.kind = "range" => p.from \in 0..7 /\ p.to \in 0..7
      BY <1>1, <1>3, PartTypes
  <2> HIDE DEF p
  <2>2. p.kind = "at" \/ p.kind = "range"
      BY <1>3, <2>1 DEF IsRead, p
  <2>3. Days(p) \subseteq 0..6
      BY <2>1, <2>2 DEF Days, FromMonday
  <2> QED BY <2>3 DEF p
<1>4. ParseDow(e.weekday) \in SUBSET (0..6)
    BY <1>3 DEF ParseDow
<1> QED BY <1>1, <1>2, <1>4 DEF Reading, Readings

-----------------------------------------------------------------------------
(* The parts of next_cron_run_str_with_tz. *)

\* The loop over the days ends within a week, at the first day that is allowed.
FirstDay(r, x, k) ==
    /\ FirstAllowed(r, x) = x + 1440 * k
    /\ Allowed(r, x + 1440 * k)
    /\ \A j \in Nat : Allowed(r, x + 1440 * j) => k <= j

LEMMA FirstAllowedIsFirst ==
    ASSUME NEW r \in Readings, NEW x \in Int
    PROVE  \E k \in 0..6 : FirstDay(r, x, k)
<1> DEFINE P(k) == Allowed(r, x + 1440 * k)
<1>1. \E k \in 0..6 : P(k)
  <2>1. CASE r.days = {}
      BY <2>1 DEF Allowed
  <2>2. CASE r.days # {}
    <3>1. PICK d \in r.days : d \in 0..6
        BY <2>2, ReadingFields
    <3>2. (d - (x \div 1440)) % 7 \in 0..6
        BY <3>1
    <3>3. PICK k \in 0..6 : k = (d - (x \div 1440)) % 7
        BY <3>2
    <3>4. ((x \div 1440) + k) % 7 = d
        BY <3>1, <3>3
    <3>5. Weekday(x + 1440 * k) = d
        BY <3>3, <3>4 DEF Weekday
    <3> QED BY <3>1, <3>5 DEF Allowed
  <2> QED BY <2>1, <2>2
<1> HIDE DEF P
<1>2. \E k \in 0..6 : P(k) /\ \A j \in 0..6 : P(j) => k <= j
  <2>1. PICK k \in 0..6 : P(k)
      BY <1>1
  <2>2. \/ P(0) \/ P(1) \/ P(2) \/ P(3) \/ P(4) \/ P(5) \/ P(6)
      BY <2>1
  <2> QED BY <2>2
<1> DEFINE k == CHOOSE i \in 0..6 : P(i) /\ \A j \in 0..6 : P(j) => i <= j
<1>3. k \in 0..6 /\ P(k) /\ \A j \in 0..6 : P(j) => k <= j
    BY <1>2
<1>4. FirstAllowed(r, x) = x + 1440 * k
    BY DEF FirstAllowed, P
<1> HIDE DEF k
<1>5. ASSUME NEW j \in Nat, P(j) PROVE k <= j
  <2>1. CASE j \in 0..6
      BY <1>3, <1>5, <2>1
  <2>2. CASE j \notin 0..6
      BY <1>3, <2>2
  <2> QED BY <2>1, <2>2
<1>6. FirstDay(r, x, k)
    BY <1>3, <1>4, <1>5 DEF P, FirstDay
<1> QED BY <1>3, <1>6

\* A time of day, on the days of the filter.
FixedMatches(r, s) == Minute(s) = r.minute.n /\ Hour(s) = r.hour.n /\ Allowed(r, s)

\* A fixed time of day.
LEMMA FixedTimeIsNext ==
    ASSUME NEW r \in Readings, NEW t \in Int
    PROVE  /\ FixedTime(r, t) \in Int /\ FixedTime(r, t) > t
           /\ r.minute.kind = "at" /\ r.hour.kind = "at" =>
                 /\ FixedMatches(r, FixedTime(r, t))
                 /\ \A s \in Int : s > t /\ FixedMatches(r, s) => s >= FixedTime(r, t)
<1> DEFINE h == Number(r.hour, 9)
           m == Number(r.minute, 0)
           today == Midnight(t) + 60 * h + m
           x == IF today > t THEN today ELSE today + 1440
<1>1. h \in 0..23 /\ m \in 0..59
    BY ReadingFields DEF Number
<1> HIDE DEF h, m
<1>2. today \in Int /\ Minute(today) = m /\ Hour(today) = h
    BY <1>1 DEF Minute, Hour, Midnight
<1>x. (today > t => x = today) /\ (~(today > t) => x = today + 1440)
    OBVIOUS
<1>4. FixedTime(r, t) = FirstAllowed(r, x)
    BY DEF FixedTime, h, m
<1>t. today = Midnight(t) + 60 * h + m
    OBVIOUS
<1> HIDE DEF today, x
<1>3. x \in Int /\ x > t /\ Minute(x) = m /\ Hour(x) = h
  <2>1. t = Midnight(t) + 60 * Hour(t) + Minute(t) /\ Midnight(t) \in Int
        /\ Hour(t) \in 0..23 /\ Minute(t) \in 0..59
      BY Calendar
  <2>2. /\ Minute(today + 1440) = Minute(today)
        /\ Hour(today + 1440) = Hour(today)
      BY <1>2 DEF Minute, Hour
  <2>3. today + 1440 > t
      BY <2>1, <1>1, <1>t
  <2> QED BY <1>2, <1>x, <2>2, <2>3
<1>k. PICK k \in 0..6 : FirstDay(r, x, k)
    BY <1>3, FirstAllowedIsFirst
<1>5. /\ FirstAllowed(r, x) = x + 1440 * k
      /\ Allowed(r, x + 1440 * k)
      /\ \A j \in Nat : Allowed(r, x + 1440 * j) => k <= j
    BY <1>k DEF FirstDay
<1>6. FixedTime(r, t) \in Int /\ FixedTime(r, t) > t
    BY <1>3, <1>4, <1>5
<1>7. ASSUME r.minute.kind = "at", r.hour.kind = "at"
      PROVE  FixedMatches(r, FixedTime(r, t))
  <2>1. m = r.minute.n /\ h = r.hour.n
      BY <1>7 DEF m, h, Number
  <2>2. Minute(x + 1440 * k) = m /\ Hour(x + 1440 * k) = h
      BY <1>3 DEF Minute, Hour
  <2> QED BY <1>4, <1>5, <2>1, <2>2 DEF FixedMatches
<1>8. ASSUME r.minute.kind = "at", r.hour.kind = "at",
             NEW s \in Int, s > t, FixedMatches(r, s)
      PROVE  s >= FixedTime(r, t)
  <2>1. Minute(s) = m /\ Hour(s) = h /\ Allowed(r, s)
      BY <1>8 DEF FixedMatches, m, h, Number
  <2>2. /\ s = Midnight(s) + 60 * h + m
        /\ Midnight(s) \in Int
      BY <2>1, Calendar
  <2> DEFINE i == (s \div 1440) - (t \div 1440)
  <2>3. i \in Int /\ Midnight(s) = Midnight(t) + 1440 * i
      BY <1>8 DEF Midnight
  <2> HIDE DEF i
  <2>4. PICK j \in Nat : s = x + 1440 * j
    <3>1. s = today + 1440 * i
        BY <2>2, <2>3, <1>1, <1>t, Calendar
    <3>2. CASE today > t
      <4>1. i >= 0
        <5>1. Midnight(t) \in Int /\ t >= Midnight(t) /\ t < Midnight(t) + 1440
            BY Calendar
        <5>2. ASSUME i <= -1 PROVE FALSE
          <6>1. s <= today - 1440
              BY <3>1, <5>2, <1>2, <2>3
          <6>2. today < Midnight(t) + 1440
              BY <1>1, <1>t, <5>1
          <6> QED BY <6>1, <6>2, <5>1, <1>8, <1>2
        <5> QED BY <5>2, <2>3
      <4> QED BY <3>1, <3>2, <4>1, <1>x, <2>3
    <3>3. CASE ~(today > t)
      <4>1. i >= 1
          BY <3>1, <3>3, <1>2, <1>8, <2>3
      <4>2. s = (today + 1440) + 1440 * (i - 1)
          BY <3>1, <1>2, <2>3
      <4>3. i - 1 \in Nat
          BY <4>1, <2>3
      <4> QED BY <4>2, <4>3, <3>3, <1>x
    <3> QED BY <3>2, <3>3
  <2>5. k <= j
      BY <2>1, <2>4, <1>5
  <2> QED BY <1>3, <1>4, <1>5, <2>4, <2>5
<1> QED BY <1>6, <1>7, <1>8

\* The minutes a step names, on the days of the filter.
StepMatches(r, n, s) == Minute(s) % n = 0 /\ Allowed(r, s)

\* The next multiple of the step within the hour, or the next hour.
LEMMA NextStepIsNext ==
    ASSUME NEW t \in Int, NEW n \in Nat \ {0}
    PROVE  /\ NextStep(n, t) \in Int /\ NextStep(n, t) > t
           /\ Minute(NextStep(n, t)) % n = 0
           /\ \A s \in Int : s > t /\ Minute(s) % n = 0 => s >= NextStep(n, t)
<1> DEFINE m == Following(Minute(t), n)
           c == NextStep(n, t)
<1>1. Minute(t) \in 0..59 /\ Minute(t) \in Int
    BY Calendar
<1>3. /\ m \in Int /\ m > Minute(t) /\ m % n = 0
      /\ \A k \in Int : k % n = 0 /\ k > Minute(t) => k >= m
    BY <1>1, FollowingIsNext
<1>4. (m < 60 => c = t - Minute(t) + m) /\ (~(m < 60) => c = t - Minute(t) + 60)
    BY DEF NextStep, Following
<1> HIDE DEF m, c
<1>5. c \in Int /\ c > t
    BY <1>1, <1>3, <1>4
<1>6. Minute(c) % n = 0
  <2>1. CASE m < 60
    <3>1. Minute(c) = m
        BY <1>1, <1>3, <1>4, <2>1 DEF Minute
    <3> QED BY <3>1, <1>3
  <2>2. CASE ~(m < 60)
    <3>1. Minute(c) = 0
        BY <1>1, <1>3, <1>4, <2>2 DEF Minute
    <3>2. (0 * n) % n = 0
        BY Multiple
    <3> QED BY <3>1, <3>2
  <2> QED BY <2>1, <2>2
<1>7. ASSUME NEW s \in Int, s > t, Minute(s) % n = 0
      PROVE  s >= c
  <2>1. Minute(s) \in 0..59
      BY Calendar
  <2>2. CASE s - Minute(s) = t - Minute(t)
    <3>1. Minute(s) > Minute(t)
        BY <1>1, <1>7, <2>1, <2>2
    <3>2. Minute(s) >= m
        BY <3>1, <1>3, <1>7, <2>1
    <3> QED BY <3>2, <1>1, <1>3, <1>4, <2>1, <2>2
  <2>3. CASE s - Minute(s) # t - Minute(t)
    <3>1. s - Minute(s) >= t - Minute(t) + 60
        BY <1>7, <2>3 DEF Minute
    <3> QED BY <3>1, <1>1, <1>3, <1>4, <2>1
  <2> QED BY <2>2, <2>3
<1> QED BY <1>5, <1>6, <1>7 DEF c

\* A step, in every hour or in one.
LEMMA StepTimeIsNext ==
    ASSUME NEW r \in Readings, NEW t \in Int, NEW n \in Nat \ {0}
    PROVE  /\ StepTime(r, n, t) \in Int /\ StepTime(r, n, t) > t
           /\ r.hour.kind = "any" =>
                 /\ StepMatches(r, n, StepTime(r, n, t))
                 /\ \A s \in Int : s > t /\ StepMatches(r, n, s) => s >= StepTime(r, n, t)
<1>1. CASE r.hour.kind = "at" /\ Hour(t) # r.hour.n
  <2>1. StepTime(r, n, t) = TargetHour(r, t)
      BY <1>1 DEF StepTime
  <2>2. r.hour.n \in 0..23
      BY <1>1, ReadingFields
  <2>3. TargetHour(r, t) \in Int /\ TargetHour(r, t) > t
      BY <2>2 DEF TargetHour, Midnight
  <2> QED BY <1>1, <2>1, <2>3
<1>2. CASE ~(r.hour.kind = "at" /\ Hour(t) # r.hour.n)
  <2> DEFINE c == NextStep(n, t)
             h == Number(r.hour, 0)
             x == Midnight(c) + 1440 + 60 * h
  <2>1. /\ c \in Int /\ c > t /\ Minute(c) % n = 0
        /\ \A s \in Int : s > t /\ Minute(s) % n = 0 => s >= c
      BY NextStepIsNext
  <2>2. h \in 0..23 /\ (r.hour.kind = "any" => h = 0)
      BY ReadingFields DEF Number
  <2>3. StepTime(r, n, t) = IF Allowed(r, c) THEN c ELSE FirstAllowed(r, x)
      BY <1>2 DEF StepTime, NextDay
  <2>x. x = Midnight(c) + 1440 + 60 * h
      OBVIOUS
  <2> HIDE DEF c, h, x
  <2>4. x \in Int /\ x > c /\ Midnight(c) \in Int
      BY <2>1, <2>2, <2>x DEF Midnight
  <2>5. PICK k \in 0..6 : FirstDay(r, x, k)
      BY <2>4, FirstAllowedIsFirst
  <2>6. /\ FirstAllowed(r, x) = x + 1440 * k
        /\ Allowed(r, x + 1440 * k)
        /\ \A j \in Nat : Allowed(r, x + 1440 * j) => k <= j
      BY <2>5 DEF FirstDay
  <2>7. StepTime(r, n, t) \in Int /\ StepTime(r, n, t) > t
      BY <2>1, <2>3, <2>4, <2>6
  <2>8. ASSUME r.hour.kind = "any" PROVE StepMatches(r, n, StepTime(r, n, t))
    <3>1. CASE Allowed(r, c)
        BY <3>1, <2>1, <2>3 DEF StepMatches
    <3>2. CASE ~Allowed(r, c)
      <4>1. Minute(x + 1440 * k) = 0
          BY <2>1, <2>2, <2>8, <2>x DEF Minute, Midnight
      <4>2. (0 * n) % n = 0
          BY Multiple
      <4> QED BY <3>2, <4>1, <4>2, <2>3, <2>6 DEF StepMatches
    <3> QED BY <3>1, <3>2
  <2>9. ASSUME r.hour.kind = "any", NEW s \in Int, s > t, StepMatches(r, n, s)
        PROVE  s >= StepTime(r, n, t)
    <3>1. s >= c /\ Allowed(r, s)
        BY <2>1, <2>9 DEF StepMatches
    <3>2. CASE Allowed(r, c)
        BY <3>1, <3>2, <2>3
    <3>3. CASE ~Allowed(r, c)
      <4> DEFINE j == (s \div 1440) - (c \div 1440) - 1
      <4>1. j \in Int
          BY <2>1
      <4>2. Weekday(s) # Weekday(c)
          BY <3>1, <3>3 DEF Allowed
      <4>3. j >= 0
          BY <2>1, <3>1, <4>2 DEF Weekday
      <4>4. x + 1440 * j \in Int /\ s >= x + 1440 * j /\ Weekday(x + 1440 * j) = Weekday(s)
        <5>1. x = 1440 * (c \div 1440) + 1440
            BY <2>1, <2>2, <2>9, <2>x DEF Midnight
        <5>2. x + 1440 * j = 1440 * (s \div 1440) /\ x + 1440 * j \in Int
            BY <2>1, <5>1
        <5>3. s >= x + 1440 * j /\ (x + 1440 * j) \div 1440 = s \div 1440
            BY <5>2
        <5> QED BY <5>2, <5>3 DEF Weekday
      <4> HIDE DEF j
      <4>5. Allowed(r, x + 1440 * j)
          BY <3>1, <4>4 DEF Allowed
      <4>6. k <= j
          BY <4>1, <4>3, <4>5, <2>6
      <4> QED BY <3>3, <4>1, <4>4, <4>6, <2>3, <2>4, <2>6
    <3> QED BY <3>2, <3>3
  <2> QED BY <2>7, <2>8, <2>9
<1> QED BY <1>1, <1>2

-----------------------------------------------------------------------------
(* What the fields mean and what is read of them. *)

\* The forms of a field that the parsers know.
LEMMA OnlyPart ==
    ASSUME NEW lo, NEW hi, NEW f \in Field(lo, hi), Len(f) = 1
    PROVE  DOMAIN f = {1} /\ Values(f, lo, hi) = Named(f[1], lo, hi)
<1>1. DOMAIN f = {1}
    BY DEF Field
<1> QED BY <1>1 DEF Values

LEMMA StarNamesAll ==
    ASSUME NEW lo \in Nat, NEW hi \in Nat, NEW f \in Field(lo, hi), IsStar(f)
    PROVE  Values(f, lo, hi) = lo..hi
<1>1. Len(f) = 1 /\ f[1].kind = "any" /\ f[1].slash = NoSlash
    BY DEF IsStar
<1>2. Named(f[1], lo, hi) = { v \in lo..hi : (v - lo) % 1 = 0 }
    BY <1>1 DEF Named, NoSlash
<1>3. \A v \in lo..hi : (v - lo) % 1 = 0
    OBVIOUS
<1> QED BY <1>1, <1>2, <1>3, OnlyPart

LEMMA NumberNamesOne ==
    ASSUME NEW lo \in Nat, NEW hi \in Nat, NEW f \in Field(lo, hi), IsNumber(f)
    PROVE  f[1].n \in lo..hi /\ Values(f, lo, hi) = {f[1].n}
<1>1. Len(f) = 1 /\ f[1].kind = "at" /\ f[1].slash = NoSlash
    BY DEF IsNumber
<1>2. f[1].n \in lo..hi
    BY <1>1, OnlyPart, PartTypes
<1>3. Named(f[1], lo, hi) = { v \in f[1].n..f[1].n : (v - f[1].n) % 1 = 0 }
    BY <1>1 DEF Named, NoSlash
<1>4. \A v \in f[1].n..f[1].n : v = f[1].n /\ (v - f[1].n) % 1 = 0
    BY <1>2
<1> QED BY <1>1, <1>2, <1>3, <1>4, OnlyPart

LEMMA StepNamesMultiples ==
    ASSUME NEW hi \in Nat, NEW f \in Field(0, hi), IsStep(f)
    PROVE  /\ f[1].slash \in Nat \ {0}
           /\ \A v \in 0..hi : v \in Values(f, 0, hi) <=> v % f[1].slash = 0
<1>1. Len(f) = 1 /\ f[1].kind = "any" /\ f[1].slash > 0
    BY DEF IsStep
<1>2. f[1].slash \in Nat \ {0}
    BY <1>1, OnlyPart, PartTypes DEF Slashes, NoSlash
<1>3. Values(f, 0, hi) = { v \in 0..hi : (v - 0) % f[1].slash = 0 }
    BY <1>1, OnlyPart DEF Named
<1>4. \A v \in 0..hi : v - 0 = v
    OBVIOUS
<1> QED BY <1>2, <1>3, <1>4

\* The weekdays that the field names.
OnWeekday(e, s) == \E d \in Values(e.weekday, 0, 7) : d % 7 = (Weekday(s) + 1) % 7

\* Weekdays that are read are the days that are named; without them every day is
\* allowed.
LEMMA AllowedDays ==
    ASSUME NEW e \in Exprs, NEW s \in Int
    PROVE  /\ IsStar(e.weekday) => OnWeekday(e, s)
           /\ IsStar(e.weekday) => NoDaysRead(e)
           /\ NoDaysRead(e) => Allowed(Reading(e), s)
           /\ AllDaysRead(e) => (Allowed(Reading(e), s) <=> OnWeekday(e, s))
<1> DEFINE f == e.weekday
<1>1. f \in Field(0, 7)
    BY ReadingType
<1>w. Weekday(s) \in 0..6
    BY Calendar
<1>2. ASSUME IsStar(f) PROVE OnWeekday(e, s) /\ NoDaysRead(e)
  <2>1. Values(f, 0, 7) = 0..7
      BY <1>1, <1>2, StarNamesAll
  <2>2. Weekday(s) + 1 \in 0..7 /\ (Weekday(s) + 1) % 7 = (Weekday(s) + 1) % 7
      BY <1>w
  <2>3. OnWeekday(e, s)
      BY <2>1, <2>2 DEF OnWeekday
  <2>4. DOMAIN f = {1} /\ f[1].kind = "any"
      BY <1>2 DEF IsStar
  <2> QED BY <2>3, <2>4 DEF NoDaysRead, IsRead
<1>3. ASSUME NoDaysRead(e) PROVE Allowed(Reading(e), s)
    BY <1>3 DEF NoDaysRead, Allowed, Reading, ParseDow
<1>4. ASSUME AllDaysRead(e) PROVE Allowed(Reading(e), s) <=> OnWeekday(e, s)
  <2>1. ASSUME NEW i \in DOMAIN f
        PROVE  /\ IsRead(f[i]) /\ Named(f[i], 0, 7) \subseteq 0..7
               /\ \E d \in 0..7 : d \in Named(f[i], 0, 7)
               /\ Days(f[i]) = { FromMonday(d) : d \in Named(f[i], 0, 7) }
    <3>1. IsRead(f[i]) /\ f[i].slash = NoSlash /\ f[i].kind \in {"at", "range"}
        BY <1>1, <1>4, PartTypes DEF AllDaysRead, IsRead
    <3>2. CASE f[i].kind = "at"
      <4>1. f[i].n \in 0..7
          BY <1>1, <3>2, PartTypes
      <4>2. Named(f[i], 0, 7) = { v \in f[i].n..f[i].n : (v - f[i].n) % 1 = 0 }
          BY <3>1, <3>2 DEF Named, NoSlash
      <4>3. \A v \in f[i].n..f[i].n : v = f[i].n /\ (v - f[i].n) % 1 = 0
          BY <4>1
      <4>4. Named(f[i], 0, 7) = {f[i].n}
          BY <4>1, <4>2, <4>3
      <4> QED BY <3>1, <3>2, <4>1, <4>4 DEF Days
    <3>3. CASE f[i].kind = "range"
      <4>1. f[i].from \in 0..7 /\ f[i].to \in 0..7 /\ f[i].from <= f[i].to
          BY <1>1, <3>3, PartTypes
      <4>2. Named(f[i], 0, 7) = { v \in f[i].from..f[i].to : (v - f[i].from) % 1 = 0 }
          BY <3>1, <3>3 DEF Named, NoSlash
      <4>3. \A v \in f[i].from..f[i].to : (v - f[i].from) % 1 = 0
          BY <4>1
      <4>4. Named(f[i], 0, 7) = f[i].from..f[i].to
          BY <4>2, <4>3
      <4>5. Named(f[i], 0, 7) \subseteq 0..7 /\ f[i].from \in Named(f[i], 0, 7)
        <5>1. \A a, b \in 0..7 : a <= b => a..b \subseteq 0..7 /\ a \in a..b
            OBVIOUS
        <5>2. f[i].from..f[i].to \subseteq 0..7 /\ f[i].from \in f[i].from..f[i].to
            BY <4>1, <5>1
        <5> QED BY <4>4, <5>2
      <4>6. Days(f[i]) = { FromMonday(d) : d \in f[i].from..f[i].to }
          BY <3>3 DEF Days
      <4> QED BY <3>1, <4>1, <4>4, <4>5, <4>6
    <3> QED BY <3>1, <3>2, <3>3
  <2>2. ParseDow(f) = { FromMonday(d) : d \in Values(f, 0, 7) }
    <3>1. {j \in DOMAIN f : IsRead(f[j])} = DOMAIN f
        BY <2>1
    <3> HIDE DEF f
    <3>2. ParseDow(f) = UNION { Days(f[i]) : i \in DOMAIN f }
        BY <3>1 DEF ParseDow
    <3>3. \A x : x \in ParseDow(f) <=> \E i \in DOMAIN f : x \in Days(f[i])
        BY <3>2
    <3>4. \A i \in DOMAIN f : \A x :
              x \in Days(f[i]) <=> \E d \in Named(f[i], 0, 7) : x = FromMonday(d)
        BY <2>1
    <3>5. \A d : d \in Values(f, 0, 7) <=> \E i \in DOMAIN f : d \in Named(f[i], 0, 7)
        BY DEF Values
    <3> QED BY <3>3, <3>4, <3>5
  <2>3. /\ \A d \in Values(f, 0, 7) : d \in 0..7
        /\ Values(f, 0, 7) # {}
    <3>1. 1 \in DOMAIN f
        BY <1>1 DEF Field
    <3> QED BY <2>1, <3>1 DEF Values
  <2>4. \A d \in 0..7, w \in 0..6 : FromMonday(d) = w <=> d % 7 = (w + 1) % 7
      BY DEF FromMonday
  <2>5. Allowed(Reading(e), s) <=> Weekday(s) \in { FromMonday(d) : d \in Values(f, 0, 7) }
    <3>1. Reading(e).days = { FromMonday(d) : d \in Values(f, 0, 7) }
        BY <2>2 DEF Reading
    <3> QED BY <2>3, <3>1 DEF Allowed
  <2> QED BY <1>w, <2>3, <2>4, <2>5 DEF OnWeekday
<1> QED BY <1>2, <1>3, <1>4

\* A plain expression names a minute by its time and its weekday alone.
TimeMatches(e, s) == Minute(s) \in Values(e.minute, 0, 59) /\ Hour(s) \in Values(e.hour, 0, 23)

LEMMA NamedDays ==
    ASSUME NEW e \in Exprs, NEW s \in Int
    PROVE  /\ Plain(e) /\ TimeMatches(e, s) /\ Allowed(Reading(e), s) => Matches(e, s)
           /\ /\ NoDaysRead(e) \/ (AllDaysRead(e) /\ IsStar(e.day))
              /\ Matches(e, s)
              => TimeMatches(e, s) /\ Allowed(Reading(e), s)
<1>1. ASSUME IsStar(e.day), TimeMatches(e, s)
      PROVE  /\ IsStar(e.month) /\ OnWeekday(e, s) => Matches(e, s)
             /\ Matches(e, s) => OnWeekday(e, s)
    BY <1>1 DEF Matches, TimeMatches, OnWeekday
<1>2. Matches(e, s) => TimeMatches(e, s)
    BY DEF Matches, TimeMatches
<1> QED BY <1>1, <1>2, AllowedDays DEF Plain

-----------------------------------------------------------------------------
(* The next run. *)

\* The expressions of which SkipsNothing speaks.
NeverTooRare(e) ==
    HasPlainTime(e) /\ (NoDaysRead(e) \/ (AllDaysRead(e) /\ IsStar(e.day)))

\* What NextLocal computes of the reading of a plain time is the next moment of its
\* time of day, on the days that are allowed.
LEMMA NextLocalIsNext ==
    ASSUME NEW e \in Exprs, NEW u \in Int
    PROVE  LET x == NextLocal(Reading(e), u)
               Moment(s) == TimeMatches(e, s) /\ Allowed(Reading(e), s)
           IN  /\ x \in Int /\ x > u
               /\ HasPlainTime(e) => Moment(x) /\ \A s \in Int : s > u /\ Moment(s) => s >= x
<1> DEFINE r == Reading(e)
           x == NextLocal(r, u)
           Moment(s) == TimeMatches(e, s) /\ Allowed(r, s)
<1>1. r \in Readings /\ e.minute \in Field(0, 59) /\ e.hour \in Field(0, 23)
    BY ReadingType
<1>2. r.minute = ReadField(e.minute) /\ r.hour = ReadField(e.hour)
    BY DEF Reading
<1>3. IsStar(e.hour) => r.hour.kind = "any" /\ Values(e.hour, 0, 23) = 0..23
  <2>1. IsStar(e.hour) => Values(e.hour, 0, 23) = 0..23
      BY <1>1, StarNamesAll
  <2>2. IsStar(e.hour) => r.hour = [kind |-> "any"]
      BY <1>2, ReadFieldForms
  <2> QED BY <2>1, <2>2
<1>4. \A s \in Int : Minute(s) \in 0..59 /\ Hour(s) \in 0..23
    BY DEF Minute, Hour
<1>5. CASE IsStar(e.minute)
  <2>1. r.minute.kind = "any" /\ Values(e.minute, 0, 59) = 0..59
    <3>1. Values(e.minute, 0, 59) = 0..59
        BY <1>1, <1>5, StarNamesAll
    <3>2. r.minute = [kind |-> "any"]
        BY <1>2, <1>5, ReadFieldForms
    <3> QED BY <3>1, <3>2
  <2>2. x = StepTime(r, 1, u)
      BY <2>1 DEF NextLocal
  <2> HIDE DEF x, r
  <2>3. /\ x \in Int /\ x > u
        /\ r.hour.kind = "any" =>
              /\ StepMatches(r, 1, x)
              /\ \A s \in Int : s > u /\ StepMatches(r, 1, s) => s >= x
      BY <1>1, <2>2, StepTimeIsNext
  <2>4. HasPlainTime(e) => IsStar(e.hour)
      BY <1>5 DEF HasPlainTime, IsStar, IsNumber
  <2>5. ASSUME NEW s \in Int, IsStar(e.hour) PROVE Moment(s) <=> StepMatches(r, 1, s)
    <3>1. Minute(s) \in 0..59 /\ Hour(s) \in 0..23 /\ Minute(s) % 1 = 0
        BY <1>4
    <3> QED BY <1>3, <2>1, <2>5, <3>1 DEF TimeMatches, StepMatches
  <2>6. HasPlainTime(e) => Moment(x) /\ \A s \in Int : s > u /\ Moment(s) => s >= x
      BY <1>3, <2>3, <2>4, <2>5
  <2> QED BY <2>3, <2>6 DEF x, r
<1>6. CASE IsStep(e.minute)
  <2> DEFINE n == e.minute[1].slash
  <2>1. /\ r.minute = [kind |-> "step", n |-> n] /\ n \in Nat \ {0}
        /\ \A v \in 0..59 : v \in Values(e.minute, 0, 59) <=> v % n = 0
    <3>1. /\ n \in Nat \ {0}
          /\ \A v \in 0..59 : v \in Values(e.minute, 0, 59) <=> v % n = 0
        BY <1>1, <1>6, StepNamesMultiples
    <3>2. r.minute = [kind |-> "step", n |-> n]
        BY <1>2, <1>6, ReadFieldForms
    <3> QED BY <3>1, <3>2
  <2> HIDE DEF n, r
  <2>2. CASE n < 60
    <3>1. x = StepTime(r, n, u)
        BY <2>1, <2>2 DEF NextLocal
    <3> HIDE DEF x
    <3>2. /\ x \in Int /\ x > u
          /\ r.hour.kind = "any" =>
                /\ StepMatches(r, n, x)
                /\ \A s \in Int : s > u /\ StepMatches(r, n, s) => s >= x
        BY <1>1, <2>1, <3>1, StepTimeIsNext
    <3>3. HasPlainTime(e) => IsStar(e.hour)
        BY <1>6 DEF HasPlainTime, IsStep, IsNumber
    <3>4. ASSUME NEW s \in Int, IsStar(e.hour) PROVE Moment(s) <=> StepMatches(r, n, s)
      <4>1. Minute(s) \in 0..59 /\ Hour(s) \in 0..23
          BY <1>4
      <4>2. Minute(s) \in Values(e.minute, 0, 59) <=> Minute(s) % n = 0
          BY <2>1, <4>1
      <4> QED BY <1>3, <3>4, <4>1, <4>2 DEF TimeMatches, StepMatches
    <3>5. HasPlainTime(e) => Moment(x) /\ \A s \in Int : s > u /\ Moment(s) => s >= x
        BY <1>3, <3>2, <3>3, <3>4
    <3> QED BY <3>2, <3>5 DEF x, r
  <2>3. CASE ~(n < 60)
    <3>1. x = FixedTime(r, u)
        BY <2>1, <2>3 DEF NextLocal
    <3> HIDE DEF x
    <3>2. x \in Int /\ x > u
        BY <1>1, <3>1, FixedTimeIsNext
    <3>3. ~IsStar(e.minute) /\ ~IsNumber(e.minute)
      <4>1. IsStar(e.minute) => ~(e.minute[1].slash > 0)
          BY DEF IsStar, NoSlash
      <4>2. IsNumber(e.minute) => ~(e.minute[1].kind = "any")
          BY DEF IsNumber
      <4> QED BY <1>6, <4>1, <4>2 DEF IsStep
    <3>4. ~HasPlainTime(e)
        BY <2>3, <3>3 DEF HasPlainTime, n
    <3> QED BY <3>2, <3>4 DEF x, r
  <2> QED BY <2>2, <2>3
<1>7. CASE ~IsStar(e.minute) /\ ~IsStep(e.minute)
  <2>1. r.minute.kind \in {"at", "other"}
      BY <1>2, <1>7, ReadFieldForms
  <2>2. x = FixedTime(r, u)
      BY <2>1 DEF NextLocal
  <2> HIDE DEF x, r
  <2>3. /\ x \in Int /\ x > u
        /\ r.minute.kind = "at" /\ r.hour.kind = "at" =>
              /\ FixedMatches(r, x)
              /\ \A s \in Int : s > u /\ FixedMatches(r, s) => s >= x
      BY <1>1, <2>2, FixedTimeIsNext
  <2>4. HasPlainTime(e) => IsNumber(e.minute) /\ IsNumber(e.hour)
      BY <1>7 DEF HasPlainTime
  <2>5. ASSUME IsNumber(e.minute), IsNumber(e.hour)
        PROVE  /\ r.minute = [kind |-> "at", n |-> e.minute[1].n]
               /\ r.hour = [kind |-> "at", n |-> e.hour[1].n]
               /\ Values(e.minute, 0, 59) = {e.minute[1].n}
               /\ Values(e.hour, 0, 23) = {e.hour[1].n}
    <3>1. /\ Values(e.minute, 0, 59) = {e.minute[1].n}
          /\ Values(e.hour, 0, 23) = {e.hour[1].n}
        BY <1>1, <2>5, NumberNamesOne
    <3>2. /\ r.minute = [kind |-> "at", n |-> e.minute[1].n]
          /\ r.hour = [kind |-> "at", n |-> e.hour[1].n]
        BY <1>2, <2>5, ReadFieldForms DEF r
    <3> QED BY <3>1, <3>2
  <2>6. ASSUME HasPlainTime(e), NEW s \in Int PROVE Moment(s) <=> FixedMatches(r, s)
      BY <2>4, <2>5, <2>6 DEF TimeMatches, FixedMatches
  <2>7. HasPlainTime(e) => Moment(x) /\ \A s \in Int : s > u /\ Moment(s) => s >= x
      BY <2>3, <2>4, <2>5, <2>6
  <2> QED BY <2>3, <2>7 DEF x, r
<1> QED BY <1>5, <1>6, <1>7

\* The next run of any expression is later; that of a plain one is at a moment its
\* fields name; and no such moment lies before it where what is not read can only
\* add runs.
LEMMA NextRunIsNext ==
    ASSUME NEW e \in Exprs, NEW t \in Int
    PROVE  /\ NextRun(e, t) \in Int /\ NextRun(e, t) > t
           /\ Plain(e) => Matches(e, ToLocal(NextRun(e, t)))
           /\ NeverTooRare(e) =>
                 \A s \in Int : s > t /\ Matches(e, ToLocal(s)) => s >= NextRun(e, t)
<1> DEFINE u == ToLocal(t)
           x == NextLocal(Reading(e), u)
<1>1. TzOffset \in Int /\ u \in Int /\ u = t + 60 * TzOffset
    BY CronAssumption DEF ToLocal
<1>2. NextRun(e, t) = x - 60 * TzOffset
    BY DEF NextRun, ToUtc
<1> HIDE DEF u
<1>3. /\ x \in Int /\ x > u
      /\ HasPlainTime(e) => TimeMatches(e, x) /\ Allowed(Reading(e), x)
      /\ HasPlainTime(e) =>
            \A s \in Int : s > u /\ TimeMatches(e, s) /\ Allowed(Reading(e), s) => s >= x
    BY <1>1, NextLocalIsNext
<1> HIDE DEF x
<1>4. NextRun(e, t) \in Int /\ NextRun(e, t) > t /\ ToLocal(NextRun(e, t)) = x
    BY <1>1, <1>2, <1>3 DEF ToLocal
<1>5. Plain(e) => Matches(e, x)
  <2>1. Plain(e) => HasPlainTime(e)
      BY DEF Plain
  <2> QED BY <1>3, <2>1, NamedDays
<1>6. ASSUME NeverTooRare(e), NEW s \in Int, s > t, Matches(e, ToLocal(s))
      PROVE  s >= NextRun(e, t)
  <2>1. ToLocal(s) \in Int /\ ToLocal(s) > u /\ ToLocal(s) = s + 60 * TzOffset
      BY <1>1, <1>6 DEF ToLocal
  <2>2. TimeMatches(e, ToLocal(s)) /\ Allowed(Reading(e), ToLocal(s)) /\ HasPlainTime(e)
      BY <1>6, <2>1, NamedDays DEF NeverTooRare
  <2>3. ToLocal(s) >= x
      BY <1>3, <2>1, <2>2
  <2> QED BY <1>1, <1>2, <1>3, <2>1, <2>3
<1> QED BY <1>4, <1>5, <1>6

-----------------------------------------------------------------------------
(* The job. *)

\* next_run always is what the expression says of the last time it was written.
CronInv ==
    /\ expr \in Exprs
    /\ now \in Int /\ since \in Int /\ since <= now
    /\ next = NextRun(expr, since)

LEMMA CronInvariant == CronSpec => []CronInv
<1>1. CronInit => CronInv
    BY CronAssumption DEF CronInit, CronInv
<1>2. CronInv /\ [CronNext]_cronVars => CronInv'
  <2> SUFFICES ASSUME CronInv, [CronNext]_cronVars PROVE CronInv'
      OBVIOUS
  <2>1. CASE Tick
      BY <2>1 DEF Tick, CronInv
  <2>2. CASE MarkRun
      BY <2>2 DEF MarkRun, CronInv
  <2>3. CASE UNCHANGED cronVars
      BY <2>3 DEF cronVars, CronInv
  <2> QED BY <2>1, <2>2, <2>3 DEF CronNext
<1> QED BY <1>1, <1>2, PTL DEF CronSpec

\* Whatever the expression and the time zone, a job that was marked is not due
\* again at once: next_run moves forward (mark_job_run).
THEOREM NextRunIsLater == CronSpec => []RunsLater
<1>1. CronInv => RunsLater
    BY NextRunIsNext DEF CronInv, RunsLater
<1> QED BY <1>1, CronInvariant, PTL

\* A job that is plain is due only at moments its expression names, in any time
\* zone, and one with a plain time passes over none of them, though the code may
\* read neither its date nor its weekdays.
THEOREM RunsAsNamed == CronSpec => []RunsAsTold
<1>1. CronInv => RunsWhenTold
    BY NextRunIsNext DEF CronInv, RunsWhenTold
<1>2. CronInv => SkipsNothing
  <2> SUFFICES ASSUME CronInv, since < now, Matches(expr, ToLocal(now)), NeverTooRare(expr)
               PROVE  next <= now
      BY DEF SkipsNothing, Due, NeverTooRare
  <2>1. now >= NextRun(expr, since) /\ NextRun(expr, since) \in Int
      BY NextRunIsNext DEF CronInv
  <2> QED BY <2>1 DEF CronInv
<1>3. CronInv => RunsAsTold
    BY <1>1, <1>2, NextRunIsNext DEF CronInv, RunsLater, RunsAsTold
<1> QED BY <1>3, CronInvariant, PTL

-----------------------------------------------------------------------------
(***************************************************************************)
(* MessageSplit.  What split_message guarantees for every text and every   *)
(* chunk limit.                                                            *)
(***************************************************************************)

\* Positions and chunks are what the code's indices and slices are.
SplitType ==
    /\ text \in Seq(Marks)
    /\ at \in 1..End
    /\ chunks \in Seq(Int \X Int)

SplitInv == SplitType /\ NothingLost /\ ChunksFit

\* A place to cut lies in the window or right after it, and a fence break is at
\* least two marks on.
LEMMA CutInWindow ==
    ASSUME SplitType, MaxChunk \in Nat \ {0}, NEW p \in SplitPoints
    PROVE  p \in at..WindowEnd
<1>1. ParagraphBreaks \subseteq at..WindowEnd
    BY DEF ParagraphBreaks, Window, WindowEnd, SplitType
<1>2. FenceBreaks \subseteq at..WindowEnd
    BY DEF FenceBreaks
<1>3. \A mark : Cuts(mark) \subseteq at..WindowEnd
    BY DEF Cuts, Window, WindowEnd, SplitType
<1>4. WindowEnd \in at..WindowEnd
    BY DEF WindowEnd, SplitType
<1> QED BY <1>1, <1>2, <1>3, <1>4 DEF SplitPoints

\* Pushing what lies between at and to, and moving on over blanks to r, keeps
\* the invariant.
LEMMA PushKeeps ==
    ASSUME SplitInv, MaxChunk \in Nat \ {0},
           NEW to \in at..End, NEW r \in to..End,
           to - at <= MaxChunk,
           \A q \in to..(r - 1) : Blank(q),
           chunks' = Pushed(to), at' = r, text' = text
    PROVE  SplitInv'
<1> USE DEF SplitInv, SplitType
<1>0. \A p \in Int : Blank(p)' <=> Blank(p)
  BY DEF Blank, Is
<1>1. CASE \A p \in at..(to - 1) : Blank(p)
  <2>1. chunks' = chunks
      BY <1>1 DEF Pushed
  <2>2. SplitType'
      BY <2>1 DEF End
  <2>3. \A p \in at..(r - 1) : Blank(p)
      BY <1>1 DEF End
  <2>4. NothingLost'
    <3>1. ASSUME NEW p \in 1..(r - 1), ~Blank(p)
          PROVE  \E i \in 1..Len(chunks) : chunks[i][1] <= p /\ p < chunks[i][2]
      <4>1. p \in 1..(at - 1)
          BY <3>1, <2>3
      <4> QED BY <3>1, <4>1 DEF NothingLost
    <3>2. ASSUME NEW i \in 1..Len(chunks) PROVE chunks[i][2] <= r
      <4>1. chunks[i][2] <= at /\ chunks[i][2] \in Int /\ at <= r
          BY DEF NothingLost, End
      <4> QED BY <4>1
    <3>3. \A p \in 1..(at' - 1) :
              ~Blank(p)' => \E i \in 1..Len(chunks') : chunks'[i][1] <= p /\ p < chunks'[i][2]
      <4>1. \A p \in 1..(at' - 1) : Blank(p)' <=> Blank(p)
          BY <1>0 DEF End
      <4> QED BY <2>1, <3>1, <4>1
    <3>4. \A i, j \in 1..Len(chunks') : i < j => chunks'[i][2] <= chunks'[j][1]
        BY <2>1 DEF NothingLost
    <3> QED BY <2>1, <3>2, <3>3, <3>4 DEF NothingLost
  <2>5. ChunksFit'
      BY <2>1 DEF ChunksFit
  <2> QED BY <2>2, <2>4, <2>5
<1>2. CASE ~ \A p \in at..(to - 1) : Blank(p)
  <2> DEFINE n == Len(chunks)
  <2>1. chunks' = Append(chunks, <<at, to>>)
      BY <1>2 DEF Pushed
  <2>2. at < to
      BY <1>2 DEF End
  <2>3. /\ chunks' \in Seq(Int \X Int) /\ n \in Nat /\ Len(chunks') = n + 1
        /\ \A i \in 1..n : chunks'[i] = chunks[i]
        /\ chunks'[n + 1] = <<at, to>>
      BY <2>1 DEF End
  <2>4. \A i \in 1..n : chunks[i][1] \in Int /\ chunks[i][2] \in Int
      OBVIOUS
  <2>n. n \in Nat /\ at \in Int /\ to \in Int /\ r \in Int /\ at < to /\ to <= r
      BY <2>2 DEF End
  <2>k. \A i \in 1..n : i \in 1..(n + 1) /\ chunks'[i] = chunks[i]
      BY <2>3
  <2>l. /\ n + 1 \in 1..(n + 1)
        /\ chunks'[n + 1][1] = at /\ chunks'[n + 1][2] = to
      BY <2>3
  <2>5. SplitType'
      BY <2>3 DEF End
  <2> HIDE DEF n
  <2>6. \A p \in 1..(r - 1) :
            ~Blank(p) => \E i \in 1..(n + 1) : chunks'[i][1] <= p /\ p < chunks'[i][2]
    <3>1. ASSUME NEW p \in 1..(r - 1), ~Blank(p), p < at
          PROVE  \E i \in 1..(n + 1) : chunks'[i][1] <= p /\ p < chunks'[i][2]
      <4>1. PICK i \in 1..n : chunks[i][1] <= p /\ p < chunks[i][2]
          BY <3>1 DEF NothingLost, n, End
      <4>2. i \in 1..(n + 1) /\ chunks'[i] = chunks[i]
          BY <2>k
      <4> QED BY <4>1, <4>2
    <3>2. ASSUME NEW p \in 1..(r - 1), ~Blank(p), ~(p < at)
          PROVE  \E i \in 1..(n + 1) : chunks'[i][1] <= p /\ p < chunks'[i][2]
      <4>1. at <= p /\ p < to
          BY <3>2 DEF End
      <4> QED BY <4>1, <2>l
    <3> QED BY <3>1, <3>2
  <2>7. \A i, j \in 1..(n + 1) : i < j => chunks'[i][2] <= chunks'[j][1]
    <3>1. ASSUME NEW i \in 1..(n + 1), NEW j \in 1..(n + 1), i < j, j = n + 1
          PROVE  chunks'[i][2] <= chunks'[j][1]
      <4>1. i \in 1..n
          BY <3>1, <2>3
      <4>2. chunks[i][2] <= at
          BY <4>1 DEF NothingLost, n
      <4> QED BY <4>1, <4>2, <3>1, <2>3
    <3>2. ASSUME NEW i \in 1..(n + 1), NEW j \in 1..(n + 1), i < j, j # n + 1
          PROVE  chunks'[i][2] <= chunks'[j][1]
      <4>1. i \in 1..n /\ j \in 1..n
          BY <3>2, <2>3
      <4>2. chunks[i][2] <= chunks[j][1]
          BY <4>1, <3>2 DEF NothingLost, n
      <4> QED BY <4>1, <4>2, <2>3
    <3> QED BY <3>1, <3>2
  <2>8. \A i \in 1..(n + 1) : chunks'[i][2] <= r
    <3>1. ASSUME NEW i \in 1..n
          PROVE  chunks'[i][2] <= r
      <4>1. chunks[i][2] <= at
          BY DEF NothingLost, n
      <4>2. chunks'[i][2] = chunks[i][2] /\ chunks[i][2] \in Int
          BY <2>k, <2>4
      <4> QED BY <4>1, <4>2, <2>n
    <3>2. chunks'[n + 1][2] <= r
        BY <2>l, <2>n
    <3>3. \A i \in 1..(n + 1) : i = n + 1 \/ i \in 1..n
        BY <2>n
    <3> QED BY <3>1, <3>2, <3>3
  <2>9. NothingLost'
    <3>1. Len(chunks') = n + 1
        BY <2>3
    <3>2. \A p \in 1..(at' - 1) :
              ~Blank(p)' => \E i \in 1..Len(chunks') : chunks'[i][1] <= p /\ p < chunks'[i][2]
      <4>1. \A p \in 1..(at' - 1) : Blank(p)' <=> Blank(p)
          BY <1>0 DEF End
      <4> QED BY <2>6, <3>1, <4>1
    <3>3. \A i \in 1..Len(chunks') : chunks'[i][2] <= at'
        BY <2>8, <3>1
    <3>4. \A i, j \in 1..Len(chunks') : i < j => chunks'[i][2] <= chunks'[j][1]
        BY <2>7, <3>1
    <3> QED BY <3>2, <3>3, <3>4 DEF NothingLost
  <2>10. ChunksFit'
    <3>1. Len(text) > 0
        BY <2>2 DEF End
    <3>2. \A i \in 1..n : chunks'[i][2] - chunks'[i][1] \in 1..MaxChunk
        BY <3>1, <2>3 DEF ChunksFit, n
    <3>3. chunks'[n + 1][2] - chunks'[n + 1][1] \in 1..MaxChunk
      <4>1. to - at \in 1..MaxChunk
          BY <2>2 DEF End
      <4> QED BY <4>1, <2>l
    <3>4. ASSUME NEW i \in 1..(n + 1) PROVE chunks'[i][2] - chunks'[i][1] \in 1..MaxChunk
      <4>1. CASE i = n + 1
          BY <4>1, <3>3
      <4>2. CASE i \in 1..n
          BY <4>2, <3>2
      <4> QED BY <4>1, <4>2, <2>n
    <3> QED BY <3>4, <2>3 DEF ChunksFit
  <2> QED BY <2>5, <2>9, <2>10
<1> QED BY <1>1, <1>2

\* Every pass of the loop keeps the invariant, and so do the short cut for a
\* text that fits and the last chunk.
LEMMA SplitStep ==
    ASSUME SplitInv, [SplitNext]_splitVars
    PROVE  SplitInv'
<1> USE SplitAssumption
<1>1. CASE Whole
  <2>1. /\ chunks = << >> /\ at = 1 /\ Len(text) <= MaxChunk /\ text' = text
        /\ chunks' = << <<1, End>> >> /\ at' = End
      BY <1>1 DEF Whole
  <2>2. End \in Nat /\ End = Len(text) + 1 /\ End' = End
      BY <2>1 DEF SplitInv, SplitType, End
  <2>3. SplitType'
      BY <2>1, <2>2 DEF SplitInv, SplitType
  <2>4. NothingLost'
      BY <2>1, <2>2 DEF NothingLost, Blank, Is
  <2>5. ChunksFit'
      BY <2>1, <2>2, <2>3 DEF ChunksFit, SplitType
  <2> QED BY <2>3, <2>4, <2>5 DEF SplitInv
<1>2. CASE Pass
  <2>1. PICK to \in SplitPoints, r \in at..End :
            /\ Trimmed(to, r) /\ chunks' = Pushed(to) /\ at' = r
      BY <1>2 DEF Pass
  <2>2. Rest > MaxChunk /\ text' = text
      BY <1>2 DEF Pass
  <2>3. to \in at..WindowEnd
      BY CutInWindow DEF SplitInv
  <2>4. to \in at..End /\ to - at <= MaxChunk
      BY <2>2, <2>3 DEF Rest, WindowEnd, SplitInv, SplitType, End
  <2>5. r \in to..End /\ \A q \in to..(r - 1) : Blank(q)
      BY <2>1 DEF Trimmed, Blank
  <2> QED BY <2>1, <2>2, <2>4, <2>5, PushKeeps
<1>3. CASE LastChunk
  <2>1. /\ Rest \in 1..MaxChunk /\ chunks' = Pushed(End) /\ at' = End /\ text' = text
      BY <1>3 DEF LastChunk
  <2>2. End \in at..End /\ End \in End..End /\ End - at <= MaxChunk
      BY <2>1 DEF Rest, SplitInv, SplitType, End
  <2>3. \A q \in End..(End - 1) : Blank(q)
      BY DEF End, SplitInv, SplitType
  <2> QED BY <2>1, <2>2, <2>3, PushKeeps
<1>4. CASE UNCHANGED splitVars
    BY <1>4 DEF splitVars, SplitInv, SplitType, NothingLost, ChunksFit, Blank, Is, End
<1> QED BY <1>1, <1>2, <1>3, <1>4 DEF SplitNext

\* split_message keeps every letter of every text in exactly one chunk, in
\* order, and every chunk within the limit.
THEOREM SplitKeepsAll == SplitSpec => []SplitKeeps
<1>1. SplitInit => SplitInv
    BY SplitAssumption DEF SplitInit, SplitInv, SplitType, NothingLost, ChunksFit, End
<1>2. SplitInv /\ [SplitNext]_splitVars => SplitInv'
    BY SplitStep
<1>3. SplitInv => SplitKeeps
    BY DEF SplitInv, SplitKeeps
<1> QED BY <1>1, <1>2, <1>3, PTL DEF SplitSpec

\* The loop of split_message can only come to a standstill on a space: every
\* other pass shortens the rest, whatever the text.
THEOREM SplitStalls == SplitSpec => []OnlySpaceStalls
<1>1. SplitInit => SplitInv
    BY SplitAssumption DEF SplitInit, SplitInv, SplitType, NothingLost, ChunksFit, End
<1>2. SplitInv /\ [SplitNext]_splitVars => SplitInv'
    BY SplitStep
<1>3. SplitInv => OnlySpaceStalls
  <2> SUFFICES ASSUME SplitInv, Stalled, NEW p \in Window
               PROVE  ~Is(p, "newline") /\ (Is(p, "space") <=> p = at)
      BY DEF OnlySpaceStalls
  <2> USE SplitAssumption DEF SplitInv, SplitType
  <2>1. at \in SplitPoints /\ \A q \in SplitPoints : q <= at
      BY DEF Stalled, SplitsAt
  <2>2. ~Is(at, "newline")
      BY DEF Stalled, Trimmed, Rest, End
  <2>3. ParagraphBreaks = {}
      BY <2>1, <2>2 DEF SplitPoints, ParagraphBreaks
  <2>4. FenceBreaks = {}
    <3>1. \A q \in FenceBreaks : q > at
        BY DEF FenceBreaks, Window, WindowEnd
    <3>2. FenceBreaks # {} => SplitPoints = FenceBreaks
        BY <2>3 DEF SplitPoints
    <3> HIDE DEF SplitInv, SplitType
    <3>3. ASSUME NEW q \in FenceBreaks PROVE FALSE
      <4>1. q \in SplitPoints
          BY <3>2
      <4>2. q <= at /\ q > at
          BY <4>1, <3>1, <2>1
      <4>3. q \in Int /\ at \in Int
          BY DEF FenceBreaks, WindowEnd, SplitInv, SplitType
      <4> QED BY <4>2, <4>3
    <3> QED BY <3>3
  <2>5. Cuts("newline") = {}
      BY <2>1, <2>2, <2>3, <2>4 DEF SplitPoints, Cuts
  <2>6. Cuts("space") # {}
    <3>1. WindowEnd # at
        BY DEF WindowEnd
    <3> QED BY <3>1, <2>1, <2>3, <2>4, <2>5 DEF SplitPoints
  <2>7. SplitPoints = Cuts("space")
      BY <2>3, <2>4, <2>5, <2>6 DEF SplitPoints
  <2>8. Is(at, "space")
      BY <2>1, <2>7 DEF Cuts
  <2>9. Is(p, "space") => p = at
      BY <2>1, <2>7 DEF Cuts, Window
  <2> QED BY <2>5, <2>8, <2>9 DEF Cuts
<1> QED BY <1>1, <1>2, <1>3, PTL DEF SplitSpec

-----------------------------------------------------------------------------
(***************************************************************************)
(* TraceRepository.  However many callers interleave their statements on a *)
(* row, it is the atomic register that the other modules use.  The         *)
(* argument: a status that was read still holds while it is the one the    *)
(* row has (MatchesSeen), final statuses stay, and a caller whose update   *)
(* was refused or written answers for itself.                              *)
(***************************************************************************)

(***************************************************************************)
(* The statements on a trace row.                                          *)
(***************************************************************************)

\* A status that no operation may leave.
Over(s) == s \in Final \/ (s = "failed" /\ table # "outbox")

\* Every status of the three tables, and what a caller has read that read nothing.
Statuses == RequestStatus \union OutboxStatus \union {"started", "succeeded", "none"}

RowTypes ==
    /\ table \in {"request", "run", "outbox"}
    /\ table = "request" => status \in RequestStatus
    /\ table = "run" => status \in {"started", "succeeded", "failed"}
    /\ table = "outbox" => status \in OutboxStatus
    /\ retries \in 0..OutboxMaxRetries
    /\ call \in [Callers -> Operations(table) \union {NoCall}]
    /\ phase \in [Callers -> {"idle", "select", "update", "append", "answer"}]
    /\ seen \in [Callers -> Statuses]
    /\ outcome \in [Callers -> {"none", "done", "refused", "error"}]
    /\ toldFailures \in Nat /\ errors \in Nat

\* A caller is as far as its outcome says.
CallsKnown ==
    \A c \in Callers :
        /\ phase[c] = "idle" <=> call[c] = NoCall
        /\ phase[c] = "select" => call[c] \in ReadFirst
        /\ outcome[c] = "none" <=> phase[c] \in {"idle", "select", "update"}

\* What was read allowed the write that is to come.
SeenAllows ==
    \A c \in Callers : phase[c] = "update" =>
        /\ call[c] \in RequestWrites => CanTransition(seen[c], Target(call[c]))
        /\ call[c] \in RunWrites => CanFinish(seen[c], Target(call[c]))
        /\ call[c] \in OutboxWrites => CanDeliver(seen[c], Target(call[c]))

\* Events that were written or are to come tell of a status that stays.
EventsStay ==
    /\ \A s \in told : Over(s) /\ s = status
    /\ \A c \in Callers :
          phase[c] = "append" /\ Over(Target(call[c])) => status = Target(call[c])

\* Failures that were announced or are about to be have been counted.
Announcing == {c \in Callers : phase[c] = "append" /\ call[c] = "mark_failed"}
FailuresCounted == toldFailures + Cardinality(Announcing) <= retries

RepositoryInv == RowTypes /\ CallsKnown /\ SeenAllows /\ EventsStay /\ FailuresCounted
\* The parts of the row's types that steps cite one by one.
LEMMA AnnouncingFinite == IsFiniteSet(Announcing) /\ Cardinality(Announcing) \in Nat
    BY RepositoryAssumption, FS_Subset, FS_CardinalityType DEF Announcing

\* What the statement of an operation matches is a row on which the operation is
\* allowed: for those that read first because what they read allowed it.
LEMMA WriteIsAllowed ==
    ASSUME RepositoryInv, NEW c \in Callers, phase[c] = "update", Applies(c)
    PROVE  /\ Register!Allowed(call[c]) /\ call[c] \in Operations(table)
           /\ Register!To(call[c]) = Target(call[c])
           /\ call[c] = "mark_failed" => retries < OutboxMaxRetries
<1> DEFINE o == call[c]
<1>1. o \in Operations(table) /\ table \in {"request", "run", "outbox"}
    BY DEF RepositoryInv, RowTypes, CallsKnown
<1>2. Register!To(o) = Target(o)
    BY DEF Register!To, Target
<1>3. CASE o \in RequestWrites
  <2>1. CanTransition(status, Target(o))
      BY <1>3 DEF RepositoryInv, SeenAllows, Applies, MatchesSeen
  <2> QED BY <1>1, <1>2, <1>3, <2>1 DEF Register!Allowed, RequestWrites, CanTransition,
                                        Register!CanTransition
<1>4. CASE o \in RunWrites
  <2>1. CanFinish(status, Target(o))
      BY <1>4 DEF RepositoryInv, SeenAllows, Applies, MatchesSeen
  <2> QED BY <1>1, <1>2, <1>4, <2>1 DEF Register!Allowed, RunWrites, CanFinish,
                                        Register!CanFinish
<1>5. CASE o \in OutboxWrites
  <2>1. /\ CanDeliver(status, Target(o))
        /\ o = "mark_failed" => retries < OutboxMaxRetries
      BY <1>5 DEF RepositoryInv, SeenAllows, Applies, MatchesSeen, MatchesOutbox
  <2>2. Target(o) = IF o = "mark_sent" THEN "sent" ELSE "failed"
      BY <1>5 DEF OutboxWrites, Target
  <2> QED BY <1>1, <1>2, <1>5, <2>1, <2>2
          DEF Register!Allowed, OutboxWrites, CanDeliver, Register!CanDeliver,
              OutboxMaxRetries, Register!OutboxMaxRetries
<1>6. CASE o \in Conditional
    BY <1>1, <1>2, <1>6 DEF Applies, MatchesExpected, Conditional, Register!Allowed
<1>7. CASE o \in Forced
    BY <1>1, <1>2, <1>7 DEF Applies, MatchesForced, Forced, Register!Allowed,
                            Register!IsTerminal
<1>8. o \in RequestWrites \union RunWrites \union OutboxWrites \union Conditional \union Forced
    BY <1>1 DEF Operations, Forced
<1> QED BY <1>3, <1>4, <1>5, <1>6, <1>7, <1>8

\* An operation writes a status of its row, and never another one than that of a row
\* which is over.
LEMMA WriteStays ==
    ASSUME RowTypes, NEW o \in Operations(table), Register!Allowed(o), Register!To(o) = Target(o)
    PROVE  /\ table = "request" => Target(o) \in RequestStatus
           /\ table = "run" => Target(o) \in {"started", "succeeded", "failed"}
           /\ table = "outbox" => Target(o) \in OutboxStatus
           /\ Over(status) => Target(o) = status
<1>1. CASE table = "request"
    BY <1>1 DEF RowTypes, Operations, RequestWrites, Conditional, Target, RequestStatus, Over,
                Final, Register!Allowed, Register!CanTransition, Register!IsTerminal
<1>2. CASE table = "run"
    BY <1>2 DEF RowTypes, Operations, RunWrites, Target, Over, Final, Register!Allowed, Register!CanFinish
<1>3. CASE table = "outbox"
    BY <1>3 DEF RowTypes, Operations, OutboxWrites, Target, OutboxStatus, Over, Final,
                Register!Allowed, Register!CanDeliver
<1> QED BY <1>1, <1>2, <1>3 DEF RowTypes

\* What a write does to the row, for the operation of a caller that is at its UPDATE.
LEMMA WriteKeepsRow ==
    ASSUME RepositoryInv, NEW c \in Callers, phase[c] = "update", Applies(c), Write(c),
           table' = table
    PROVE  /\ table = "request" => status' \in RequestStatus
           /\ table = "run" => status' \in {"started", "succeeded", "failed"}
           /\ table = "outbox" => status' \in OutboxStatus
           /\ Over(status) => status' = status
           /\ retries' \in 0..OutboxMaxRetries /\ retries' >= retries
<1>1. /\ call[c] \in Operations(table) /\ Register!Allowed(call[c])
      /\ Register!To(call[c]) = Target(call[c])
      /\ call[c] = "mark_failed" => retries < OutboxMaxRetries
    BY WriteIsAllowed
<1>2. status' = Target(call[c])
    BY DEF Write
<1>3. retries' \in 0..OutboxMaxRetries /\ retries' >= retries
    BY <1>1 DEF Write, RepositoryInv, RowTypes, OutboxMaxRetries
<1> QED BY <1>1, <1>2, <1>3, WriteStays DEF RepositoryInv

\* A step of c that announces nothing leaves the announcements or takes its own away.
LEMMA AnnouncingStays ==
    ASSUME NEW c \in Callers, Announcing' \subseteq Announcing
    PROVE  Cardinality(Announcing') <= Cardinality(Announcing) /\ Cardinality(Announcing') \in Nat
    BY AnnouncingFinite, FS_Subset, FS_CardinalityType

LEMMA RepositoryStart == RepositoryInit => RepositoryInv
<1> SUFFICES ASSUME RepositoryInit PROVE RepositoryInv
    OBVIOUS
<1>1. RowTypes
  <2>1. call \in [Callers -> Operations(table) \union {NoCall}]
    <3>1. NoCall \in Operations(table) \union {NoCall}
        OBVIOUS
    <3>2. call = [c \in Callers |-> NoCall]
        BY DEF RepositoryInit
    <3> HIDE DEF NoCall
    <3> QED BY <3>1, <3>2
  <2>4. seen \in [Callers -> Statuses]
      BY DEF RepositoryInit, Statuses
  <2>2. /\ phase \in [Callers -> {"idle", "select", "update", "append", "answer"}]
        /\ outcome \in [Callers -> {"none", "done", "refused", "error"}]
      BY DEF RepositoryInit
  <2>3. retries \in 0..OutboxMaxRetries /\ toldFailures \in Nat /\ errors \in Nat
      BY DEF RepositoryInit, OutboxMaxRetries
  <2> QED BY <2>1, <2>2, <2>3, <2>4 DEF RepositoryInit, RowTypes, RequestStatus, OutboxStatus
<1>2. CallsKnown /\ SeenAllows /\ EventsStay
    BY DEF RepositoryInit, CallsKnown, SeenAllows, EventsStay
<1>3. Announcing = {} /\ toldFailures = 0 /\ retries = 0
    BY DEF RepositoryInit, Announcing
<1>4. FailuresCounted
    BY <1>3, FS_EmptySet DEF FailuresCounted
<1> QED BY <1>1, <1>2, <1>4 DEF RepositoryInv

\* The caller's own state after a step of its own.
CallerMoves(c, o, p, s, r) ==
    /\ call' = [call EXCEPT ![c] = o] /\ phase' = [phase EXCEPT ![c] = p]
    /\ seen' = [seen EXCEPT ![c] = s] /\ outcome' = [outcome EXCEPT ![c] = r]

\* What the invariant asks of it there.
CallerMay(o, p, s, r) ==
    /\ o \in Operations(table) \union {NoCall} /\ s \in Statuses
    /\ p \in {"idle", "select", "update", "answer"}
    /\ r \in {"none", "done", "refused", "error"}
    /\ p = "idle" <=> o = NoCall
    /\ p = "select" => o \in ReadFirst
    /\ r = "none" <=> p \in {"idle", "select", "update"}
    /\ p = "update" => /\ o \in RequestWrites => CanTransition(s, Target(o))
                       /\ o \in RunWrites => CanFinish(s, Target(o))
                       /\ o \in OutboxWrites => CanDeliver(s, Target(o))

\* The steps that leave row and events as they are.
LEMMA CallerStep ==
    ASSUME RepositoryInv, NEW c \in Callers, NEW o, NEW p, NEW s, NEW r,
           UNCHANGED <<table, status, retries, told, toldFailures>>, errors' \in Nat,
           CallerMoves(c, o, p, s, r), CallerMay(o, p, s, r)
    PROVE  RepositoryInv'
<1> USE DEF RepositoryInv
<1> USE DEF CallerMoves, CallerMay
<1>0. \A d \in Callers : /\ call'[d] = IF d = c THEN o ELSE call[d]
                         /\ phase'[d] = IF d = c THEN p ELSE phase[d]
                         /\ seen'[d] = IF d = c THEN s ELSE seen[d]
                         /\ outcome'[d] = IF d = c THEN r ELSE outcome[d]
    BY DEF RowTypes
<1>1. RowTypes'
    BY DEF RowTypes
<1>2. CallsKnown'
    BY <1>0 DEF CallsKnown
<1>3. SeenAllows'
    BY <1>0 DEF SeenAllows
<1>4. EventsStay'
    BY <1>0 DEF EventsStay, Over
<1>5. Announcing' \subseteq Announcing
    BY <1>0 DEF Announcing
<1>6. FailuresCounted'
    BY <1>5, AnnouncingStays, AnnouncingFinite DEF FailuresCounted, RowTypes
<1> QED BY <1>1, <1>2, <1>3, <1>4, <1>6

\* The UPDATE that applies and the error behind it: c goes on to its event or answers.
LEMMA WriteStep ==
    ASSUME RepositoryInv, NEW c \in Callers, phase[c] = "update", Applies(c), Write(c),
           UNCHANGED <<table, call, seen, told, toldFailures>>, errors' \in Nat,
           NEW p \in {"append", "answer"}, NEW r \in {"done", "error"},
           phase' = [phase EXCEPT ![c] = p], outcome' = [outcome EXCEPT ![c] = r]
    PROVE  RepositoryInv'
<1> USE DEF RepositoryInv
<1>0. \A d \in Callers : /\ phase'[d] = IF d = c THEN p ELSE phase[d]
                         /\ outcome'[d] = IF d = c THEN r ELSE outcome[d]
    BY DEF RowTypes
<1>1. RowTypes'
    BY WriteKeepsRow DEF RowTypes
<1>2. CallsKnown'
    BY <1>0 DEF CallsKnown
<1>3. SeenAllows'
    BY <1>0 DEF SeenAllows
<1>4. EventsStay'
  <2>1. status' = Target(call[c]) /\ (Over(status) => status' = status)
      BY WriteKeepsRow DEF Write
  <2>2. \A q : Over(q)' = Over(q)
      BY DEF Over
  <2>3. ASSUME NEW d \in Callers, phase'[d] = "append", Over(Target(call[d]))
        PROVE  status' = Target(call[d])
    <3>1. CASE d = c
        BY <3>1, <2>1
    <3>2. CASE d # c
      <4>1. status = Target(call[d])
          BY <3>2, <2>3, <1>0 DEF EventsStay
      <4> QED BY <4>1, <2>1, <2>3
    <3> QED BY <3>1, <3>2
  <2>4. \A s \in told : Over(s) /\ s = status'
      BY <2>1 DEF EventsStay
  <2> QED BY <2>2, <2>3, <2>4 DEF EventsStay
<1>5. FailuresCounted'
  <2>1. retries \in Nat /\ retries' \in Nat /\ retries' >= retries /\ toldFailures \in Nat
      BY WriteKeepsRow DEF RowTypes
  <2>2. CASE call[c] = "mark_failed"
    <3>1. c \notin Announcing /\ Announcing' \subseteq Announcing \union {c}
        BY <1>0 DEF Announcing
    <3>2. /\ IsFiniteSet(Announcing \union {c})
          /\ Cardinality(Announcing \union {c}) = Cardinality(Announcing) + 1
        BY <3>1, AnnouncingFinite, FS_AddElement
    <3>3. Cardinality(Announcing') <= Cardinality(Announcing) + 1 /\ Cardinality(Announcing') \in Nat
        BY <3>1, <3>2, FS_Subset, FS_CardinalityType
    <3>4. retries' = retries + 1
        BY <2>2 DEF Write
    <3> QED BY <3>3, <3>4, <2>1, AnnouncingFinite DEF FailuresCounted
  <2>3. CASE call[c] # "mark_failed"
    <3>1. Announcing' \subseteq Announcing
        BY <2>3, <1>0 DEF Announcing
    <3> QED BY <3>1, <2>1, AnnouncingStays, AnnouncingFinite DEF FailuresCounted
  <2> QED BY <2>2, <2>3
<1> QED BY <1>1, <1>2, <1>3, <1>4, <1>5

\* Every step keeps the invariant.
LEMMA RepositoryStep == RepositoryInv /\ [RepositoryNext]_repositoryVars => RepositoryInv'
<1> SUFFICES ASSUME RepositoryInv, [RepositoryNext]_repositoryVars PROVE RepositoryInv'
    OBVIOUS
<1> USE DEF row, Doing, Goes
<1>0. /\ RowTypes /\ errors \in Nat
      /\ \A c \in Callers : /\ call[c] \in Operations(table) \union {NoCall}
                            /\ seen[c] \in Statuses
                            /\ phase[c] # "idle" => call[c] # NoCall
                            /\ phase[c] \in {"idle", "select", "update"} => outcome[c] = "none"
    BY DEF RepositoryInv, RowTypes, CallsKnown
<1>c. \A c \in Callers : /\ call = [call EXCEPT ![c] = call[c]]
                         /\ seen = [seen EXCEPT ![c] = seen[c]]
                         /\ outcome = [outcome EXCEPT ![c] = outcome[c]]
    BY <1>0 DEF RowTypes
<1>a. ASSUME NEW c \in Callers, phase[c] # "idle", UNCHANGED <<table, status, retries, call, seen>>,
             UNCHANGED <<told, toldFailures>>, errors' \in Nat, NEW r \in {"refused", "error"},
             Ends(c, r)
      PROVE  RepositoryInv'
  <2>1. CallerMoves(c, call[c], "answer", seen[c], r)
      BY <1>a, <1>c DEF CallerMoves, Ends
  <2>2. CallerMay(call[c], "answer", seen[c], r)
      BY <1>a, <1>0 DEF CallerMay
  <2> QED BY <1>a, <2>1, <2>2, CallerStep
<1>1. ASSUME NEW c \in Callers, CallRepository(c) PROVE RepositoryInv'
  <2>1. PICK o \in Operations(table) :
              /\ call' = [call EXCEPT ![c] = o]
              /\ phase' = [phase EXCEPT ![c] = IF o \in ReadFirst THEN "select" ELSE "update"]
      BY <1>1 DEF CallRepository
  <2>2. UNCHANGED <<table, status, retries, seen, outcome, told, toldFailures, errors>>
      BY <1>1 DEF CallRepository
  <2>3. o # NoCall
      BY <1>0, <2>1 DEF RowTypes, Operations, RequestWrites, RunWrites, OutboxWrites, Conditional,
                        NoCall
  <2>4. outcome[c] = "none"
      BY <1>0, <1>1 DEF CallRepository
  <2>5. CallerMoves(c, o, IF o \in ReadFirst THEN "select" ELSE "update", seen[c], "none")
      BY <2>1, <2>2, <2>4, <1>c DEF CallerMoves
  <2>6. CallerMay(o, IF o \in ReadFirst THEN "select" ELSE "update", seen[c], "none")
      BY <2>1, <2>3, <1>0 DEF CallerMay, ReadFirst
  <2> QED BY <2>2, <2>5, <2>6, <1>0, CallerStep
<1>2. ASSUME NEW c \in Callers, Select(c) PROVE RepositoryInv'
  <2>1. UNCHANGED <<table, status, retries, call, told, toldFailures, errors>> /\ phase[c] = "select"
      BY <1>2 DEF Select
  <2>2. call[c] # NoCall /\ outcome[c] = "none"
      BY <1>0, <2>1
  <2>3. CASE /\ LegalRequest(call[c]) /\ LegalRun(call[c]) /\ LegalOutbox(call[c])
             /\ phase' = [phase EXCEPT ![c] = "update"]
             /\ seen' = [seen EXCEPT ![c] = status] /\ UNCHANGED outcome
    <3>1. status \in Statuses
        BY <1>0 DEF RowTypes, Statuses, RequestStatus, OutboxStatus
    <3>2. /\ call[c] \in RequestWrites => CanTransition(status, Target(call[c]))
          /\ call[c] \in RunWrites => CanFinish(status, Target(call[c]))
          /\ call[c] \in OutboxWrites => CanDeliver(status, Target(call[c]))
        BY <2>3 DEF LegalRequest, LegalRun, LegalOutbox
    <3>3. CallerMoves(c, call[c], "update", status, "none")
        BY <2>1, <2>2, <2>3, <1>c DEF CallerMoves
    <3>4. CallerMay(call[c], "update", status, "none")
        BY <3>1, <3>2, <2>2, <1>0 DEF CallerMay
    <3> QED BY <2>1, <3>3, <3>4, <1>0, CallerStep
  <2> QED BY <1>2, <1>0, <1>a, <2>1, <2>3 DEF Select
<1>3. ASSUME NEW c \in Callers, Update(c) PROVE RepositoryInv'
  <2>1. UNCHANGED <<table, call, seen, told, toldFailures, errors>> /\ phase[c] = "update"
      BY <1>3 DEF Update
  <2>2. ASSUME Applies(c), Write(c), outcome' = [outcome EXCEPT ![c] = "done"],
               NEW p \in {"append", "answer"}, phase' = [phase EXCEPT ![c] = p]
        PROVE  RepositoryInv'
      BY <2>1, <2>2, <1>0, WriteStep
  <2>3. CASE Ends(c, "refused") /\ UNCHANGED <<status, retries>>
      BY <2>1, <2>3, <1>0, <1>a
  <2> QED BY <1>3, <2>2, <2>3 DEF Update
<1>4. ASSUME NEW c \in Callers, StatementFails(c) PROVE RepositoryInv'
  <2>1. /\ UNCHANGED <<table, call, seen, told, toldFailures>> /\ errors' \in Nat
        /\ phase[c] \in {"select", "update"}
        /\ Ends(c, "error")
      BY <1>4, <1>0 DEF StatementFails
  <2>2. CASE UNCHANGED <<status, retries>>
      BY <2>1, <2>2, <1>a
  <2>3. CASE phase[c] = "update" /\ Applies(c) /\ Write(c)
      BY <2>1, <2>3, WriteStep DEF Ends
  <2> QED BY <1>4, <2>2, <2>3 DEF StatementFails
<1>5. ASSUME NEW c \in Callers, AppendEvent(c) PROVE RepositoryInv'
  <2>1. UNCHANGED <<table, status, retries, call, seen, outcome>>
      BY <1>5 DEF AppendEvent
  <2>2. phase[c] = "append" /\ \A d \in Callers : phase'[d] = IF d = c THEN "answer" ELSE phase[d]
      BY <1>5, <1>0 DEF AppendEvent, RowTypes
  <2>3. /\ told' = told \/ (told' = told \union {Target(call[c])} /\ Over(Target(call[c])))
        /\ \/ toldFailures' = toldFailures
           \/ toldFailures' = toldFailures + 1 /\ call[c] = "mark_failed"
      BY <1>5 DEF AppendEvent, Over
  <2>4. RowTypes'
    <3>1. toldFailures' \in Nat /\ errors' \in Nat
        BY <1>5, <1>0 DEF AppendEvent, RowTypes
    <3>2. phase' \in [Callers -> {"idle", "select", "update", "append", "answer"}]
        BY <1>5, <1>0 DEF AppendEvent, RowTypes
    <3> QED BY <2>1, <3>1, <3>2, <1>0 DEF RowTypes
  <2>5. CallsKnown' /\ SeenAllows'
      BY <2>1, <2>2 DEF RepositoryInv, CallsKnown, SeenAllows
  <2>6. EventsStay'
    <3>1. \A q : Over(q)' = Over(q)
        BY <2>1 DEF Over
    <3>2. \A s \in told' : Over(s) /\ s = status
        BY <2>2, <2>3 DEF RepositoryInv, EventsStay
    <3> QED BY <2>1, <2>2, <3>1, <3>2 DEF RepositoryInv, EventsStay
  <2>7. FailuresCounted'
    <3>1. retries \in Nat /\ toldFailures \in Nat
        BY <1>0 DEF RowTypes
    <3>2. Announcing' = Announcing \ {c}
        BY <2>1, <2>2 DEF Announcing
    <3>3. CASE call[c] = "mark_failed"
      <4>1. c \in Announcing
          BY <2>2, <3>3 DEF Announcing
      <4>2. Cardinality(Announcing') = Cardinality(Announcing) - 1
          BY <4>1, <3>2, AnnouncingFinite, FS_RemoveElement
      <4> QED BY <4>2, <2>1, <2>3, <3>1, AnnouncingFinite DEF RepositoryInv, FailuresCounted
    <3>4. CASE call[c] # "mark_failed"
      <4>1. toldFailures' = toldFailures /\ retries' = retries
          BY <3>4, <2>1, <2>3
      <4>2. Cardinality(Announcing') <= Cardinality(Announcing) /\ Cardinality(Announcing') \in Nat
          BY <3>2, AnnouncingStays
      <4>3. toldFailures + Cardinality(Announcing) <= retries
          BY DEF RepositoryInv, FailuresCounted
      <4> QED BY <4>1, <4>2, <4>3, <3>1, AnnouncingFinite DEF FailuresCounted
    <3> QED BY <3>3, <3>4
  <2> QED BY <2>4, <2>5, <2>6, <2>7 DEF RepositoryInv
<1>6. ASSUME NEW c \in Callers, Return(c) PROVE RepositoryInv'
  <2>1. UNCHANGED <<table, status, retries, told, toldFailures, errors>>
      BY <1>6 DEF Return
  <2>2. CallerMoves(c, NoCall, "idle", "none", "none")
      BY <1>6 DEF Return, CallerMoves
  <2>3. CallerMay(NoCall, "idle", "none", "none")
      BY DEF CallerMay, Statuses
  <2> QED BY <2>1, <2>2, <2>3, <1>0, CallerStep
<1>7. CASE UNCHANGED repositoryVars
    BY <1>7 DEF repositoryVars, RepositoryInv, RowTypes, CallsKnown, SeenAllows, EventsStay, Over,
                FailuresCounted, Announcing
<1> QED BY <1>1, <1>2, <1>3, <1>4, <1>5, <1>6, <1>7 DEF RepositoryNext

LEMMA RepositoryInvariant == RepositorySpec => []RepositoryInv
    BY RepositoryStart, RepositoryStep, PTL DEF RepositorySpec

\* What the events of a row tell is what the row says, for any number of callers and
\* of failing statements.
THEOREM EventsAgree == RepositorySpec => []EventsTellTheRow
<1>1. RepositoryInv => EventsTellTheRow
  <2> SUFFICES ASSUME RepositoryInv PROVE EventsTellTheRow
      OBVIOUS
  <2>1. toldFailures <= retries /\ retries <= OutboxMaxRetries
      BY AnnouncingFinite DEF RepositoryInv, FailuresCounted, RowTypes, OutboxMaxRetries
  <2> QED BY <2>1 DEF RepositoryInv, EventsStay, EventsTellTheRow
<1> QED BY <1>1, RepositoryInvariant, PTL

\* Each statement is a step of the register or none: a SELECT is none, unless it
\* refuses; an UPDATE is the one instant at which the operation happens.
LEMMA RegisterStep ==
    ASSUME RepositoryInv, [RepositoryNext]_repositoryVars
    PROVE  [Register!Next]_Register!registerVars
<1> USE DEF row, Doing, Goes, Register!registerVars
<1>0. \A c \in Callers :
          /\ phase[c] = "idle" <=> call[c] = NoCall
          /\ outcome[c] = "none" <=> phase[c] \in {"idle", "select", "update"}
    BY DEF RepositoryInv, CallsKnown
<1>1. ASSUME NEW c \in Callers, CallRepository(c) PROVE Register!Call(c)
  <2>1. Operations(table) = Register!Operations(table)
      BY DEF RepositoryInv, RowTypes, Operations, Register!Operations, RequestWrites, RunWrites,
             OutboxWrites, Conditional
  <2> QED BY <1>0, <1>1, <2>1 DEF CallRepository, Register!Call, NoCall, Register!NoCall
<1>2. ASSUME NEW c \in Callers, phase[c] \in {"select", "update"},
             UNCHANGED <<table, status, retries, call>>,
             NEW o \in {"refused", "error"}, outcome' = [outcome EXCEPT ![c] = o]
      PROVE  Register!Happens(c)
    BY <1>0, <1>2 DEF Register!Happens, NoCall, Register!NoCall
<1>3. ASSUME NEW c \in Callers, phase[c] = "update", Applies(c), Write(c),
             UNCHANGED <<table, call>>,
             NEW o \in {"done", "error"}, outcome' = [outcome EXCEPT ![c] = o]
      PROVE  Register!Happens(c)
  <2>1. Register!Changed(call[c])
      BY <1>3, WriteIsAllowed DEF Register!Changed, Write
  <2> QED BY <1>0, <1>3, <2>1 DEF Register!Happens, NoCall, Register!NoCall
<1>4. ASSUME NEW c \in Callers, Select(c)
      PROVE  Register!Happens(c) \/ UNCHANGED Register!registerVars
    BY <1>2, <1>4 DEF Select, Ends
<1>5. ASSUME NEW c \in Callers, Update(c) PROVE Register!Happens(c)
    BY <1>2, <1>3, <1>5 DEF Update, Ends
<1>6. ASSUME NEW c \in Callers, StatementFails(c) PROVE Register!Happens(c)
    BY <1>2, <1>3, <1>6 DEF StatementFails, Ends
<1>7. ASSUME NEW c \in Callers, AppendEvent(c) PROVE UNCHANGED Register!registerVars
    BY <1>7 DEF AppendEvent
<1>8. ASSUME NEW c \in Callers, Return(c) PROVE Register!Answer(c)
    BY <1>0, <1>8 DEF Return, Register!Answer, NoCall, Register!NoCall
<1>9. CASE UNCHANGED repositoryVars
    BY <1>9 DEF repositoryVars
<1> QED
    BY <1>1, <1>4, <1>5, <1>6, <1>7, <1>8, <1>9 DEF RepositoryNext, Register!Next

\* The statements implement an atomic register, for any number of callers.
THEOREM RowsAreAtomic == RepositorySpec => ImplementsRegister
<1>1. RepositoryInit => Register!Init
    BY DEF RepositoryInit, Register!Init, NoCall, Register!NoCall
<1>2. RepositoryInv /\ [RepositoryNext]_repositoryVars => [Register!Next]_Register!registerVars
    BY RegisterStep
<1> QED
    BY <1>1, <1>2, RepositoryInvariant, PTL DEF RepositorySpec, ImplementsRegister, Register!Spec

-----------------------------------------------------------------------------
(***************************************************************************)
(* UsageLedger.  The argument: what is charged and what the next           *)
(* difference would add never exceed what the process counted (Covered).   *)
(***************************************************************************)

\* The report that the next difference is taken from, and the difference.
Base == IF snapshot = {} THEN Zero ELSE CHOOSE o \in snapshot : TRUE
Since(report, base, f) == IF report[f] >= base[f] THEN report[f] - base[f] ELSE report[f]

Amounts == [Counters -> Nat]
Results == [kind : Kinds, own : Nat, report : Amounts]

LedgerTypes ==
    /\ counter \in Amounts /\ used \in Amounts /\ charged \in Amounts
    /\ snapshot \in SUBSET Amounts /\ (snapshot = {} \/ \E old \in Amounts : snapshot = {old})
    /\ lastResult \in Results \union {NoReport}
    /\ inexact \in BOOLEAN /\ caughtUp \in BOOLEAN

\* A result in the slot is the last one: what it reports is what Claude counts, but
\* for one that reports a failed request.
SlotIsLast ==
    lastResult # NoReport =>
        \/ lastResult.report = counter
        \/ /\ lastResult.kind = "failed" /\ lastResult.own = 0
           /\ \A f \in Counters : lastResult.report[f] \in {0, counter[f]}

\* What would be charged for the counters as they are has been used and was not charged.
Covered == \A f \in Counters : charged[f] + Since(counter, Base, f) <= used[f]

\* As long as no counter was reset, what was charged is what the last report said.
Exact ==
    ~inexact => /\ counter = used /\ charged = Base
                /\ \A f \in Counters : Base[f] <= counter[f]
                /\ used["tokens"] = used["cost"] /\ charged["tokens"] = charged["cost"]
                /\ caughtUp => charged = used

LedgerInv == LedgerTypes /\ SlotIsLast /\ Covered /\ Exact

LEMMA BaseType ==
    ASSUME LedgerTypes
    PROVE  /\ Base \in Amounts
           /\ snapshot = {} => Base = Zero
           /\ snapshot # {} => snapshot = {Base}
<1>1. Zero \in Amounts
    BY DEF Zero, Amounts
<1>2. CASE snapshot = {}
    BY <1>1, <1>2 DEF Base
<1>3. CASE snapshot # {}
  <2>1. PICK old \in Amounts : snapshot = {old}
      BY <1>3 DEF LedgerTypes
  <2>2. (CHOOSE o \in snapshot : TRUE) = old
      BY <2>1
  <2> QED BY <1>3, <2>1, <2>2 DEF Base
<1> QED BY <1>2, <1>3

\* What is charged for a report.
LEMMA DeltaIsSince ==
    ASSUME LedgerTypes, NEW r \in Results, ~FailedWithoutUse(r)
    PROVE  \A f \in Counters : Delta(r)[f] = Since(r.report, Base, f)
<1>1. /\ r.report \in Amounts /\ Base \in Amounts
      /\ snapshot = {} => Base = Zero
      /\ snapshot # {} => snapshot = {Base}
    BY BaseType DEF Results
<1>2. CASE snapshot = {}
  <2>1. Delta(r) = r.report
      BY <1>2 DEF Delta, Difference
  <2> QED BY <1>1, <1>2, <2>1 DEF Since, Zero, Amounts
<1>3. CASE snapshot # {}
  <2>1. (CHOOSE o \in snapshot : TRUE) = Base
      BY <1>1, <1>3
  <2>2. Delta(r) = [f \in Counters |-> IF r.report[f] >= Base[f] THEN r.report[f] - Base[f]
                                                              ELSE r.report[f]]
      BY <1>3, <2>1 DEF Delta, Difference
  <2> QED BY <2>2 DEF Since
<1> QED BY <1>2, <1>3

LEMMA LedgerStart == LedgerInit => LedgerInv
<1> SUFFICES ASSUME LedgerInit PROVE LedgerInv
    OBVIOUS
<1>1. Zero \in Amounts /\ \A f \in Counters : Zero[f] = 0
    BY DEF Zero, Amounts
<1>2. LedgerTypes /\ SlotIsLast
    BY <1>1 DEF LedgerInit, LedgerTypes, SlotIsLast
<1>3. Base = Zero
    BY DEF LedgerInit, Base
<1>4. Covered
    BY <1>1, <1>3 DEF LedgerInit, Covered, Since
<1>5. Exact
    BY <1>1, <1>3 DEF LedgerInit, Exact, Counters
<1> QED BY <1>2, <1>4, <1>5 DEF LedgerInv

\* An answer: the counters may start again, but what they show then was used.
LEMMA AnswerKeeps ==
    ASSUME LedgerInv, NEW kind \in Kinds, NEW n \in Nat, NEW whole \in BOOLEAN,
           NEW again \in SUBSET Counters, Answer(kind, n, whole, again)
    PROVE  LedgerInv'
<1> USE DEF LedgerInv
<1> DEFINE count == [f \in Counters |-> (IF f \in again THEN 0 ELSE counter[f]) + n]
           report == IF whole THEN count ELSE [count EXCEPT !["tokens"] = n]
<1>1. /\ counter' = count /\ used' = [f \in Counters |-> used[f] + n]
      /\ lastResult' = [kind |-> kind, own |-> n, report |-> report]
      /\ inexact' = (inexact \/ again # {}) /\ caughtUp' = (caughtUp /\ n = 0)
      /\ UNCHANGED <<snapshot, charged>>
      /\ kind = "failed" => n = 0
      /\ ~whole => kind = "failed"
    BY DEF Answer
<1> HIDE DEF count, report
<1>2. /\ counter \in Amounts /\ used \in Amounts /\ charged \in Amounts /\ Base \in Amounts
      /\ Base' = Base /\ inexact \in BOOLEAN /\ caughtUp \in BOOLEAN
    BY <1>1, BaseType DEF LedgerTypes, Base
<1>3. /\ count \in Amounts /\ report \in Amounts /\ used' \in Amounts
      /\ \A f \in Counters : /\ count[f] = (IF f \in again THEN 0 ELSE counter[f]) + n
                             /\ used'[f] = used[f] + n
      /\ report = count \/ (n = 0 /\ \A f \in Counters : report[f] \in {0, count[f]})
    BY <1>1, <1>2 DEF count, report, Amounts, Counters
<1>4. LedgerTypes'
  <2>1. lastResult' \in Results
      BY <1>1, <1>3 DEF Results
  <2> QED BY <1>1, <1>2, <1>3, <2>1 DEF LedgerTypes
<1>5. SlotIsLast'
  <2>1. lastResult'.report = report /\ lastResult'.kind = kind /\ lastResult'.own = n
      BY <1>1
  <2>2. CASE whole
      BY <1>1, <2>1, <2>2 DEF SlotIsLast, report
  <2>3. CASE ~whole
      BY <1>1, <1>3, <2>1, <2>3 DEF SlotIsLast
  <2> QED BY <2>2, <2>3
<1>6. Covered'
  <2> SUFFICES ASSUME NEW f \in Counters
               PROVE  charged[f] + Since(count, Base, f) <= used[f] + n
      BY <1>1, <1>2, <1>3 DEF Covered
  <2>1. counter[f] \in Nat /\ used[f] \in Nat /\ charged[f] \in Nat /\ Base[f] \in Nat
      BY <1>2 DEF Amounts
  <2>2. charged[f] + Since(counter, Base, f) <= used[f]
      BY DEF Covered
  <2>3. count[f] = n \/ count[f] = counter[f] + n
      BY <1>3, <2>1
  <2> QED BY <2>1, <2>2, <2>3 DEF Since
<1>7. Exact'
  <2> SUFFICES ASSUME ~inexact, again = {} PROVE Exact'
      BY <1>1, <1>2 DEF Exact
  <2>1. \A f \in Counters : count[f] = counter[f] + n
      BY <1>2, <1>3 DEF Amounts
  <2>2. /\ counter = used /\ charged = Base /\ used["tokens"] = used["cost"]
        /\ charged["tokens"] = charged["cost"] /\ (caughtUp => charged = used)
        /\ \A f \in Counters : Base[f] <= counter[f]
      BY DEF Exact
  <2>3. count = used'
      BY <1>1, <1>2, <1>3, <2>1, <2>2 DEF Amounts
  <2>4. \A f \in Counters : Base[f] <= count[f]
      BY <1>2, <2>1, <2>2 DEF Amounts
  <2>5. used'["tokens"] = used'["cost"]
      BY <1>3, <2>2 DEF Counters
  <2>6. n = 0 => used' = used
      BY <1>1, <1>2 DEF Amounts
  <2> QED BY <1>1, <1>2, <2>2, <2>3, <2>4, <2>5, <2>6 DEF Exact
<1> QED BY <1>4, <1>5, <1>6, <1>7

\* A turn takes what is in the slot.
LEMMA TakeKeeps ==
    ASSUME LedgerInv, TakeResult, lastResult # NoReport
    PROVE  LedgerInv'
<1> USE DEF LedgerInv
<1> DEFINE r == lastResult
<1>1. /\ lastResult' = NoReport /\ UNCHANGED <<counter, used>>
      /\ snapshot' = Baseline(r)
      /\ charged' = [f \in Counters |-> charged[f] + Recorded(r)[f]]
      /\ inexact' = (inexact \/ (FailedWithoutUse(r) /\ snapshot = {} /\ used # Zero))
      /\ caughtUp' = (caughtUp \/ ~FailedWithoutUse(r))
    BY DEF TakeResult
<1>2. /\ r \in Results /\ r.report \in Amounts
      /\ counter \in Amounts /\ used \in Amounts /\ charged \in Amounts /\ Base \in Amounts
      /\ inexact \in BOOLEAN /\ caughtUp \in BOOLEAN
      /\ snapshot = {} => Base = Zero
      /\ snapshot # {} => snapshot = {Base}
    BY BaseType DEF LedgerTypes, Results
<1>3. Zero \in Amounts /\ \A f \in Counters : Zero[f] = 0
    BY DEF Zero, Amounts
<1> HIDE DEF r
<1>4. CASE FailedWithoutUse(r)
  <2>1. Delta(r) = Zero
      BY <1>4 DEF Delta
  <2>2. \A f \in Counters : Recorded(r)[f] = 0
      BY <2>1, <1>3 DEF Recorded, Zero
  <2>3. charged' = charged
      BY <1>1, <1>2, <2>2 DEF Amounts
  <2>4. CASE snapshot # {}
    <3>1. snapshot' = snapshot /\ Base' = Base
        BY <1>1, <1>4, <2>4 DEF Baseline, Base
    <3>2. inexact' = inexact /\ caughtUp' = caughtUp
        BY <1>1, <1>2, <1>4, <2>4
    <3>3. LedgerTypes' /\ SlotIsLast'
        BY <1>1, <1>2, <2>3, <3>1, <3>2 DEF LedgerTypes, SlotIsLast
    <3>4. Covered'
        BY <1>1, <2>3, <3>1 DEF Covered, Since
    <3>5. Exact'
        BY <1>1, <2>3, <3>1, <3>2 DEF Exact
    <3> QED BY <3>3, <3>4, <3>5
  <2>5. CASE snapshot = {}
    <3>1. snapshot' = {r.report}
        BY <1>1, <2>5 DEF Baseline
    <3>2. Base' = r.report
        BY <3>1 DEF Base
    <3>3. LedgerTypes' /\ SlotIsLast'
        BY <1>1, <1>2, <2>3, <3>1 DEF LedgerTypes, SlotIsLast
    <3>4. Covered'
      <4> SUFFICES ASSUME NEW f \in Counters
                   PROVE  charged[f] + Since(counter, r.report, f) <= used[f]
          BY <1>1, <2>3, <3>2 DEF Covered, Since
      <4>1. counter[f] \in Nat /\ used[f] \in Nat /\ charged[f] \in Nat /\ r.report[f] \in Nat
          BY <1>2 DEF Amounts
      <4>2. charged[f] + counter[f] <= used[f]
          BY <1>2, <1>3, <2>5, <4>1 DEF Covered, Since
      <4> QED BY <4>1, <4>2 DEF Since
    <3>5. Exact'
      <4> SUFFICES ASSUME ~inexact, used = Zero PROVE Exact'
          BY <1>1, <1>2, <1>4, <2>5 DEF Exact
      <4>1. counter = Zero /\ charged = Zero
          BY <1>2, <2>5 DEF Exact
      <4>2. \A f \in Counters : r.report[f] = 0
          BY <1>2, <1>3, <4>1 DEF SlotIsLast, r
      <4>3. r.report = Zero
          BY <1>2, <4>2 DEF Amounts, Zero
      <4>4. counter' = Zero /\ used' = Zero /\ charged' = Zero /\ Base' = Zero
          BY <1>1, <2>3, <3>2, <4>1, <4>3
      <4> QED BY <1>3, <4>4 DEF Exact, Counters
    <3> QED BY <3>3, <3>4, <3>5
  <2> QED BY <2>4, <2>5
<1>5. CASE ~FailedWithoutUse(r)
  <2>1. r.report = counter
      BY <1>5 DEF SlotIsLast, FailedWithoutUse, r
  <2>2. snapshot' = {counter} /\ Base' = counter /\ caughtUp' = TRUE /\ inexact' = inexact
      BY <1>1, <1>2, <1>5, <2>1 DEF Baseline, Base
  <2>3. \A f \in Counters : /\ Delta(r)[f] = Since(counter, Base, f)
                            /\ Delta(r)[f] \in Nat
    <3>1. \A f \in Counters : Delta(r)[f] = Since(counter, Base, f)
        BY <1>2, <1>5, <2>1, DeltaIsSince
    <3>2. \A f \in Counters : counter[f] \in Nat /\ Base[f] \in Nat
        BY <1>2 DEF Amounts
    <3> QED BY <3>1, <3>2 DEF Since
  <2>4. \A f \in Counters : \/ Recorded(r)[f] = Delta(r)[f]
                            \/ Delta(r)["tokens"] = 0 /\ f = "cost" /\ Recorded(r)[f] = 0
    <3>1. PICK g : Delta(r) = [f \in Counters |-> g[f]]
        BY <1>2, <1>5, <2>3 DEF Delta, Difference, Amounts
    <3>2. \A f \in Counters : [Delta(r) EXCEPT !["cost"] = 0][f] = IF f = "cost" THEN 0 ELSE Delta(r)[f]
        BY <3>1
    <3> QED BY <3>2 DEF Recorded, Counters
  <2>5. \A f \in Counters : /\ charged'[f] = charged[f] + Recorded(r)[f]
                            /\ charged'[f] \in Nat
      BY <1>1, <1>2, <2>3, <2>4 DEF Amounts
  <2>6. charged' \in Amounts
      BY <1>1, <2>5 DEF Amounts
  <2>7. LedgerTypes' /\ SlotIsLast'
      BY <1>1, <1>2, <2>2, <2>6 DEF LedgerTypes, SlotIsLast
  <2>8. Covered'
    <3> SUFFICES ASSUME NEW f \in Counters PROVE charged'[f] + Since(counter, counter, f) <= used[f]
        BY <1>1, <2>2 DEF Covered, Since
    <3>1. counter[f] \in Nat /\ used[f] \in Nat /\ charged[f] \in Nat /\ charged'[f] \in Nat
        BY <1>2, <2>5 DEF Amounts
    <3>2. charged[f] + Since(counter, Base, f) <= used[f]
        BY DEF Covered
    <3> QED BY <3>1, <3>2, <2>3, <2>4, <2>5 DEF Since
  <2>9. Exact'
    <3> SUFFICES ASSUME ~inexact PROVE Exact'
        BY <2>2 DEF Exact
    <3>1. /\ counter = used /\ charged = Base /\ used["tokens"] = used["cost"]
          /\ charged["tokens"] = charged["cost"]
          /\ \A f \in Counters : Base[f] <= counter[f]
        BY DEF Exact
    <3>2. \A f \in Counters : counter[f] \in Nat /\ Base[f] \in Nat
        BY <1>2 DEF Amounts
    <3>3. \A f \in Counters : Delta(r)[f] = counter[f] - Base[f]
        BY <2>3, <3>1, <3>2 DEF Since
    <3>4. Delta(r)["tokens"] = Delta(r)["cost"]
        BY <3>1, <3>3 DEF Counters
    <3>5. \A f \in Counters : Recorded(r)[f] = counter[f] - Base[f]
        BY <2>4, <3>3, <3>4
    <3>6. \A f \in Counters : charged'[f] = counter[f]
        BY <2>5, <3>1, <3>2, <3>5
    <3>7. charged' = counter
        BY <1>2, <2>6, <3>6 DEF Amounts
    <3> QED BY <1>1, <2>2, <3>1, <3>2, <3>7 DEF Exact
  <2> QED BY <2>7, <2>8, <2>9
<1> QED BY <1>4, <1>5

LEMMA LedgerStep == LedgerInv /\ [LedgerNext]_ledgerVars => LedgerInv'
<1> SUFFICES ASSUME LedgerInv, [LedgerNext]_ledgerVars PROVE LedgerInv'
    OBVIOUS
<1>1. ASSUME UNCHANGED <<counter, used, snapshot, charged, inexact, caughtUp>>,
             lastResult' \in {lastResult, NoReport}
      PROVE  LedgerInv'
  <2>1. Base' = Base
      BY <1>1 DEF Base
  <2>2. LedgerTypes' /\ SlotIsLast'
      BY <1>1 DEF LedgerInv, LedgerTypes, SlotIsLast
  <2>3. Covered' /\ Exact'
      BY <1>1, <2>1 DEF LedgerInv, Covered, Exact, Since
  <2> QED BY <2>2, <2>3 DEF LedgerInv
<1>2. CASE StartTurn
    BY <1>1, <1>2 DEF StartTurn
<1>3. CASE TakeResult
  <2>1. CASE lastResult = NoReport
      BY <1>1, <1>3, <2>1 DEF TakeResult
  <2> QED BY <1>3, <2>1, TakeKeeps
<1>4. CASE NewProcess
  <2>1. Zero \in Amounts /\ \A f \in Counters : Zero[f] = 0
      BY DEF Zero, Amounts
  <2>2. LedgerTypes' /\ SlotIsLast'
      BY <1>4, <2>1 DEF NewProcess, LedgerTypes, SlotIsLast
  <2>3. Base' = Zero
      BY <1>4 DEF NewProcess, Base
  <2>4. Covered' /\ Exact'
      BY <1>4, <2>1, <2>3 DEF NewProcess, Covered, Exact, Since, Counters
  <2> QED BY <2>2, <2>4 DEF LedgerInv
<1>5. ASSUME NEW kind \in Kinds, NEW n \in 0..MaxUse, NEW whole \in BOOLEAN,
             NEW again \in SUBSET Counters, Answer(kind, n, whole, again)
      PROVE  LedgerInv'
  <2>1. n \in Nat
      BY LedgerAssumption
  <2> QED BY <1>5, <2>1, AnswerKeeps
<1>6. CASE UNCHANGED ledgerVars
    BY <1>1, <1>6 DEF ledgerVars
<1> QED BY <1>2, <1>3, <1>4, <1>5, <1>6 DEF LedgerNext

\* Nothing is charged twice, for any number of turns, amounts of use and resets of
\* the counters.
THEOREM NeverChargedTwice == LedgerSpec => []ChargedOnce
<1>1. LedgerInv => ChargedOnce
  <2> SUFFICES ASSUME LedgerInv PROVE ChargedOnce
      OBVIOUS
  <2>1. ASSUME NEW f \in Counters PROVE charged[f] <= used[f]
    <3>1. /\ counter[f] \in Nat /\ used[f] \in Nat /\ charged[f] \in Nat /\ Base[f] \in Nat
          /\ charged[f] + Since(counter, Base, f) <= used[f]
        BY BaseType DEF LedgerInv, LedgerTypes, Covered, Amounts
    <3> QED BY <3>1 DEF Since
  <2> QED BY <2>1 DEF LedgerInv, Exact, ChargedOnce
<1> QED BY <1>1, LedgerStart, LedgerStep, PTL DEF LedgerSpec

-----------------------------------------------------------------------------
(***************************************************************************)
(* TurnSettings.  The argument: what a turn has read is current until it   *)
(* begins, unless the turn is marked as overtaken (ReadsHold), and the     *)
(* same of what a process was started with (ProcessesHold).                *)
(***************************************************************************)

RequestTypes ==
    [at : {"queued", "resolved", "ready", "running", "over"}, user : Users, chat : Chats,
     lane : Lanes, cli : Clis, model : Nat, workspace : Nat, asked : Nat, old : BOOLEAN]
ProcessTypes ==
    [by : Users, model : Nat, workspace : Nat, old : BOOLEAN, missed : BOOLEAN]

SettingsTypes ==
    /\ cliOf \in [Users -> Clis]
    /\ modelOf \in [Users -> [Keys -> Nat]]
    /\ workspaceOf \in [Users -> Nat]
    /\ request \in Seq(RequestTypes)
    /\ process \in [Keys -> ProcessTypes \union {NoProcess}]
    /\ killing \in Keys \union {NoCommand}
    /\ changes \in Nat

\* What a turn has read still holds until it begins, unless it is marked.
ReadsHold ==
    \A t \in Requests : ~request[t].old =>
        /\ request[t].at \in {"resolved", "ready"} =>
              request[t].model = modelOf[request[t].user][Key(t)]
        /\ request[t].at = "ready" => request[t].workspace = workspaceOf[request[t].user]

\* A process has what its user has chosen, unless a command is about to kill it.
ProcessesHold ==
    \A k \in Keys : process[k] # NoProcess /\ ~process[k].old /\ killing # k =>
        /\ process[k].model = modelOf[process[k].by][k]
        /\ process[k].missed \/ process[k].workspace = workspaceOf[process[k].by]

\* A turn that runs has a process, and one that has what the turn has read.
TurnsMatch ==
    \A t \in Running :
        LET p == process[Key(t)]
        IN  /\ p # NoProcess
            /\ ~request[t].old /\ ~p.old /\ killing # Key(t) /\ p.by = request[t].user =>
                  /\ p.model = request[t].model
                  /\ p.missed \/ p.workspace = request[t].workspace

SettingsInv == SettingsTypes /\ ReadsHold /\ ProcessesHold /\ TurnsMatch

LEMMA RequestTypesOf ==
    ASSUME SettingsTypes
    PROVE  /\ request \in [Requests -> RequestTypes] /\ Requests = 1..Len(request)
           /\ \A t \in Requests : /\ request[t] \in RequestTypes /\ Key(t) \in Keys
                                  /\ Key(t) = <<request[t].chat, request[t].cli>>
<1>1. request \in [Requests -> RequestTypes] /\ Requests = 1..Len(request)
    BY LenProperties, ElementOfSeq DEF SettingsTypes, Requests
<1> QED BY <1>1 DEF Key, Keys, RequestTypes

\* Steps that add no request.
LEMMA RequestsStay ==
    ASSUME SettingsTypes, request' \in [Requests -> RequestTypes]
    PROVE  request' \in Seq(RequestTypes) /\ Requests' = Requests
<1>1. Requests = 1..Len(request) /\ Len(request) \in Nat
    BY RequestTypesOf, LenProperties DEF SettingsTypes
<1>2. request' \in [1..Len(request) -> RequestTypes]
    BY <1>1
<1>3. request' \in Seq(RequestTypes)
    BY <1>1, <1>2, IsASeq
<1> QED BY <1>3 DEF Requests

\* A step of a turn that waits or runs, which changes the turn alone.
TurnGoes(t) ==
    /\ UNCHANGED <<preferences, process, killing, changes>>
    /\ request' \in [Requests -> RequestTypes]
    /\ \A s \in Requests : s # t => request'[s] = request[s]

LEMMA TurnStep ==
    ASSUME SettingsInv, NEW t \in Requests, TurnGoes(t), request'[t].at # "running",
           ~request'[t].old =>
               /\ request'[t].at \in {"resolved", "ready"} =>
                     request'[t].model = modelOf[request'[t].user][Key(t)']
               /\ request'[t].at = "ready" => request'[t].workspace = workspaceOf[request'[t].user]
    PROVE  SettingsInv'
<1>1. SettingsTypes /\ SettingsTypes' /\ Requests' = Requests
    BY RequestsStay DEF TurnGoes, SettingsInv, SettingsTypes, preferences
<1>2. ReadsHold'
  <2> SUFFICES ASSUME NEW s \in Requests, ~request'[s].old
               PROVE  /\ request'[s].at \in {"resolved", "ready"} =>
                            request'[s].model = modelOf'[request'[s].user][Key(s)']
                      /\ request'[s].at = "ready" =>
                            request'[s].workspace = workspaceOf'[request'[s].user]
      BY <1>1 DEF ReadsHold
  <2>1. CASE s = t
      BY <2>1 DEF TurnGoes, preferences
  <2>2. CASE s # t
    <3>1. request'[s] = request[s] /\ Key(s)' = Key(s)
        BY <2>2 DEF TurnGoes, Key
    <3> QED BY <3>1 DEF TurnGoes, preferences, SettingsInv, ReadsHold
  <2> QED BY <2>1, <2>2
<1>3. ProcessesHold'
    BY DEF TurnGoes, preferences, SettingsInv, ProcessesHold
<1>4. TurnsMatch'
  <2>1. Running' \subseteq Running /\ t \notin Running'
      BY <1>1 DEF Running, TurnGoes
  <2>2. \A s \in Running' : request'[s] = request[s] /\ Key(s)' = Key(s)
      BY <1>1, <2>1 DEF TurnGoes, Running, Key
  <2> QED BY <2>1, <2>2 DEF TurnGoes, SettingsInv, TurnsMatch
<1> QED BY <1>1, <1>2, <1>3, <1>4 DEF SettingsInv

LEMMA ArriveStep ==
    ASSUME SettingsInv, NEW u \in Users, NEW c \in Chats, NEW manage \in BOOLEAN, Arrive(u, c, manage)
    PROVE  SettingsInv'
<1> DEFINE new == [at |-> "queued", user |-> u, chat |-> c,
                   lane |-> IF manage THEN "_manage" ELSE cliOf[u],
                   cli |-> cliOf[u], model |-> 0, workspace |-> 0,
                   asked |-> modelOf[u][<<c, cliOf[u]>>], old |-> FALSE]
<1>1. request' = Append(request, new) /\ UNCHANGED <<preferences, process, killing, changes>>
    BY DEF Arrive
<1>2. new \in RequestTypes /\ new.at = "queued"
  <2>1. cliOf[u] \in Clis /\ modelOf[u][<<c, cliOf[u]>>] \in Nat
      BY DEF SettingsInv, SettingsTypes, Keys
  <2> QED BY <2>1 DEF RequestTypes, Lanes
<1> HIDE DEF new
<1>3. /\ request \in Seq(RequestTypes) /\ request' \in Seq(RequestTypes)
      /\ Len(request) \in Nat /\ Len(request') = Len(request) + 1
      /\ \A s \in 1..Len(request) : request'[s] = request[s]
      /\ request'[Len(request) + 1] = new
    BY <1>1, <1>2, AppendProperties, LenProperties DEF SettingsInv, SettingsTypes
<1>4. /\ SettingsTypes' /\ Requests = 1..Len(request) /\ Requests' = 1..(Len(request) + 1)
    BY <1>1, <1>3, LenProperties DEF SettingsInv, SettingsTypes, preferences, Requests
<1>5. \A s \in Requests' : \/ s \in Requests /\ request'[s] = request[s] /\ Key(s)' = Key(s)
                           \/ request'[s].at = "queued"
    BY <1>2, <1>3, <1>4 DEF Key
<1>6. ReadsHold'
    BY <1>1, <1>5 DEF ReadsHold, SettingsInv, preferences
<1>7. ProcessesHold'
    BY <1>1 DEF ProcessesHold, SettingsInv, preferences
<1>8. TurnsMatch'
  <2>1. \A s \in Running' : s \in Running /\ request'[s] = request[s] /\ Key(s)' = Key(s)
      BY <1>5 DEF Running
  <2> QED BY <1>1, <2>1 DEF TurnsMatch, SettingsInv
<1> QED BY <1>4, <1>6, <1>7, <1>8 DEF SettingsInv

LEMMA BeginStepOf ==
    ASSUME SettingsInv, NEW t \in Requests, BeginTurn(t)
    PROVE  SettingsInv'
<1> USE DEF preferences
<1> DEFINE k == Key(t)
<1>1. /\ request[t].at = "ready" /\ UNCHANGED <<preferences, killing, changes>>
      /\ \/ process[k] = NoProcess /\ process' = [process EXCEPT ![k] = Spawned(t)]
         \/ process[k] # NoProcess /\ UNCHANGED process
    BY DEF BeginTurn
<1>2. PICK place \in {"running", "over"} : request' = [request EXCEPT ![t].at = place]
    BY DEF BeginTurn
<1>3. /\ request \in [Requests -> RequestTypes]
      /\ \A s \in Requests : request[s] \in RequestTypes /\ Key(s) \in Keys
      /\ process \in [Keys -> ProcessTypes \union {NoProcess}]
    BY RequestTypesOf DEF SettingsInv, SettingsTypes
<1>4. /\ request' \in [Requests -> RequestTypes]
      /\ \A s \in Requests : s # t => request'[s] = request[s]
      /\ request'[t] = [request[t] EXCEPT !.at = place]
    BY <1>2, <1>3 DEF RequestTypes
<1>5. /\ request'[t].at = place /\ request'[t].user = request[t].user
      /\ request'[t].model = request[t].model /\ request'[t].workspace = request[t].workspace
      /\ request'[t].old = request[t].old /\ Key(t)' = Key(t)
    BY <1>3, <1>4 DEF RequestTypes, Key
<1>6. Spawned(t) \in ProcessTypes /\ Spawned(t) # NoProcess
  <2>1. /\ request[t].user \in Users /\ request[t].model \in Nat /\ request[t].workspace \in Nat
        /\ request[t].old \in BOOLEAN
      BY <1>3 DEF RequestTypes
  <2>2. Spawned(t) \in ProcessTypes
      BY <2>1 DEF Spawned, ProcessTypes
  <2> QED BY <2>2, SettingsAssumption DEF ProcessTypes
<1>7. SettingsTypes' /\ Requests' = Requests
    BY <1>1, <1>3, <1>4, <1>6, RequestsStay DEF SettingsInv, SettingsTypes
<1>8. /\ k \in Keys /\ process'[k] # NoProcess
      /\ \A l \in Keys : l # k => process'[l] = process[l]
      /\ process'[k] = process[k] \/ (process[k] = NoProcess /\ process'[k] = Spawned(t))
    BY <1>1, <1>3, <1>6
<1>s. /\ Spawned(t).by = request[t].user /\ Spawned(t).model = request[t].model
      /\ Spawned(t).workspace = request[t].workspace /\ Spawned(t).old = request[t].old
    BY DEF Spawned
<1> HIDE DEF k
<1>9. ~request[t].old => /\ request[t].model = modelOf[request[t].user][k]
                         /\ request[t].workspace = workspaceOf[request[t].user]
    BY <1>1 DEF SettingsInv, ReadsHold, k
<1>10. ReadsHold'
  <2> SUFFICES ASSUME NEW s \in Requests, ~request'[s].old, request'[s].at \in {"resolved", "ready"}
               PROVE  /\ request'[s].model = modelOf[request'[s].user][Key(s)']
                      /\ request'[s].at = "ready" => request'[s].workspace = workspaceOf[request'[s].user]
      BY <1>1, <1>7 DEF ReadsHold
  <2>1. s # t
      BY <1>5
  <2>2. request'[s] = request[s] /\ Key(s)' = Key(s)
      BY <1>4, <2>1 DEF Key
  <2> QED BY <2>2 DEF SettingsInv, ReadsHold
<1>11. ProcessesHold'
  <2> SUFFICES ASSUME NEW l \in Keys, process'[l] # NoProcess, ~process'[l].old, killing # l
               PROVE  /\ process'[l].model = modelOf[process'[l].by][l]
                      /\ process'[l].missed \/ process'[l].workspace = workspaceOf[process'[l].by]
      BY <1>1 DEF ProcessesHold
  <2>1. CASE process'[l] = process[l]
      BY <2>1 DEF SettingsInv, ProcessesHold
  <2>2. CASE l = k /\ process'[k] = Spawned(t)
      BY <2>2, <1>s, <1>9
  <2> QED BY <2>1, <2>2, <1>8
<1>12. TurnsMatch'
  <2> SUFFICES ASSUME NEW s \in Requests, request'[s].at = "running"
               PROVE  /\ process'[Key(s)'] # NoProcess
                      /\ /\ ~request'[s].old /\ ~process'[Key(s)'].old /\ killing # Key(s)'
                         /\ process'[Key(s)'].by = request'[s].user
                         => /\ process'[Key(s)'].model = request'[s].model
                            /\ \/ process'[Key(s)'].missed
                               \/ process'[Key(s)'].workspace = request'[s].workspace
      BY <1>1, <1>7 DEF TurnsMatch, Running
  <2>1. CASE s # t
    <3>1. request'[s] = request[s] /\ Key(s)' = Key(s) /\ s \in Running
        BY <1>4, <2>1 DEF Key, Running
    <3>2. process'[Key(s)] = process[Key(s)]
        BY <1>3, <1>8, <3>1 DEF SettingsInv, TurnsMatch
    <3> QED BY <3>1, <3>2 DEF SettingsInv, TurnsMatch
  <2>2. CASE s = t
    <3>1. Key(t)' = k
        BY <1>5 DEF k
    <3>2. CASE process'[k] = Spawned(t)
        BY <1>5, <1>8, <1>s, <2>2, <3>1, <3>2
    <3>3. CASE process'[k] = process[k]
        BY <1>5, <1>8, <1>9, <2>2, <3>1, <3>3 DEF SettingsInv, ProcessesHold
    <3> QED BY <1>8, <3>2, <3>3
  <2> QED BY <2>1, <2>2
<1> QED BY <1>7, <1>10, <1>11, <1>12 DEF SettingsInv

\* A process goes with its turns, and the command that killed it is done.
LEMMA GoneStep ==
    ASSUME SettingsInv, NEW k \in Keys, Gone(k, request), UNCHANGED <<preferences, changes>>,
           killing' = killing \/ (killing = k /\ killing' = NoCommand)
    PROVE  SettingsInv'
<1> USE DEF preferences
<1>1. /\ request \in [Requests -> RequestTypes]
      /\ \A s \in Requests : request[s] \in RequestTypes /\ Key(s) \in Keys
      /\ process \in [Keys -> ProcessTypes \union {NoProcess}]
    BY RequestTypesOf DEF SettingsInv, SettingsTypes
<1>2. /\ request' \in [Requests -> RequestTypes]
      /\ \A s \in Requests : \/ request'[s] = request[s]
                             \/ request'[s] = [request[s] EXCEPT !.at = "over"]
      /\ \A s \in Requests : request'[s].at = "running" => request'[s] = request[s] /\ Key(s) # k
    BY <1>1 DEF Gone, RequestTypes
<1>3. /\ process'[k] = NoProcess /\ \A l \in Keys : l # k => process'[l] = process[l]
      /\ process' \in [Keys -> ProcessTypes \union {NoProcess}]
    BY <1>1 DEF Gone
<1>4. SettingsTypes' /\ Requests' = Requests
    BY <1>2, <1>3, RequestsStay DEF SettingsInv, SettingsTypes
<1>5. ReadsHold'
  <2> SUFFICES ASSUME NEW s \in Requests, ~request'[s].old, request'[s].at \in {"resolved", "ready"}
               PROVE  /\ request'[s].model = modelOf[request'[s].user][Key(s)']
                      /\ request'[s].at = "ready" => request'[s].workspace = workspaceOf[request'[s].user]
      BY <1>4 DEF ReadsHold
  <2>1. request'[s] = request[s]
      BY <1>1, <1>2 DEF RequestTypes
  <2> QED BY <2>1 DEF SettingsInv, ReadsHold, Key
<1>6. ProcessesHold'
    BY <1>3 DEF SettingsInv, ProcessesHold
<1>7. TurnsMatch'
  <2>1. \A s \in Running' : /\ s \in Running /\ request'[s] = request[s]
                            /\ Key(s)' = Key(s) /\ Key(s) \in Keys /\ Key(s) # k
      BY <1>1, <1>2, <1>4 DEF Running, Key
  <2>2. \A s \in Running' : process'[Key(s)] = process[Key(s)] /\ (killing' # Key(s) => killing # Key(s))
      BY <1>3, <2>1
  <2> QED BY <2>1, <2>2 DEF SettingsInv, TurnsMatch
<1> QED BY <1>4, <1>5, <1>6, <1>7 DEF SettingsInv


\* A step that changes a preference marks the turns that have read it, and the
\* processes that it neither reaches nor kills.
LEMMA ChoiceStep ==
    ASSUME SettingsInv, NEW readers \in SUBSET Requests, Outdated(readers),
           cliOf' \in [Users -> Clis], modelOf' \in [Users -> [Keys -> Nat]],
           workspaceOf' \in [Users -> Nat], changes' \in Nat,
           killing' = killing \/ (killing = NoCommand /\ killing' \in Keys),
           NEW moved \in SUBSET Keys,
           process' = [k \in Keys |-> IF process[k] # NoProcess /\ k \in moved
                                      THEN [process[k] EXCEPT !.missed = TRUE] ELSE process[k]],
           \A t \in Requests : t \notin readers =>
              /\ request[t].at \in {"resolved", "ready"} =>
                    modelOf'[request[t].user][Key(t)] = modelOf[request[t].user][Key(t)]
              /\ request[t].at = "ready" => workspaceOf'[request[t].user] = workspaceOf[request[t].user],
           \A k \in Keys : process[k] # NoProcess /\ killing' # k =>
              /\ modelOf'[process[k].by][k] = modelOf[process[k].by][k]
              /\ k \in moved \/ workspaceOf'[process[k].by] = workspaceOf[process[k].by]
    PROVE  SettingsInv'
<1>1. /\ request \in [Requests -> RequestTypes]
      /\ \A s \in Requests : request[s] \in RequestTypes /\ Key(s) \in Keys
      /\ process \in [Keys -> ProcessTypes \union {NoProcess}]
    BY RequestTypesOf DEF SettingsInv, SettingsTypes
<1>2. /\ request' \in [Requests -> RequestTypes]
      /\ \A s \in Requests :
            /\ request'[s].at = request[s].at /\ request'[s].user = request[s].user
            /\ request'[s].model = request[s].model /\ request'[s].workspace = request[s].workspace
            /\ request'[s].chat = request[s].chat /\ request'[s].cli = request[s].cli
            /\ ~request'[s].old => ~request[s].old /\ s \notin readers
  <2> DEFINE mark == [s \in Requests |-> request[s].old \/ s \in readers]
  <2>1. request' = [s \in Requests |-> [request[s] EXCEPT !.old = mark[s]]]
      BY DEF Outdated
  <2>2. \A s \in Requests : mark[s] \in BOOLEAN /\ (~mark[s] => ~request[s].old /\ s \notin readers)
      BY <1>1 DEF RequestTypes
  <2> HIDE DEF mark
  <2>3. \A s \in Requests :
            /\ request'[s].at = request[s].at /\ request'[s].user = request[s].user
            /\ request'[s].model = request[s].model /\ request'[s].workspace = request[s].workspace
            /\ request'[s].chat = request[s].chat /\ request'[s].cli = request[s].cli
            /\ request'[s].old = mark[s]
    <3> SUFFICES ASSUME NEW s \in Requests
                 PROVE  /\ request'[s].at = request[s].at /\ request'[s].user = request[s].user
                        /\ request'[s].model = request[s].model
                        /\ request'[s].workspace = request[s].workspace
                        /\ request'[s].chat = request[s].chat /\ request'[s].cli = request[s].cli
                        /\ request'[s].old = mark[s]
        OBVIOUS
    <3>1. request'[s] = [request[s] EXCEPT !.old = mark[s]] /\ request[s] \in RequestTypes
        BY <1>1, <2>1
    <3> QED BY <3>1 DEF RequestTypes
  <2>4. ASSUME NEW s \in Requests PROVE request'[s] \in RequestTypes
    <3>1. request'[s] = [request[s] EXCEPT !.old = mark[s]] /\ request[s] \in RequestTypes
        BY <1>1, <2>1
    <3>2. mark[s] \in BOOLEAN
        BY <2>2
    <3> QED BY <3>1, <3>2 DEF RequestTypes
  <2>5. request' \in [Requests -> RequestTypes]
      BY <2>1, <2>4
  <2> QED BY <2>2, <2>3, <2>5
<1>3. \A k \in Keys : process[k] # NoProcess =>
          /\ process'[k] \in ProcessTypes /\ process'[k] # NoProcess
          /\ process'[k].by = process[k].by /\ process'[k].model = process[k].model
          /\ process'[k].workspace = process[k].workspace /\ process'[k].old = process[k].old
          /\ process'[k].missed <=> process[k].missed \/ k \in moved
  <2> SUFFICES ASSUME NEW k \in Keys, process[k] # NoProcess
               PROVE  /\ process'[k] \in ProcessTypes /\ process'[k] # NoProcess
                      /\ process'[k].by = process[k].by /\ process'[k].model = process[k].model
                      /\ process'[k].workspace = process[k].workspace
                      /\ process'[k].old = process[k].old
                      /\ process'[k].missed <=> process[k].missed \/ k \in moved
      OBVIOUS
  <2>1. process[k] \in ProcessTypes
      BY <1>1
  <2>2. /\ k \in moved => process'[k] = [process[k] EXCEPT !.missed = TRUE]
        /\ k \notin moved => process'[k] = process[k]
      OBVIOUS
  <2>3. process'[k] \in ProcessTypes
      BY <2>1, <2>2 DEF ProcessTypes
  <2>4. process'[k] # NoProcess
      BY <2>3, SettingsAssumption DEF ProcessTypes
  <2> QED BY <2>1, <2>2, <2>3, <2>4 DEF ProcessTypes
<1>4. /\ process' \in [Keys -> ProcessTypes \union {NoProcess}]
      /\ \A k \in Keys : process[k] = NoProcess => process'[k] = NoProcess
  <2>1. \A k \in Keys : process'[k] \in ProcessTypes \union {NoProcess}
      BY <1>3
  <2> QED BY <2>1
<1>5. \A k \in Keys : killing' # k => killing # k
    BY DEF NoCommand, Keys
<1>6. SettingsTypes' /\ Requests' = Requests
    BY <1>2, <1>4, RequestsStay DEF SettingsInv, SettingsTypes
<1>7. \A s \in Requests : Key(s)' = Key(s)
    BY <1>2 DEF Key
<1>8. ReadsHold'
  <2> SUFFICES ASSUME NEW s \in Requests, ~request'[s].old, request'[s].at \in {"resolved", "ready"}
               PROVE  /\ request'[s].model = modelOf'[request'[s].user][Key(s)']
                      /\ request'[s].at = "ready" => request'[s].workspace = workspaceOf'[request'[s].user]
      BY <1>6 DEF ReadsHold
  <2> QED BY <1>2, <1>7 DEF SettingsInv, ReadsHold
<1>9. ProcessesHold'
  <2> SUFFICES ASSUME NEW l \in Keys, process'[l] # NoProcess, ~process'[l].old, killing' # l
               PROVE  /\ process'[l].model = modelOf'[process'[l].by][l]
                      /\ process'[l].missed \/ process'[l].workspace = workspaceOf'[process'[l].by]
      BY DEF ProcessesHold
  <2> QED BY <1>3, <1>4, <1>5 DEF SettingsInv, ProcessesHold
<1>10. TurnsMatch'
  <2> SUFFICES ASSUME NEW s \in Requests, request'[s].at = "running"
               PROVE  LET p == process'[Key(s)']
                      IN  /\ p # NoProcess
                          /\ ~request'[s].old /\ ~p.old /\ killing' # Key(s)' /\ p.by = request'[s].user =>
                                /\ p.model = request'[s].model
                                /\ p.missed \/ p.workspace = request'[s].workspace
      BY <1>6 DEF TurnsMatch, Running
  <2>1. /\ s \in Running /\ Key(s)' = Key(s) /\ Key(s) \in Keys /\ process[Key(s)] # NoProcess
        /\ ~request'[s].old => ~request[s].old
      BY <1>1, <1>2, <1>7 DEF Running, SettingsInv, TurnsMatch
  <2> QED BY <1>2, <1>3, <1>5, <2>1 DEF SettingsInv, TurnsMatch
<1> QED BY <1>6, <1>8, <1>9, <1>10 DEF SettingsInv

\* The processes of u that a change of the directory leaves as they are.
LEMMA MovedStep ==
    ASSUME SettingsInv, NEW u \in Users, NEW killed, Moved(u, killed), changes' \in Nat,
           \/ killing' = killing /\ killed = {}
           \/ killing = NoCommand /\ killing' \in Keys /\ killed = {killing'}
    PROVE  SettingsInv'
<1> DEFINE readers == {t \in Requests : request[t].at = "ready" /\ request[t].user = u}
           moved == {k \in Keys : k \notin killed /\ process[k].by = u}
<1>1. /\ readers \in SUBSET Requests /\ moved \in SUBSET Keys /\ Outdated(readers)
      /\ cliOf' = cliOf /\ modelOf' = modelOf
    BY DEF Moved
<1>2. workspaceOf' = [workspaceOf EXCEPT ![u] = changes + 1]
    BY DEF Moved
<1>3. /\ cliOf' \in [Users -> Clis] /\ modelOf' \in [Users -> [Keys -> Nat]]
      /\ workspaceOf' \in [Users -> Nat]
      /\ \A v \in Users : v # u => workspaceOf'[v] = workspaceOf[v]
    BY <1>1, <1>2 DEF SettingsInv, SettingsTypes
<1>4. process' = [k \in Keys |-> IF process[k] # NoProcess /\ k \in moved
                                 THEN [process[k] EXCEPT !.missed = TRUE] ELSE process[k]]
    BY DEF Moved
<1>5. /\ \A s \in Requests : request[s].user \in Users
      /\ \A k \in Keys : process[k] # NoProcess => process[k].by \in Users
    BY RequestTypesOf DEF SettingsInv, SettingsTypes, RequestTypes, ProcessTypes
<1>6. \A t \in Requests : t \notin readers /\ request[t].at = "ready" =>
          workspaceOf'[request[t].user] = workspaceOf[request[t].user]
    BY <1>3, <1>5
<1>7. \A k \in Keys : process[k] # NoProcess /\ killing' # k =>
          k \in moved \/ workspaceOf'[process[k].by] = workspaceOf[process[k].by]
    BY <1>3, <1>5
<1>8. killing' = killing \/ (killing = NoCommand /\ killing' \in Keys)
    OBVIOUS
<1> HIDE DEF readers, moved
<1> QED BY <1>1, <1>3, <1>4, <1>6, <1>7, <1>8, ChoiceStep

LEMMA SwitchModelStep ==
    ASSUME SettingsInv, NEW u \in Users, NEW c \in Chats, SwitchModel(u, c)
    PROVE  SettingsInv'
<1> DEFINE k == <<c, cliOf[u]>>
           readers == {t \in Requests : /\ request[t].at \in {"resolved", "ready"}
                                        /\ request[t].user = u /\ Key(t) = k}
<1>1. /\ readers \in SUBSET Requests /\ Outdated(readers) /\ cliOf' = cliOf
      /\ workspaceOf' = workspaceOf /\ process' = process
      /\ killing = NoCommand /\ killing' = k /\ changes' = changes + 1
      /\ modelOf' = [modelOf EXCEPT ![u][k] = changes + 1]
    BY DEF SwitchModel, Command, Change
<1>2. k \in Keys /\ changes' \in Nat
    BY <1>1 DEF Keys, SettingsInv, SettingsTypes
<1>3. /\ modelOf' \in [Users -> [Keys -> Nat]]
      /\ \A v \in Users, l \in Keys : v # u \/ l # k => modelOf'[v][l] = modelOf[v][l]
  <2>1. modelOf \in [Users -> [Keys -> Nat]] /\ changes + 1 \in Nat
      BY DEF SettingsInv, SettingsTypes
  <2> HIDE DEF k
  <2>2. [modelOf[u] EXCEPT ![k] = changes + 1] \in [Keys -> Nat]
      BY <1>2, <2>1
  <2>3. modelOf' = [modelOf EXCEPT ![u] = [modelOf[u] EXCEPT ![k] = changes + 1]]
      BY <1>1
  <2> QED BY <1>2, <2>1, <2>2, <2>3
<1>4. cliOf' \in [Users -> Clis] /\ workspaceOf' \in [Users -> Nat]
    BY <1>1 DEF SettingsInv, SettingsTypes
<1>5. process' = [l \in Keys |-> IF process[l] # NoProcess /\ l \in {}
                                 THEN [process[l] EXCEPT !.missed = TRUE] ELSE process[l]]
  <2>1. process \in [Keys -> ProcessTypes \union {NoProcess}]
      BY DEF SettingsInv, SettingsTypes
  <2> QED BY <1>1, <2>1
<1>6. /\ \A s \in Requests : request[s].user \in Users /\ Key(s) \in Keys
      /\ \A l \in Keys : process[l] # NoProcess => process[l].by \in Users
    BY RequestTypesOf DEF SettingsInv, SettingsTypes, RequestTypes, ProcessTypes
<1>7. \A t \in Requests : t \notin readers /\ request[t].at \in {"resolved", "ready"} =>
              modelOf'[request[t].user][Key(t)] = modelOf[request[t].user][Key(t)]
    BY <1>3, <1>6
<1>8. \A l \in Keys : process[l] # NoProcess /\ killing' # l =>
          modelOf'[process[l].by][l] = modelOf[process[l].by][l]
    BY <1>1, <1>3, <1>6
<1>9. {} \in SUBSET Keys
    OBVIOUS
<1> HIDE DEF readers, k
<1> QED BY <1>1, <1>2, <1>3, <1>4, <1>5, <1>7, <1>8, <1>9, ChoiceStep

LEMMA SwitchCliStep ==
    ASSUME SettingsInv, NEW u \in Users, NEW c \in Chats, NEW cli \in Clis, SwitchCli(u, c, cli)
    PROVE  SettingsInv'
<1>1. /\ UNCHANGED <<modelOf, workspaceOf, request, process>> /\ cliOf' = [cliOf EXCEPT ![u] = cli]
      /\ killing = NoCommand /\ killing' = <<c, cliOf[u]>> /\ changes' = changes + 1
    BY DEF SwitchCli, Command, Change
<1>2. killing' \in Keys /\ changes' \in Nat /\ cliOf' \in [Users -> Clis]
    BY <1>1 DEF SettingsInv, SettingsTypes, Keys
<1>3. SettingsTypes'
    BY <1>1, <1>2 DEF SettingsInv, SettingsTypes
<1>4. \A k \in Keys : killing # k
    BY <1>1 DEF NoCommand, Keys
<1>5. ReadsHold'
    BY <1>1 DEF SettingsInv, ReadsHold, Requests, Key
<1>6. ProcessesHold'
    BY <1>1, <1>4 DEF SettingsInv, ProcessesHold
<1>7. TurnsMatch'
  <2>1. \A t \in Running : Key(t) \in Keys
      BY RequestTypesOf DEF SettingsInv, Running
  <2> QED BY <1>1, <1>4, <2>1 DEF SettingsInv, TurnsMatch, Running, Requests, Key
<1> QED BY <1>3, <1>5, <1>6, <1>7 DEF SettingsInv

LEMMA SettingsStart == SettingsInit => SettingsInv
<1> SUFFICES ASSUME SettingsInit PROVE SettingsInv
    OBVIOUS
<1>1. request \in Seq(RequestTypes) /\ Requests = {}
  <2>1. request = << >> /\ << >> \in Seq(RequestTypes)
      BY EmptySeq DEF SettingsInit
  <2> QED BY <2>1 DEF Requests
<1>2. SettingsTypes
    BY <1>1 DEF SettingsInit, SettingsTypes
<1>3. ReadsHold /\ ProcessesHold /\ TurnsMatch
    BY <1>1 DEF SettingsInit, ReadsHold, ProcessesHold, TurnsMatch, Running
<1> QED BY <1>2, <1>3 DEF SettingsInv

LEMMA SettingsStep == SettingsInv /\ [SettingsNext]_settingsVars => SettingsInv'
<1> SUFFICES ASSUME SettingsInv, [SettingsNext]_settingsVars PROVE SettingsInv'
    OBVIOUS
<1>t. \A t \in Requests : request[t] \in RequestTypes /\ Key(t) \in Keys
    BY RequestTypesOf DEF SettingsInv
<1>f. request \in [Requests -> RequestTypes]
    BY RequestTypesOf DEF SettingsInv
<1>1. ASSUME NEW u \in Users, NEW c \in Chats, NEW manage \in BOOLEAN, Arrive(u, c, manage)
      PROVE  SettingsInv'
    BY <1>1, ArriveStep
<1>2. ASSUME NEW u \in Users, NEW c \in Chats, SwitchModel(u, c) PROVE SettingsInv'
    BY <1>2, SwitchModelStep
<1>3. ASSUME NEW u \in Users, NEW c \in Chats, SwitchWorkspace(u, c) PROVE SettingsInv'
  <2>1. /\ Moved(u, {killing'}) /\ killing = NoCommand /\ killing' = <<c, cliOf[u]>>
        /\ changes' = changes + 1
      BY <1>3 DEF SwitchWorkspace, Command, Change
  <2>2. killing' \in Keys /\ changes' \in Nat
      BY <2>1 DEF SettingsInv, SettingsTypes, Keys
  <2> QED BY <2>1, <2>2, MovedStep
<1>4. ASSUME NEW u \in Users, NEW c \in Chats, NEW cli \in Clis, SwitchCli(u, c, cli) PROVE SettingsInv'
    BY <1>4, SwitchCliStep
<1>5. ASSUME NEW t \in Requests, Resolve(t) PROVE SettingsInv'
  <2> DEFINE u == request[t].user
             m == modelOf[u][<<request[t].chat, cliOf[u]>>]
  <2>1. cliOf[u] \in Clis /\ m \in Nat
      BY <1>t DEF SettingsInv, SettingsTypes, RequestTypes, Keys
  <2>2. /\ request' = [request EXCEPT ![t].at = "resolved", ![t].cli = cliOf[u], ![t].model = m]
        /\ UNCHANGED <<preferences, process, killing, changes>>
      BY <1>5 DEF Resolve
  <2> HIDE DEF m
  <2>3. request'[t] = [request[t] EXCEPT !.at = "resolved", !.cli = cliOf[u], !.model = m]
      BY <1>f, <2>2
  <2>4. /\ request'[t] \in RequestTypes /\ request'[t].at = "resolved" /\ request'[t].user = u
        /\ request'[t].model = m /\ request'[t].chat = request[t].chat /\ request'[t].cli = cliOf[u]
      BY <1>t, <2>1, <2>3 DEF RequestTypes
  <2>5. TurnGoes(t)
      BY <1>f, <1>t, <2>2, <2>4 DEF TurnGoes
  <2>6. request'[t].model = modelOf[request'[t].user][Key(t)']
      BY <2>4 DEF m, Key
  <2> QED BY <2>4, <2>5, <2>6, TurnStep
<1>6. ASSUME NEW t \in Requests, ReadWorkspace(t) PROVE SettingsInv'
  <2> DEFINE w == workspaceOf[request[t].user]
  <2>1. w \in Nat
      BY <1>t DEF SettingsInv, SettingsTypes, RequestTypes
  <2>2. /\ request' = [request EXCEPT ![t].at = "ready", ![t].workspace = w]
        /\ request[t].at = "resolved" /\ UNCHANGED <<preferences, process, killing, changes>>
      BY <1>6 DEF ReadWorkspace
  <2> HIDE DEF w
  <2>3. request'[t] = [request[t] EXCEPT !.at = "ready", !.workspace = w]
      BY <1>f, <2>2
  <2>4. /\ request'[t] \in RequestTypes /\ request'[t].at = "ready"
        /\ request'[t].user = request[t].user /\ request'[t].workspace = w
        /\ request'[t].model = request[t].model /\ request'[t].old = request[t].old
        /\ Key(t)' = Key(t)
      BY <1>t, <2>1, <2>3 DEF RequestTypes, Key
  <2>5. TurnGoes(t)
      BY <1>f, <1>t, <2>2, <2>4 DEF TurnGoes
  <2>6. ~request[t].old => request[t].model = modelOf[request[t].user][Key(t)]
      BY <2>2 DEF SettingsInv, ReadsHold
  <2> QED BY <2>4, <2>5, <2>6, TurnStep DEF w
<1>7. ASSUME NEW t \in Requests, BeginTurn(t) PROVE SettingsInv'
    BY <1>7, BeginStepOf
<1>8. ASSUME NEW t \in Requests, TurnEnds(t) PROVE SettingsInv'
  <2>1. /\ request' = [request EXCEPT ![t].at = "over"]
        /\ UNCHANGED <<preferences, process, killing, changes>>
      BY <1>8 DEF TurnEnds
  <2>2. request'[t] \in RequestTypes /\ request'[t].at = "over"
      BY <1>f, <1>t, <2>1 DEF RequestTypes
  <2>3. TurnGoes(t)
      BY <1>f, <1>t, <2>1, <2>2 DEF TurnGoes
  <2> QED BY <2>2, <2>3, TurnStep
<1>9. ASSUME NEW t \in Requests, ToolSwitch(t) PROVE SettingsInv'
  <2>1. /\ process[Key(t)].by \in Users
    <3>1. process[Key(t)] # NoProcess /\ Key(t) \in Keys
        BY <1>9, <1>t DEF ToolSwitch, SettingsInv, TurnsMatch
    <3> QED BY <3>1 DEF SettingsInv, SettingsTypes, ProcessTypes
  <2>2. Moved(process[Key(t)].by, {}) /\ killing' = killing /\ changes' = changes + 1
      BY <1>9 DEF ToolSwitch, Change
  <2>3. changes' \in Nat
      BY <2>2 DEF SettingsInv, SettingsTypes
  <2> QED BY <2>1, <2>2, <2>3, MovedStep
<1>10. ASSUME NEW k \in Keys, Exit(k) PROVE SettingsInv'
    BY <1>10, GoneStep DEF Exit
<1>11. CASE KillOld
  <2>1. killing \in Keys
      BY <1>11 DEF KillOld, SettingsInv, SettingsTypes
  <2> QED BY <1>11, <2>1, GoneStep DEF KillOld, Killed
<1>12. CASE UNCHANGED settingsVars
    BY <1>12 DEF settingsVars, SettingsInv, SettingsTypes, ReadsHold, ProcessesHold, TurnsMatch,
                 Running, Requests, Key
<1> QED BY <1>1, <1>2, <1>3, <1>4, <1>5, <1>6, <1>7, <1>8, <1>9, <1>10, <1>11, <1>12 DEF SettingsNext

\* A turn runs with the settings it read, but for the named exceptions, for any
\* users, chats, requests, changes and exits.
THEOREM TurnsRunAsSet == SettingsSpec => []RunsAsSet
<1>1. SettingsInv => RunsAsSet
    BY DEF SettingsInv, TurnsMatch, RunsAsSet, Effective
<1> QED BY <1>1, SettingsStart, SettingsStep, PTL DEF SettingsSpec
-----------------------------------------------------------------------------
(***************************************************************************)
(* StreamFilters.  Wherever the stream is cut, what the two filters have   *)
(* let through and what they hold say together what the stored reply says  *)
(* of the whole answer.                                                    *)
(***************************************************************************)

-----------------------------------------------------------------------------
(* Texts and recursion over them. *)

\* Of the texts of a set, one is the shortest.
LEMMA Shortest ==
    ASSUME NEW S, S \subseteq Strings, S # {}
    PROVE  \E s \in S : \A t \in S : Len(s) <= Len(t)
<1>1. PICK R : R = OpToRel(<, Nat)
  OBVIOUS
<1>2. PICK n \in {Len(s) : s \in S} : \A m \in {Len(s) : s \in S} : <<m, n>> \notin R
  <2>1. {Len(s) : s \in S} \subseteq Nat /\ {Len(s) : s \in S} # {}
    BY LenProperties DEF Strings
  <2>2. IsWellFoundedOn(OpToRel(<, Nat), Nat)
    BY NatLessThanWellFounded
  <2>. QED BY <1>1, <2>1, <2>2, WFMin
<1>3. \A i, j \in Nat : i < j => <<i, j>> \in R
  BY <1>1 DEF OpToRel
<1>4. PICK s \in S : n = Len(s)
  BY <1>2
<1>5. ASSUME NEW t \in S PROVE Len(s) <= Len(t)
  <2>1. Len(s) \in Nat /\ Len(t) \in Nat
    BY LenProperties DEF Strings
  <2>2. ~(Len(t) < Len(s))
    BY <1>2, <1>3, <1>4, <2>1
  <2>. QED BY <2>1, <2>2
<1>. QED BY <1>5

\* What holds of a text when it holds of all shorter ones holds of all texts.
LEMMA Induction ==
    ASSUME NEW S,
           \A s \in Strings : (\A t \in Strings : Len(t) < Len(s) => t \in S) => s \in S
    PROVE  Strings \subseteq S
<1> SUFFICES ASSUME Strings \ S # {} PROVE FALSE
  OBVIOUS
<1>1. PICK s \in Strings \ S : \A t \in Strings \ S : Len(s) <= Len(t)
  BY Shortest
<1>2. ASSUME NEW t \in Strings, Len(t) < Len(s) PROVE t \in S
  <2>1. Len(s) \in Nat /\ Len(t) \in Nat
    BY LenProperties DEF Strings
  <2>. QED BY <1>1, <1>2, <2>1
<1>. QED BY <1>2

\* f is defined by its value at a shorter text for the texts of more, by base for the others.
Solves(f, more, rest, base, step) ==
    \A s \in Strings : f[s] = IF s \in more THEN step[s][f[rest[s]]] ELSE base[s]

\* A recursive definition whose argument gets shorter has a solution.
LEMMA Recursion ==
    ASSUME NEW R, NEW more, NEW rest \in [Strings -> Strings], NEW base \in [Strings -> R],
           NEW step \in [Strings -> [R -> R]],
           \A s \in Strings : s \in more => Len(rest[s]) < Len(s)
    PROVE  \E f \in [Strings -> R] : Solves(f, more, rest, base, step)
<1> DEFINE Body(g, s) == IF s \in more THEN step[s][g[rest[s]]] ELSE base[s]
           Upto(g, n) == \A s \in Strings : Len(s) <= n => g[s] = Body(g, s)
           Known == {s \in Strings : \E g \in [Strings -> R] : Upto(g, Len(s))}
<1>1. \A s \in Strings : Len(s) \in Nat /\ Len(rest[s]) \in Nat
  BY LenProperties DEF Strings
<1>2. \A g \in [Strings -> R], s \in Strings : Body(g, s) \in R
  OBVIOUS
<1>3. ASSUME NEW n \in Nat, NEW m \in Nat, n <= m,
             NEW g \in [Strings -> R], NEW h \in [Strings -> R], Upto(g, n), Upto(h, m),
             NEW t \in Strings, Len(t) <= n
      PROVE  g[t] = h[t]
  <2> DEFINE Same == {s \in Strings : Len(s) <= n => g[s] = h[s]}
  <2>1. ASSUME NEW s \in Strings, \A u \in Strings : Len(u) < Len(s) => u \in Same
        PROVE  s \in Same
    <3> SUFFICES ASSUME Len(s) <= n PROVE g[s] = h[s]
      OBVIOUS
    <3>1. g[s] = Body(g, s) /\ h[s] = Body(h, s)
      <4>1. Len(s) <= n /\ Len(s) <= m
        BY <1>1, <1>3
      <4>. QED BY <1>3, <4>1
    <3>2. s \in more => g[rest[s]] = h[rest[s]]
      BY <1>1, <2>1
    <3>. QED BY <3>1, <3>2
  <2> HIDE DEF Same
  <2>2. Strings \subseteq Same
    BY <2>1, Induction
  <2>. QED BY <1>3, <2>2 DEF Same
<1>4. Strings \subseteq Known
  <2>1. ASSUME NEW s \in Strings, \A t \in Strings : Len(t) < Len(s) => t \in Known
        PROVE  s \in Known
    <3> DEFINE Of(t) == CHOOSE g \in [Strings -> R] : Upto(g, Len(t))
               g == [t \in Strings |-> IF Len(t) < Len(s) THEN Of(t)[t] ELSE base[t]]
               h == [t \in Strings |-> Body(g, t)]
    <3>1. ASSUME NEW t \in Strings, Len(t) < Len(s)
          PROVE  Of(t) \in [Strings -> R] /\ Upto(Of(t), Len(t))
      BY <2>1, <3>1
    <3> HIDE DEF Of, Upto
    <3>2. g \in [Strings -> R] /\ h \in [Strings -> R]
      <4>1. g \in [Strings -> R]
        BY <3>1
      <4> HIDE DEF g
      <4>2. \A t \in Strings : Body(g, t) \in R
        BY <1>2, <4>1
      <4> HIDE DEF Body
      <4>. QED BY <4>1, <4>2
    <3>3. ASSUME NEW t \in Strings, Len(t) < Len(s) PROVE h[t] = g[t]
      <4>1. g[t] = Body(Of(t), t)
        <5>1. g[t] = Of(t)[t]
          BY <3>3
        <5>2. Len(t) <= Len(t)
          BY <1>1
        <5> HIDE DEF g, Body
        <5>. QED BY <3>1, <3>3, <5>1, <5>2 DEF Upto
      <4>2. ASSUME t \in more PROVE Of(t)[rest[t]] = g[rest[t]]
        <5>1. rest[t] \in Strings /\ Len(rest[t]) < Len(t) /\ Len(rest[t]) < Len(s)
          BY <1>1, <3>3, <4>2
        <5>2. g[rest[t]] = Of(rest[t])[rest[t]]
          BY <5>1
        <5> HIDE DEF g, h
        <5>3. Of(rest[t]) \in [Strings -> R] /\ Upto(Of(rest[t]), Len(rest[t]))
          BY <3>1, <5>1
        <5>4. Of(t) \in [Strings -> R] /\ Upto(Of(t), Len(t))
          BY <3>1, <3>3
        <5>5. Len(rest[t]) \in Nat /\ Len(t) \in Nat /\ Len(rest[t]) <= Len(rest[t])
              /\ Len(rest[t]) <= Len(t)
          BY <1>1, <5>1
        <5>6. Of(rest[t])[rest[t]] = Of(t)[rest[t]]
          BY <1>3, <5>1, <5>3, <5>4, <5>5
        <5>. QED BY <5>2, <5>6
      <4>. QED BY <4>1, <4>2
    <3>4. ASSUME NEW t \in Strings, Len(t) <= Len(s) PROVE h[t] = Body(h, t)
      <4>1. ASSUME t \in more PROVE h[rest[t]] = g[rest[t]]
        <5>1. rest[t] \in Strings /\ Len(rest[t]) < Len(s)
          BY <1>1, <3>4, <4>1
        <5> HIDE DEF g, h
        <5>. QED BY <3>3, <5>1
      <4>2. h[t] = Body(g, t)
        OBVIOUS
      <4> HIDE DEF g, h
      <4>. QED BY <4>1, <4>2
    <3> HIDE DEF g, h
    <3>. QED BY <3>2, <3>4 DEF Upto
  <2> HIDE DEF Known
  <2>. QED BY <2>1, Induction
<1> DEFINE Of(t) == CHOOSE g \in [Strings -> R] : Upto(g, Len(t))
           f == [t \in Strings |-> Of(t)[t]]
<1>5. ASSUME NEW t \in Strings PROVE Of(t) \in [Strings -> R] /\ Upto(Of(t), Len(t))
  BY <1>4
<1>6. f \in [Strings -> R]
  BY <1>5
<1>7. ASSUME NEW t \in Strings PROVE f[t] = Body(f, t)
  <2> HIDE DEF Of, Upto
  <2>1. f[t] = Body(Of(t), t)
    <3>1. f[t] = Of(t)[t]
      OBVIOUS
    <3>2. Len(t) <= Len(t)
      BY <1>1
    <3> HIDE DEF f, Body
    <3>. QED BY <1>5, <3>1, <3>2 DEF Upto
  <2>2. ASSUME t \in more PROVE Of(t)[rest[t]] = f[rest[t]]
    <3>1. rest[t] \in Strings /\ Len(rest[t]) < Len(t)
      BY <1>1, <2>2
    <3>2. f[rest[t]] = Of(rest[t])[rest[t]]
      BY <3>1
    <3> HIDE DEF f
    <3>3. Of(rest[t]) \in [Strings -> R] /\ Upto(Of(rest[t]), Len(rest[t]))
      BY <1>5, <3>1
    <3>4. Of(t) \in [Strings -> R] /\ Upto(Of(t), Len(t))
      BY <1>5
    <3>5. Len(rest[t]) \in Nat /\ Len(t) \in Nat /\ Len(rest[t]) <= Len(rest[t])
          /\ Len(rest[t]) <= Len(t)
      BY <1>1, <3>1
    <3>6. Of(rest[t])[rest[t]] = Of(t)[rest[t]]
      BY <1>3, <3>1, <3>3, <3>4, <3>5
    <3>. QED BY <3>2, <3>6
  <2>. QED BY <2>1, <2>2
<1> HIDE DEF f
<1>. QED BY <1>6, <1>7 DEF Solves

-----------------------------------------------------------------------------
(* Where tags start. *)

\* Strings mark by mark.
LEMMA Part ==
    ASSUME NEW s \in Strings, NEW m \in 1 .. Len(s) + 1, NEW n \in m - 1 .. Len(s)
    PROVE  /\ SubSeq(s, m, n) \in Strings /\ Len(SubSeq(s, m, n)) = n - m + 1
           /\ \A i \in 1 .. n - m + 1 : SubSeq(s, m, n)[i] = s[m + i - 1]
<1>1. Len(s) \in Nat /\ s \in [1 .. Len(s) -> Characters]
  BY LenProperties DEF Strings
<1>2. m \in Int /\ n \in Int /\ \A i \in m .. n : s[i] \in Characters
  BY <1>1
<1>. QED BY <1>1, <1>2, SubSeqProperties DEF Strings

\* Two texts one after the other.
LEMMA Joined ==
    ASSUME NEW a \in Strings, NEW b \in Strings
    PROVE  /\ a \o b \in Strings /\ Len(a) \in Nat /\ Len(b) \in Nat
           /\ Len(a \o b) = Len(a) + Len(b)
           /\ \A i \in 1 .. Len(a) : (a \o b)[i] = a[i]
           /\ \A i \in 1 .. Len(b) : (a \o b)[Len(a) + i] = b[i]
<1>1. /\ a \o b \in Strings /\ Len(a \o b) = Len(a) + Len(b)
      /\ \A i \in 1 .. Len(a) + Len(b) :
            (a \o b)[i] = IF i <= Len(a) THEN a[i] ELSE b[i - Len(a)]
  BY ConcatProperties DEF Strings
<1>2. Len(a) \in Nat /\ Len(b) \in Nat
  BY LenProperties DEF Strings
<1>3. PICK c : c = a \o b
  OBVIOUS
<1>4. /\ \A i \in 1 .. Len(a) : c[i] = a[i]
      /\ \A i \in 1 .. Len(b) : c[Len(a) + i] = b[i]
  BY <1>1, <1>2, <1>3
<1>. QED BY <1>1, <1>2, <1>3, <1>4

\* Joining is associative.
LEMMA Assoc ==
    ASSUME NEW a \in Strings, NEW b \in Strings, NEW c \in Strings
    PROVE  (a \o b) \o c = a \o (b \o c)
  BY ConcatAssociative DEF Strings

\* Texts with the same marks are the same.
LEMMA Equal ==
    ASSUME NEW a \in Strings, NEW b \in Strings, Len(a) = Len(b),
           \A i \in 1 .. Len(a) : a[i] = b[i]
    PROVE  a = b
  BY SeqEqual DEF Strings

\* A tag starts where its marks are.
LEMMA StartsMarkByMark ==
    ASSUME NEW s \in Strings, NEW tag \in Strings, NEW p \in Nat \ {0}
    PROVE  StartsAt(s, tag, p) <=>
              /\ p + Len(tag) - 1 <= Len(s)
              /\ \A i \in 1 .. Len(tag) : s[p + i - 1] = tag[i]
<1>1. Len(s) \in Nat /\ Len(tag) \in Nat
  BY LenProperties DEF Strings
<1>2. ASSUME p + Len(tag) - 1 <= Len(s)
      PROVE  SubSeq(s, p, p + Len(tag) - 1) = tag <=>
                \A i \in 1 .. Len(tag) : s[p + i - 1] = tag[i]
  <2>1. PICK part : part = SubSeq(s, p, p + Len(tag) - 1)
    OBVIOUS
  <2>2. /\ p \in 1 .. Len(s) + 1 /\ p + Len(tag) - 1 \in p - 1 .. Len(s)
        /\ (p + Len(tag) - 1) - p + 1 = Len(tag)
    BY <1>1, <1>2
  <2>3. /\ part \in Strings /\ Len(part) = Len(tag)
        /\ \A i \in 1 .. Len(tag) : part[i] = s[p + i - 1]
    BY <2>1, <2>2, Part
  <2>. QED BY <2>1, <2>3, Equal
<1>. QED BY <1>2 DEF StartsAt

\* No tag is part of another one.
Tags(T) ==
    /\ T \subseteq Strings /\ T # {} /\ \A x \in T : x # << >>
    /\ \A x, y \in T : \A p \in 1 .. Len(x) : StartsAt(x, y, p) => x = y

\* Min of the community modules.
LEMMA Least ==
    ASSUME NEW S, S \subseteq Nat, S # {}
    PROVE  Min(S) \in S /\ \A n \in S : Min(S) <= n
<1>1. PICK R : R = OpToRel(<, Nat)
  OBVIOUS
<1>2. PICK n \in S : \A m \in S : <<m, n>> \notin R
  <2>1. IsWellFoundedOn(OpToRel(<, Nat), Nat)
    BY NatLessThanWellFounded
  <2>. QED BY <1>1, <2>1, WFMin
<1>3. \A i, j \in Nat : i < j => <<i, j>> \in R
  BY <1>1 DEF OpToRel
<1>4. \A m \in S : n <= m
  <2> TAKE m \in S
  <2>1. m \in Nat /\ n \in Nat /\ ~(m < n)
    BY <1>2, <1>3
  <2>. QED BY <2>1
<1>. QED BY <1>4 DEF Min

\* What Find returns.
LEMMA Found ==
    ASSUME NEW s \in Strings, NEW T
    PROVE  /\ Find(s, T) \in 0 .. Len(s) /\ Find(s, T) \in Nat
           /\ Find(s, T) = 0 => \A p \in 1 .. Len(s), x \in T : ~StartsAt(s, x, p)
           /\ Find(s, T) # 0 =>
                 /\ \E x \in T : StartsAt(s, x, Find(s, T))
                 /\ \A p \in 1 .. Len(s), x \in T : StartsAt(s, x, p) => Find(s, T) <= p
<1>1. Len(s) \in Nat /\ Positions(s, T) \subseteq 1 .. Len(s)
  BY LenProperties DEF Strings, Positions
<1>2. CASE Positions(s, T) = {}
  BY <1>1, <1>2 DEF Find, Positions
<1>3. CASE Positions(s, T) # {}
  <2>1. /\ Find(s, T) \in Positions(s, T)
        /\ \A p \in Positions(s, T) : Find(s, T) <= p
    BY <1>1, <1>3, Least DEF Find
  <2>. QED BY <1>1, <2>1 DEF Positions
<1>. QED BY <1>2, <1>3

\* What is found is determined by where tags start.
LEMMA FindIs ==
    ASSUME NEW s \in Strings, NEW T, NEW p \in 1 .. Len(s),
           \E x \in T : StartsAt(s, x, p),
           \A q \in 1 .. p - 1, x \in T : ~StartsAt(s, x, q)
    PROVE  Find(s, T) = p
<1>1. Len(s) \in Nat
  BY LenProperties DEF Strings
<1>2. Find(s, T) # 0 /\ Find(s, T) <= p /\ Find(s, T) \in 1 .. Len(s)
  BY <1>1, Found
<1>3. ~(Find(s, T) < p)
  BY <1>1, <1>2, Found
<1>. QED BY <1>1, <1>2, <1>3

\* Find returns 0 if no tag starts anywhere.
LEMMA FindNone ==
    ASSUME NEW s \in Strings, NEW T, \A q \in 1 .. Len(s), x \in T : ~StartsAt(s, x, q)
    PROVE  Find(s, T) = 0
<1>1. Len(s) \in Nat
  BY LenProperties DEF Strings
<1>. QED BY <1>1, Found

\* Only one tag starts at a place.
LEMMA OneTag ==
    ASSUME NEW T, Tags(T), NEW s \in Strings, NEW p \in Nat \ {0}, NEW x \in T, NEW y \in T,
           StartsAt(s, x, p), StartsAt(s, y, p)
    PROVE  x = y
<1>1. x \in Strings /\ y \in Strings /\ Len(x) \in Nat \ {0} /\ Len(y) \in Nat \ {0}
  BY LenProperties, EmptySeq DEF Tags, Strings
<1>2. /\ \A i \in 1 .. Len(x) : s[p + i - 1] = x[i]
      /\ \A i \in 1 .. Len(y) : s[p + i - 1] = y[i]
  BY <1>1, StartsMarkByMark
<1>3. CASE Len(y) <= Len(x)
  <2>1. StartsAt(x, y, 1)
    <3>1. \A i \in 1 .. Len(y) : x[1 + i - 1] = y[i]
      BY <1>1, <1>2, <1>3
    <3>2. 1 + Len(y) - 1 <= Len(x) /\ 1 \in Nat \ {0}
      BY <1>1, <1>3
    <3>. QED BY <1>1, <3>1, <3>2, StartsMarkByMark
  <2>. QED BY <1>1, <2>1 DEF Tags
<1>4. CASE Len(x) <= Len(y)
  <2>1. StartsAt(y, x, 1)
    <3>1. \A i \in 1 .. Len(x) : y[1 + i - 1] = x[i]
      BY <1>1, <1>2, <1>4
    <3>2. 1 + Len(x) - 1 <= Len(y) /\ 1 \in Nat \ {0}
      BY <1>1, <1>4
    <3>. QED BY <1>1, <3>1, <3>2, StartsMarkByMark
  <2>. QED BY <1>1, <2>1 DEF Tags
<1>. QED BY <1>1, <1>3, <1>4

\* What is before and after a tag.
LEMMA Around ==
    ASSUME NEW T, Tags(T), NEW s \in Strings, NEW p \in 1 .. Len(s), NEW x \in T,
           StartsAt(s, x, p)
    PROVE  /\ After(s, T, p) = SubSeq(s, p + Len(x), Len(s))
           /\ After(s, T, p) \in Strings
           /\ Len(After(s, T, p)) = Len(s) - p - Len(x) + 1 /\ Len(After(s, T, p)) < Len(s)
           /\ \A i \in 1 .. Len(s) - p - Len(x) + 1 : After(s, T, p)[i] = s[p + Len(x) + i - 1]
           /\ Before(s, p) \in Strings /\ Len(Before(s, p)) = p - 1
           /\ \A i \in 1 .. p - 1 : Before(s, p)[i] = s[i]
<1>1. /\ Len(s) \in Nat /\ x \in Strings /\ Len(x) \in Nat \ {0}
      /\ p \in Nat \ {0} /\ p + Len(x) - 1 <= Len(s)
  <2>1. Len(s) \in Nat /\ x \in Strings /\ Len(x) \in Nat \ {0}
    BY LenProperties, EmptySeq DEF Tags, Strings
  <2>. QED BY <2>1 DEF StartsAt
<1>2. After(s, T, p) = SubSeq(s, p + Len(x), Len(s))
  <2>1. PICK y : y = CHOOSE tag \in T : StartsAt(s, tag, p)
    OBVIOUS
  <2>2. y \in T /\ StartsAt(s, y, p)
    BY <2>1
  <2>3. y = x
    BY <1>1, <2>2, OneTag
  <2>. QED BY <2>1, <2>3 DEF After
<1>3. p + Len(x) \in 1 .. Len(s) + 1 /\ Len(s) \in p + Len(x) - 1 .. Len(s)
  BY <1>1
<1>4. PICK a : a = SubSeq(s, p + Len(x), Len(s))
  OBVIOUS
<1>5. /\ a \in Strings /\ Len(a) = Len(s) - (p + Len(x)) + 1
      /\ \A i \in 1 .. Len(s) - (p + Len(x)) + 1 : a[i] = s[p + Len(x) + i - 1]
  BY <1>3, <1>4, Part
<1>6. /\ Len(a) = Len(s) - p - Len(x) + 1 /\ Len(a) < Len(s)
      /\ \A i \in 1 .. Len(s) - p - Len(x) + 1 : a[i] = s[p + Len(x) + i - 1]
  BY <1>1, <1>5
<1>7. PICK b : b = SubSeq(s, 1, p - 1)
  OBVIOUS
<1>8. b \in Strings /\ Len(b) = p - 1 /\ \A i \in 1 .. p - 1 : b[i] = s[i]
  <2>1. 1 \in 1 .. Len(s) + 1 /\ p - 1 \in 1 - 1 .. Len(s) /\ (p - 1) - 1 + 1 = p - 1
    BY <1>1
  <2>2. /\ b \in Strings /\ Len(b) = p - 1
        /\ \A i \in 1 .. p - 1 : b[i] = s[1 + i - 1]
    BY <1>7, <2>1, Part
  <2>3. \A i \in 1 .. p - 1 : 1 + i - 1 = i
    BY <1>1
  <2>. QED BY <2>2, <2>3
<1>. QED BY <1>2, <1>4, <1>5, <1>6, <1>7, <1>8 DEF Before

-----------------------------------------------------------------------------
(* Tags of a text and its continuation. *)

\* A tag is a text that is not empty.
LEMMA TagsTyped == ASSUME NEW T, Tags(T) PROVE \A x \in T : x \in Strings /\ Len(x) \in Nat \ {0}
  BY LenProperties, EmptySeq DEF Tags, Strings

\* Where tags start in a text and its continuation.
LEMMA Shift ==
    ASSUME NEW a \in Strings, NEW b \in Strings, NEW x \in Strings, NEW p \in Nat \ {0}
    PROVE  /\ StartsAt(a \o b, x, Len(a) + p) <=> StartsAt(b, x, p)
           /\ StartsAt(a, x, p) => StartsAt(a \o b, x, p)
           /\ StartsAt(a \o b, x, p) /\ p + Len(x) - 1 <= Len(a) => StartsAt(a, x, p)
<1>1. PICK c : c = a \o b
  OBVIOUS
<1>2. /\ c \in Strings /\ Len(a) \in Nat /\ Len(b) \in Nat /\ Len(x) \in Nat
      /\ Len(c) = Len(a) + Len(b)
      /\ \A i \in 1 .. Len(a) : c[i] = a[i]
      /\ \A i \in 1 .. Len(b) : c[Len(a) + i] = b[i]
  <2>1. Len(x) \in Nat
    BY LenProperties DEF Strings
  <2>. QED BY <1>1, <2>1, Joined
<1>3. StartsAt(c, x, Len(a) + p) <=> StartsAt(b, x, p)
  <2>1. Len(a) + p \in Nat \ {0}
    BY <1>2
  <2>2. StartsAt(c, x, Len(a) + p) <=>
           /\ Len(a) + p + Len(x) - 1 <= Len(c)
           /\ \A i \in 1 .. Len(x) : c[Len(a) + p + i - 1] = x[i]
    BY <1>2, <2>1, StartsMarkByMark
  <2>3. StartsAt(b, x, p) <=>
           /\ p + Len(x) - 1 <= Len(b)
           /\ \A i \in 1 .. Len(x) : b[p + i - 1] = x[i]
    BY StartsMarkByMark
  <2>4. Len(a) + p + Len(x) - 1 <= Len(c) <=> p + Len(x) - 1 <= Len(b)
    BY <1>2
  <2>5. ASSUME p + Len(x) - 1 <= Len(b), NEW i \in 1 .. Len(x)
        PROVE  c[Len(a) + p + i - 1] = b[p + i - 1]
    <3>1. p + i - 1 \in 1 .. Len(b) /\ Len(a) + p + i - 1 = Len(a) + (p + i - 1)
      BY <1>2, <2>5
    <3>. QED BY <1>2, <3>1
  <2>. QED BY <2>2, <2>3, <2>4, <2>5
<1>4. /\ StartsAt(a, x, p) => StartsAt(c, x, p)
      /\ StartsAt(c, x, p) /\ p + Len(x) - 1 <= Len(a) => StartsAt(a, x, p)
  <2>1. StartsAt(c, x, p) <=>
           /\ p + Len(x) - 1 <= Len(c)
           /\ \A i \in 1 .. Len(x) : c[p + i - 1] = x[i]
    BY <1>2, StartsMarkByMark
  <2>2. StartsAt(a, x, p) <=>
           /\ p + Len(x) - 1 <= Len(a)
           /\ \A i \in 1 .. Len(x) : a[p + i - 1] = x[i]
    BY StartsMarkByMark
  <2>3. p + Len(x) - 1 <= Len(a) => p + Len(x) - 1 <= Len(c)
    BY <1>2
  <2>4. ASSUME p + Len(x) - 1 <= Len(a), NEW i \in 1 .. Len(x)
        PROVE  c[p + i - 1] = a[p + i - 1]
    <3>1. p + i - 1 \in 1 .. Len(a)
      BY <1>2, <2>4
    <3>. QED BY <1>2, <3>1
  <2>. QED BY <2>1, <2>2, <2>3, <2>4
<1>. QED BY <1>1, <1>3, <1>4

\* No tag starts in a, whatever of it is in b.
Clear(a, b, T) == \A p \in 1 .. Len(a), x \in T : ~StartsAt(a \o b, x, p)

\* Text in which no tag starts does not change what is found behind it.
LEMMA Skip ==
    ASSUME NEW T, Tags(T), NEW a \in Strings, NEW b \in Strings, Clear(a, b, T)
    PROVE  /\ Find(b, T) = 0 => Find(a \o b, T) = 0
           /\ Find(b, T) # 0 =>
                 /\ Find(a \o b, T) # 0
                 /\ Before(a \o b, Find(a \o b, T)) = a \o Before(b, Find(b, T))
                 /\ After(a \o b, T, Find(a \o b, T)) = After(b, T, Find(b, T))
<1>1. PICK c : c = a \o b
  OBVIOUS
<1>2. /\ c \in Strings /\ Len(a) \in Nat /\ Len(b) \in Nat
      /\ Len(c) = Len(a) + Len(b)
      /\ \A i \in 1 .. Len(a) : c[i] = a[i]
      /\ \A i \in 1 .. Len(b) : c[Len(a) + i] = b[i]
  BY <1>1, Joined
<1>3. \A x \in T : x \in Strings /\ Len(x) \in Nat \ {0}
  BY TagsTyped
<1>4. \A q \in 1 .. Len(a), x \in T : ~StartsAt(c, x, q)
  BY <1>1 DEF Clear
<1>5. ASSUME NEW q \in Nat \ {0}, NEW x \in T
      PROVE  StartsAt(c, x, Len(a) + q) <=> StartsAt(b, x, q)
  BY <1>1, <1>3, Shift
<1>6. CASE Find(b, T) = 0
  <2>1. ASSUME NEW q \in 1 .. Len(c), NEW x \in T PROVE ~StartsAt(c, x, q)
    <3>1. CASE q <= Len(a)
      BY <1>2, <1>4, <3>1
    <3>2. CASE q > Len(a)
      <4>1. q - Len(a) \in 1 .. Len(b) /\ q - Len(a) \in Nat \ {0} /\ Len(a) + (q - Len(a)) = q
        BY <1>2, <3>2
      <4>2. ~StartsAt(b, x, q - Len(a))
        BY <1>6, <4>1, Found
      <4>3. PICK r : r = q - Len(a)
        OBVIOUS
      <4>. QED BY <1>5, <4>1, <4>2, <4>3
    <3>. QED BY <1>2, <3>1, <3>2
  <2>2. Find(c, T) = 0
    BY <1>2, <2>1, FindNone
  <2>. QED BY <1>1, <1>6, <2>2
<1>7. CASE Find(b, T) # 0
  <2>1. PICK p : p = Find(b, T)
    OBVIOUS
  <2>2. /\ p \in 1 .. Len(b) /\ p \in Nat \ {0}
        /\ \A q \in 1 .. Len(b), y \in T : StartsAt(b, y, q) => p <= q
        /\ \E x \in T : StartsAt(b, x, p)
    BY <1>2, <1>7, <2>1, Found
  <2>3. PICK x \in T : StartsAt(b, x, p)
    BY <2>2
  <2>4. StartsAt(c, x, Len(a) + p)
    BY <1>5, <2>2, <2>3
  <2>5. ASSUME NEW q \in 1 .. Len(a) + p - 1, NEW y \in T PROVE ~StartsAt(c, y, q)
    <3>1. CASE q <= Len(a)
      BY <1>2, <1>4, <3>1
    <3>2. CASE q > Len(a)
      <4>1. PICK r : r = q - Len(a)
        OBVIOUS
      <4>2. r \in 1 .. Len(b) /\ r \in Nat \ {0} /\ Len(a) + r = q /\ r < p
        BY <1>2, <2>2, <3>2, <4>1
      <4>3. ~StartsAt(b, y, r)
        BY <2>2, <4>2
      <4>. QED BY <1>5, <4>2, <4>3
    <3>. QED BY <1>2, <2>2, <3>1, <3>2
  <2>6. PICK k : k = Len(a) + p
    OBVIOUS
  <2>7. k \in 1 .. Len(c) /\ k # 0 /\ Find(c, T) = k
    <3>1. k \in 1 .. Len(c) /\ k # 0
      BY <1>2, <2>2, <2>6
    <3>2. c \in Strings /\ \E y \in T : StartsAt(c, y, k)
      BY <1>2, <2>4, <2>6
    <3>3. \A q \in 1 .. k - 1, y \in T : ~StartsAt(c, y, q)
      <4>1. Len(a) \in Nat /\ p \in Nat
        BY <1>2, <2>2
      <4>. QED BY <2>5, <2>6, <4>1
    <3>. QED BY <3>1, <3>2, <3>3, FindIs
  <2>8. PICK d, e, f, g : /\ d = Before(c, k) /\ e = Before(b, p)
                          /\ f = After(c, T, k) /\ g = After(b, T, p)
    OBVIOUS
  <2>9. /\ d \in Strings /\ Len(d) = k - 1
        /\ \A i \in 1 .. k - 1 : d[i] = c[i]
        /\ f \in Strings /\ Len(f) = Len(c) - k - Len(x) + 1
        /\ \A i \in 1 .. Len(c) - k - Len(x) + 1 : f[i] = c[k + Len(x) + i - 1]
    <3>1. c \in Strings /\ StartsAt(c, x, k)
      BY <1>2, <2>4, <2>6
    <3>2. /\ After(c, T, k) \in Strings /\ Len(After(c, T, k)) = Len(c) - k - Len(x) + 1
          /\ \A i \in 1 .. Len(c) - k - Len(x) + 1 : After(c, T, k)[i] = c[k + Len(x) + i - 1]
          /\ Before(c, k) \in Strings /\ Len(Before(c, k)) = k - 1
          /\ \A i \in 1 .. k - 1 : Before(c, k)[i] = c[i]
      BY <2>7, <3>1, Around
    <3>. QED BY <2>8, <3>2
  <2>10. /\ e \in Strings /\ Len(e) = p - 1
         /\ \A i \in 1 .. p - 1 : e[i] = b[i]
         /\ g \in Strings /\ Len(g) = Len(b) - p - Len(x) + 1
         /\ \A i \in 1 .. Len(b) - p - Len(x) + 1 : g[i] = b[p + Len(x) + i - 1]
    <3>1. /\ After(b, T, p) \in Strings /\ Len(After(b, T, p)) = Len(b) - p - Len(x) + 1
          /\ \A i \in 1 .. Len(b) - p - Len(x) + 1 : After(b, T, p)[i] = b[p + Len(x) + i - 1]
          /\ Before(b, p) \in Strings /\ Len(Before(b, p)) = p - 1
          /\ \A i \in 1 .. p - 1 : Before(b, p)[i] = b[i]
      BY <2>2, <2>3, Around
    <3>. QED BY <2>8, <3>1
  <2>11. d = a \o e
    <3>1. PICK h : h = a \o e
      OBVIOUS
    <3>2. /\ h \in Strings /\ Len(h) = Len(a) + Len(e)
          /\ \A i \in 1 .. Len(a) : h[i] = a[i]
          /\ \A i \in 1 .. Len(e) : h[Len(a) + i] = e[i]
      <4>1. e \in Strings
        BY <2>10
      <4>. QED BY <3>1, <4>1, Joined
    <3>3. Len(d) = Len(h)
      BY <1>2, <2>2, <2>6, <2>9, <2>10, <3>2
    <3>4. ASSUME NEW i \in 1 .. Len(d) PROVE d[i] = h[i]
      <4>1. d[i] = c[i]
        BY <2>9
      <4>2. CASE i <= Len(a)
        <5>1. i \in 1 .. Len(a)
          BY <1>2, <2>2, <2>6, <2>9, <4>2
        <5>. QED BY <1>2, <3>2, <4>1, <5>1
      <4>3. CASE i > Len(a)
        <5>1. PICK r : r = i - Len(a)
          OBVIOUS
        <5>2. r \in 1 .. p - 1 /\ r \in 1 .. Len(b) /\ r \in 1 .. Len(e) /\ Len(a) + r = i
          <6>1. i \in 1 .. Len(a) + p - 1 /\ Len(e) = p - 1 /\ p <= Len(b)
            BY <1>2, <2>2, <2>6, <2>9, <2>10
          <6>. QED BY <1>2, <2>2, <4>3, <5>1, <6>1
        <5>3. c[Len(a) + r] = b[r] /\ h[Len(a) + r] = e[r] /\ e[r] = b[r]
          BY <1>2, <2>10, <3>2, <5>2
        <5>. QED BY <4>1, <5>2, <5>3
      <4>. QED BY <1>2, <2>2, <2>6, <2>9, <4>2, <4>3
    <3>. QED BY <2>9, <3>1, <3>2, <3>3, <3>4, Equal
  <2>12. f = g
    <3>1. Len(x) \in Nat /\ Len(f) = Len(g)
      BY <1>2, <1>3, <2>2, <2>6, <2>9, <2>10
    <3>2. ASSUME NEW i \in 1 .. Len(f) PROVE f[i] = g[i]
      <4>1. f[i] = c[k + Len(x) + i - 1] /\ g[i] = b[p + Len(x) + i - 1]
        BY <2>9, <2>10, <3>1
      <4>2. PICK r : r = p + Len(x) + i - 1
        OBVIOUS
      <4>3. r \in 1 .. Len(b) /\ k + Len(x) + i - 1 = Len(a) + r
        BY <1>2, <2>2, <2>6, <2>10, <3>1, <4>2
      <4>. QED BY <1>2, <4>1, <4>2, <4>3
    <3>. QED BY <2>9, <2>10, <3>1, <3>2, Equal
  <2>. QED BY <1>1, <1>7, <2>1, <2>7, <2>8, <2>11, <2>12
<1>. QED BY <1>6, <1>7

\* A tag that was found stays the first one, whatever follows.
LEMMA Extend ==
    ASSUME NEW T, Tags(T), NEW a \in Strings, NEW b \in Strings, Find(a, T) # 0
    PROVE  /\ Find(a \o b, T) = Find(a, T)
           /\ Before(a \o b, Find(a, T)) = Before(a, Find(a, T))
           /\ After(a \o b, T, Find(a, T)) = After(a, T, Find(a, T)) \o b
<1>1. PICK c, p : c = a \o b /\ p = Find(a, T)
  OBVIOUS
<1>2. /\ c \in Strings /\ Len(a) \in Nat /\ Len(b) \in Nat
      /\ Len(c) = Len(a) + Len(b)
      /\ \A i \in 1 .. Len(a) : c[i] = a[i]
      /\ \A i \in 1 .. Len(b) : c[Len(a) + i] = b[i]
  BY <1>1, Joined
<1>3. \A x \in T : x \in Strings /\ Len(x) \in Nat \ {0}
  BY TagsTyped
<1>4. /\ p \in 1 .. Len(a) /\ p \in Nat \ {0}
      /\ \A q \in 1 .. Len(a), y \in T : StartsAt(a, y, q) => p <= q
      /\ \E x \in T : StartsAt(a, x, p)
  BY <1>1, <1>2, Found
<1>5. PICK x \in T : StartsAt(a, x, p)
  BY <1>4
<1>6. /\ Len(x) \in Nat \ {0} /\ p + Len(x) - 1 <= Len(a)
      /\ \A i \in 1 .. Len(x) : a[p + i - 1] = x[i]
  BY <1>3, <1>4, <1>5, StartsMarkByMark
<1>7. StartsAt(c, x, p) /\ p \in 1 .. Len(c)
  <2>1. StartsAt(c, x, p)
    BY <1>1, <1>3, <1>4, <1>5, Shift
  <2>. QED BY <1>2, <1>4, <2>1
<1>8. ASSUME NEW q \in 1 .. p - 1, NEW y \in T PROVE ~StartsAt(c, y, q)
  <2> SUFFICES ASSUME StartsAt(c, y, q) PROVE FALSE
    OBVIOUS
  <2>1. q \in 1 .. Len(a) /\ q \in Nat \ {0} /\ q < p /\ y \in Strings /\ Len(y) \in Nat \ {0}
    BY <1>2, <1>3, <1>4
  <2>2. ~StartsAt(a, y, q)
    BY <1>4, <2>1
  <2>3. q + Len(y) - 1 > Len(a)
    <3>1. ~(q + Len(y) - 1 <= Len(a))
      BY <1>1, <2>1, <2>2, Shift
    <3>. QED BY <1>2, <2>1, <3>1
  <2>4. \A i \in 1 .. Len(y) : c[q + i - 1] = y[i]
    BY <1>2, <2>1, StartsMarkByMark
  <2>5. PICK r : r = p - q + 1
    OBVIOUS
  <2>6. r \in 1 .. Len(y) /\ r \in Nat \ {0} /\ r + Len(x) - 1 <= Len(y) /\ r > 1
    BY <1>2, <1>4, <1>6, <2>1, <2>3, <2>5
  <2>7. ASSUME NEW i \in 1 .. Len(x) PROVE y[r + i - 1] = x[i]
    <3>1. r + i - 1 \in 1 .. Len(y) /\ q + (r + i - 1) - 1 = p + i - 1 /\ p + i - 1 \in 1 .. Len(a)
      BY <1>2, <1>4, <1>6, <2>1, <2>5, <2>6
    <3>2. PICK j : j = r + i - 1
      OBVIOUS
    <3>3. c[q + j - 1] = y[j] /\ c[p + i - 1] = a[p + i - 1] /\ a[p + i - 1] = x[i]
      BY <1>2, <1>6, <2>4, <3>1, <3>2
    <3>. QED BY <3>1, <3>2, <3>3
  <2>8. StartsAt(y, x, r)
    BY <1>3, <2>1, <2>6, <2>7, StartsMarkByMark
  <2>9. y = x
    BY <2>6, <2>8 DEF Tags
  <2>. QED BY <1>6, <2>6, <2>9
<1>9. Find(c, T) = p
  <2>1. \E y \in T : StartsAt(c, y, p)
    BY <1>7
  <2>. QED BY <1>2, <1>7, <1>8, <2>1, FindIs
<1>10. PICK d, e, f, g : /\ d = Before(c, p) /\ e = Before(a, p)
                        /\ f = After(c, T, p) /\ g = After(a, T, p)
  OBVIOUS
<1>11. /\ d \in Strings /\ Len(d) = p - 1
       /\ \A i \in 1 .. p - 1 : d[i] = c[i]
       /\ f \in Strings /\ Len(f) = Len(c) - p - Len(x) + 1
       /\ \A i \in 1 .. Len(c) - p - Len(x) + 1 : f[i] = c[p + Len(x) + i - 1]
  <2>1. c \in Strings
    BY <1>2
  <2>2. /\ After(c, T, p) \in Strings /\ Len(After(c, T, p)) = Len(c) - p - Len(x) + 1
        /\ \A i \in 1 .. Len(c) - p - Len(x) + 1 : After(c, T, p)[i] = c[p + Len(x) + i - 1]
        /\ Before(c, p) \in Strings /\ Len(Before(c, p)) = p - 1
        /\ \A i \in 1 .. p - 1 : Before(c, p)[i] = c[i]
    BY <1>7, <2>1, Around
  <2>. QED BY <1>10, <2>2
<1>12. /\ e \in Strings /\ Len(e) = p - 1
       /\ \A i \in 1 .. p - 1 : e[i] = a[i]
       /\ g \in Strings /\ Len(g) = Len(a) - p - Len(x) + 1
       /\ \A i \in 1 .. Len(a) - p - Len(x) + 1 : g[i] = a[p + Len(x) + i - 1]
  <2>1. p \in 1 .. Len(a)
    BY <1>4
  <2>2. /\ After(a, T, p) \in Strings /\ Len(After(a, T, p)) = Len(a) - p - Len(x) + 1
        /\ \A i \in 1 .. Len(a) - p - Len(x) + 1 : After(a, T, p)[i] = a[p + Len(x) + i - 1]
        /\ Before(a, p) \in Strings /\ Len(Before(a, p)) = p - 1
        /\ \A i \in 1 .. p - 1 : Before(a, p)[i] = a[i]
    BY <1>5, <2>1, Around
  <2>. QED BY <1>10, <2>2
<1>13. d = e
  <2>1. ASSUME NEW i \in 1 .. Len(d) PROVE d[i] = e[i]
    <3>1. i \in 1 .. p - 1 /\ i \in 1 .. Len(a)
      BY <1>2, <1>4, <1>11
    <3>. QED BY <1>2, <1>11, <1>12, <3>1
  <2>. QED BY <1>11, <1>12, <2>1, Equal
<1>14. f = g \o b
  <2>1. PICK h : h = g \o b
    OBVIOUS
  <2>2. /\ h \in Strings /\ Len(h) = Len(g) + Len(b) /\ Len(g) \in Nat
        /\ \A i \in 1 .. Len(g) : h[i] = g[i]
        /\ \A i \in 1 .. Len(b) : h[Len(g) + i] = b[i]
    <3>1. g \in Strings
      BY <1>12
    <3>. QED BY <2>1, <3>1, Joined
  <2>3. /\ Len(f) = Len(h) /\ Len(f) = Len(g) + Len(b)
        /\ Len(g) = Len(a) - p - Len(x) + 1 /\ Len(g) \in Nat
    BY <1>2, <1>4, <1>6, <1>11, <1>12, <2>2
  <2>4. ASSUME NEW i \in 1 .. Len(f) PROVE f[i] = h[i]
    <3>1. f[i] = c[p + Len(x) + i - 1]
      BY <1>11
    <3>2. CASE i <= Len(g)
      <4>1. i \in 1 .. Len(g) /\ p + Len(x) + i - 1 \in 1 .. Len(a)
        BY <1>2, <1>4, <1>6, <2>3, <3>2
      <4>2. h[i] = g[i] /\ g[i] = a[p + Len(x) + i - 1]
        BY <1>12, <2>2, <2>3, <4>1
      <4>3. c[p + Len(x) + i - 1] = a[p + Len(x) + i - 1]
        BY <1>2, <4>1
      <4>. QED BY <3>1, <4>2, <4>3
    <3>3. CASE i > Len(g)
      <4>1. PICK r : r = i - Len(g)
        OBVIOUS
      <4>2. r \in 1 .. Len(b) /\ p + Len(x) + i - 1 = Len(a) + r /\ i = Len(g) + r
        BY <1>2, <1>4, <1>6, <2>3, <3>3, <4>1
      <4>3. c[Len(a) + r] = b[r] /\ h[Len(g) + r] = b[r]
        BY <1>2, <2>2, <4>2
      <4>. QED BY <3>1, <4>2, <4>3
    <3>. QED BY <2>2, <2>3, <3>2, <3>3
  <2>. QED BY <1>11, <2>1, <2>2, <2>3, <2>4, Equal
<1>. QED BY <1>1, <1>9, <1>10, <1>13, <1>14

-----------------------------------------------------------------------------
(* What is held back. *)

\* Max of the community modules.
LEMMA Greatest ==
    ASSUME NEW n \in Nat, NEW S, S \subseteq 0 .. n, S # {}
    PROVE  Max(S) \in S /\ \A m \in S : m <= Max(S)
<1>1. PICK D : D = {n - m : m \in S}
  OBVIOUS
<1>2. D \subseteq Nat /\ D # {}
  <2>1. ASSUME NEW m \in S PROVE n - m \in Nat
    <3>1. m \in 0 .. n
      OBVIOUS
    <3>. QED BY <3>1
  <2>. QED BY <1>1, <2>1
<1>3. Min(D) \in D /\ \A d \in D : Min(D) <= d
  BY <1>2, Least
<1>4. PICK x \in S : Min(D) = n - x
  BY <1>1, <1>3
<1>5. ASSUME NEW m \in S PROVE x >= m
  <2>1. Min(D) <= n - m
    BY <1>1, <1>3
  <2>2. m \in 0 .. n /\ x \in 0 .. n
    OBVIOUS
  <2>. QED BY <1>4, <2>1, <2>2
<1>6. Max(S) \in S /\ \A m \in S : Max(S) >= m
  BY <1>5 DEF Max
<1>7. ASSUME NEW m \in S PROVE m <= Max(S)
  <2>1. m \in 0 .. n /\ Max(S) \in 0 .. n /\ Max(S) >= m
    BY <1>6
  <2>. QED BY <2>1
<1>. QED BY <1>6, <1>7

\* What Kept returns.
LEMMA KeptIs ==
    ASSUME NEW T, Tags(T), NEW s \in Strings
    PROVE  /\ Kept(s, T) \in 0 .. Len(s)
           /\ \A n \in 0 .. Len(s) : IsPart(SubSeq(s, Len(s) - n + 1, Len(s)), T) => n <= Kept(s, T)
<1>1. Len(s) \in Nat /\ \A x \in T : x \in Strings /\ Len(x) \in Nat \ {0}
  BY TagsTyped, LenProperties DEF Strings
<1>2. PICK S : S = {n \in 0 .. Len(s) : IsPart(SubSeq(s, Len(s) - n + 1, Len(s)), T)}
  OBVIOUS
<1>3. IsPart(SubSeq(s, Len(s) - 0 + 1, Len(s)), T)
  <2>1. SubSeq(s, Len(s) - 0 + 1, Len(s)) = << >>
    <3>1. Len(s) - 0 + 1 \in Int /\ Len(s) \in Int /\ Len(s) < Len(s) - 0 + 1
      BY <1>1
    <3>. QED BY <3>1, SubSeqEmpty
  <2>2. PICK x \in T : TRUE
    BY DEF Tags
  <2>3. SubSeq(<< >>, 1, 0) = << >> /\ SubSeq(x, 1, 0) = << >>
    BY SubSeqEmpty
  <2>4. Len(<< >>) = 0 /\ IsPrefix(<< >>, x)
    BY <1>1, <2>3, EmptySeq DEF IsPrefix
  <2>5. IsPart(<< >>, T)
    BY <1>1, <2>4 DEF IsPart
  <2>. QED BY <2>1, <2>5
<1>4. 0 \in 0 .. Len(s)
  BY <1>1
<1>5. S \subseteq 0 .. Len(s) /\ S # {}
  BY <1>2, <1>3, <1>4
<1>6. Max(S) \in S /\ \A n \in S : n <= Max(S)
  BY <1>1, <1>5, Greatest
<1>. QED BY <1>2, <1>6 DEF Kept

\* What is given out and what is held back.
LEMMA HeldParts ==
    ASSUME NEW T, Tags(T), NEW s \in Strings
    PROVE  \E a, h \in Strings :
              /\ a = SubSeq(s, 1, Len(s) - Kept(s, T))
              /\ h = SubSeq(s, Len(s) - Kept(s, T) + 1, Len(s))
              /\ s = a \o h /\ Len(h) = Kept(s, T)
<1>1. Len(s) \in Nat
  BY LenProperties DEF Strings
<1>2. PICK k, e : k = Kept(s, T) /\ e = Len(s) - k
  OBVIOUS
<1>3. k \in 0 .. Len(s)
  BY <1>2, KeptIs
<1>4. e \in 0 .. Len(s) /\ e \in Nat /\ Len(s) - (e + 1) + 1 = k
  BY <1>1, <1>2, <1>3
<1>5. PICK a, h : a = SubSeq(s, 1, e) /\ h = SubSeq(s, e + 1, Len(s))
  OBVIOUS
<1>6. a \in Strings
  <2>1. 1 \in 1 .. Len(s) + 1 /\ e \in 1 - 1 .. Len(s)
    BY <1>1, <1>4
  <2>. QED BY <1>5, <2>1, Part
<1>7. h \in Strings /\ Len(h) = k
  <2>1. e + 1 \in 1 .. Len(s) + 1 /\ Len(s) \in (e + 1) - 1 .. Len(s)
    BY <1>1, <1>4
  <2>. QED BY <1>4, <1>5, <2>1, Part
<1>8. s = a \o h
  <2>1. 1 \in 1 .. Len(s) + 1 /\ e \in 1 - 1 .. Len(s) /\ Len(s) \in e .. Len(s)
    BY <1>1, <1>4
  <2>2. SubSeq(s, 1, e) \o SubSeq(s, e + 1, Len(s)) = SubSeq(s, 1, Len(s))
    BY <2>1, ConcatAdjacentSubSeq DEF Strings
  <2>3. SubSeq(s, 1, Len(s)) = s
    BY SubSeqFull DEF Strings
  <2>. QED BY <1>5, <2>2, <2>3
<1>. QED BY <1>2, <1>5, <1>6, <1>7, <1>8

\* A tag that begins in a text without a whole one ends it with one of its parts.
LEMMA EndsInPart ==
    ASSUME NEW T, Tags(T), NEW s \in Strings, NEW b \in Strings, NEW x \in T, x \in Strings,
           NEW p \in 1 .. Len(s), StartsAt(s \o b, x, p), ~StartsAt(s, x, p)
    PROVE  Len(s) - p + 1 <= Kept(s, T)
<1>1. Len(s) \in Nat /\ Len(x) \in Nat /\ p \in Nat \ {0} /\ p <= Len(s)
  BY LenProperties DEF Strings
<1>2. PICK c : c = s \o b
  OBVIOUS
<1>3. c \in Strings /\ \A i \in 1 .. Len(s) : c[i] = s[i]
  BY <1>2, Joined
<1>4. \A i \in 1 .. Len(x) : c[p + i - 1] = x[i]
  <2>1. StartsAt(c, x, p)
    BY <1>2
  <2>. QED BY <1>1, <1>3, <2>1, StartsMarkByMark
<1>5. ~(p + Len(x) - 1 <= Len(s))
  BY <1>1, Shift
<1>6. PICK n, t, u : n = Len(s) - p + 1 /\ t = SubSeq(s, p, Len(s)) /\ u = SubSeq(x, 1, n)
  OBVIOUS
<1>7. n \in 0 .. Len(s) /\ n < Len(x) /\ n \in Nat \ {0} /\ Len(s) - n + 1 = p
  BY <1>1, <1>5, <1>6
<1>8. /\ t \in Strings /\ Len(t) = n
      /\ \A i \in 1 .. n : t[i] = s[p + i - 1]
  <2>1. p \in 1 .. Len(s) + 1 /\ Len(s) \in p - 1 .. Len(s)
    BY <1>1
  <2>. QED BY <1>6, <2>1, Part
<1>9. u \in Strings /\ Len(u) = n /\ \A i \in 1 .. n : u[i] = x[i]
  <2>1. 1 \in 1 .. Len(x) + 1 /\ n \in 1 - 1 .. Len(x) /\ n - 1 + 1 = n
    BY <1>1, <1>7
  <2>2. /\ u \in Strings /\ Len(u) = n
        /\ \A i \in 1 .. n : u[i] = x[1 + i - 1]
    BY <1>6, <2>1, Part
  <2>3. \A i \in 1 .. n : 1 + i - 1 = i
    BY <1>7
  <2>. QED BY <2>2, <2>3
<1>10. ASSUME NEW i \in 1 .. n PROVE t[i] = u[i]
  <2>1. p + i - 1 \in 1 .. Len(s) /\ i \in 1 .. Len(x)
    BY <1>1, <1>6, <1>7
  <2>2. PICK j : j = p + i - 1
    OBVIOUS
  <2>3. c[j] = x[i] /\ c[j] = s[j]
    BY <1>3, <1>4, <2>1, <2>2
  <2>. QED BY <1>8, <1>9, <2>2, <2>3
<1>11. t = u
  BY <1>8, <1>9, <1>10, Equal
<1>12. IsPart(t, T)
  <2>1. SubSeq(t, 1, n) = t
    BY <1>8, SubSeqFull DEF Strings
  <2>2. IsPrefix(t, x)
    BY <1>1, <1>6, <1>7, <1>8, <1>11, <2>1 DEF IsPrefix
  <2>. QED BY <1>7, <1>8, <2>2 DEF IsPart
<1>13. IsPart(SubSeq(s, Len(s) - n + 1, Len(s)), T)
  BY <1>6, <1>7, <1>12
<1>. QED BY <1>6, <1>7, <1>13, KeptIs

\* What is given out holds no beginning of a tag, whatever follows.
LEMMA Held ==
    ASSUME NEW T, Tags(T), NEW s \in Strings, Find(s, T) = 0,
           NEW a \in Strings, NEW h \in Strings, s = a \o h, Len(h) = Kept(s, T)
    PROVE  Find(h, T) = 0 /\ \A b \in Strings : Clear(a, h \o b, T)
<1>1. \A x \in T : x \in Strings /\ Len(x) \in Nat \ {0}
  BY TagsTyped
<1>2. Len(a) \in Nat /\ Len(h) \in Nat /\ Len(s) = Len(a) + Len(h)
  BY Joined
<1>3. \A q \in 1 .. Len(s), x \in T : ~StartsAt(s, x, q)
  BY Found
<1>4. ASSUME NEW p \in 1 .. Len(h), NEW x \in T PROVE ~StartsAt(h, x, p)
  <2>1. p \in Nat \ {0} /\ Len(a) + p \in 1 .. Len(s)
    BY <1>2
  <2>2. ~StartsAt(a \o h, x, Len(a) + p)
    BY <1>3, <2>1
  <2>3. x \in Strings
    BY <1>1
  <2>. QED BY <2>1, <2>2, <2>3, Shift
<1>5. ASSUME NEW b \in Strings, NEW p \in 1 .. Len(a), NEW x \in T, StartsAt(a \o (h \o b), x, p)
      PROVE  FALSE
  <2>1. a \o (h \o b) = s \o b
    <3>1. (a \o h) \o b = a \o (h \o b)
      BY Assoc, ZenonT(40)
    <3>. QED BY <3>1
  <2>2. p \in 1 .. Len(s) /\ p \in Nat /\ p <= Len(a) /\ x \in Strings
    BY <1>1, <1>2
  <2>3. ~StartsAt(s, x, p) /\ StartsAt(s \o b, x, p)
    BY <1>3, <1>5, <2>1, <2>2
  <2>4. Len(s) - p + 1 <= Kept(s, T)
    BY <2>2, <2>3, EndsInPart
  <2>. QED BY <1>2, <2>2, <2>4
<1>6. Find(h, T) = 0
  BY <1>4, FindNone
<1>. QED BY <1>5, <1>6 DEF Clear

-----------------------------------------------------------------------------
(* Blocks, and the recursive functions as fixed points. *)

\* What a push or the loop of a filter ends with.
Pieces == [held : Strings, inside : BOOLEAN, out : Strings]

\* What follows the first block of s, if it has a whole one.
HasBlock(s, open, close) ==
    Find(s, open) # 0 /\ Find(After(s, open, Find(s, open)), close) # 0
Behind(s, open, close) ==
    LET block == After(s, open, Find(s, open))
    IN  After(block, close, Find(block, close))

\* What is around the tag that was found.
LEMMA FoundAround ==
    ASSUME NEW T, Tags(T), NEW s \in Strings, Find(s, T) # 0
    PROVE  /\ After(s, T, Find(s, T)) \in Strings
           /\ Len(After(s, T, Find(s, T))) < Len(s)
           /\ Before(s, Find(s, T)) \in Strings
<1>1. PICK p : p = Find(s, T)
  OBVIOUS
<1>2. p \in 1 .. Len(s) /\ \E x \in T : StartsAt(s, x, p)
  BY <1>1, Found
<1>3. PICK x \in T : StartsAt(s, x, p)
  BY <1>2
<1>. QED BY <1>1, <1>2, <1>3, Around

\* What follows a block is shorter than the text.
LEMMA Shorter ==
    ASSUME NEW open, Tags(open), NEW close, Tags(close), NEW s \in Strings,
           HasBlock(s, open, close)
    PROVE  Behind(s, open, close) \in Strings /\ Len(Behind(s, open, close)) < Len(s)
<1>1. PICK b : b = After(s, open, Find(s, open))
  OBVIOUS
<1>2. b \in Strings /\ Len(b) < Len(s) /\ Find(b, close) # 0
  BY <1>1, FoundAround DEF HasBlock
<1>3. PICK c : c = After(b, close, Find(b, close))
  OBVIOUS
<1>4. c \in Strings /\ Len(c) < Len(b)
  BY <1>2, <1>3, FoundAround
<1>5. Len(b) \in Nat /\ Len(c) \in Nat /\ Len(s) \in Nat
  BY <1>2, <1>4, LenProperties DEF Strings
<1>. QED BY <1>1, <1>2, <1>3, <1>4, <1>5 DEF Behind

\* A single tag is no part of another one.
LEMMA OneString ==
    ASSUME NEW x \in Strings, x # << >>
    PROVE  Tags({x})
  BY DEF Tags

\* The marks of the gateway.
LEMMA TagsOfGateway == Tags({TagStart}) /\ Tags({TagEnd})
<1>1. TagStart \in Strings /\ TagStart # << >> /\ TagEnd \in Strings /\ TagEnd # << >>
  BY CharactersAssumption DEF TagStart, TagEnd, Strings
<1>. QED BY <1>1, OneString

\* Two tags, the shorter not in the longer.
LEMMA TwoStrings ==
    ASSUME NEW x \in Strings, NEW y \in Strings, x # << >>, Len(x) < Len(y),
           \A p \in 1 .. Len(y) : ~StartsAt(y, x, p)
    PROVE  Tags({x, y})
<1>1. Len(x) \in Nat /\ Len(y) \in Nat /\ y # << >>
  BY LenProperties, EmptySeq DEF Strings
<1>2. \A p \in 1 .. Len(x) : ~StartsAt(x, y, p)
  BY <1>1 DEF StartsAt
<1>. QED BY <1>1, <1>2 DEF Tags

\* No opening tag of a think block is part of another one, nor a closing one.
LEMMA TagsOfThink == Tags(ThinkOpen) /\ Tags(ThinkClose)
<1>1. Tags(ThinkOpen)
  <2>1. PICK x, y : x = <<"<", "t", ">">> /\ y = <<"<", "t", "g", ">">>
    OBVIOUS
  <2>2. /\ x \in Strings /\ y \in Strings /\ x # << >> /\ Len(x) = 3 /\ Len(y) = 4
        /\ x[1] = "<" /\ x[2] = "t" /\ x[3] = ">"
        /\ y[1] = "<" /\ y[2] = "t" /\ y[3] = "g" /\ y[4] = ">"
    BY <2>1, CharactersAssumption DEF Strings
  <2>3. ASSUME NEW p \in 1 .. Len(y), StartsAt(y, x, p) PROVE FALSE
    <3>1. p \in Nat \ {0} /\ p <= 2
      BY <2>2, <2>3 DEF StartsAt
    <3>2. \A i \in 1 .. 3 : y[p + i - 1] = x[i]
      BY <2>2, <2>3, <3>1, StartsMarkByMark
    <3>3. CASE p = 1
      BY <2>2, <3>2, <3>3
    <3>4. CASE p = 2
      BY <2>2, <3>2, <3>4
    <3>. QED BY <3>1, <3>3, <3>4
  <2>4. Tags({x, y})
    <3>1. \A p \in 1 .. Len(y) : ~StartsAt(y, x, p)
      BY <2>3
    <3>2. x \in Strings /\ y \in Strings /\ x # << >> /\ Len(x) < Len(y)
      BY <2>2
    <3>. QED BY <3>1, <3>2, TwoStrings
  <2>. QED BY <2>1, <2>4 DEF ThinkOpen
<1>2. Tags(ThinkClose)
  <2>1. PICK x, y : x = <<"<", "/", "t", ">">> /\ y = <<"<", "/", "t", "g", ">">>
    OBVIOUS
  <2>2. /\ x \in Strings /\ y \in Strings /\ x # << >> /\ Len(x) = 4 /\ Len(y) = 5
        /\ x[1] = "<" /\ x[2] = "/" /\ x[3] = "t" /\ x[4] = ">"
        /\ y[1] = "<" /\ y[2] = "/" /\ y[3] = "t" /\ y[4] = "g" /\ y[5] = ">"
    BY <2>1, CharactersAssumption DEF Strings
  <2>3. ASSUME NEW p \in 1 .. Len(y), StartsAt(y, x, p) PROVE FALSE
    <3>1. p \in Nat \ {0} /\ p <= 2
      BY <2>2, <2>3 DEF StartsAt
    <3>2. \A i \in 1 .. 4 : y[p + i - 1] = x[i]
      BY <2>2, <2>3, <3>1, StartsMarkByMark
    <3>3. CASE p = 1
      BY <2>2, <3>2, <3>3
    <3>4. CASE p = 2
      BY <2>2, <3>2, <3>4
    <3>. QED BY <3>1, <3>3, <3>4
  <2>4. Tags({x, y})
    <3>1. \A p \in 1 .. Len(y) : ~StartsAt(y, x, p)
      BY <2>3
    <3>2. x \in Strings /\ y \in Strings /\ x # << >> /\ Len(x) < Len(y)
      BY <2>2
    <3>. QED BY <3>1, <3>2, TwoStrings
  <2>. QED BY <2>1, <2>4 DEF ThinkClose
<1>. QED BY <1>1, <1>2

\* What is before a tag is a text.
LEMMA BeforeTyped ==
    ASSUME NEW s \in Strings, NEW T
    PROVE  Before(s, Find(s, T)) \in Strings
<1>1. PICK p : p = Find(s, T)
  OBVIOUS
<1>2. p \in 0 .. Len(s) /\ Len(s) \in Nat
  BY <1>1, Found, LenProperties DEF Strings
<1>3. CASE p = 0
  <2>1. SubSeq(s, 1, p - 1) = << >>
    BY <1>3, SubSeqEmpty
  <2>. QED BY <1>1, <2>1, EmptySeq DEF Before, Strings
<1>4. CASE p # 0
  <2>1. 1 \in 1 .. Len(s) + 1 /\ p - 1 \in 1 - 1 .. Len(s)
    BY <1>2, <1>4
  <2>. QED BY <1>1, <2>1, Part DEF Before
<1>. QED BY <1>3, <1>4

\* A function of a text that is defined by what follows its first block.
ByBlocks(f, open, close, base, step) ==
    \A s \in Strings : f[s] = IF HasBlock(s, open, close)
                              THEN step[s][f[Behind(s, open, close)]] ELSE base[s]

\* Such a function exists.
LEMMA Defined ==
    ASSUME NEW open, Tags(open), NEW close, Tags(close), NEW R,
           NEW base \in [Strings -> R], NEW step \in [Strings -> [R -> R]]
    PROVE  \E f \in [Strings -> R] : ByBlocks(f, open, close, base, step)
<1>1. PICK more : more = {s \in Strings : HasBlock(s, open, close)}
  OBVIOUS
<1>2. PICK rest : rest = [s \in Strings |-> IF s \in more THEN Behind(s, open, close) ELSE s]
  OBVIOUS
<1>3. rest \in [Strings -> Strings]
  BY <1>1, <1>2, Shorter
<1>4. \A s \in Strings : s \in more => Len(rest[s]) < Len(s)
  BY <1>1, <1>2, Shorter
<1>5. PICK f \in [Strings -> R] : Solves(f, more, rest, base, step)
  BY <1>3, <1>4, Recursion
<1>6. ASSUME NEW s \in Strings
      PROVE  f[s] = IF HasBlock(s, open, close)
                    THEN step[s][f[Behind(s, open, close)]] ELSE base[s]
  BY <1>1, <1>2, <1>5 DEF Solves
<1>. QED BY <1>6 DEF ByBlocks

\* filter_think_tags as a fixed point.
LEMMA VisibleDefined ==
    \E f : f = [s \in Strings |->
        LET open == Find(s, ThinkOpen)
            block == After(s, ThinkOpen, open)
            closed == Find(block, ThinkClose)
        IN  CASE open = 0 -> s
              [] open > 0 /\ closed = 0 -> Before(s, open)
              [] OTHER -> Before(s, open) \o f[After(block, ThinkClose, closed)]]
<1>1. PICK base : base = [s \in Strings |->
                            IF Find(s, ThinkOpen) = 0 THEN s ELSE Before(s, Find(s, ThinkOpen))]
  OBVIOUS
<1>2. PICK step : step = [s \in Strings |->
                            [r \in Strings |-> Before(s, Find(s, ThinkOpen)) \o r]]
  OBVIOUS
<1>3. base \in [Strings -> Strings] /\ step \in [Strings -> [Strings -> Strings]]
  BY <1>1, <1>2, BeforeTyped, Joined
<1>4. PICK f \in [Strings -> Strings] : ByBlocks(f, ThinkOpen, ThinkClose, base, step)
  BY <1>3, TagsOfThink, Defined
<1>5. ASSUME NEW s \in Strings
      PROVE  f[s] = LET open == Find(s, ThinkOpen)
                        block == After(s, ThinkOpen, open)
                        closed == Find(block, ThinkClose)
                    IN  CASE open = 0 -> s
                          [] open > 0 /\ closed = 0 -> Before(s, open)
                          [] OTHER -> Before(s, open) \o f[After(block, ThinkClose, closed)]
  <2>1. Find(s, ThinkOpen) \in Nat
    BY Found
  <2>2. CASE HasBlock(s, ThinkOpen, ThinkClose)
    <3>1. f[Behind(s, ThinkOpen, ThinkClose)] \in Strings
      BY <2>2, TagsOfThink, Shorter
    <3>2. f[s] = Before(s, Find(s, ThinkOpen)) \o f[Behind(s, ThinkOpen, ThinkClose)]
      BY <1>2, <1>4, <2>2, <3>1 DEF ByBlocks
    <3>. QED BY <2>1, <2>2, <3>2 DEF HasBlock, Behind
  <2>3. CASE ~HasBlock(s, ThinkOpen, ThinkClose)
    <3>1. f[s] = IF Find(s, ThinkOpen) = 0 THEN s ELSE Before(s, Find(s, ThinkOpen))
      BY <1>1, <1>4, <2>3 DEF ByBlocks
    <3>. QED BY <2>1, <2>3, <3>1 DEF HasBlock
  <2>. QED BY <2>2, <2>3
<1>6. f = [s \in Strings |-> f[s]]
  OBVIOUS
<1>7. f = [s \in Strings |->
            LET open == Find(s, ThinkOpen)
                block == After(s, ThinkOpen, open)
                closed == Find(block, ThinkClose)
            IN  CASE open = 0 -> s
                  [] open > 0 /\ closed = 0 -> Before(s, open)
                  [] OTHER -> Before(s, open) \o f[After(block, ThinkClose, closed)]]
  BY <1>5, <1>6
<1>. QED BY <1>7

\* filter_think_tags, block by block.
LEMMA VisibleIs ==
    ASSUME NEW s \in Strings
    PROVE  /\ Find(s, ThinkOpen) = 0 => Visible[s] = s
           /\ Find(s, ThinkOpen) # 0 /\ ~HasBlock(s, ThinkOpen, ThinkClose)
                => Visible[s] = Before(s, Find(s, ThinkOpen))
           /\ HasBlock(s, ThinkOpen, ThinkClose)
                => Visible[s] = Before(s, Find(s, ThinkOpen))
                                   \o Visible[Behind(s, ThinkOpen, ThinkClose)]
<1>1. Visible = [t \in Strings |->
        LET open == Find(t, ThinkOpen)
            block == After(t, ThinkOpen, open)
            closed == Find(block, ThinkClose)
        IN  CASE open = 0 -> t
              [] open > 0 /\ closed = 0 -> Before(t, open)
              [] OTHER -> Before(t, open) \o Visible[After(block, ThinkClose, closed)]]
  BY VisibleDefined DEF Visible
<1>2. Visible[s] =
        LET open == Find(s, ThinkOpen)
            block == After(s, ThinkOpen, open)
            closed == Find(block, ThinkClose)
        IN  CASE open = 0 -> s
              [] open > 0 /\ closed = 0 -> Before(s, open)
              [] OTHER -> Before(s, open) \o Visible[After(block, ThinkClose, closed)]
  BY <1>1
<1>3. Find(s, ThinkOpen) \in Nat
  BY Found
<1>. QED BY <1>2, <1>3 DEF HasBlock, Behind

\* The cuts of the filters are texts.
LEMMA CutTyped ==
    ASSUME NEW T, Tags(T), NEW s \in Strings
    PROVE  /\ SubSeq(s, Len(s) - Kept(s, T) + 1, Len(s)) \in Strings
           /\ SubSeq(s, 1, Len(s) - Kept(s, T)) \in Strings
  BY HeldParts

\* What is after a tag is a text.
LEMMA AfterTyped ==
    ASSUME NEW T, Tags(T), NEW s \in Strings, Find(s, T) # 0
    PROVE  After(s, T, Find(s, T)) \in Strings
  BY FoundAround

\* Unclosed as a fixed point.
LEMMA UnclosedDefined ==
    \E f : f = [s \in Strings |->
        LET open == Find(s, ThinkOpen)
            block == After(s, ThinkOpen, open)
            closed == Find(block, ThinkClose)
        IN  open > 0 /\ (closed = 0 \/ f[After(block, ThinkClose, closed)])]
<1>1. PICK base : base = [s \in Strings |-> Find(s, ThinkOpen) > 0]
  OBVIOUS
<1>2. PICK step : step = [s \in Strings |-> [r \in BOOLEAN |-> r]]
  OBVIOUS
<1>3. base \in [Strings -> BOOLEAN] /\ step \in [Strings -> [BOOLEAN -> BOOLEAN]]
  BY <1>1, <1>2
<1>4. PICK f \in [Strings -> BOOLEAN] : ByBlocks(f, ThinkOpen, ThinkClose, base, step)
  BY <1>3, TagsOfThink, Defined
<1>5. ASSUME NEW s \in Strings
      PROVE  f[s] = LET open == Find(s, ThinkOpen)
                        block == After(s, ThinkOpen, open)
                        closed == Find(block, ThinkClose)
                    IN  open > 0 /\ (closed = 0 \/ f[After(block, ThinkClose, closed)])
  <2>1. Find(s, ThinkOpen) \in Nat
    BY Found
  <2>2. CASE HasBlock(s, ThinkOpen, ThinkClose)
    <3>1. f[Behind(s, ThinkOpen, ThinkClose)] \in BOOLEAN
      BY <2>2, TagsOfThink, Shorter
    <3>2. f[s] = f[Behind(s, ThinkOpen, ThinkClose)]
      BY <1>2, <1>4, <2>2, <3>1 DEF ByBlocks
    <3>. QED BY <2>1, <2>2, <3>1, <3>2 DEF HasBlock, Behind
  <2>3. CASE ~HasBlock(s, ThinkOpen, ThinkClose)
    <3>1. f[s] = (Find(s, ThinkOpen) > 0)
      BY <1>1, <1>4, <2>3 DEF ByBlocks
    <3>. QED BY <2>1, <2>3, <3>1 DEF HasBlock
  <2>. QED BY <2>2, <2>3
<1>6. f = [s \in Strings |-> f[s]]
  OBVIOUS
<1>7. f = [s \in Strings |->
            LET open == Find(s, ThinkOpen)
                block == After(s, ThinkOpen, open)
                closed == Find(block, ThinkClose)
            IN  open > 0 /\ (closed = 0 \/ f[After(block, ThinkClose, closed)])]
  BY <1>5, <1>6
<1>. QED BY <1>7

\* Unclosed, block by block.
LEMMA UnclosedIs ==
    ASSUME NEW s \in Strings
    PROVE  /\ Find(s, ThinkOpen) = 0 => ~Unclosed[s]
           /\ Find(s, ThinkOpen) # 0 /\ ~HasBlock(s, ThinkOpen, ThinkClose) => Unclosed[s]
           /\ HasBlock(s, ThinkOpen, ThinkClose)
                => (Unclosed[s] <=> Unclosed[Behind(s, ThinkOpen, ThinkClose)])
<1>1. Unclosed = [t \in Strings |->
        LET open == Find(t, ThinkOpen)
            block == After(t, ThinkOpen, open)
            closed == Find(block, ThinkClose)
        IN  open > 0 /\ (closed = 0 \/ Unclosed[After(block, ThinkClose, closed)])]
  BY UnclosedDefined DEF Unclosed
<1>2. Unclosed[s] =
        LET open == Find(s, ThinkOpen)
            block == After(s, ThinkOpen, open)
            closed == Find(block, ThinkClose)
        IN  open > 0 /\ (closed = 0 \/ Unclosed[After(block, ThinkClose, closed)])
  BY <1>1
<1>3. PICK open, closed, rest :
         /\ open = Find(s, ThinkOpen)
         /\ closed = Find(After(s, ThinkOpen, open), ThinkClose)
         /\ rest = Behind(s, ThinkOpen, ThinkClose)
  OBVIOUS
<1>4. open > 0 <=> open # 0
  <2>1. open \in Nat
    BY <1>3, Found
  <2>. QED BY <2>1
<1>5. Unclosed[s] = (open > 0 /\ (closed = 0 \/ Unclosed[rest]))
  BY <1>2, <1>3, Zenon DEF Behind
<1>6. HasBlock(s, ThinkOpen, ThinkClose) <=> (open # 0 /\ closed # 0)
  BY <1>3 DEF HasBlock
<1>. QED BY <1>3, <1>4, <1>5, <1>6, Zenon

\* WithoutTags as a fixed point.
LEMMA WithoutTagsDefined ==
    \E f : f = [s \in Strings |->
        LET open == Find(s, {TagStart})
            block == After(s, {TagStart}, open)
            closed == Find(block, {TagEnd})
        IN  IF open = 0 \/ closed = 0 THEN s
            ELSE Before(s, open) \o f[After(block, {TagEnd}, closed)]]
<1>1. PICK base : base = [s \in Strings |-> s]
  OBVIOUS
<1>2. PICK step : step = [s \in Strings |->
                            [r \in Strings |-> Before(s, Find(s, {TagStart})) \o r]]
  OBVIOUS
<1>3. base \in [Strings -> Strings] /\ step \in [Strings -> [Strings -> Strings]]
  BY <1>1, <1>2, BeforeTyped, Joined
<1>4. PICK f \in [Strings -> Strings] : ByBlocks(f, {TagStart}, {TagEnd}, base, step)
  BY <1>3, TagsOfGateway, Defined
<1>5. ASSUME NEW s \in Strings
      PROVE  f[s] = LET open == Find(s, {TagStart})
                        block == After(s, {TagStart}, open)
                        closed == Find(block, {TagEnd})
                    IN  IF open = 0 \/ closed = 0 THEN s
                        ELSE Before(s, open) \o f[After(block, {TagEnd}, closed)]
  <2>1. CASE HasBlock(s, {TagStart}, {TagEnd})
    <3>1. f[Behind(s, {TagStart}, {TagEnd})] \in Strings
      BY <2>1, TagsOfGateway, Shorter
    <3>2. f[s] = Before(s, Find(s, {TagStart})) \o f[Behind(s, {TagStart}, {TagEnd})]
      BY <1>2, <1>4, <2>1, <3>1 DEF ByBlocks
    <3>. QED BY <2>1, <3>2 DEF HasBlock, Behind
  <2>2. CASE ~HasBlock(s, {TagStart}, {TagEnd})
    <3>1. f[s] = s
      BY <1>1, <1>4, <2>2 DEF ByBlocks
    <3>. QED BY <2>2, <3>1 DEF HasBlock
  <2>. QED BY <2>1, <2>2
<1>6. f = [s \in Strings |-> f[s]]
  OBVIOUS
<1>7. f = [s \in Strings |->
            LET open == Find(s, {TagStart})
                block == After(s, {TagStart}, open)
                closed == Find(block, {TagEnd})
            IN  IF open = 0 \/ closed = 0 THEN s
                ELSE Before(s, open) \o f[After(block, {TagEnd}, closed)]]
  BY <1>5, <1>6
<1>. QED BY <1>7

\* WithoutTags, tag by tag.
LEMMA WithoutTagsIs ==
    ASSUME NEW s \in Strings
    PROVE  /\ ~HasBlock(s, {TagStart}, {TagEnd}) => WithoutTags[s] = s
           /\ HasBlock(s, {TagStart}, {TagEnd})
                => WithoutTags[s] = Before(s, Find(s, {TagStart}))
                                        \o WithoutTags[Behind(s, {TagStart}, {TagEnd})]
<1>1. WithoutTags = [t \in Strings |->
        LET open == Find(t, {TagStart})
            block == After(t, {TagStart}, open)
            closed == Find(block, {TagEnd})
        IN  IF open = 0 \/ closed = 0 THEN t
            ELSE Before(t, open) \o WithoutTags[After(block, {TagEnd}, closed)]]
  BY WithoutTagsDefined DEF WithoutTags
<1>2. WithoutTags[s] =
        LET open == Find(s, {TagStart})
            block == After(s, {TagStart}, open)
            closed == Find(block, {TagEnd})
        IN  IF open = 0 \/ closed = 0 THEN s
            ELSE Before(s, open) \o WithoutTags[After(block, {TagEnd}, closed)]
  BY <1>1
<1>. QED BY <1>2 DEF HasBlock, Behind

\* The loop of the think filter as a fixed point.
LEMMA ThinkDefined ==
    \E f : f = [held \in Strings |->
        LET open == Find(held, ThinkOpen)
            block == After(held, ThinkOpen, open)
            closed == Find(block, ThinkClose)
            emit == Len(held) - Kept(held, ThinkOpen)
            rest == f[After(block, ThinkClose, closed)]
        IN  IF open = 0
            THEN [held |-> SubSeq(held, emit + 1, Len(held)), inside |-> FALSE,
                  out |-> SubSeq(held, 1, emit)]
            ELSE IF closed = 0
            THEN [held |-> block, inside |-> TRUE, out |-> Before(held, open)]
            ELSE [rest EXCEPT !.out = Before(held, open) \o @]]
<1>1. PICK base : base = [s \in Strings |->
          IF Find(s, ThinkOpen) = 0
          THEN [held |-> SubSeq(s, Len(s) - Kept(s, ThinkOpen) + 1, Len(s)), inside |-> FALSE,
                out |-> SubSeq(s, 1, Len(s) - Kept(s, ThinkOpen))]
          ELSE [held |-> After(s, ThinkOpen, Find(s, ThinkOpen)), inside |-> TRUE,
                out |-> Before(s, Find(s, ThinkOpen))]]
  OBVIOUS
<1>2. PICK step : step = [s \in Strings |-> [r \in Pieces |->
          [r EXCEPT !.out = Before(s, Find(s, ThinkOpen)) \o @]]]
  OBVIOUS
<1>3. base \in [Strings -> Pieces]
  BY <1>1, TagsOfThink, CutTyped, AfterTyped, BeforeTyped DEF Pieces
<1>4. step \in [Strings -> [Pieces -> Pieces]]
  BY <1>2, BeforeTyped, Joined DEF Pieces
<1>5. PICK f \in [Strings -> Pieces] : ByBlocks(f, ThinkOpen, ThinkClose, base, step)
  BY <1>3, <1>4, TagsOfThink, Defined
<1>6. ASSUME NEW held \in Strings
      PROVE  f[held] =
        LET open == Find(held, ThinkOpen)
            block == After(held, ThinkOpen, open)
            closed == Find(block, ThinkClose)
            emit == Len(held) - Kept(held, ThinkOpen)
            rest == f[After(block, ThinkClose, closed)]
        IN  IF open = 0
            THEN [held |-> SubSeq(held, emit + 1, Len(held)), inside |-> FALSE,
                  out |-> SubSeq(held, 1, emit)]
            ELSE IF closed = 0
            THEN [held |-> block, inside |-> TRUE, out |-> Before(held, open)]
            ELSE [rest EXCEPT !.out = Before(held, open) \o @]
  <2>1. CASE HasBlock(held, ThinkOpen, ThinkClose)
    <3>1. f[Behind(held, ThinkOpen, ThinkClose)] \in Pieces
      BY <2>1, TagsOfThink, Shorter
    <3>2. f[held] = [f[Behind(held, ThinkOpen, ThinkClose)]
                        EXCEPT !.out = Before(held, Find(held, ThinkOpen)) \o @]
      BY <1>2, <1>5, <2>1, <3>1 DEF ByBlocks
    <3>. QED BY <2>1, <3>2 DEF HasBlock, Behind
  <2>2. CASE ~HasBlock(held, ThinkOpen, ThinkClose)
    <3>1. f[held] = base[held]
      BY <1>5, <2>2 DEF ByBlocks
    <3>. QED BY <1>1, <2>2, <3>1 DEF HasBlock
  <2>. QED BY <2>1, <2>2
<1>7. f = [held \in Strings |-> f[held]]
  OBVIOUS
<1>8. f = [held \in Strings |->
        LET open == Find(held, ThinkOpen)
            block == After(held, ThinkOpen, open)
            closed == Find(block, ThinkClose)
            emit == Len(held) - Kept(held, ThinkOpen)
            rest == f[After(block, ThinkClose, closed)]
        IN  IF open = 0
            THEN [held |-> SubSeq(held, emit + 1, Len(held)), inside |-> FALSE,
                  out |-> SubSeq(held, 1, emit)]
            ELSE IF closed = 0
            THEN [held |-> block, inside |-> TRUE, out |-> Before(held, open)]
            ELSE [rest EXCEPT !.out = Before(held, open) \o @]]
  BY <1>6, <1>7
<1>. QED BY <1>8

\* The loop of the think filter, block by block.
LEMMA ThinkIs ==
    ASSUME NEW held \in Strings
    PROVE  /\ Find(held, ThinkOpen) = 0 =>
                Think[held] = [held |-> SubSeq(held, Len(held) - Kept(held, ThinkOpen) + 1, Len(held)),
                               inside |-> FALSE,
                               out |-> SubSeq(held, 1, Len(held) - Kept(held, ThinkOpen))]
           /\ Find(held, ThinkOpen) # 0 /\ ~HasBlock(held, ThinkOpen, ThinkClose) =>
                Think[held] = [held |-> After(held, ThinkOpen, Find(held, ThinkOpen)),
                               inside |-> TRUE,
                               out |-> Before(held, Find(held, ThinkOpen))]
           /\ HasBlock(held, ThinkOpen, ThinkClose) =>
                Think[held] = [Think[Behind(held, ThinkOpen, ThinkClose)]
                                  EXCEPT !.out = Before(held, Find(held, ThinkOpen)) \o @]
<1>1. Think = [s \in Strings |->
        LET open == Find(s, ThinkOpen)
            block == After(s, ThinkOpen, open)
            closed == Find(block, ThinkClose)
            emit == Len(s) - Kept(s, ThinkOpen)
            rest == Think[After(block, ThinkClose, closed)]
        IN  IF open = 0
            THEN [held |-> SubSeq(s, emit + 1, Len(s)), inside |-> FALSE,
                  out |-> SubSeq(s, 1, emit)]
            ELSE IF closed = 0
            THEN [held |-> block, inside |-> TRUE, out |-> Before(s, open)]
            ELSE [rest EXCEPT !.out = Before(s, open) \o @]]
  BY ThinkDefined DEF Think
<1>2. Think[held] =
        LET open == Find(held, ThinkOpen)
            block == After(held, ThinkOpen, open)
            closed == Find(block, ThinkClose)
            emit == Len(held) - Kept(held, ThinkOpen)
            rest == Think[After(block, ThinkClose, closed)]
        IN  IF open = 0
            THEN [held |-> SubSeq(held, emit + 1, Len(held)), inside |-> FALSE,
                  out |-> SubSeq(held, 1, emit)]
            ELSE IF closed = 0
            THEN [held |-> block, inside |-> TRUE, out |-> Before(held, open)]
            ELSE [rest EXCEPT !.out = Before(held, open) \o @]
  BY <1>1
<1>. QED BY <1>2 DEF HasBlock, Behind

\* The think filter gives out and holds texts.
LEMMA ThinkTyped ==
    ASSUME NEW held \in Strings
    PROVE  Think[held] \in Pieces
<1> DEFINE S == {s \in Strings : Think[s] \in Pieces}
<1>1. ASSUME NEW s \in Strings, \A t \in Strings : Len(t) < Len(s) => t \in S
      PROVE  Think[s] \in Pieces
  <2>1. Before(s, Find(s, ThinkOpen)) \in Strings
    BY BeforeTyped
  <2>2. CASE HasBlock(s, ThinkOpen, ThinkClose)
    <3>1. PICK r : r = Think[Behind(s, ThinkOpen, ThinkClose)]
      OBVIOUS
    <3>2. r \in Pieces
      BY <1>1, <2>2, <3>1, TagsOfThink, Shorter
    <3>3. Think[s] = [r EXCEPT !.out = Before(s, Find(s, ThinkOpen)) \o @]
      BY <2>2, <3>1, ThinkIs
    <3>4. Before(s, Find(s, ThinkOpen)) \o r.out \in Strings
      BY <2>1, <3>2, Joined DEF Pieces
    <3>. QED BY <3>2, <3>3, <3>4 DEF Pieces
  <2>3. CASE Find(s, ThinkOpen) = 0
    <3>1. PICK a, h : /\ a = SubSeq(s, 1, Len(s) - Kept(s, ThinkOpen))
                      /\ h = SubSeq(s, Len(s) - Kept(s, ThinkOpen) + 1, Len(s))
      OBVIOUS
    <3>2. a \in Strings /\ h \in Strings
      BY <3>1, TagsOfThink, CutTyped
    <3>3. Think[s] = [held |-> h, inside |-> FALSE, out |-> a]
      BY <2>3, <3>1, ThinkIs
    <3>. QED BY <3>2, <3>3 DEF Pieces
  <2>4. CASE Find(s, ThinkOpen) # 0 /\ ~HasBlock(s, ThinkOpen, ThinkClose)
    <3>1. After(s, ThinkOpen, Find(s, ThinkOpen)) \in Strings
      BY <2>4, TagsOfThink, AfterTyped
    <3>2. Think[s] = [held |-> After(s, ThinkOpen, Find(s, ThinkOpen)), inside |-> TRUE,
                      out |-> Before(s, Find(s, ThinkOpen))]
      BY <2>4, ThinkIs
    <3>. QED BY <2>1, <3>1, <3>2 DEF Pieces
  <2>. QED BY <2>2, <2>3, <2>4
<1>2. Strings \subseteq S
  <2>1. ASSUME NEW s \in Strings, \A t \in Strings : Len(t) < Len(s) => t \in S
        PROVE  s \in S
    BY <1>1, <2>1
  <2> HIDE DEF S
  <2>. QED BY <2>1, Induction
<1>. QED BY <1>2

\* The loop of the gateway filter as a fixed point.
LEMMA TagDefined ==
    \E f : f = [held \in Strings |->
        LET open == Find(held, {TagStart})
            block == After(held, {TagStart}, open)
            closed == Find(block, {TagEnd})
            emit == Len(held) - Kept(held, {TagStart})
            rest == f[After(block, {TagEnd}, closed)]
        IN  IF open = 0
            THEN [held |-> SubSeq(held, emit + 1, Len(held)), inside |-> FALSE,
                  out |-> SubSeq(held, 1, emit)]
            ELSE IF closed = 0
            THEN [held |-> << >>, inside |-> TRUE, out |-> Before(held, open)]
            ELSE [rest EXCEPT !.out = Before(held, open) \o @]]
<1>1. PICK base : base = [s \in Strings |->
          IF Find(s, {TagStart}) = 0
          THEN [held |-> SubSeq(s, Len(s) - Kept(s, {TagStart}) + 1, Len(s)), inside |-> FALSE,
                out |-> SubSeq(s, 1, Len(s) - Kept(s, {TagStart}))]
          ELSE [held |-> << >>, inside |-> TRUE,
                out |-> Before(s, Find(s, {TagStart}))]]
  OBVIOUS
<1>2. PICK step : step = [s \in Strings |-> [r \in Pieces |->
          [r EXCEPT !.out = Before(s, Find(s, {TagStart})) \o @]]]
  OBVIOUS
<1>3. base \in [Strings -> Pieces]
  BY <1>1, TagsOfGateway, CutTyped, BeforeTyped, EmptySeq DEF Pieces, Strings
<1>4. step \in [Strings -> [Pieces -> Pieces]]
  BY <1>2, BeforeTyped, Joined DEF Pieces
<1>5. PICK f \in [Strings -> Pieces] : ByBlocks(f, {TagStart}, {TagEnd}, base, step)
  BY <1>3, <1>4, TagsOfGateway, Defined
<1>6. ASSUME NEW held \in Strings
      PROVE  f[held] =
        LET open == Find(held, {TagStart})
            block == After(held, {TagStart}, open)
            closed == Find(block, {TagEnd})
            emit == Len(held) - Kept(held, {TagStart})
            rest == f[After(block, {TagEnd}, closed)]
        IN  IF open = 0
            THEN [held |-> SubSeq(held, emit + 1, Len(held)), inside |-> FALSE,
                  out |-> SubSeq(held, 1, emit)]
            ELSE IF closed = 0
            THEN [held |-> << >>, inside |-> TRUE, out |-> Before(held, open)]
            ELSE [rest EXCEPT !.out = Before(held, open) \o @]
  <2>1. CASE HasBlock(held, {TagStart}, {TagEnd})
    <3>1. f[Behind(held, {TagStart}, {TagEnd})] \in Pieces
      BY <2>1, TagsOfGateway, Shorter
    <3>2. f[held] = [f[Behind(held, {TagStart}, {TagEnd})]
                        EXCEPT !.out = Before(held, Find(held, {TagStart})) \o @]
      BY <1>2, <1>5, <2>1, <3>1 DEF ByBlocks
    <3>. QED BY <2>1, <3>2 DEF HasBlock, Behind
  <2>2. CASE ~HasBlock(held, {TagStart}, {TagEnd})
    <3>1. f[held] = base[held]
      BY <1>5, <2>2 DEF ByBlocks
    <3>. QED BY <1>1, <2>2, <3>1 DEF HasBlock
  <2>. QED BY <2>1, <2>2
<1>7. f = [held \in Strings |-> f[held]]
  OBVIOUS
<1>8. f = [held \in Strings |->
        LET open == Find(held, {TagStart})
            block == After(held, {TagStart}, open)
            closed == Find(block, {TagEnd})
            emit == Len(held) - Kept(held, {TagStart})
            rest == f[After(block, {TagEnd}, closed)]
        IN  IF open = 0
            THEN [held |-> SubSeq(held, emit + 1, Len(held)), inside |-> FALSE,
                  out |-> SubSeq(held, 1, emit)]
            ELSE IF closed = 0
            THEN [held |-> << >>, inside |-> TRUE, out |-> Before(held, open)]
            ELSE [rest EXCEPT !.out = Before(held, open) \o @]]
  BY <1>6, <1>7
<1>. QED BY <1>8

\* The loop of the gateway filter, tag by tag.
LEMMA TagIs ==
    ASSUME NEW held \in Strings
    PROVE  /\ Find(held, {TagStart}) = 0 =>
                Tag[held] = [held |-> SubSeq(held, Len(held) - Kept(held, {TagStart}) + 1, Len(held)),
                               inside |-> FALSE,
                               out |-> SubSeq(held, 1, Len(held) - Kept(held, {TagStart}))]
           /\ Find(held, {TagStart}) # 0 /\ ~HasBlock(held, {TagStart}, {TagEnd}) =>
                Tag[held] = [held |-> << >>,
                               inside |-> TRUE,
                               out |-> Before(held, Find(held, {TagStart}))]
           /\ HasBlock(held, {TagStart}, {TagEnd}) =>
                Tag[held] = [Tag[Behind(held, {TagStart}, {TagEnd})]
                                  EXCEPT !.out = Before(held, Find(held, {TagStart})) \o @]
<1>1. Tag = [s \in Strings |->
        LET open == Find(s, {TagStart})
            block == After(s, {TagStart}, open)
            closed == Find(block, {TagEnd})
            emit == Len(s) - Kept(s, {TagStart})
            rest == Tag[After(block, {TagEnd}, closed)]
        IN  IF open = 0
            THEN [held |-> SubSeq(s, emit + 1, Len(s)), inside |-> FALSE,
                  out |-> SubSeq(s, 1, emit)]
            ELSE IF closed = 0
            THEN [held |-> << >>, inside |-> TRUE, out |-> Before(s, open)]
            ELSE [rest EXCEPT !.out = Before(s, open) \o @]]
  BY TagDefined DEF Tag
<1>2. Tag[held] =
        LET open == Find(held, {TagStart})
            block == After(held, {TagStart}, open)
            closed == Find(block, {TagEnd})
            emit == Len(held) - Kept(held, {TagStart})
            rest == Tag[After(block, {TagEnd}, closed)]
        IN  IF open = 0
            THEN [held |-> SubSeq(held, emit + 1, Len(held)), inside |-> FALSE,
                  out |-> SubSeq(held, 1, emit)]
            ELSE IF closed = 0
            THEN [held |-> << >>, inside |-> TRUE, out |-> Before(held, open)]
            ELSE [rest EXCEPT !.out = Before(held, open) \o @]
  BY <1>1
<1>. QED BY <1>2 DEF HasBlock, Behind

\* The gateway filter gives out and holds texts.
LEMMA TagTyped ==
    ASSUME NEW held \in Strings
    PROVE  Tag[held] \in Pieces
<1> DEFINE S == {s \in Strings : Tag[s] \in Pieces}
<1>1. ASSUME NEW s \in Strings, \A t \in Strings : Len(t) < Len(s) => t \in S
      PROVE  Tag[s] \in Pieces
  <2>1. Before(s, Find(s, {TagStart})) \in Strings
    BY BeforeTyped
  <2>2. CASE HasBlock(s, {TagStart}, {TagEnd})
    <3>1. PICK r : r = Tag[Behind(s, {TagStart}, {TagEnd})]
      OBVIOUS
    <3>2. r \in Pieces
      BY <1>1, <2>2, <3>1, TagsOfGateway, Shorter
    <3>3. Tag[s] = [r EXCEPT !.out = Before(s, Find(s, {TagStart})) \o @]
      BY <2>2, <3>1, TagIs
    <3>4. Before(s, Find(s, {TagStart})) \o r.out \in Strings
      BY <2>1, <3>2, Joined DEF Pieces
    <3>. QED BY <3>2, <3>3, <3>4 DEF Pieces
  <2>3. CASE Find(s, {TagStart}) = 0
    <3>1. PICK a, h : /\ a = SubSeq(s, 1, Len(s) - Kept(s, {TagStart}))
                      /\ h = SubSeq(s, Len(s) - Kept(s, {TagStart}) + 1, Len(s))
      OBVIOUS
    <3>2. a \in Strings /\ h \in Strings
      BY <3>1, TagsOfGateway, CutTyped
    <3>3. Tag[s] = [held |-> h, inside |-> FALSE, out |-> a]
      BY <2>3, <3>1, TagIs
    <3>. QED BY <3>2, <3>3 DEF Pieces
  <2>4. CASE Find(s, {TagStart}) # 0 /\ ~HasBlock(s, {TagStart}, {TagEnd})
    <3>1. << >> \in Strings
      BY EmptySeq DEF Strings
    <3>2. Tag[s] = [held |-> << >>, inside |-> TRUE,
                      out |-> Before(s, Find(s, {TagStart}))]
      BY <2>4, TagIs
    <3>. QED BY <2>1, <3>1, <3>2 DEF Pieces
  <2>. QED BY <2>2, <2>3, <2>4
<1>2. Strings \subseteq S
  <2>1. ASSUME NEW s \in Strings, \A t \in Strings : Len(t) < Len(s) => t \in S
        PROVE  s \in S
    BY <1>1, <2>1
  <2> HIDE DEF S
  <2>. QED BY <2>1, Induction
<1>. QED BY <1>2

-----------------------------------------------------------------------------
(* A text and its continuation. *)

\* The visible part of a text is a text.
LEMMA VisibleTyped ==
    ASSUME NEW s \in Strings
    PROVE  Visible[s] \in Strings
<1> DEFINE S == {t \in Strings : Visible[t] \in Strings}
<1>1. ASSUME NEW t \in Strings, \A u \in Strings : Len(u) < Len(t) => u \in S
      PROVE  Visible[t] \in Strings
  <2>1. Before(t, Find(t, ThinkOpen)) \in Strings
    BY BeforeTyped
  <2>2. CASE HasBlock(t, ThinkOpen, ThinkClose)
    <3>1. Visible[Behind(t, ThinkOpen, ThinkClose)] \in Strings
      BY <1>1, <2>2, TagsOfThink, Shorter
    <3>. QED BY <2>1, <2>2, <3>1, VisibleIs, Joined
  <2>3. CASE ~HasBlock(t, ThinkOpen, ThinkClose)
    BY <2>1, <2>3, VisibleIs
  <2>. QED BY <2>2, <2>3
<1>2. Strings \subseteq S
  <2>1. ASSUME NEW t \in Strings, \A u \in Strings : Len(u) < Len(t) => u \in S
        PROVE  t \in S
    BY <1>1, <2>1
  <2> HIDE DEF S
  <2>. QED BY <2>1, Induction
<1>. QED BY <1>2

\* A text without its tags is a text.
LEMMA WithoutTagsTyped ==
    ASSUME NEW s \in Strings
    PROVE  WithoutTags[s] \in Strings
<1> DEFINE S == {t \in Strings : WithoutTags[t] \in Strings}
<1>1. ASSUME NEW t \in Strings, \A u \in Strings : Len(u) < Len(t) => u \in S
      PROVE  WithoutTags[t] \in Strings
  <2>1. Before(t, Find(t, {TagStart})) \in Strings
    BY BeforeTyped
  <2>2. CASE HasBlock(t, {TagStart}, {TagEnd})
    <3>1. WithoutTags[Behind(t, {TagStart}, {TagEnd})] \in Strings
      BY <1>1, <2>2, TagsOfGateway, Shorter
    <3>. QED BY <2>1, <2>2, <3>1, WithoutTagsIs, Joined
  <2>3. CASE ~HasBlock(t, {TagStart}, {TagEnd})
    BY <2>3, WithoutTagsIs
  <2>. QED BY <2>2, <2>3
<1>2. Strings \subseteq S
  <2>1. ASSUME NEW t \in Strings, \A u \in Strings : Len(u) < Len(t) => u \in S
        PROVE  t \in S
    BY <1>1, <2>1
  <2> HIDE DEF S
  <2>. QED BY <2>1, Induction
<1>. QED BY <1>2

\* Text in which no block begins does not change the first block behind it.
LEMMA BlockSkip ==
    ASSUME NEW open, Tags(open), NEW close, NEW a \in Strings, NEW b \in Strings,
           Clear(a, b, open)
    PROVE  /\ Find(a \o b, open) = 0 <=> Find(b, open) = 0
           /\ HasBlock(a \o b, open, close) <=> HasBlock(b, open, close)
           /\ Find(b, open) # 0 =>
                 Before(a \o b, Find(a \o b, open)) = a \o Before(b, Find(b, open))
           /\ HasBlock(b, open, close) => Behind(a \o b, open, close) = Behind(b, open, close)
<1>1. CASE Find(b, open) = 0
  <2>1. Find(a \o b, open) = 0
    BY <1>1, Skip
  <2>. QED BY <1>1, <2>1 DEF HasBlock
<1>2. CASE Find(b, open) # 0
  <2>1. /\ Find(a \o b, open) # 0
        /\ Before(a \o b, Find(a \o b, open)) = a \o Before(b, Find(b, open))
        /\ After(a \o b, open, Find(a \o b, open)) = After(b, open, Find(b, open))
    BY <1>2, Skip
  <2>. QED BY <1>2, <2>1 DEF HasBlock, Behind
<1>. QED BY <1>1, <1>2

\* A whole block stays the first one, whatever follows.
LEMMA BlockExtend ==
    ASSUME NEW open, Tags(open), NEW close, Tags(close), NEW a \in Strings, NEW b \in Strings,
           HasBlock(a, open, close)
    PROVE  /\ HasBlock(a \o b, open, close)
           /\ Before(a \o b, Find(a \o b, open)) = Before(a, Find(a, open))
           /\ Behind(a \o b, open, close) = Behind(a, open, close) \o b
<1>1. PICK block : block = After(a, open, Find(a, open))
  OBVIOUS
<1>2. block \in Strings /\ Find(a, open) # 0 /\ Find(block, close) # 0
  BY <1>1, AfterTyped DEF HasBlock
<1>3. /\ Find(a \o b, open) = Find(a, open)
      /\ Before(a \o b, Find(a, open)) = Before(a, Find(a, open))
      /\ After(a \o b, open, Find(a, open)) = block \o b
  BY <1>1, <1>2, Extend
<1>4. /\ Find(block \o b, close) = Find(block, close)
      /\ After(block \o b, close, Find(block, close)) = After(block, close, Find(block, close)) \o b
  BY <1>2, Extend
<1>. QED BY <1>1, <1>2, <1>3, <1>4 DEF HasBlock, Behind

\* Text without tags in front of a text stays in front.
LEMMA VisibleSkip ==
    ASSUME NEW a \in Strings, NEW b \in Strings, Clear(a, b, ThinkOpen)
    PROVE  Visible[a \o b] = a \o Visible[b] /\ (Unclosed[a \o b] <=> Unclosed[b])
<1>1. PICK c : c = a \o b
  OBVIOUS
<1>2. c \in Strings
  BY <1>1, Joined
<1>3. /\ Find(c, ThinkOpen) = 0 <=> Find(b, ThinkOpen) = 0
      /\ HasBlock(c, ThinkOpen, ThinkClose) <=> HasBlock(b, ThinkOpen, ThinkClose)
      /\ Find(b, ThinkOpen) # 0 =>
            Before(c, Find(c, ThinkOpen)) = a \o Before(b, Find(b, ThinkOpen))
      /\ HasBlock(b, ThinkOpen, ThinkClose) =>
            Behind(c, ThinkOpen, ThinkClose) = Behind(b, ThinkOpen, ThinkClose)
  <2>1. /\ Find(a \o b, ThinkOpen) = 0 <=> Find(b, ThinkOpen) = 0
        /\ HasBlock(a \o b, ThinkOpen, ThinkClose) <=> HasBlock(b, ThinkOpen, ThinkClose)
        /\ Find(b, ThinkOpen) # 0 =>
              Before(a \o b, Find(a \o b, ThinkOpen)) = a \o Before(b, Find(b, ThinkOpen))
        /\ HasBlock(b, ThinkOpen, ThinkClose) =>
              Behind(a \o b, ThinkOpen, ThinkClose) = Behind(b, ThinkOpen, ThinkClose)
    BY TagsOfThink, BlockSkip
  <2>. QED BY <1>1, <2>1
<1>4. CASE Find(b, ThinkOpen) = 0
  BY <1>1, <1>2, <1>3, <1>4, VisibleIs, UnclosedIs
<1>5. CASE Find(b, ThinkOpen) # 0 /\ ~HasBlock(b, ThinkOpen, ThinkClose)
  BY <1>1, <1>2, <1>3, <1>5, VisibleIs, UnclosedIs
<1>6. CASE HasBlock(b, ThinkOpen, ThinkClose)
  <2>1. PICK x, y, z : /\ x = Before(b, Find(b, ThinkOpen))
                       /\ y = Behind(b, ThinkOpen, ThinkClose)
                       /\ z = Visible[y]
    OBVIOUS
  <2>2. y \in Strings
    BY <1>6, <2>1, TagsOfThink, Shorter
  <2>3. x \in Strings /\ z \in Strings
    BY <2>1, <2>2, BeforeTyped, VisibleTyped
  <2>4. Find(b, ThinkOpen) # 0
    BY <1>6 DEF HasBlock
  <2>5. Visible[c] = (a \o x) \o z /\ Visible[b] = x \o z
    BY <1>2, <1>3, <1>6, <2>1, <2>4, VisibleIs
  <2>6. (a \o x) \o z = a \o (x \o z)
    BY <2>3, ConcatAssociative DEF Strings
  <2>7. (Unclosed[c] <=> Unclosed[y]) /\ (Unclosed[b] <=> Unclosed[y])
    BY <1>2, <1>3, <1>6, <2>1, UnclosedIs
  <2>. QED BY <1>1, <2>5, <2>6, <2>7
<1>. QED BY <1>4, <1>5, <1>6

\* Text in which no tag begins stays in front.
LEMMA TagsSkip ==
    ASSUME NEW a \in Strings, NEW b \in Strings, Clear(a, b, {TagStart})
    PROVE  WithoutTags[a \o b] = a \o WithoutTags[b]
<1>1. PICK c : c = a \o b
  OBVIOUS
<1>2. c \in Strings
  BY <1>1, Joined
<1>3. /\ HasBlock(c, {TagStart}, {TagEnd}) <=> HasBlock(b, {TagStart}, {TagEnd})
      /\ Find(b, {TagStart}) # 0 =>
            Before(c, Find(c, {TagStart})) = a \o Before(b, Find(b, {TagStart}))
      /\ HasBlock(b, {TagStart}, {TagEnd}) =>
            Behind(c, {TagStart}, {TagEnd}) = Behind(b, {TagStart}, {TagEnd})
  <2>1. /\ HasBlock(a \o b, {TagStart}, {TagEnd}) <=> HasBlock(b, {TagStart}, {TagEnd})
        /\ Find(b, {TagStart}) # 0 =>
              Before(a \o b, Find(a \o b, {TagStart})) = a \o Before(b, Find(b, {TagStart}))
        /\ HasBlock(b, {TagStart}, {TagEnd}) =>
              Behind(a \o b, {TagStart}, {TagEnd}) = Behind(b, {TagStart}, {TagEnd})
    BY TagsOfGateway, BlockSkip
  <2>. QED BY <1>1, <2>1
<1>4. CASE ~HasBlock(b, {TagStart}, {TagEnd})
  BY <1>1, <1>2, <1>3, <1>4, WithoutTagsIs
<1>5. CASE HasBlock(b, {TagStart}, {TagEnd})
  <2>1. PICK x, y, z : /\ x = Before(b, Find(b, {TagStart}))
                       /\ y = Behind(b, {TagStart}, {TagEnd})
                       /\ z = WithoutTags[y]
    OBVIOUS
  <2>2. y \in Strings
    BY <1>5, <2>1, TagsOfGateway, Shorter
  <2>3. x \in Strings /\ z \in Strings
    BY <2>1, <2>2, BeforeTyped, WithoutTagsTyped
  <2>4. Find(b, {TagStart}) # 0
    BY <1>5 DEF HasBlock
  <2>5. WithoutTags[c] = (a \o x) \o z /\ WithoutTags[b] = x \o z
    BY <1>2, <1>3, <1>5, <2>1, <2>4, WithoutTagsIs
  <2>6. (a \o x) \o z = a \o (x \o z)
    BY <2>3, ConcatAssociative DEF Strings
  <2>. QED BY <1>1, <2>5, <2>6
<1>. QED BY <1>4, <1>5

-----------------------------------------------------------------------------
(* The think filter. *)

\* What the stored reply makes of a text that begins inside or outside of a block.
VisibleFrom(s, inside) ==
    IF ~inside THEN Visible[s]
    ELSE IF Find(s, ThinkClose) = 0 THEN << >>
    ELSE Visible[After(s, ThinkClose, Find(s, ThinkClose))]

\* Whether it ends inside of a block.
UnclosedFrom(s, inside) ==
    IF ~inside THEN Unclosed[s]
    ELSE Find(s, ThinkClose) = 0 \/ Unclosed[After(s, ThinkClose, Find(s, ThinkClose))]

\* What the think filter gave out and holds says as much as the text it was fed with.
ThinkKeeps(s, inside, r) ==
    /\ r.inside => Find(r.held, ThinkClose) = 0
    /\ ~r.inside => Find(r.held, ThinkOpen) = 0
    /\ \A X \in Strings :
          /\ VisibleFrom(s \o X, inside) = r.out \o VisibleFrom(r.held \o X, r.inside)
          /\ UnclosedFrom(s \o X, inside) <=> UnclosedFrom(r.held \o X, r.inside)

\* VisibleFrom is a text.
LEMMA VisibleFromTyped ==
    ASSUME NEW s \in Strings, NEW inside \in BOOLEAN
    PROVE  VisibleFrom(s, inside) \in Strings
<1>1. << >> \in Strings
  BY EmptySeq DEF Strings
<1>2. CASE ~inside \/ Find(s, ThinkClose) = 0
  BY <1>1, <1>2, VisibleTyped DEF VisibleFrom
<1>3. CASE inside /\ Find(s, ThinkClose) # 0
  <2>1. After(s, ThinkClose, Find(s, ThinkClose)) \in Strings
    BY <1>3, TagsOfThink, AfterTyped
  <2>. QED BY <1>3, <2>1, VisibleTyped DEF VisibleFrom
<1>. QED BY <1>2, <1>3

\* The think filter outside of a block.
LEMMA ThinkOutside ==
    ASSUME NEW s \in Strings
    PROVE  ThinkKeeps(s, FALSE, Think[s])
<1>1. ASSUME NEW t \in Strings,
             \A u \in Strings : Len(u) < Len(t) => ThinkKeeps(u, FALSE, Think[u])
      PROVE  ThinkKeeps(t, FALSE, Think[t])
  <2>1. CASE Find(t, ThinkOpen) = 0
    <3>1. PICK a \in Strings, h \in Strings :
              /\ a = SubSeq(t, 1, Len(t) - Kept(t, ThinkOpen))
              /\ h = SubSeq(t, Len(t) - Kept(t, ThinkOpen) + 1, Len(t))
              /\ t = a \o h /\ Len(h) = Kept(t, ThinkOpen)
      BY TagsOfThink, HeldParts
    <3>2. PICK r : r = Think[t]
      OBVIOUS
    <3>3. r = [held |-> h, inside |-> FALSE, out |-> a]
      BY <2>1, <3>1, <3>2, ThinkIs
    <3>4. Find(h, ThinkOpen) = 0 /\ \A b \in Strings : Clear(a, h \o b, ThinkOpen)
      BY <2>1, <3>1, TagsOfThink, Held
    <3>5. ASSUME NEW X \in Strings
          PROVE  Visible[t \o X] = a \o Visible[h \o X] /\ (Unclosed[t \o X] <=> Unclosed[h \o X])
      <4>1. t \o X = a \o (h \o X)
        <5>1. (a \o h) \o X = a \o (h \o X)
          BY Assoc
        <5>. QED BY <3>1, <5>1
      <4>2. h \o X \in Strings
        BY Joined
      <4>. QED BY <3>4, <4>1, <4>2, VisibleSkip
    <3>. QED BY <3>2, <3>3, <3>4, <3>5 DEF ThinkKeeps, VisibleFrom, UnclosedFrom
  <2>2. CASE Find(t, ThinkOpen) # 0 /\ ~HasBlock(t, ThinkOpen, ThinkClose)
    <3>1. PICK block, a, r : /\ block = After(t, ThinkOpen, Find(t, ThinkOpen))
                             /\ a = Before(t, Find(t, ThinkOpen))
                             /\ r = Think[t]
      OBVIOUS
    <3>2. block \in Strings /\ a \in Strings
      BY <2>2, <3>1, TagsOfThink, AfterTyped, BeforeTyped
    <3>3. r = [held |-> block, inside |-> TRUE, out |-> a]
      BY <2>2, <3>1, ThinkIs
    <3>4. Find(block, ThinkClose) = 0
      BY <2>2, <3>1 DEF HasBlock
    <3>5. ASSUME NEW X \in Strings
          PROVE  /\ Visible[t \o X] = a \o VisibleFrom(block \o X, TRUE)
                 /\ Unclosed[t \o X] <=> UnclosedFrom(block \o X, TRUE)
      <4>1. PICK c, d : c = t \o X /\ d = block \o X
        OBVIOUS
      <4>2. /\ c \in Strings /\ d \in Strings
            /\ Find(c, ThinkOpen) # 0
            /\ Before(c, Find(c, ThinkOpen)) = a
            /\ After(c, ThinkOpen, Find(c, ThinkOpen)) = d
        <5>1. c \in Strings /\ d \in Strings
          BY <3>2, <4>1, Joined
        <5>2. /\ Find(t \o X, ThinkOpen) = Find(t, ThinkOpen)
              /\ Before(t \o X, Find(t, ThinkOpen)) = Before(t, Find(t, ThinkOpen))
              /\ After(t \o X, ThinkOpen, Find(t, ThinkOpen))
                   = After(t, ThinkOpen, Find(t, ThinkOpen)) \o X
          BY <2>2, TagsOfThink, Extend
        <5>. QED BY <2>2, <3>1, <4>1, <5>1, <5>2
      <4>3. CASE Find(d, ThinkClose) = 0
        <5>1. ~HasBlock(c, ThinkOpen, ThinkClose)
          BY <4>2, <4>3 DEF HasBlock
        <5>2. Visible[c] = a /\ Unclosed[c]
          BY <4>2, <5>1, VisibleIs, UnclosedIs
        <5>3. VisibleFrom(d, TRUE) = << >> /\ UnclosedFrom(d, TRUE)
          BY <4>3 DEF VisibleFrom, UnclosedFrom
        <5>4. a \o << >> = a
          BY <3>2, ConcatEmptySeq DEF Strings
        <5>. QED BY <4>1, <5>2, <5>3, <5>4
      <4>4. CASE Find(d, ThinkClose) # 0
        <5>1. /\ HasBlock(c, ThinkOpen, ThinkClose)
              /\ Behind(c, ThinkOpen, ThinkClose) = After(d, ThinkClose, Find(d, ThinkClose))
          BY <4>2, <4>4 DEF HasBlock, Behind
        <5>2. PICK e : e = After(d, ThinkClose, Find(d, ThinkClose))
          OBVIOUS
        <5>3. Visible[c] = a \o Visible[e] /\ (Unclosed[c] <=> Unclosed[e])
          <6>1. c \in Strings
            BY <4>2
          <6>2. /\ Visible[c] = Before(c, Find(c, ThinkOpen))
                                    \o Visible[Behind(c, ThinkOpen, ThinkClose)]
                /\ Unclosed[c] <=> Unclosed[Behind(c, ThinkOpen, ThinkClose)]
            BY <5>1, <6>1, VisibleIs, UnclosedIs
          <6>. QED BY <4>2, <5>1, <5>2, <6>2
        <5>4. VisibleFrom(d, TRUE) = Visible[e] /\ (UnclosedFrom(d, TRUE) <=> Unclosed[e])
          BY <4>4, <5>2 DEF VisibleFrom, UnclosedFrom
        <5>. QED BY <4>1, <5>3, <5>4
      <4>. QED BY <4>3, <4>4
    <3>. QED BY <3>1, <3>3, <3>4, <3>5 DEF ThinkKeeps, VisibleFrom, UnclosedFrom
  <2>3. CASE HasBlock(t, ThinkOpen, ThinkClose)
    <3>1. PICK a, q, r : /\ a = Before(t, Find(t, ThinkOpen))
                         /\ q = Behind(t, ThinkOpen, ThinkClose)
                         /\ r = Think[q]
      OBVIOUS
    <3>2. q \in Strings /\ Len(q) < Len(t) /\ a \in Strings /\ r \in Pieces
      BY <2>3, <3>1, TagsOfThink, Shorter, BeforeTyped, ThinkTyped
    <3>3. ThinkKeeps(q, FALSE, r)
      BY <1>1, <3>1, <3>2
    <3>4. Think[t] = [r EXCEPT !.out = a \o @]
      BY <2>3, <3>1, ThinkIs
    <3>5. PICK z : z = Think[t]
      OBVIOUS
    <3>6. z.held = r.held /\ z.inside = r.inside /\ z.out = a \o r.out
      BY <3>2, <3>4, <3>5 DEF Pieces
    <3>7. ASSUME NEW X \in Strings
          PROVE  /\ VisibleFrom(t \o X, FALSE) = z.out \o VisibleFrom(z.held \o X, z.inside)
                 /\ UnclosedFrom(t \o X, FALSE) <=> UnclosedFrom(z.held \o X, z.inside)
      <4>1. PICK c, v, o : /\ c = t \o X /\ v = VisibleFrom(r.held \o X, r.inside)
                           /\ o = r.out
        OBVIOUS
      <4>2. c \in Strings /\ v \in Strings /\ o \in Strings /\ q \o X \in Strings
        BY <3>2, <4>1, Joined, VisibleFromTyped DEF Pieces
      <4>3. /\ HasBlock(c, ThinkOpen, ThinkClose)
            /\ Before(c, Find(c, ThinkOpen)) = a
            /\ Behind(c, ThinkOpen, ThinkClose) = q \o X
        <5>1. /\ HasBlock(t \o X, ThinkOpen, ThinkClose)
              /\ Before(t \o X, Find(t \o X, ThinkOpen)) = Before(t, Find(t, ThinkOpen))
              /\ Behind(t \o X, ThinkOpen, ThinkClose) = Behind(t, ThinkOpen, ThinkClose) \o X
          BY <2>3, TagsOfThink, BlockExtend
        <5>. QED BY <3>1, <4>1, <5>1
      <4>4. Visible[c] = a \o Visible[q \o X] /\ (Unclosed[c] <=> Unclosed[q \o X])
        <5>1. c \in Strings
          BY <4>2
        <5>2. /\ Visible[c] = Before(c, Find(c, ThinkOpen))
                                  \o Visible[Behind(c, ThinkOpen, ThinkClose)]
              /\ Unclosed[c] <=> Unclosed[Behind(c, ThinkOpen, ThinkClose)]
          BY <4>3, <5>1, VisibleIs, UnclosedIs
        <5>. QED BY <4>3, <5>2
      <4>5. /\ Visible[q \o X] = o \o v
            /\ Unclosed[q \o X] <=> UnclosedFrom(r.held \o X, r.inside)
        BY <3>3, <4>1 DEF ThinkKeeps, VisibleFrom, UnclosedFrom
      <4>6. a \o (o \o v) = (a \o o) \o v
        <5>1. a \in Strings /\ o \in Strings /\ v \in Strings
          BY <3>2, <4>2
        <5>. QED BY <5>1, Assoc, ZenonT(40)
      <4>7. /\ VisibleFrom(c, FALSE) = Visible[c]
            /\ UnclosedFrom(c, FALSE) <=> Unclosed[c]
        BY DEF VisibleFrom, UnclosedFrom
      <4>8. VisibleFrom(c, FALSE) = (a \o o) \o v
        BY <4>4, <4>5, <4>6, <4>7
      <4>. QED BY <3>6, <4>1, <4>4, <4>5, <4>7, <4>8
    <3>8. ThinkKeeps(t, FALSE, z)
      BY <3>3, <3>6, <3>7 DEF ThinkKeeps
    <3>. QED BY <3>5, <3>8
  <2>. QED BY <2>1, <2>2, <2>3
<1> DEFINE S == {t \in Strings : ThinkKeeps(t, FALSE, Think[t])}
<1>2. Strings \subseteq S
  <2>1. ASSUME NEW t \in Strings, \A u \in Strings : Len(u) < Len(t) => u \in S
        PROVE  t \in S
    BY <1>1, <2>1
  <2> HIDE DEF S
  <2>. QED BY <2>1, Induction
<1>. QED BY <1>2

\* A push of any text to the think filter loses and repeats nothing.
LEMMA ThinkPushed ==
    ASSUME NEW s \in Strings, NEW inside \in BOOLEAN
    PROVE  ThinkFrom(s, inside) \in Pieces /\ ThinkKeeps(s, inside, ThinkFrom(s, inside))
<1>1. CASE ~inside
  BY <1>1, ThinkTyped, ThinkOutside DEF ThinkFrom
<1>2. CASE inside /\ Find(s, ThinkClose) = 0
  <2>1. PICK r : r = [held |-> s, inside |-> TRUE, out |-> << >>]
    OBVIOUS
  <2>2. << >> \in Strings
    BY EmptySeq DEF Strings
  <2>3. ThinkFrom(s, inside) = r /\ r \in Pieces
    BY <1>2, <2>1, <2>2 DEF ThinkFrom, Pieces
  <2>4. ASSUME NEW X \in Strings
        PROVE  << >> \o VisibleFrom(s \o X, TRUE) = VisibleFrom(s \o X, TRUE)
    <3>1. VisibleFrom(s \o X, TRUE) \in Strings
      BY Joined, VisibleFromTyped
    <3>. QED BY <3>1, ConcatEmptySeq DEF Strings
  <2>5. r.held = s /\ r.inside = TRUE /\ r.out = << >> /\ inside = TRUE
    BY <1>2, <2>1
  <2>6. ThinkKeeps(s, inside, r)
    BY <1>2, <2>4, <2>5 DEF ThinkKeeps
  <2>. QED BY <2>3, <2>6
<1>3. CASE inside /\ Find(s, ThinkClose) # 0
  <2>1. PICK q, r : q = After(s, ThinkClose, Find(s, ThinkClose)) /\ r = Think[q]
    OBVIOUS
  <2>2. q \in Strings
    BY <1>3, <2>1, TagsOfThink, AfterTyped
  <2>3. ThinkFrom(s, inside) = r /\ r \in Pieces /\ ThinkKeeps(q, FALSE, r)
    BY <1>3, <2>1, <2>2, ThinkTyped, ThinkOutside DEF ThinkFrom
  <2>4. ASSUME NEW X \in Strings
        PROVE  /\ VisibleFrom(s \o X, TRUE) = VisibleFrom(q \o X, FALSE)
               /\ UnclosedFrom(s \o X, TRUE) <=> UnclosedFrom(q \o X, FALSE)
    <3>1. /\ Find(s \o X, ThinkClose) = Find(s, ThinkClose)
          /\ After(s \o X, ThinkClose, Find(s, ThinkClose)) = q \o X
      BY <1>3, <2>1, TagsOfThink, Extend
    <3>. QED BY <1>3, <3>1 DEF VisibleFrom, UnclosedFrom
  <2>5. inside = TRUE
    BY <1>3
  <2>6. ThinkKeeps(s, inside, r)
    BY <2>3, <2>4, <2>5 DEF ThinkKeeps
  <2>. QED BY <2>3, <2>6
<1>. QED BY <1>1, <1>2, <1>3

-----------------------------------------------------------------------------
(* The gateway filter. *)

\* What the stored reply makes of a text that begins inside or outside of a tag: of a
\* tag that is not closed, its beginning stays.
TagsFrom(s, inside) ==
    IF ~inside THEN WithoutTags[s]
    ELSE IF Find(s, {TagEnd}) = 0 THEN TagStart
    ELSE WithoutTags[After(s, {TagEnd}, Find(s, {TagEnd}))]

\* The text does not end with a first bracket of an end.
Closed(s) == s = << >> \/ s[Len(s)] # "]"

\* What the gateway filter gave out and holds says as much as the text it was fed with,
\* if all tags are closed and no push cuts "]]" inside of a tag.
TagKeeps(s, inside, r) ==
    /\ r.inside => r.held = << >>
    /\ ~r.inside => Find(r.held, {TagStart}) = 0
    /\ \A X \in Strings :
          (r.inside => Closed(s) \/ X = << >>) =>
              \/ TagsFrom(s \o X, inside) = r.out \o TagsFrom(r.held \o X, r.inside)
              \/ Find(TagsFrom(s \o X, inside), {TagStart}) # 0

\* TagsFrom is a text.
LEMMA TagsFromTyped ==
    ASSUME NEW s \in Strings, NEW inside \in BOOLEAN
    PROVE  TagsFrom(s, inside) \in Strings
<1>1. TagStart \in Strings
  BY TagsOfGateway DEF Tags
<1>2. CASE ~inside \/ Find(s, {TagEnd}) = 0
  BY <1>1, <1>2, WithoutTagsTyped DEF TagsFrom
<1>3. CASE inside /\ Find(s, {TagEnd}) # 0
  <2>1. After(s, {TagEnd}, Find(s, {TagEnd})) \in Strings
    BY <1>3, TagsOfGateway, AfterTyped
  <2>. QED BY <1>3, <2>1, WithoutTagsTyped DEF TagsFrom
<1>. QED BY <1>2, <1>3

\* A tag of the end of a text is in the text.
LEMMA FoundBehind ==
    ASSUME NEW T, Tags(T), NEW a \in Strings, NEW b \in Strings, Find(b, T) # 0
    PROVE  Find(a \o b, T) # 0
<1>1. PICK p : p = Find(b, T)
  OBVIOUS
<1>2. p \in 1 .. Len(b) /\ p \in Nat \ {0} /\ \E x \in T : StartsAt(b, x, p)
  <2>1. Len(b) \in Nat
    BY LenProperties DEF Strings
  <2>2. p \in 0 .. Len(b) /\ p # 0 /\ \E x \in T : StartsAt(b, x, p)
    BY <1>1, Found
  <2>. QED BY <2>1, <2>2
<1>3. PICK x \in T : StartsAt(b, x, p)
  BY <1>2
<1>4. x \in Strings
  BY DEF Tags
<1>5. StartsAt(a \o b, x, Len(a) + p)
  BY <1>2, <1>3, <1>4, Shift
<1>6. a \o b \in Strings /\ Len(a) + p \in 1 .. Len(a \o b)
  <2>1. a \o b \in Strings /\ Len(a \o b) = Len(a) + Len(b) /\ Len(a) \in Nat /\ Len(b) \in Nat
    BY Joined
  <2>. QED BY <1>2, <2>1
<1>. QED BY <1>5, <1>6, Found

\* A text that starts with a tag has one.
LEMMA StartFound == Find(TagStart, {TagStart}) # 0
<1>1. TagStart \in Strings /\ Len(TagStart) \in Nat \ {0}
  BY TagsOfGateway, TagsTyped
<1>2. StartsAt(TagStart, TagStart, 1)
  <2>1. 1 + Len(TagStart) - 1 = Len(TagStart)
    BY <1>1
  <2>2. SubSeq(TagStart, 1, Len(TagStart)) = TagStart
    BY <1>1, SubSeqFull DEF Strings
  <2>. QED BY <1>1, <2>1, <2>2 DEF StartsAt
<1>3. 1 \in 1 .. Len(TagStart)
  BY <1>1
<1>. QED BY <1>1, <1>2, <1>3, Found

\* Without the first bracket of an end, a text and its continuation have no end in between.
LEMMA NoEnd ==
    ASSUME NEW s \in Strings, Find(s, {TagEnd}) = 0, NEW b \in Strings, Closed(s)
    PROVE  Clear(s, b, {TagEnd})
<1> SUFFICES ASSUME NEW p \in 1 .. Len(s), StartsAt(s \o b, TagEnd, p) PROVE FALSE
  BY DEF Clear
<1>1. /\ TagEnd \in Strings /\ Len(TagEnd) = 2 /\ TagEnd[1] = "]"
  <2>1. TagEnd \in Strings
    BY TagsOfGateway, TagsTyped
  <2>2. Len(TagEnd) = 2 /\ TagEnd[1] = "]"
    BY DEF TagEnd
  <2>. QED BY <2>1, <2>2
<1>2. Len(s) \in Nat /\ p \in Nat \ {0} /\ p <= Len(s)
  BY LenProperties DEF Strings
<1>3. ~StartsAt(s, TagEnd, p)
  BY Found
<1>4. ~(p + Len(TagEnd) - 1 <= Len(s))
  BY <1>1, <1>2, <1>3, Shift
<1>5. p = Len(s)
  BY <1>1, <1>2, <1>4
<1>6. s[p] # "]"
  <2>1. s # << >>
    BY <1>2, EmptySeq
  <2>. QED BY <1>5, <2>1 DEF Closed
<1>7. (s \o b)[p] = s[p] /\ s \o b \in Strings
  BY Joined
<1>8. (s \o b)[p] = TagEnd[1]
  <2>1. \A i \in 1 .. Len(TagEnd) : (s \o b)[p + i - 1] = TagEnd[i]
    <3>1. TagEnd \in Strings /\ p \in Nat \ {0} /\ s \o b \in Strings
      BY <1>1, <1>2, <1>7
    <3>. QED BY <3>1, StartsMarkByMark
  <2>2. 1 \in 1 .. Len(TagEnd) /\ p + 1 - 1 = p
    BY <1>1, <1>2
  <2>. QED BY <2>1, <2>2
<1>. QED BY <1>1, <1>6, <1>7, <1>8

\* The end of a text that is closed is closed.
LEMMA EndClosed ==
    ASSUME NEW T, Tags(T), NEW s \in Strings, Find(s, T) # 0, Closed(s)
    PROVE  Closed(After(s, T, Find(s, T)))
<1>1. PICK p, b : p = Find(s, T) /\ b = After(s, T, p)
  OBVIOUS
<1>2. p \in 1 .. Len(s) /\ \E x \in T : StartsAt(s, x, p)
  BY <1>1, Found
<1>3. PICK x \in T : StartsAt(s, x, p)
  BY <1>2
<1>4. /\ b \in Strings /\ Len(b) = Len(s) - p - Len(x) + 1
      /\ \A i \in 1 .. Len(s) - p - Len(x) + 1 : b[i] = s[p + Len(x) + i - 1]
  <2>1. /\ After(s, T, p) \in Strings /\ Len(After(s, T, p)) = Len(s) - p - Len(x) + 1
        /\ \A i \in 1 .. Len(s) - p - Len(x) + 1 : After(s, T, p)[i] = s[p + Len(x) + i - 1]
    BY <1>2, <1>3, Around
  <2>. QED BY <1>1, <2>1
<1>5. Len(s) \in Nat /\ Len(b) \in Nat /\ Len(x) \in Nat \ {0} /\ p \in Nat \ {0}
  BY <1>2, <1>4, TagsTyped, LenProperties DEF Strings
<1>6. CASE b # << >>
  <2>1. Len(b) \in 1 .. Len(s) - p - Len(x) + 1 /\ p + Len(x) + Len(b) - 1 = Len(s)
    <3>1. Len(b) # 0
      BY <1>4, <1>6, EmptySeq DEF Strings
    <3>2. Len(b) = Len(s) - p - Len(x) + 1
      BY <1>4
    <3>. QED BY <1>5, <3>1, <3>2
  <2>2. b[Len(b)] = s[Len(s)]
    <3>1. PICK n : n = Len(b)
      OBVIOUS
    <3>2. b[n] = s[p + Len(x) + n - 1]
      BY <1>4, <2>1, <3>1
    <3>. QED BY <2>1, <3>1, <3>2
  <2>3. s # << >>
    BY <1>2, <1>5, EmptySeq
  <2>. QED BY <1>1, <2>2, <2>3 DEF Closed
<1>. QED BY <1>1, <1>6 DEF Closed

\* The gateway filter outside of a tag.
LEMMA TagOutside ==
    ASSUME NEW s \in Strings
    PROVE  TagKeeps(s, FALSE, Tag[s])
<1>1. ASSUME NEW t \in Strings,
             \A u \in Strings : Len(u) < Len(t) => TagKeeps(u, FALSE, Tag[u])
      PROVE  TagKeeps(t, FALSE, Tag[t])
  <2>1. CASE Find(t, {TagStart}) = 0
    <3>1. PICK a \in Strings, h \in Strings :
              /\ a = SubSeq(t, 1, Len(t) - Kept(t, {TagStart}))
              /\ h = SubSeq(t, Len(t) - Kept(t, {TagStart}) + 1, Len(t))
              /\ t = a \o h /\ Len(h) = Kept(t, {TagStart})
      BY TagsOfGateway, HeldParts
    <3>2. PICK r : r = Tag[t]
      OBVIOUS
    <3>3. r = [held |-> h, inside |-> FALSE, out |-> a]
      BY <2>1, <3>1, <3>2, TagIs
    <3>4. Find(h, {TagStart}) = 0 /\ \A b \in Strings : Clear(a, h \o b, {TagStart})
      BY <2>1, <3>1, TagsOfGateway, Held
    <3>5. ASSUME NEW X \in Strings
          PROVE  WithoutTags[t \o X] = a \o WithoutTags[h \o X]
      <4>1. t \o X = a \o (h \o X)
        <5>1. (a \o h) \o X = a \o (h \o X)
          BY Assoc
        <5>. QED BY <3>1, <5>1
      <4>2. h \o X \in Strings
        BY Joined
      <4>. QED BY <3>4, <4>1, <4>2, TagsSkip
    <3>6. r.held = h /\ r.inside = FALSE /\ r.out = a /\ Find(h, {TagStart}) = 0
      BY <3>3, <3>4
    <3>7. ASSUME NEW X \in Strings
          PROVE  TagsFrom(t \o X, FALSE) = a \o TagsFrom(h \o X, FALSE)
      BY <3>5 DEF TagsFrom
    <3>. QED BY <3>2, <3>6, <3>7 DEF TagKeeps
  <2>2. CASE Find(t, {TagStart}) # 0 /\ ~HasBlock(t, {TagStart}, {TagEnd})
    <3>1. PICK block, a, r : /\ block = After(t, {TagStart}, Find(t, {TagStart}))
                             /\ a = Before(t, Find(t, {TagStart}))
                             /\ r = Tag[t]
      OBVIOUS
    <3>2. block \in Strings /\ a \in Strings
      BY <2>2, <3>1, TagsOfGateway, AfterTyped, BeforeTyped
    <3>3. r = [held |-> << >>, inside |-> TRUE, out |-> a]
      BY <2>2, <3>1, TagIs
    <3>4. Find(block, {TagEnd}) = 0
      BY <2>2, <3>1 DEF HasBlock
    <3>5. ASSUME NEW X \in Strings, Closed(t) \/ X = << >>
          PROVE  \/ WithoutTags[t \o X] = a \o TagsFrom(X, TRUE)
                 \/ Find(WithoutTags[t \o X], {TagStart}) # 0
      <4>1. PICK c, d : c = t \o X /\ d = block \o X
        OBVIOUS
      <4>2. /\ c \in Strings /\ d \in Strings
            /\ Find(c, {TagStart}) # 0
            /\ Before(c, Find(c, {TagStart})) = a
            /\ After(c, {TagStart}, Find(c, {TagStart})) = d
        <5>1. c \in Strings /\ d \in Strings
          BY <3>2, <4>1, Joined
        <5>2. /\ Find(t \o X, {TagStart}) = Find(t, {TagStart})
              /\ Before(t \o X, Find(t, {TagStart})) = Before(t, Find(t, {TagStart}))
              /\ After(t \o X, {TagStart}, Find(t, {TagStart}))
                   = After(t, {TagStart}, Find(t, {TagStart})) \o X
          BY <2>2, TagsOfGateway, Extend
        <5>. QED BY <2>2, <3>1, <4>1, <5>1, <5>2
      <4>3. CASE Find(d, {TagEnd}) = 0
        <5>1. ~HasBlock(c, {TagStart}, {TagEnd})
          BY <4>2, <4>3 DEF HasBlock
        <5>2. WithoutTags[c] = c
          BY <4>2, <5>1, WithoutTagsIs
        <5>. QED BY <4>1, <4>2, <5>2
      <4>4. CASE Find(d, {TagEnd}) # 0
        <5>1. Closed(t)
          <6>1. CASE X = << >>
            <7>1. block \o << >> = block
              BY <3>2, ConcatEmptySeq DEF Strings
            <7>. QED BY <3>4, <4>1, <4>4, <6>1, <7>1
          <6>. QED BY <3>5, <6>1
        <5>2. Closed(block)
          BY <2>2, <3>1, <5>1, TagsOfGateway, EndClosed
        <5>3. Clear(block, X, {TagEnd})
          BY <3>2, <3>4, <5>2, NoEnd
        <5>4. Find(X, {TagEnd}) # 0
          BY <3>2, <4>1, <4>4, <5>3, TagsOfGateway, Skip
        <5>5. After(d, {TagEnd}, Find(d, {TagEnd})) = After(X, {TagEnd}, Find(X, {TagEnd}))
          BY <3>2, <4>1, <5>3, <5>4, TagsOfGateway, Skip
        <5>6. PICK e : e = After(X, {TagEnd}, Find(X, {TagEnd}))
          OBVIOUS
        <5>7. /\ HasBlock(c, {TagStart}, {TagEnd})
              /\ Behind(c, {TagStart}, {TagEnd}) = e
          BY <4>2, <4>4, <5>5, <5>6 DEF HasBlock, Behind
        <5>8. WithoutTags[c] = a \o WithoutTags[e]
          <6>1. c \in Strings
            BY <4>2
          <6>2. WithoutTags[c] = Before(c, Find(c, {TagStart}))
                                     \o WithoutTags[Behind(c, {TagStart}, {TagEnd})]
            BY <5>7, <6>1, WithoutTagsIs
          <6>. QED BY <4>2, <5>7, <6>2
        <5>9. TagsFrom(X, TRUE) = WithoutTags[e]
          BY <5>4, <5>6 DEF TagsFrom
        <5>. QED BY <4>1, <5>8, <5>9
      <4>. QED BY <4>3, <4>4
    <3>6. ASSUME NEW X \in Strings PROVE << >> \o X = X
      BY ConcatEmptySeq DEF Strings
    <3>7. r.held = << >> /\ r.inside = TRUE /\ r.out = a
      BY <3>3
    <3>8. \A X \in Strings : TagsFrom(t \o X, FALSE) = WithoutTags[t \o X]
      BY DEF TagsFrom
    <3>9. ASSUME NEW X \in Strings, r.inside => Closed(t) \/ X = << >>
          PROVE  \/ TagsFrom(t \o X, FALSE) = r.out \o TagsFrom(r.held \o X, r.inside)
                 \/ Find(TagsFrom(t \o X, FALSE), {TagStart}) # 0
      <4>1. Closed(t) \/ X = << >>
        BY <3>7, <3>9
      <4>2. r.out \o TagsFrom(r.held \o X, r.inside) = a \o TagsFrom(X, TRUE)
        BY <3>6, <3>7
      <4>. QED BY <3>5, <3>8, <4>1, <4>2
    <3>10. TagKeeps(t, FALSE, r)
      BY <3>7, <3>9 DEF TagKeeps
    <3>. QED BY <3>1, <3>10
  <2>3. CASE HasBlock(t, {TagStart}, {TagEnd})
    <3>1. PICK a, b, q, r : /\ a = Before(t, Find(t, {TagStart}))
                            /\ b = After(t, {TagStart}, Find(t, {TagStart}))
                            /\ q = Behind(t, {TagStart}, {TagEnd})
                            /\ r = Tag[q]
      OBVIOUS
    <3>2. q \in Strings /\ Len(q) < Len(t) /\ a \in Strings /\ r \in Pieces
      BY <2>3, <3>1, TagsOfGateway, Shorter, BeforeTyped, TagTyped
    <3>3. TagKeeps(q, FALSE, r)
      BY <1>1, <3>1, <3>2
    <3>4. Tag[t] = [r EXCEPT !.out = a \o @]
      BY <2>3, <3>1, TagIs
    <3>5. PICK z : z = Tag[t]
      OBVIOUS
    <3>6. z.held = r.held /\ z.inside = r.inside /\ z.out = a \o r.out
      BY <3>2, <3>4, <3>5 DEF Pieces
    <3>7. Closed(t) => Closed(q)
      <4>1. b \in Strings /\ Find(t, {TagStart}) # 0 /\ Find(b, {TagEnd}) # 0
        BY <2>3, <3>1, TagsOfGateway, AfterTyped DEF HasBlock
      <4>2. Closed(t) => Closed(b)
        BY <3>1, <4>1, TagsOfGateway, EndClosed
      <4>3. q = After(b, {TagEnd}, Find(b, {TagEnd}))
        BY <3>1 DEF Behind
      <4>. QED BY <4>1, <4>2, <4>3, TagsOfGateway, EndClosed
    <3>8. ASSUME NEW X \in Strings, z.inside => Closed(t) \/ X = << >>
          PROVE  \/ TagsFrom(t \o X, FALSE) = z.out \o TagsFrom(z.held \o X, z.inside)
                 \/ Find(TagsFrom(t \o X, FALSE), {TagStart}) # 0
      <4>1. PICK c, v, w, o : /\ c = t \o X /\ v = TagsFrom(r.held \o X, r.inside)
                              /\ w = WithoutTags[q \o X] /\ o = r.out
        OBVIOUS
      <4>2. c \in Strings /\ v \in Strings /\ o \in Strings /\ q \o X \in Strings
        BY <3>2, <4>1, Joined, TagsFromTyped DEF Pieces
      <4>3. w \in Strings
        BY <4>1, <4>2, WithoutTagsTyped
      <4>4. /\ HasBlock(c, {TagStart}, {TagEnd})
            /\ Before(c, Find(c, {TagStart})) = a
            /\ Behind(c, {TagStart}, {TagEnd}) = q \o X
        <5>1. /\ HasBlock(t \o X, {TagStart}, {TagEnd})
              /\ Before(t \o X, Find(t \o X, {TagStart})) = Before(t, Find(t, {TagStart}))
              /\ Behind(t \o X, {TagStart}, {TagEnd}) = Behind(t, {TagStart}, {TagEnd}) \o X
          <6>1. PICK open, close : open = {TagStart} /\ close = {TagEnd}
            OBVIOUS
          <6>2. Tags(open) /\ Tags(close) /\ HasBlock(t, open, close)
            BY <2>3, <6>1, TagsOfGateway
          <6>3. /\ HasBlock(t \o X, open, close)
                /\ Before(t \o X, Find(t \o X, open)) = Before(t, Find(t, open))
                /\ Behind(t \o X, open, close) = Behind(t, open, close) \o X
            BY <6>2, BlockExtend
          <6>. QED BY <6>1, <6>3
        <5>. QED BY <3>1, <4>1, <5>1
      <4>5. WithoutTags[c] = a \o w
        <5>1. c \in Strings
          BY <4>2
        <5>2. WithoutTags[c] = Before(c, Find(c, {TagStart}))
                                   \o WithoutTags[Behind(c, {TagStart}, {TagEnd})]
          BY <4>4, <5>1, WithoutTagsIs
        <5>. QED BY <4>1, <4>4, <5>2
      <4>6. TagsFrom(c, FALSE) = a \o w
        BY <4>5 DEF TagsFrom
      <4>7. w = o \o v \/ Find(w, {TagStart}) # 0
        <5>1. r.inside => Closed(q) \/ X = << >>
          BY <3>6, <3>7, <3>8
        <5>2. \/ TagsFrom(q \o X, FALSE) = r.out \o TagsFrom(r.held \o X, r.inside)
              \/ Find(TagsFrom(q \o X, FALSE), {TagStart}) # 0
          BY <3>3, <5>1 DEF TagKeeps
        <5>3. TagsFrom(q \o X, FALSE) = w
          BY <4>1 DEF TagsFrom
        <5>. QED BY <4>1, <5>2, <5>3
      <4>8. CASE w = o \o v
        <5>1. a \in Strings /\ o \in Strings /\ v \in Strings
          BY <3>2, <4>2
        <5>2. a \o (o \o v) = (a \o o) \o v
          BY <5>1, Assoc, ZenonT(40)
        <5>3. TagsFrom(c, FALSE) = (a \o o) \o v
          BY <4>6, <4>8, <5>2
        <5>. QED BY <3>6, <4>1, <5>3
      <4>9. CASE Find(w, {TagStart}) # 0
        <5>1. Find(a \o w, {TagStart}) # 0
          BY <3>2, <4>3, <4>9, TagsOfGateway, FoundBehind
        <5>. QED BY <4>1, <4>6, <5>1
      <4>. QED BY <4>7, <4>8, <4>9
    <3>9. TagKeeps(t, FALSE, z)
      BY <3>3, <3>6, <3>8 DEF TagKeeps
    <3>. QED BY <3>5, <3>9
  <2>. QED BY <2>1, <2>2, <2>3
<1> DEFINE S == {t \in Strings : TagKeeps(t, FALSE, Tag[t])}
<1>2. Strings \subseteq S
  <2>1. ASSUME NEW t \in Strings, \A u \in Strings : Len(u) < Len(t) => u \in S
        PROVE  t \in S
    BY <1>1, <2>1
  <2> HIDE DEF S
  <2>. QED BY <2>1, Induction
<1>. QED BY <1>2

\* A push of any text to the gateway filter loses and repeats nothing.
LEMMA TagPushed ==
    ASSUME NEW s \in Strings, NEW inside \in BOOLEAN
    PROVE  TagFrom(s, inside) \in Pieces /\ TagKeeps(s, inside, TagFrom(s, inside))
<1>1. CASE ~inside
  BY <1>1, TagTyped, TagOutside DEF TagFrom
<1>2. CASE inside /\ Find(s, {TagEnd}) = 0
  <2>1. PICK r : r = [held |-> << >>, inside |-> TRUE, out |-> << >>]
    OBVIOUS
  <2>2. << >> \in Strings
    BY EmptySeq DEF Strings
  <2>3. TagFrom(s, inside) = r /\ r \in Pieces
    BY <1>2, <2>1, <2>2 DEF TagFrom, Pieces
  <2>4. ASSUME NEW X \in Strings
        PROVE  << >> \o X = X /\ << >> \o TagsFrom(X, TRUE) = TagsFrom(X, TRUE)
    <3>1. TagsFrom(X, TRUE) \in Strings
      BY TagsFromTyped
    <3>. QED BY <3>1, ConcatEmptySeq DEF Strings
  <2>5. r.held = << >> /\ r.inside = TRUE /\ r.out = << >> /\ inside = TRUE
    BY <1>2, <2>1
  <2>6. ASSUME NEW X \in Strings, Closed(s) \/ X = << >>
        PROVE  TagsFrom(s \o X, TRUE) = TagsFrom(X, TRUE)
    <3>1. CASE X = << >>
      <4>1. s \o << >> = s
        BY ConcatEmptySeq DEF Strings
      <4>2. Find(<< >>, {TagEnd}) = 0
        BY <2>2, FindNone, EmptySeq
      <4>. QED BY <1>2, <3>1, <4>1, <4>2 DEF TagsFrom
    <3>2. CASE Closed(s)
      <4>1. Clear(s, X, {TagEnd})
        BY <1>2, <3>2, NoEnd
      <4>2. /\ Find(X, {TagEnd}) = 0 => Find(s \o X, {TagEnd}) = 0
            /\ Find(X, {TagEnd}) # 0 =>
                  /\ Find(s \o X, {TagEnd}) # 0
                  /\ After(s \o X, {TagEnd}, Find(s \o X, {TagEnd}))
                       = After(X, {TagEnd}, Find(X, {TagEnd}))
        BY <4>1, TagsOfGateway, Skip
      <4>. QED BY <4>2 DEF TagsFrom
    <3>. QED BY <2>6, <3>1, <3>2
  <2>7. TagKeeps(s, inside, r)
    <3>1. ASSUME NEW X \in Strings, r.inside => Closed(s) \/ X = << >>
          PROVE  TagsFrom(s \o X, inside) = r.out \o TagsFrom(r.held \o X, r.inside)
      <4>1. TagsFrom(s \o X, TRUE) = TagsFrom(X, TRUE)
        BY <2>5, <2>6, <3>1
      <4>2. r.out \o TagsFrom(r.held \o X, r.inside) = TagsFrom(X, TRUE)
        BY <2>4, <2>5
      <4>. QED BY <2>5, <4>1, <4>2
    <3>. QED BY <2>5, <3>1 DEF TagKeeps
  <2>. QED BY <2>3, <2>7
<1>3. CASE inside /\ Find(s, {TagEnd}) # 0
  <2>1. PICK q, r : q = After(s, {TagEnd}, Find(s, {TagEnd})) /\ r = Tag[q]
    OBVIOUS
  <2>2. q \in Strings
    BY <1>3, <2>1, TagsOfGateway, AfterTyped
  <2>3. TagFrom(s, inside) = r /\ r \in Pieces /\ TagKeeps(q, FALSE, r)
    BY <1>3, <2>1, <2>2, TagTyped, TagOutside DEF TagFrom
  <2>4. ASSUME NEW X \in Strings
        PROVE  TagsFrom(s \o X, TRUE) = TagsFrom(q \o X, FALSE)
    <3>1. /\ Find(s \o X, {TagEnd}) = Find(s, {TagEnd})
          /\ After(s \o X, {TagEnd}, Find(s, {TagEnd})) = q \o X
      BY <1>3, <2>1, TagsOfGateway, Extend
    <3>. QED BY <1>3, <3>1 DEF TagsFrom
  <2>5. inside = TRUE
    BY <1>3
  <2>6. Closed(s) => Closed(q)
    BY <1>3, <2>1, TagsOfGateway, EndClosed
  <2>7. TagKeeps(s, inside, r)
    BY <2>3, <2>4, <2>5, <2>6 DEF TagKeeps
  <2>. QED BY <2>3, <2>7
<1>. QED BY <1>1, <1>2, <1>3

-----------------------------------------------------------------------------
(* The invariant. *)

\* What was not pushed yet.
ToCome == SubSeq(answer, read + 1, Len(answer))

\* The types of the filters.
StreamTypes ==
    /\ answer \in Strings /\ read \in 0 .. Len(answer) /\ ended \in BOOLEAN
    /\ pending \in Strings /\ inThink \in BOOLEAN
    /\ tagPending \in Strings /\ inTag \in BOOLEAN
    /\ shown \in Strings /\ cutClose \in BOOLEAN

\* While the answer comes, no filter holds a whole tag that it should have seen.
HoldNoTag ==
    ~ended =>
        /\ inThink => Find(pending, ThinkClose) = 0
        /\ ~inThink => Find(pending, ThinkOpen) = 0
        /\ inTag => tagPending = << >>
        /\ ~inTag => Find(tagPending, {TagStart}) = 0

\* What the chat has seen, what the filters hold and what is to come make the reply.
StreamKeeps ==
    ~ended =>
        /\ Unclosed[answer] <=> UnclosedFrom(pending \o ToCome, inThink)
        /\ WellFormed /\ ~cutClose =>
              Stored = shown
                  \o TagsFrom(tagPending \o VisibleFrom(pending \o ToCome, inThink), inTag)

\* At the end the chat has seen the reply.
AllShown == ended /\ WellFormed /\ ~cutClose => shown = Stored

StreamInv == StreamTypes /\ HoldNoTag /\ StreamKeeps /\ AllShown

\* The invariant holds at the beginning.
LEMMA StreamStart == StreamInit => StreamInv
<1> SUFFICES ASSUME StreamInit PROVE StreamInv
  OBVIOUS
<1>1. /\ answer \in Strings /\ read = 0 /\ ended = FALSE
      /\ pending = << >> /\ inThink = FALSE /\ tagPending = << >> /\ inTag = FALSE
      /\ shown = << >> /\ cutClose = FALSE
  BY AnswersAssumption DEF StreamInit
<1>2. << >> \in Strings /\ Len(answer) \in Nat /\ Len(<< >>) = 0
  BY <1>1, EmptySeq, LenProperties DEF Strings
<1>3. StreamTypes
  <2>1. 0 \in 0 .. Len(answer)
    BY <1>2
  <2>. QED BY <1>1, <1>2, <2>1 DEF StreamTypes
<1>4. HoldNoTag
  <2>1. Find(<< >>, ThinkOpen) = 0 /\ Find(<< >>, {TagStart}) = 0
    BY <1>2, FindNone
  <2>. QED BY <1>1, <2>1 DEF HoldNoTag
<1>5. StreamKeeps
  <2>1. ToCome = answer
    <3>1. SubSeq(answer, 1, Len(answer)) = answer
      BY <1>1, SubSeqFull DEF Strings
    <3>2. read + 1 = 1
      BY <1>1
    <3>. QED BY <3>1, <3>2 DEF ToCome
  <2>2. ASSUME NEW s \in Strings PROVE << >> \o s = s
    BY ConcatEmptySeq DEF Strings
  <2>3. Visible[answer] \in Strings /\ Stored \in Strings
    BY <1>1, VisibleTyped, WithoutTagsTyped DEF Stored
  <2>4. pending \o ToCome = answer
    BY <1>1, <2>1, <2>2
  <2>5. /\ VisibleFrom(answer, FALSE) = Visible[answer]
        /\ UnclosedFrom(answer, FALSE) <=> Unclosed[answer]
    BY DEF VisibleFrom, UnclosedFrom
  <2>6. TagsFrom(Visible[answer], FALSE) = Stored
    BY DEF TagsFrom, Stored
  <2>7. /\ tagPending \o VisibleFrom(pending \o ToCome, inThink) = Visible[answer]
        /\ UnclosedFrom(pending \o ToCome, inThink) <=> Unclosed[answer]
    BY <1>1, <2>2, <2>3, <2>4, <2>5
  <2>8. shown \o TagsFrom(tagPending \o VisibleFrom(pending \o ToCome, inThink), inTag) = Stored
    BY <1>1, <2>2, <2>3, <2>6, <2>7
  <2>. QED BY <2>7, <2>8 DEF StreamKeeps
<1>6. AllShown
  BY <1>1 DEF AllShown
<1>. QED BY <1>3, <1>4, <1>5, <1>6 DEF StreamInv

\* The next part and what is left after it.
LEMMA NextPart ==
    ASSUME NEW s \in Strings, NEW m \in 0 .. Len(s), NEW n \in Nat, m + n <= Len(s)
    PROVE  /\ SubSeq(s, m + 1, m + n) \in Strings
           /\ SubSeq(s, m + n + 1, Len(s)) \in Strings
           /\ SubSeq(s, m + 1, Len(s)) = SubSeq(s, m + 1, m + n) \o SubSeq(s, m + n + 1, Len(s))
<1>1. Len(s) \in Nat
  BY LenProperties DEF Strings
<1>2. /\ m + 1 \in 1 .. Len(s) + 1 /\ m + n \in (m + 1) - 1 .. Len(s) /\ Len(s) \in m + n .. Len(s)
      /\ m + n + 1 \in 1 .. Len(s) + 1 /\ Len(s) \in (m + n + 1) - 1 .. Len(s)
  BY <1>1
<1>3. SubSeq(s, m + 1, m + n) \in Strings /\ SubSeq(s, m + n + 1, Len(s)) \in Strings
  BY <1>2, Part
<1>4. SubSeq(s, m + 1, m + n) \o SubSeq(s, m + n + 1, Len(s)) = SubSeq(s, m + 1, Len(s))
  BY <1>2, ConcatAdjacentSubSeq DEF Strings
<1>. QED BY <1>3, <1>4

\* A push keeps it.
LEMMA StreamPush ==
    ASSUME StreamInv, NEW n \in 1 .. Len(answer), Push(n)
    PROVE  StreamInv'
<1>1. /\ answer \in Strings /\ read \in 0 .. Len(answer) /\ ended \in BOOLEAN
      /\ pending \in Strings /\ inThink \in BOOLEAN
      /\ tagPending \in Strings /\ inTag \in BOOLEAN
      /\ shown \in Strings /\ cutClose \in BOOLEAN
  BY DEF StreamInv, StreamTypes
<1>2. PICK part, c, r, d, q :
         /\ part = SubSeq(answer, read + 1, read + n)
         /\ c = pending \o part /\ r = ThinkFrom(c, inThink)
         /\ d = tagPending \o r.out /\ q = TagFrom(d, inTag)
  OBVIOUS
<1>3. /\ ended = FALSE /\ ended' = FALSE /\ read + n <= Len(answer) /\ read' = read + n
      /\ answer' = answer
      /\ pending' = r.held /\ inThink' = r.inside
      /\ tagPending' = q.held /\ inTag' = q.inside
      /\ shown' = shown \o q.out
      /\ cutClose' = (cutClose \/ (q.inside /\ d # << >> /\ Last(d) = "]"))
  BY <1>1, <1>2 DEF Push, PushTag
<1>4. PICK X : X = SubSeq(answer, read + n + 1, Len(answer))
  OBVIOUS
<1>5. part \in Strings /\ X \in Strings /\ ToCome = part \o X /\ ToCome' = X
  <2>1. n \in Nat
    OBVIOUS
  <2>2. /\ SubSeq(answer, read + 1, read + n) \in Strings
        /\ SubSeq(answer, read + n + 1, Len(answer)) \in Strings
        /\ SubSeq(answer, read + 1, Len(answer))
             = SubSeq(answer, read + 1, read + n) \o SubSeq(answer, read + n + 1, Len(answer))
    BY <1>1, <1>3, <2>1, NextPart
  <2>3. ToCome' = SubSeq(answer, read + n + 1, Len(answer))
    BY <1>3 DEF ToCome
  <2>. QED BY <1>2, <1>4, <2>2, <2>3 DEF ToCome
<1>6. c \in Strings /\ r \in Pieces /\ ThinkKeeps(c, inThink, r)
  <2>1. c \in Strings
    BY <1>1, <1>2, <1>5, Joined
  <2>. QED BY <1>1, <1>2, <2>1, ThinkPushed
<1>7. /\ r.held \in Strings /\ r.inside \in BOOLEAN /\ r.out \in Strings
  BY <1>6 DEF Pieces
<1>8. d \in Strings /\ q \in Pieces /\ TagKeeps(d, inTag, q)
  <2>1. d \in Strings
    BY <1>1, <1>2, <1>7, Joined
  <2>. QED BY <1>1, <1>2, <2>1, TagPushed
<1>9. /\ q.held \in Strings /\ q.inside \in BOOLEAN /\ q.out \in Strings
  BY <1>8 DEF Pieces
<1>10. StreamTypes'
  <2>1. read + n \in 0 .. Len(answer)
    <3>1. Len(answer) \in Nat
      BY <1>1, LenProperties DEF Strings
    <3>. QED BY <1>1, <1>3, <3>1
  <2>2. shown \o q.out \in Strings
    BY <1>1, <1>9, Joined
  <2>3. (cutClose \/ (q.inside /\ d # << >> /\ Last(d) = "]")) \in BOOLEAN
    OBVIOUS
  <2>. QED BY <1>1, <1>3, <1>7, <1>9, <2>1, <2>2, <2>3 DEF StreamTypes
<1>11. HoldNoTag'
  BY <1>3, <1>6, <1>8 DEF HoldNoTag, ThinkKeeps, TagKeeps
<1>12. StreamKeeps'
  <2>1. pending \o ToCome = c \o X
    <3>1. (pending \o part) \o X = pending \o (part \o X)
      BY <1>1, <1>5, Assoc, ZenonT(40)
    <3>. QED BY <1>2, <1>5, <3>1
  <2>2. PICK Y, w : Y = VisibleFrom(r.held \o X, r.inside) /\ w = TagsFrom(q.held \o Y, q.inside)
    OBVIOUS
  <2>3. Y \in Strings /\ w \in Strings
    <3>1. Y \in Strings
      BY <1>5, <1>7, <2>2, Joined, VisibleFromTyped
    <3>. QED BY <1>9, <2>2, <3>1, Joined, TagsFromTyped
  <2>4. /\ VisibleFrom(c \o X, inThink) = r.out \o Y
        /\ UnclosedFrom(c \o X, inThink) <=> UnclosedFrom(r.held \o X, r.inside)
    BY <1>5, <1>6, <2>2 DEF ThinkKeeps
  <2>5. Unclosed[answer] <=> UnclosedFrom(r.held \o X, r.inside)
    BY <1>3, <2>1, <2>4 DEF StreamInv, StreamKeeps
  <2>6. ASSUME WellFormed, ~cutClose'
        PROVE  Stored = (shown \o q.out) \o w
    <3>1. ~cutClose /\ (q.inside => Closed(d))
      BY <1>3, <2>6 DEF Closed, Last
    <3>2. PICK u : u = TagsFrom(d \o Y, inTag)
      OBVIOUS
    <3>3. u \in Strings
      BY <1>1, <1>8, <2>3, <3>2, Joined, TagsFromTyped
    <3>4. tagPending \o (r.out \o Y) = d \o Y
      <4>1. (tagPending \o r.out) \o Y = tagPending \o (r.out \o Y)
        BY <1>1, <1>7, <2>3, Assoc, ZenonT(40)
      <4>. QED BY <1>2, <4>1
    <3>5. Stored = shown \o u
      BY <1>3, <2>1, <2>4, <2>6, <3>1, <3>2, <3>4 DEF StreamInv, StreamKeeps
    <3>6. Find(u, {TagStart}) = 0
      <4>1. Find(shown \o u, {TagStart}) = 0
        BY <2>6, <3>5 DEF WellFormed
      <4>. QED BY <1>1, <3>3, <4>1, TagsOfGateway, FoundBehind
    <3>7. u = q.out \o w
      <4>1. \/ TagsFrom(d \o Y, inTag) = q.out \o TagsFrom(q.held \o Y, q.inside)
            \/ Find(TagsFrom(d \o Y, inTag), {TagStart}) # 0
        BY <1>8, <2>3, <3>1 DEF TagKeeps
      <4>. QED BY <2>2, <3>2, <3>6, <4>1
    <3>8. (shown \o q.out) \o w = shown \o (q.out \o w)
      BY <1>1, <1>9, <2>3, Assoc, ZenonT(40)
    <3>. QED BY <3>5, <3>7, <3>8
  <2>7. (Stored' = Stored) /\ (WellFormed' <=> WellFormed) /\ Unclosed[answer'] = Unclosed[answer]
    BY <1>3 DEF Stored, WellFormed
  <2>8. /\ UnclosedFrom(pending \o ToCome, inThink)' <=> UnclosedFrom(r.held \o X, r.inside)
        /\ TagsFrom(tagPending \o VisibleFrom(pending \o ToCome, inThink), inTag)' = w
    BY <1>3, <1>5, <2>2
  <2>9. Unclosed[answer'] <=> UnclosedFrom(pending \o ToCome, inThink)'
    BY <2>5, <2>7, <2>8
  <2>10. WellFormed' /\ ~cutClose' =>
            Stored' = shown'
                \o TagsFrom(tagPending \o VisibleFrom(pending \o ToCome, inThink), inTag)'
    BY <1>3, <2>6, <2>7, <2>8
  <2>. QED BY <2>9, <2>10 DEF StreamKeeps
<1>13. AllShown'
  BY <1>3 DEF AllShown
<1>. QED BY <1>10, <1>11, <1>12, <1>13 DEF StreamInv

\* What the gateway filter gives out and returns at the end says what it was fed with.
LEMMA TagFinished ==
    ASSUME NEW s \in Strings, NEW inside \in BOOLEAN, NEW r \in Pieces,
           TagKeeps(s, inside, r), Find(TagsFrom(s, inside), {TagStart}) = 0
    PROVE  ~r.inside /\ TagsFrom(s, inside) = r.out \o r.held
<1>1. r.held \in Strings /\ r.inside \in BOOLEAN /\ r.out \in Strings
  BY DEF Pieces
<1>2. << >> \in Strings /\ s \o << >> = s /\ r.held \o << >> = r.held
  BY <1>1, ConcatEmptySeq, EmptySeq DEF Strings
<1>3. TagsFrom(s, inside) = r.out \o TagsFrom(r.held, r.inside)
  <2>1. \/ TagsFrom(s \o << >>, inside) = r.out \o TagsFrom(r.held \o << >>, r.inside)
        \/ Find(TagsFrom(s \o << >>, inside), {TagStart}) # 0
    BY <1>2 DEF TagKeeps
  <2>. QED BY <1>2, <2>1
<1>4. ~r.inside
  <2>1. SUFFICES ASSUME r.inside PROVE FALSE
    OBVIOUS
  <2>2. TagsFrom(r.held, r.inside) = TagStart
    <3>1. r.held = << >>
      BY <2>1 DEF TagKeeps
    <3>2. Find(<< >>, {TagEnd}) = 0
      <4>1. Len(<< >>) = 0
        OBVIOUS
      <4>. QED BY <1>2, <4>1, FindNone
    <3>. QED BY <2>1, <3>1, <3>2 DEF TagsFrom
  <2>3. TagStart \in Strings
    BY TagsOfGateway DEF Tags
  <2>4. Find(r.out \o TagStart, {TagStart}) # 0
    BY <1>1, <2>3, TagsOfGateway, StartFound, FoundBehind
  <2>. QED BY <1>3, <2>2, <2>4
<1>5. TagsFrom(r.held, r.inside) = r.held
  <2>1. ~HasBlock(r.held, {TagStart}, {TagEnd})
    BY <1>4 DEF TagKeeps, HasBlock
  <2>2. WithoutTags[r.held] = r.held
    BY <1>1, <2>1, WithoutTagsIs
  <2>. QED BY <1>4, <2>2 DEF TagsFrom
<1>. QED BY <1>3, <1>4, <1>5

\* The end of the turn keeps it.
LEMMA StreamFinish == ASSUME StreamInv, Finish PROVE StreamInv'
<1>1. /\ answer \in Strings /\ read \in 0 .. Len(answer) /\ ended \in BOOLEAN
      /\ pending \in Strings /\ inThink \in BOOLEAN
      /\ tagPending \in Strings /\ inTag \in BOOLEAN
      /\ shown \in Strings /\ cutClose \in BOOLEAN
  BY DEF StreamInv, StreamTypes
<1>2. PICK d, q :
         /\ d = tagPending \o pending
         /\ q = IF pending = << >> THEN [held |-> tagPending, inside |-> inTag, out |-> << >>]
                                   ELSE TagFrom(d, inTag)
  OBVIOUS
<1>3. /\ ended = FALSE /\ ended' = TRUE /\ read = Len(answer)
      /\ answer' = answer /\ read' = read /\ cutClose' = cutClose
      /\ pending' = << >> /\ inThink' = FALSE /\ tagPending' = << >> /\ inTag' = FALSE
      /\ shown' = shown \o q.out \o (IF q.inside THEN << >> ELSE q.held)
  BY <1>1, <1>2 DEF Finish
<1>4. << >> \in Strings /\ d \in Strings
  BY <1>1, <1>2, Joined, EmptySeq DEF Strings
<1>5. ASSUME NEW s \in Strings PROVE s \o << >> = s /\ << >> \o s = s
  BY ConcatEmptySeq DEF Strings
<1>6. q \in Pieces /\ TagKeeps(d, inTag, q)
  <2>1. CASE pending = << >>
    <3>1. d = tagPending
      BY <1>1, <1>2, <1>5, <2>1
    <3>2. q = [held |-> tagPending, inside |-> inTag, out |-> << >>]
      BY <1>2, <2>1
    <3>3. q \in Pieces /\ q.held = tagPending /\ q.inside = inTag /\ q.out = << >>
      BY <1>1, <1>4, <3>2 DEF Pieces
    <3>4. ASSUME NEW X \in Strings
          PROVE  TagsFrom(d \o X, inTag) = q.out \o TagsFrom(q.held \o X, q.inside)
      <4>1. TagsFrom(d \o X, inTag) \in Strings
        BY <1>1, <1>4, Joined, TagsFromTyped
      <4>2. << >> \o TagsFrom(d \o X, inTag) = TagsFrom(d \o X, inTag)
        BY <1>5, <4>1
      <4>. QED BY <3>1, <3>3, <4>2
    <3>5. (inTag => tagPending = << >>) /\ (~inTag => Find(tagPending, {TagStart}) = 0)
      BY <1>3 DEF StreamInv, HoldNoTag
    <3>. QED BY <3>3, <3>4, <3>5 DEF TagKeeps
  <2>2. CASE pending # << >>
    <3>1. q = TagFrom(d, inTag)
      BY <1>2, <2>2
    <3>. QED BY <1>1, <1>4, <3>1, TagPushed
  <2>. QED BY <2>1, <2>2
<1>7. q.held \in Strings /\ q.inside \in BOOLEAN /\ q.out \in Strings
  BY <1>6 DEF Pieces
<1>8. StreamTypes'
  <2>1. PICK e : e = IF q.inside THEN << >> ELSE q.held
    OBVIOUS
  <2>2. e \in Strings
    BY <1>4, <1>7, <2>1
  <2>3. (shown \o q.out) \o e \in Strings
    BY <1>1, <1>7, <2>2, Joined
  <2>4. shown' \in Strings
    BY <1>3, <2>1, <2>3
  <2>. QED BY <1>1, <1>3, <1>4, <2>4 DEF StreamTypes
<1>9. HoldNoTag' /\ StreamKeeps'
  BY <1>3 DEF HoldNoTag, StreamKeeps
<1>10. AllShown'
  <2>1. SUFFICES ASSUME WellFormed, ~cutClose PROVE shown' = Stored
    BY <1>3 DEF AllShown, WellFormed, Stored
  <2>2. pending \o ToCome = pending
    <3>1. ToCome = << >>
      <4>1. Len(answer) \in Nat
        BY <1>1, LenProperties DEF Strings
      <4>2. SubSeq(answer, Len(answer) + 1, Len(answer)) = << >>
        BY <1>1, <4>1, SubSeqEmpty DEF Strings
      <4>. QED BY <1>3, <4>2 DEF ToCome
    <3>. QED BY <1>1, <1>5, <3>1
  <2>3. ~inThink
    <3>1. ~UnclosedFrom(pending, inThink)
      BY <1>3, <2>1, <2>2 DEF StreamInv, StreamKeeps, WellFormed
    <3>2. inThink => Find(pending, ThinkClose) = 0
      BY <1>3 DEF StreamInv, HoldNoTag
    <3>. QED BY <3>1, <3>2 DEF UnclosedFrom
  <2>4. VisibleFrom(pending, inThink) = pending
    <3>1. Find(pending, ThinkOpen) = 0
      BY <1>3, <2>3 DEF StreamInv, HoldNoTag
    <3>2. Visible[pending] = pending
      BY <1>1, <3>1, VisibleIs
    <3>. QED BY <2>3, <3>2 DEF VisibleFrom
  <2>5. PICK u : u = TagsFrom(d, inTag)
    OBVIOUS
  <2>6. Stored = shown \o u
    BY <1>2, <1>3, <2>1, <2>2, <2>4, <2>5 DEF StreamInv, StreamKeeps
  <2>7. u \in Strings
    BY <1>1, <1>4, <2>5, TagsFromTyped
  <2>8. Find(u, {TagStart}) = 0
    <3>1. Find(shown \o u, {TagStart}) = 0
      BY <2>1, <2>6 DEF WellFormed
    <3>. QED BY <1>1, <2>7, <3>1, TagsOfGateway, FoundBehind
  <2>9. ~q.inside /\ u = q.out \o q.held
    <3>1. d \in Strings /\ inTag \in BOOLEAN /\ q \in Pieces /\ TagKeeps(d, inTag, q)
      BY <1>1, <1>4, <1>6
    <3>2. Find(TagsFrom(d, inTag), {TagStart}) = 0
      BY <2>5, <2>8
    <3>3. ~q.inside /\ TagsFrom(d, inTag) = q.out \o q.held
      BY <3>1, <3>2, TagFinished
    <3>. QED BY <2>5, <3>3
  <2>10. (shown \o q.out) \o q.held = shown \o (q.out \o q.held)
    BY <1>1, <1>7, Assoc, ZenonT(40)
  <2>. QED BY <1>3, <2>6, <2>9, <2>10
<1>. QED BY <1>8, <1>9, <1>10 DEF StreamInv

\* Every step keeps it.
LEMMA StreamStep == ASSUME StreamInv, [StreamNext]_streamVars PROVE StreamInv'
<1>1. CASE StreamNext
  <2>1. ASSUME NEW n \in 1 .. Len(answer), Push(n) PROVE StreamInv'
    BY <2>1, StreamPush
  <2>2. ASSUME Finish PROVE StreamInv'
    BY <2>2, StreamFinish
  <2>. QED BY <1>1, <2>1, <2>2 DEF StreamNext
<1>2. CASE UNCHANGED streamVars
  <2>1. StreamTypes' /\ HoldNoTag'
    BY <1>2 DEF StreamInv, StreamTypes, HoldNoTag, streamVars
  <2>2. ToCome' = ToCome /\ Stored' = Stored /\ (WellFormed' <=> WellFormed)
    BY <1>2 DEF ToCome, Stored, WellFormed, streamVars
  <2>3. StreamKeeps' /\ AllShown'
    BY <1>2, <2>2 DEF StreamInv, StreamKeeps, AllShown, streamVars
  <2>. QED BY <2>1, <2>3 DEF StreamInv
<1>. QED BY <1>1, <1>2

\* A text begins with its beginning, and with itself.
LEMMA Begins ==
    ASSUME NEW a \in Strings, NEW b \in Strings
    PROVE  IsPrefix(a, a \o b) /\ IsPrefix(a, a)
<1>1. /\ a \o b \in Strings /\ Len(a) \in Nat /\ Len(b) \in Nat
      /\ Len(a \o b) = Len(a) + Len(b)
  BY Joined
<1>2. SubSeq(a \o b, 1, Len(a)) = a /\ SubSeq(a, 1, Len(a)) = a
  <2>1. SubSeq(a, 1, Len(a)) = a
    BY SubSeqFull DEF Strings
  <2>2. CASE Len(a) = 0
    <3>1. a = << >>
      BY <2>2, EmptySeq DEF Strings
    <3>2. SubSeq(a \o b, 1, 0) = << >>
      BY SubSeqEmpty
    <3>. QED BY <2>1, <2>2, <3>1, <3>2
  <2>3. CASE Len(a) # 0
    <3>1. 1 \in 1 .. Len(a) /\ Len(a) \in 1 .. Len(a)
      BY <1>1, <2>3
    <3>2. SubSeq(a \o b, 1, Len(a)) = SubSeq(a, 1, Len(a))
      BY <3>1, SubSeqOfConcat1 DEF Strings
    <3>. QED BY <2>1, <3>2
  <2>. QED BY <2>2, <2>3
<1>3. Len(a) <= Len(a \o b) /\ Len(a) <= Len(a)
  BY <1>1
<1>. QED BY <1>2, <1>3 DEF IsPrefix

\* The invariant is strong enough.
LEMMA StreamShows == ASSUME StreamInv PROVE ShownAsStored
<1>1. SUFFICES ASSUME WellFormed, ~cutClose
               PROVE  IsPrefix(shown, Stored) /\ (ended => shown = Stored)
  BY DEF ShownAsStored
<1>2. /\ answer \in Strings /\ read \in 0 .. Len(answer) /\ ended \in BOOLEAN
      /\ pending \in Strings /\ inThink \in BOOLEAN
      /\ tagPending \in Strings /\ inTag \in BOOLEAN
      /\ shown \in Strings
  BY DEF StreamInv, StreamTypes
<1>3. CASE ended
  <2>1. shown = Stored
    BY <1>1, <1>3 DEF StreamInv, AllShown
  <2>2. IsPrefix(shown, shown)
    BY <1>2, Begins
  <2>. QED BY <2>1, <2>2
<1>4. CASE ~ended
  <2>1. PICK X : X = pending \o ToCome
    OBVIOUS
  <2>2. X \in Strings
    <3>1. Len(answer) \in Nat
      BY <1>2, LenProperties DEF Strings
    <3>2. read + 1 \in 1 .. Len(answer) + 1 /\ Len(answer) \in (read + 1) - 1 .. Len(answer)
      BY <1>2, <3>1
    <3>3. ToCome \in Strings
      BY <1>2, <3>2, Part DEF ToCome
    <3>. QED BY <1>2, <2>1, <3>3, Joined
  <2>3. PICK u : u = TagsFrom(tagPending \o VisibleFrom(X, inThink), inTag)
    OBVIOUS
  <2>4. u \in Strings
    BY <1>2, <2>2, <2>3, VisibleFromTyped, Joined, TagsFromTyped
  <2>5. Stored = shown \o u
    BY <1>1, <1>4, <2>1, <2>3 DEF StreamInv, StreamKeeps
  <2>6. IsPrefix(shown, shown \o u)
    BY <1>2, <2>4, Begins
  <2>. QED BY <1>4, <2>5, <2>6
<1>. QED BY <1>2, <1>3, <1>4

\* Wherever the stream cuts a well-formed answer of any length, but between the two
\* brackets that end a gateway tag, the chat sees the beginning of the stored reply, and
\* at the end all of it.
THEOREM StreamShowsStored == StreamSpec => []ShownAsStored
<1>1. StreamSpec => []StreamInv
  BY StreamStart, StreamStep, PTL DEF StreamSpec
<1>2. StreamInv => ShownAsStored
  BY StreamShows
<1>. QED BY <1>1, <1>2, PTL
=============================================================================
