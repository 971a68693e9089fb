------------------------------ MODULE Schedule ------------------------------
(***************************************************************************)
(* When a scheduled query is due: should_schedule_next, and the runs it    *)
(* causes (redash/models/__init__.py). An instant is a record of a day, a  *)
(* minute of the day and a second; day 0 is a Monday and days have         *)
(* MinutesPerDay minutes, so that TLC can look at all of them.             *)
(***************************************************************************)
EXTENDS Integers

CONSTANTS
  MinutesPerDay, SecondsPerMinute,
  NoTime,       \* schedule.time of a query that runs at an interval
  NoDay,        \* schedule.day_of_week of a query that runs every so many days
  Schedules,    \* the schedules considered
  Starts,       \* the instants considered for the first result
  Late,         \* a due query starts to run at most so many seconds later
  MaxFailures,  \* bound: consecutive failures
  MaxDay        \* bound: the clock stops at the end of this day

Minute == 0 .. MinutesPerDay - 1
Second == 0 .. SecondsPerMinute - 1
Instant == [day : Int, minute : Minute, second : Second]

\* interval is in days when there is a time, and in seconds otherwise.
Schedule == [interval : Nat \ {0}, time : Minute \cup {NoTime}, day : (0 .. 6) \cup {NoDay}]

ASSUME ClockAssumption ==
  /\ MinutesPerDay \in Nat \ {0} /\ SecondsPerMinute \in Nat \ {0}
  /\ NoTime \notin Int /\ NoDay \notin Int
ASSUME ScheduleAssumption == Schedules \subseteq Schedule /\ Starts \subseteq Instant
ASSUME BoundsAssumption == Late \in Nat /\ MaxFailures \in Nat /\ MaxDay \in Nat
\* Arithmetic that the provers of the theorems about this module lack.
ASSUME PowersAssumption == \A n \in 0 .. MaxFailures : 2 ^ n \in Nat

VARIABLES
  now,       \* utcnow()
  schedule,  \* the query's schedule
  last,      \* its last execution (redis, sq:executed_at) or result
  failures,  \* its schedule_failures
  late       \* for how many seconds it has been due

vars == <<now, schedule, last, failures, late>>

-----------------------------------------------------------------------------
(* Instants                                                                *)

Before(t, u) ==
  \/ t.day < u.day
  \/ t.day = u.day /\ t.minute < u.minute
  \/ t.day = u.day /\ t.minute = u.minute /\ t.second < u.second

NotAfter(t, u) == t = u \/ Before(t, u)

Plus(t, seconds) ==
  LET s == t.second + seconds
      m == t.minute + s \div SecondsPerMinute
  IN  [day |-> t.day + m \div MinutesPerDay,
       minute |-> m % MinutesPerDay, second |-> s % SecondsPerMinute]

Weekday(t) == t.day % 7

-----------------------------------------------------------------------------
(* should_schedule_next                                                    *)

\* Mutant: "using naive implementation of comparing timestamps".
PreviousSlotNaive(previous, time) == [previous EXCEPT !.minute = time]

\* Mutant: at the slot itself, today's slot is still to be served.
PreviousSlotEager(previous, time) ==
  LET normalized == [previous EXCEPT !.minute = time]
  IN  IF NotAfter(previous, normalized)
      THEN [normalized EXCEPT !.day = @ - 1] ELSE previous

\* The slot the previous iteration is taken to have served, with its seconds:
\* yesterday's if it ran before today's.
PreviousSlot(previous, time) ==
  LET normalized == [previous EXCEPT !.minute = time]
  IN  IF Before(previous, normalized)
      THEN [normalized EXCEPT !.day = @ - 1] ELSE previous

\* The days to the named day, from the day of the previous iteration.
DaysToAdd(previous, day) == IF day = NoDay THEN 0 ELSE day - Weekday(previous)

NextIteration(previous, s) ==
  IF s.time = NoTime THEN Plus(previous, s.interval)
  ELSE [PreviousSlot(previous, s.time) EXCEPT
          !.day = @ + s.interval + DaysToAdd(previous, s.day), !.minute = s.time]

\* Mutant: the test for failures is lost.
WithBackoffAlways(t, n) == Plus(t, 2 ^ n * SecondsPerMinute)

WithBackoff(t, n) == IF n = 0 THEN t ELSE Plus(t, 2 ^ n * SecondsPerMinute)

ShouldScheduleNext(previous, at, s, n) ==
  Before(WithBackoff(NextIteration(previous, s), n), at)

Due == ShouldScheduleNext(last, now, schedule, failures)

-----------------------------------------------------------------------------
(* The runs                                                                *)

\* The first result, which a user causes.
Init ==
  /\ schedule \in Schedules
  /\ now \in Starts
  /\ last = now
  /\ failures = 0
  /\ late = 0

\* A second passes. The beat, the broker and the workers let at most Late
\* seconds pass between the moment a query is due and its execution.
Tick ==
  /\ Due => late < Late
  /\ now' = Plus(now, 1)
  /\ now'.day <= MaxDay
  /\ late' = IF Due THEN late + 1 ELSE 0
  /\ UNCHANGED <<schedule, last, failures>>

\* outdated_queries finds the query, its job is enqueued and executed.
Run(succeeds) ==
  /\ Due
  /\ last' = now
  /\ failures' = IF succeeds THEN 0 ELSE failures + 1
  /\ failures' <= MaxFailures
  /\ late' = 0
  /\ UNCHANGED <<now, schedule>>

Next == Tick \/ \E succeeds \in BOOLEAN : Run(succeeds)

Spec == Init /\ [][Next]_vars

-----------------------------------------------------------------------------
(* Properties                                                              *)

TypeOK ==
  /\ now \in Instant /\ last \in Instant /\ NotAfter(last, now)
  /\ schedule \in Schedules
  /\ failures \in 0 .. MaxFailures
  /\ late \in 0 .. Late

\* A slot is the minute that the schedule names, every day or on its weekday.
SlotStart(d) == [day |-> d, minute |-> schedule.time, second |-> 0]
IsSlotDay(d) == schedule.day = NoDay \/ d % 7 = schedule.day

Daily == schedule.time # NoTime /\ schedule.day = NoDay /\ schedule.interval = 1
Weekly == schedule.time # NoTime /\ schedule.day # NoDay /\ schedule.interval = 7

\* "The scheduler wakes up at 00:01": a query with a daily slot runs at most
\* once between two slots, however late it ran the last time and however often
\* it failed.
OncePerSlot ==
  [][Daily /\ last' # last =>
       \E d \in {now.day - 1, now.day} :
         Before(last, SlotStart(d)) /\ NotAfter(SlotStart(d), now)]_vars

\* "Using naive implementation of comparing timestamps, it will skip the
\* execution": a query that is not failing runs in every slot of its schedule,
\* or within Late seconds of it.
NoSlotSkipped ==
  (Daily \/ Weekly) /\ failures = 0 =>
    \A d \in 0 .. MaxDay :
      IsSlotDay(d) /\ Before(Plus(SlotStart(d), SecondsPerMinute + Late), now)
        => NotAfter(SlotStart(d), last)

\* A query that runs at an interval and is not failing is never further behind
\* than its interval and the delay of the workers.
IntervalKept ==
  schedule.time = NoTime /\ failures = 0
    => NotAfter(now, Plus(last, schedule.interval + Late + 1))

=============================================================================
