----------------------------- MODULE MCSchedule -----------------------------
(* Instances of Schedule for TLC: days of three minutes of two seconds.    *)
EXTENDS Schedule

AtTime(t) == [interval |-> 1, time |-> t, day |-> NoDay]
Every(n) == [interval |-> n, time |-> NoTime, day |-> NoDay]
OnDay(t, d) == [interval |-> 7, time |-> t, day |-> d]

\* The weekly schedule is one whose delay does not reach the next day.
SafeSchedules ==
  {AtTime(t) : t \in Minute} \cup {Every(n) : n \in {1, 5, 9}} \cup {OnDay(0, 0)}
Monday == [day : {0}, minute : Minute, second : Second]

\* "Scheduled to run at 23:59" of a Sunday, and first run when "the scheduler
\* wakes up at 00:01".
SundayNight == {OnDay(MinutesPerDay - 1, 6)}
MondayMorning == [day : {0}, minute : {0}, second : Second]

=============================================================================
