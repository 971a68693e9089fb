-------------------------- MODULE Schedule_proofs ---------------------------
(***************************************************************************)
(* Proofs about Schedule, for days and minutes of any length: its types,   *)
(* that a query runs once per slot and keeps its interval, and that a      *)
(* daily one misses no slot. Weekly ones do, see the README.               *)
(***************************************************************************)
EXTENDS Schedule, TLAPS

\* Integer division, by a number that is not a literal.
LEMMA Division ==
  ASSUME NEW a \in Nat, NEW b \in Nat \ {0}
  PROVE  /\ a \div b \in Nat
         /\ a % b \in 0 .. b - 1
         /\ a \div b = 0 => a % b = a
<1>1. a \div b \in Int /\ a % b \in 0 .. b - 1 /\ a = b * (a \div b) + (a % b)
  OBVIOUS
<1>2. a \div b >= 0
  BY <1>1
<1> QED  BY <1>1, <1>2

\* There is one quotient and one remainder.
LEMMA OneQuotient ==
  ASSUME NEW b \in Nat \ {0}, NEW q \in Int, NEW p \in Int,
         NEW r \in 0 .. b - 1, NEW s \in 0 .. b - 1, b * q + r = b * p + s
  PROVE  q = p /\ r = s
<1>1. ASSUME NEW j \in Int, NEW k \in Int, j < k
      PROVE  b * j + b <= b * k
  <2>1. b * (j + 1) = b * j + b
    OBVIOUS
  <2>2. k - (j + 1) \in Nat
    BY <1>1
  <2>3. b * (k - (j + 1)) \in Nat
    BY <2>2
  <2>4. b * k = b * (j + 1) + b * (k - (j + 1))
    OBVIOUS
  <2> QED  BY <2>1, <2>3, <2>4
<1>2. b * q \in Int /\ b * p \in Int
  OBVIOUS
<1>3. ~(q < p)
  BY <1>1, <1>2
<1>4. ~(p < q)
  BY <1>1, <1>2
<1> QED  BY <1>3, <1>4

\* A minute, or an hour, that is not full or just full.
LEMMA DivisionOnce ==
  ASSUME NEW b \in Nat \ {0}, NEW a \in 0 .. b
  PROVE  /\ a < b => a \div b = 0 /\ a % b = a
         /\ a = b => a \div b = 1 /\ a % b = 0
<1>1. a \div b \in Int /\ a % b \in 0 .. b - 1 /\ a = b * (a \div b) + (a % b)
  OBVIOUS
<1>2. CASE a < b
  <2>1. a = b * 0 + a
    OBVIOUS
  <2> QED  BY <1>1, <1>2, <2>1, OneQuotient
<1>3. CASE a = b
  <2>1. a = b * 1 + 0
    BY <1>3
  <2> QED  BY <1>1, <1>3, <2>1, OneQuotient
<1> QED  BY <1>2, <1>3

\* Carrying over in two steps is carrying over in one.
LEMMA DivisionInSteps ==
  ASSUME NEW a \in Nat, NEW c \in Nat, NEW b \in Nat \ {0}
  PROVE  /\ a \div b + ((a % b) + c) \div b = (a + c) \div b
         /\ ((a % b) + c) % b = (a + c) % b
<1> DEFINE d == (a % b) + c
<1>1. a \div b \in Int /\ a % b \in 0 .. b - 1 /\ a = b * (a \div b) + (a % b)
  OBVIOUS
<1>2. d \in Nat /\ a + c \in Nat
  BY <1>1
<1>3. d \div b \in Int /\ d % b \in 0 .. b - 1 /\ d = b * (d \div b) + (d % b)
  BY <1>2
<1>4. /\ (a + c) \div b \in Int /\ (a + c) % b \in 0 .. b - 1
      /\ a + c = b * ((a + c) \div b) + ((a + c) % b)
  BY <1>2
<1>5. b * (a \div b + d \div b) = b * (a \div b) + b * (d \div b)
  BY <1>1, <1>3
<1>6. b * (a \div b) \in Int /\ b * (d \div b) \in Int
  BY <1>1, <1>3
<1>7. a + c = b * (a \div b + d \div b) + (d % b)
  BY <1>1, <1>3, <1>5, <1>6
<1> QED  BY <1>1, <1>3, <1>4, <1>7, OneQuotient

\* Adding seconds to an instant carries into minutes and days, and never goes
\* back.
LEMMA PlusIsLater ==
  ASSUME NEW t \in Instant, NEW n \in Nat
  PROVE  Plus(t, n) \in Instant /\ NotAfter(t, Plus(t, n))
<1> DEFINE s == t.second + n
           q == s \div SecondsPerMinute
           m == t.minute + q
<1>1. /\ t.day \in Int /\ t.minute \in Minute /\ t.second \in Second
      /\ s \in Nat
  BY DEF Instant, Second, Minute
<1>2. /\ q \in Nat
      /\ s % SecondsPerMinute \in Second
      /\ q = 0 => s % SecondsPerMinute = s
  BY <1>1, Division, ClockAssumption DEF Second
<1>3. m \in Nat
  BY <1>1, <1>2 DEF Minute
<1>4. /\ m \div MinutesPerDay \in Nat
      /\ m % MinutesPerDay \in Minute
      /\ m \div MinutesPerDay = 0 => m % MinutesPerDay = m
  BY <1>3, Division, ClockAssumption DEF Minute
<1>5. Plus(t, n) = [day |-> t.day + m \div MinutesPerDay,
                    minute |-> m % MinutesPerDay, second |-> s % SecondsPerMinute]
  BY DEF Plus
<1> HIDE DEF s, q, m
<1>6. Plus(t, n) \in Instant
  BY <1>1, <1>2, <1>4, <1>5 DEF Instant
<1>7. NotAfter(t, Plus(t, n))
  <2>1. CASE m \div MinutesPerDay # 0
    BY <1>1, <1>4, <1>5, <2>1 DEF NotAfter, Before
  <2>2. CASE m \div MinutesPerDay = 0 /\ q # 0
    BY <1>1, <1>2, <1>4, <1>5, <2>2 DEF NotAfter, Before, m, Minute
  <2>3. CASE m \div MinutesPerDay = 0 /\ q = 0
    <3>1. /\ Plus(t, n).day = t.day /\ Plus(t, n).minute = t.minute
          /\ Plus(t, n).second = t.second + n
      BY <1>1, <1>2, <1>4, <1>5, <2>3 DEF m, s, Minute
    <3>2. CASE n = 0
      <4>1. t = [day |-> t.day, minute |-> t.minute, second |-> t.second]
        BY DEF Instant
      <4> QED  BY <1>1, <1>5, <3>1, <3>2, <4>1 DEF NotAfter, Second
    <3>3. CASE n # 0
      BY <1>1, <3>1, <3>3 DEF NotAfter, Before, Second
    <3> QED  BY <3>2, <3>3
  <2> QED  BY <1>2, <1>4, <2>1, <2>2, <2>3
<1> QED  BY <1>6, <1>7

\* Before orders the instants.
LEMMA BeforeIsTransitive ==
  ASSUME NEW t \in Instant, NEW u \in Instant, NEW v \in Instant
  PROVE  /\ NotAfter(t, u) /\ Before(u, v) => Before(t, v)
         /\ Before(t, u) /\ NotAfter(u, v) => Before(t, v)
         /\ NotAfter(t, u) /\ NotAfter(u, v) => NotAfter(t, v)
BY DEF Instant, Minute, Second, Before, NotAfter

\* Seconds that pass one after the other have passed together.
LEMMA PlusAdds ==
  ASSUME NEW t \in Instant, NEW n \in Nat, NEW k \in Nat
  PROVE  Plus(Plus(t, n), k) = Plus(t, n + k)
<1> DEFINE S == SecondsPerMinute
           M == MinutesPerDay
           s == t.second + n
           m == t.minute + s \div S
           s2 == (s % S) + k
           m2 == (m % M) + s2 \div S
<1>1. /\ t.day \in Int /\ t.minute \in Nat /\ t.second \in Nat
      /\ S \in Nat \ {0} /\ M \in Nat \ {0}
  BY ClockAssumption DEF Instant, Second, Minute
<1>2. s \in Nat /\ s + k \in Nat
  BY <1>1
<1>3. s \div S \in Nat /\ s % S \in 0 .. S - 1 /\ (s + k) \div S \in Nat
  <2> HIDE DEF s, S
  <2> QED  BY <1>1, <1>2, Division
<1>4. s \div S + s2 \div S = (s + k) \div S /\ s2 % S = (s + k) % S
  <2>1. s \in Nat /\ S \in Nat \ {0}
    BY <1>1, <1>2
  <2> HIDE DEF s, S
  <2> QED  BY <2>1, DivisionInSteps, Zenon
<1>5. s2 \in Nat /\ s2 \div S \in Nat
  <2>1. s2 \in Nat
    BY <1>1, <1>3
  <2> HIDE DEF s2, S
  <2> QED  BY <1>1, <2>1, Division
<1>6. m \in Nat
  <2> HIDE DEF s, S
  <2> QED  BY <1>1, <1>3
<1>7. /\ m \div M + m2 \div M = (m + s2 \div S) \div M /\ m2 % M = (m + s2 \div S) % M
      /\ m \div M \in Int /\ m2 \div M \in Int
  <2> HIDE DEF m, M, s2, S
  <2>1. m \div M \in Nat /\ m % M \in 0 .. M - 1
    BY <1>1, <1>6, Division
  <2>2. m2 \in Nat
    BY <1>1, <1>5, <2>1
  <2>3. m2 \div M \in Int
    <3> HIDE DEF m2
    <3> QED  BY <1>1, <2>2, Division
  <2>4. m \div M + m2 \div M = (m + s2 \div S) \div M /\ m2 % M = (m + s2 \div S) % M
    BY <1>1, <1>5, <1>6, DivisionInSteps, Zenon DEF m2
  <2> QED  BY <2>1, <2>3, <2>4
<1>8. m + s2 \div S = t.minute + (s + k) \div S
  <2> HIDE DEF s, s2, S
  <2> QED  BY <1>1, <1>3, <1>4, <1>5
<1>9. Plus(t, n) = [day |-> t.day + m \div M, minute |-> m % M, second |-> s % S]
  BY DEF Plus
<1>10. Plus(Plus(t, n), k) =
         [day |-> (t.day + m \div M) + m2 \div M, minute |-> m2 % M, second |-> s2 % S]
  BY <1>9 DEF Plus
<1>11. s + k = t.second + (n + k)
  BY <1>1
<1>12. Plus(t, n + k) =
         [day |-> t.day + (m + s2 \div S) \div M,
          minute |-> (m + s2 \div S) % M, second |-> (s + k) % S]
  BY <1>8, <1>11 DEF Plus
<1>13. (t.day + m \div M) + m2 \div M = t.day + (m + s2 \div S) \div M
  <2> HIDE DEF s, m, s2, m2, S, M
  <2> QED  BY <1>1, <1>7
<1> HIDE DEF s, m, s2, m2, S, M
<1> QED  BY <1>4, <1>7, <1>10, <1>12, <1>13

\* The next second comes before any later instant.
LEMMA NextSecond ==
  ASSUME NEW t \in Instant, NEW u \in Instant, Before(t, u)
  PROVE  NotAfter(Plus(t, 1), u)
<1> DEFINE S == SecondsPerMinute
           M == MinutesPerDay
           carry == (t.second + 1) \div S
           m == t.minute + carry
<1>1. /\ t.day \in Int /\ t.minute \in 0 .. M - 1 /\ t.second \in 0 .. S - 1
      /\ u.day \in Int /\ u.minute \in 0 .. M - 1 /\ u.second \in 0 .. S - 1
      /\ u = [day |-> u.day, minute |-> u.minute, second |-> u.second]
      /\ S \in Nat \ {0} /\ M \in Nat \ {0}
  BY ClockAssumption DEF Instant, Second, Minute
<1>2. /\ t.second + 1 < S => carry = 0 /\ (t.second + 1) % S = t.second + 1
      /\ t.second + 1 = S => carry = 1 /\ (t.second + 1) % S = 0
  <2>1. t.second + 1 \in 0 .. S
    BY <1>1
  <2> HIDE DEF S
  <2> QED  BY <1>1, <2>1, DivisionOnce
<1>3. m \in 0 .. M
  BY <1>1, <1>2
<1>4. /\ m < M => m \div M = 0 /\ m % M = m
      /\ m = M => m \div M = 1 /\ m % M = 0
  BY <1>1, <1>3, DivisionOnce
<1>5. Plus(t, 1) = [day |-> t.day + m \div M, minute |-> m % M, second |-> (t.second + 1) % S]
  BY DEF Plus
<1> HIDE DEF m, carry
<1>6. CASE t.second + 1 < S
  <2>1. Plus(t, 1) = [day |-> t.day, minute |-> t.minute, second |-> t.second + 1]
    BY <1>1, <1>2, <1>4, <1>5, <1>6 DEF m
  <2> QED  BY <1>1, <2>1 DEF Before, NotAfter
<1>7. CASE t.second + 1 = S /\ t.minute + 1 < M
  <2>1. Plus(t, 1) = [day |-> t.day, minute |-> t.minute + 1, second |-> 0]
    BY <1>1, <1>2, <1>4, <1>5, <1>7 DEF m
  <2> QED  BY <1>1, <1>7, <2>1 DEF Before, NotAfter
<1>8. CASE t.second + 1 = S /\ t.minute + 1 = M
  <2>1. Plus(t, 1) = [day |-> t.day + 1, minute |-> 0, second |-> 0]
    BY <1>1, <1>2, <1>4, <1>5, <1>8 DEF m
  <2> QED  BY <1>1, <1>8, <2>1 DEF Before, NotAfter
<1> QED  BY <1>1, <1>6, <1>7, <1>8

\* Before orders all the instants.
LEMMA BeforeIsTotal ==
  ASSUME NEW t \in Instant, NEW u \in Instant
  PROVE  NotAfter(t, u) <=> ~Before(u, t)
<1>1. /\ t = [day |-> t.day, minute |-> t.minute, second |-> t.second]
      /\ u = [day |-> u.day, minute |-> u.minute, second |-> u.second]
      /\ t.day \in Int /\ t.minute \in Int /\ t.second \in Int
      /\ u.day \in Int /\ u.minute \in Int /\ u.second \in Int
  BY ClockAssumption DEF Instant, Minute, Second
<1> QED  BY <1>1 DEF Before, NotAfter

\* More seconds lead to a later instant, and so do as many from a later instant:
\* by one, or on a later day.
LEMMA PlusKeepsOrder ==
  ASSUME NEW t \in Instant, NEW u \in Instant, NEW n \in Nat
  PROVE  /\ \A k \in Nat : n <= k => NotAfter(Plus(t, n), Plus(t, k))
         /\ NotAfter(t, u) => NotAfter(Plus(t, 1), Plus(u, 1))
         /\ t.minute = u.minute /\ t.second = u.second /\ t.day <= u.day
              => NotAfter(Plus(t, n), Plus(u, n))
<1>1. ASSUME NEW k \in Nat, n <= k PROVE NotAfter(Plus(t, n), Plus(t, k))
  <2>1. k - n \in Nat /\ n + (k - n) = k
    BY <1>1
  <2>2. Plus(t, k) = Plus(Plus(t, n), k - n)
    BY <2>1, PlusAdds
  <2> QED  BY <2>1, <2>2, PlusIsLater
<1>2. ASSUME NotAfter(t, u) PROVE NotAfter(Plus(t, 1), Plus(u, 1))
  <2>1. CASE t = u
    BY <2>1 DEF NotAfter
  <2>2. CASE Before(t, u)
    <3>1. NotAfter(Plus(t, 1), u)
      BY <2>2, NextSecond
    <3>2. /\ Plus(t, 1) \in Instant /\ Plus(u, 1) \in Instant
          /\ NotAfter(u, Plus(u, 1))
      BY PlusIsLater
    <3> QED  BY <3>1, <3>2, BeforeIsTransitive
  <2> QED  BY <1>2, <2>1, <2>2 DEF NotAfter
<1>3. ASSUME t.minute = u.minute, t.second = u.second, t.day <= u.day
      PROVE  NotAfter(Plus(t, n), Plus(u, n))
  <2> DEFINE c == (t.minute + (t.second + n) \div SecondsPerMinute) \div MinutesPerDay
  <2>1. t.day \in Int /\ u.day \in Int
    BY DEF Instant
  <2>2. PICK m, s : /\ Plus(t, n) = [day |-> t.day + c, minute |-> m, second |-> s]
                    /\ Plus(u, n) = [day |-> u.day + c, minute |-> m, second |-> s]
    BY <1>3 DEF Plus
  <2>3. c \in Int
    <3>1. Plus(t, n) \in Instant
      BY PlusIsLater
    <3>2. t.minute \in Nat /\ t.second \in Nat
      BY ClockAssumption DEF Instant, Minute, Second
    <3>3. t.second + n \in Nat
      BY <3>2
    <3>4. (t.second + n) \div SecondsPerMinute \in Nat
      BY <3>3, ClockAssumption, Division
    <3>5. t.minute + (t.second + n) \div SecondsPerMinute \in Nat
      BY <3>2, <3>4
    <3> QED  BY <3>5, ClockAssumption, Division
  <2> HIDE DEF c
  <2> QED  BY <1>3, <2>1, <2>2, <2>3 DEF NotAfter, Before
<1> QED  BY <1>1, <1>2, <1>3

-----------------------------------------------------------------------------
(* should_schedule_next                                                    *)

\* A daily query is next due at the first instant after its previous
\* iteration that lies in the slot and has the iteration's seconds: no slot is
\* skipped, and none is served twice.
THEOREM NextIsTheNextSlot ==
  ASSUME NEW t \in Instant, NEW time \in Minute,
         NEW s, s = [interval |-> 1, time |-> time, day |-> NoDay]
  PROVE  LET n == NextIteration(t, s)
         IN  /\ n \in Instant /\ n.minute = time /\ n.second = t.second
             /\ Before(t, n)
             /\ \A u \in Instant :
                  u.minute = time /\ u.second = t.second /\ Before(t, u)
                    => NotAfter(n, u)
<1> DEFINE n == NextIteration(t, s)
           slot == [t EXCEPT !.minute = time]
<1>1. /\ t.day \in Int /\ t.minute \in Minute /\ t.second \in Second
      /\ t = [day |-> t.day, minute |-> t.minute, second |-> t.second]
      /\ slot = [day |-> t.day, minute |-> time, second |-> t.second]
  BY DEF Instant
<1>2. time # NoTime
  BY ClockAssumption DEF Minute
<1>3. ASSUME NEW p \in Instant, PreviousSlot(t, time) = p
      PROVE  n = [day |-> p.day + 1, minute |-> time, second |-> p.second]
  <2>1. n = [p EXCEPT !.day = @ + 1 + 0, !.minute = time]
    BY <1>2, <1>3 DEF NextIteration, DaysToAdd
  <2>2. p = [day |-> p.day, minute |-> p.minute, second |-> p.second] /\ p.day \in Int
    BY DEF Instant
  <2> HIDE DEF n
  <2>3. n = [day |-> p.day + 1 + 0, minute |-> time, second |-> p.second]
    BY <2>1, <2>2
  <2> QED  BY <2>2, <2>3
<1>4. CASE Before(t, slot)
  <2>1. n = [day |-> t.day, minute |-> time, second |-> t.second]
    <3>1. PreviousSlot(t, time) = [day |-> t.day - 1, minute |-> time, second |-> t.second]
      BY <1>1, <1>4 DEF PreviousSlot
    <3> DEFINE p == [day |-> t.day - 1, minute |-> time, second |-> t.second]
    <3>2. p \in Instant
      BY <1>1 DEF Instant
    <3>3. n = [day |-> p.day + 1, minute |-> time, second |-> p.second]
      BY <1>3, <3>1, <3>2
    <3> QED  BY <1>1, <3>3
  <2>2. t.minute < time
    BY <1>1, <1>4 DEF Before, Minute, Second
  <2>3. n \in Instant /\ Before(t, n)
    BY <1>1, <2>1, <2>2 DEF Instant, Before
  <2>4. ASSUME NEW u \in Instant, u.minute = time, u.second = t.second, Before(t, u)
        PROVE  NotAfter(n, u)
    <3>1. u = [day |-> u.day, minute |-> time, second |-> t.second] /\ u.day \in Int
      BY <2>4 DEF Instant
    <3>2. t.day <= u.day
      BY <1>1, <2>4, <3>1 DEF Before
    <3> QED  BY <1>1, <2>1, <3>1, <3>2 DEF NotAfter, Before
  <2> QED  BY <2>1, <2>3, <2>4
<1>5. CASE ~Before(t, slot)
  <2>1. n = [day |-> t.day + 1, minute |-> time, second |-> t.second]
    <3>1. PreviousSlot(t, time) = t
      BY <1>5 DEF PreviousSlot
    <3> QED  BY <1>3, <3>1
  <2>2. time <= t.minute
    BY <1>1, <1>5 DEF Before, Minute
  <2>3. n \in Instant /\ Before(t, n)
    BY <1>1, <2>1 DEF Instant, Before
  <2>4. ASSUME NEW u \in Instant, u.minute = time, u.second = t.second, Before(t, u)
        PROVE  NotAfter(n, u)
    <3>1. u = [day |-> u.day, minute |-> time, second |-> t.second] /\ u.day \in Int
      BY <2>4 DEF Instant
    <3>2. t.day + 1 <= u.day
      BY <1>1, <2>2, <2>4, <3>1 DEF Before, Minute, Second
    <3> QED  BY <1>1, <2>1, <3>1, <3>2 DEF NotAfter, Before
  <2> QED  BY <2>1, <2>3, <2>4
<1> QED  BY <1>4, <1>5

\* schedule_failures only delays the next iteration.
LEMMA BackoffDelays ==
  ASSUME NEW t \in Instant, NEW n \in 0 .. MaxFailures
  PROVE  WithBackoff(t, n) \in Instant /\ NotAfter(t, WithBackoff(t, n))
<1>1. CASE n = 0
  BY <1>1 DEF WithBackoff, NotAfter
<1>2. CASE n # 0
  <2>1. 2 ^ n * SecondsPerMinute \in Nat
    BY PowersAssumption, ClockAssumption
  <2> QED  BY <1>2, <2>1, PlusIsLater DEF WithBackoff
<1> QED  BY <1>1, <1>2

-----------------------------------------------------------------------------
(* The runs                                                                *)

LEMMA TypeCorrectStep ==
  ASSUME TypeOK, [Next]_vars
  PROVE  TypeOK'
<1>1. CASE UNCHANGED vars
  BY <1>1 DEF TypeOK, vars
<1>2. CASE Tick
  <2>1. now' \in Instant /\ NotAfter(now, now')
    BY <1>2, PlusIsLater DEF Tick, TypeOK
  <2>2. NotAfter(last', now')
    BY <1>2, <2>1, BeforeIsTransitive DEF Tick, TypeOK
  <2>3. late' \in 0 .. Late
    BY <1>2, BoundsAssumption DEF Tick, TypeOK
  <2> QED  BY <1>2, <2>1, <2>2, <2>3 DEF Tick, TypeOK
<1>3. ASSUME NEW succeeds \in BOOLEAN, Run(succeeds) PROVE TypeOK'
  BY <1>3, BoundsAssumption DEF Run, TypeOK, NotAfter
<1> QED  BY <1>1, <1>2, <1>3 DEF Next

\* Instants stay well formed, and the last execution is never in the future.
THEOREM TypeCorrect == Spec => []TypeOK
<1>1. Init => TypeOK
  BY ScheduleAssumption, BoundsAssumption DEF Init, TypeOK, NotAfter
<1>2. TypeOK /\ [Next]_vars => TypeOK'
  BY TypeCorrectStep
<1> QED  BY <1>1, <1>2, PTL DEF Spec

\* A query with a daily slot runs at most once between two slots, whatever the
\* delays and failures.
THEOREM RunsOncePerSlot == Spec => OncePerSlot
<1>1. TypeOK /\ [Next]_vars =>
        [Daily /\ last' # last =>
           \E d \in {now.day - 1, now.day} :
             Before(last, SlotStart(d)) /\ NotAfter(SlotStart(d), now)]_vars
  <2> SUFFICES ASSUME TypeOK, Next, Daily, last' # last
               PROVE  \E d \in {now.day - 1, now.day} :
                        Before(last, SlotStart(d)) /\ NotAfter(SlotStart(d), now)
    OBVIOUS
  <2>1. Due
    BY DEF Next, Tick, Run
  <2> DEFINE n == NextIteration(last, schedule)
             w == WithBackoff(n, failures)
             time == schedule.time
  <2>2. /\ schedule = [interval |-> 1, time |-> time, day |-> NoDay]
        /\ time \in Minute
    BY ScheduleAssumption DEF TypeOK, Daily, Schedule
  <2>3. /\ n \in Instant /\ n.minute = time /\ n.second = last.second
        /\ Before(last, n)
        /\ \A u \in Instant :
             u.minute = time /\ u.second = last.second /\ Before(last, u)
               => NotAfter(n, u)
    BY <2>2, NextIsTheNextSlot DEF TypeOK
  <2>4. Before(n, now)
    <3>1. w \in Instant /\ NotAfter(n, w)
      BY <2>3, BackoffDelays DEF TypeOK
    <3>2. Before(w, now)
      BY <2>1 DEF Due, ShouldScheduleNext
    <3> HIDE DEF n, w
    <3> QED  BY <2>3, <3>1, <3>2, BeforeIsTransitive DEF TypeOK
  <2> HIDE DEF n, w
  <2>5. /\ now.day \in Int /\ now.minute \in Minute /\ now.second \in Second
        /\ last.day \in Int /\ last.minute \in Minute /\ last.second \in Second
        /\ n.day \in Int
    BY <2>3 DEF TypeOK, Instant
  <2>6. CASE time <= now.minute
    <3>1. NotAfter(SlotStart(now.day), now)
      <4>1. now = [day |-> now.day, minute |-> now.minute, second |-> now.second]
        BY DEF TypeOK, Instant
      <4> QED  BY <2>2, <2>5, <2>6, <4>1 DEF NotAfter, Before, SlotStart, Minute, Second
    <3>2. Before(last, SlotStart(now.day))
      BY <2>2, <2>3, <2>4, <2>5, <2>6 DEF Before, SlotStart, Minute, Second
    <3> QED  BY <3>1, <3>2
  <2>7. CASE now.minute < time
    <3>1. NotAfter(SlotStart(now.day - 1), now)
      BY <2>5 DEF NotAfter, Before, SlotStart
    <3>2. Before(last, SlotStart(now.day - 1))
      BY <2>2, <2>3, <2>4, <2>5, <2>7 DEF Before, SlotStart, Minute, Second
    <3> QED  BY <2>5, <3>1, <3>2
  <2> QED  BY <2>2, <2>5, <2>6, <2>7 DEF Minute
<1> QED  BY <1>1, TypeCorrect, PTL DEF Spec, OncePerSlot

\* Which schedules are never due before their last execution: those that run at
\* an interval, and those with a daily slot.
Forward == schedule.time = NoTime \/ Daily

DueAt == WithBackoff(NextIteration(last, schedule), failures)

\* A query that is due has been so for `late` seconds, and one more at the most.
NeverTooLate == Forward /\ Due => NotAfter(now, Plus(DueAt, late + 1))

\* The next iteration comes after the last execution, and the backoff after it.
LEMMA NextFollows ==
  ASSUME NEW t \in Instant, NEW s \in Schedule, NEW f \in 0 .. MaxFailures,
         s.time # NoTime => s.day = NoDay /\ s.interval = 1
  PROVE  LET n == NextIteration(t, s)
         IN  /\ n \in Instant /\ NotAfter(t, n)
             /\ WithBackoff(n, f) \in Instant /\ NotAfter(t, WithBackoff(n, f))
<1> DEFINE n == NextIteration(t, s)
<1>1. n \in Instant /\ NotAfter(t, n)
  <2>1. CASE s.time = NoTime
    <3>1. n = Plus(t, s.interval) /\ s.interval \in Nat
      BY <2>1 DEF NextIteration, Schedule
    <3> HIDE DEF n
    <3> QED  BY <3>1, PlusIsLater
  <2>2. CASE s.time # NoTime
    <3>1. s = [interval |-> 1, time |-> s.time, day |-> NoDay] /\ s.time \in Minute
      BY <2>2 DEF Schedule
    <3> QED  BY <3>1, NextIsTheNextSlot DEF NotAfter
  <2> QED  BY <2>1, <2>2
<1> HIDE DEF n
<1>2. WithBackoff(n, f) \in Instant /\ NotAfter(n, WithBackoff(n, f))
  BY <1>1, BackoffDelays
<1>3. NotAfter(t, WithBackoff(n, f))
  BY <1>1, <1>2, BeforeIsTransitive
<1> QED  BY <1>1, <1>2, <1>3 DEF n

\* So it is for the query.
LEMMA DueAtFollows ==
  ASSUME TypeOK, Forward
  PROVE  /\ NextIteration(last, schedule) \in Instant
         /\ DueAt \in Instant /\ NotAfter(last, DueAt)
<1>1. schedule \in Schedule /\ last \in Instant /\ failures \in 0 .. MaxFailures
  BY ScheduleAssumption DEF TypeOK
<1>2. schedule.time # NoTime => schedule.day = NoDay /\ schedule.interval = 1
  BY DEF Forward, Daily
<1> QED  BY <1>1, <1>2, NextFollows DEF DueAt

\* Due is about DueAt.
LEMMA DueAfterDueAt == Due <=> Before(DueAt, now)
BY DEF Due, ShouldScheduleNext, DueAt

LEMMA StepsAreNotTooLate ==
  ASSUME TypeOK, NeverTooLate, [Next]_vars
  PROVE  NeverTooLate'
<1>1. schedule' = schedule /\ (Forward' <=> Forward)
  BY DEF Next, Tick, Run, vars, Forward, Daily
<1>2. TypeOK'
  BY TypeCorrectStep
<1>3. CASE UNCHANGED vars
  BY <1>3 DEF vars, NeverTooLate, Forward, Daily, Due, DueAt
<1>4. CASE Tick
  <2> SUFFICES ASSUME Forward, Due'
               PROVE  NotAfter(now', Plus(DueAt, late' + 1))
    <3>1. DueAt' = DueAt
      BY <1>4 DEF Tick, DueAt
    <3> QED  BY <1>1, <3>1 DEF NeverTooLate
  <2>1. DueAt \in Instant /\ now \in Instant /\ late \in Nat /\ now' = Plus(now, 1)
    BY <1>4, DueAtFollows, BoundsAssumption DEF TypeOK, Tick
  <2>2. CASE Due
    <3>1. late' = late + 1 /\ NotAfter(now, Plus(DueAt, late + 1))
      BY <1>4, <2>2 DEF Tick, NeverTooLate
    <3>2. Plus(DueAt, late + 1) \in Instant
      BY <2>1, PlusIsLater
    <3>3. NotAfter(Plus(now, 1), Plus(Plus(DueAt, late + 1), 1))
      BY <2>1, <3>1, <3>2, PlusKeepsOrder
    <3>4. Plus(Plus(DueAt, late + 1), 1) = Plus(DueAt, (late + 1) + 1)
      BY <2>1, PlusAdds
    <3> QED  BY <2>1, <3>1, <3>3, <3>4
  <2>3. CASE ~Due
    <3>1. late' = 0 /\ NotAfter(now, DueAt)
      BY <1>4, <2>1, <2>3, DueAfterDueAt, BeforeIsTotal DEF Tick
    <3>2. NotAfter(Plus(now, 1), Plus(DueAt, 1))
      BY <2>1, <3>1, PlusKeepsOrder
    <3> QED  BY <2>1, <3>1, <3>2
  <2> QED  BY <2>2, <2>3
<1>5. ASSUME NEW succeeds \in BOOLEAN, Run(succeeds) PROVE NeverTooLate'
  <2> SUFFICES ASSUME Forward' PROVE NotAfter(now, Plus(DueAt', late' + 1))
    BY <1>5 DEF NeverTooLate, Run
  <2>1. last' = now /\ late' = 0
    BY <1>5 DEF Run
  <2>2. DueAt' \in Instant /\ NotAfter(last', DueAt')
    <3>1. schedule' \in Schedule /\ last' \in Instant /\ failures' \in 0 .. MaxFailures
      BY <1>2, ScheduleAssumption DEF TypeOK
    <3>2. schedule'.time # NoTime => schedule'.day = NoDay /\ schedule'.interval = 1
      BY DEF Forward, Daily
    <3> QED  BY <3>1, <3>2, NextFollows DEF DueAt
  <2>3. NotAfter(DueAt', Plus(DueAt', 1)) /\ Plus(DueAt', 1) \in Instant
    BY <2>2, PlusIsLater
  <2>4. NotAfter(now, Plus(DueAt', 1))
    BY <2>1, <2>2, <2>3, BeforeIsTransitive DEF TypeOK
  <2> QED  BY <2>1, <2>4
<1> QED  BY <1>3, <1>4, <1>5 DEF Next

LEMMA NeverTooLateHolds == Spec => [](TypeOK /\ NeverTooLate)
<1>1. Init => TypeOK /\ NeverTooLate
  <2> SUFFICES ASSUME Init PROVE TypeOK /\ NeverTooLate
    OBVIOUS
  <2>1. TypeOK
    BY ScheduleAssumption, BoundsAssumption DEF Init, TypeOK, NotAfter
  <2>2. Forward => ~Due
    BY <2>1, DueAtFollows, DueAfterDueAt, BeforeIsTotal DEF Init, TypeOK
  <2> QED  BY <2>1, <2>2 DEF NeverTooLate
<1>2. TypeOK /\ NeverTooLate /\ [Next]_vars => (TypeOK /\ NeverTooLate)'
  BY TypeCorrectStep, StepsAreNotTooLate
<1> QED  BY <1>1, <1>2, PTL DEF Spec

\* A query that has not failed runs at its next iteration, or within Late seconds
\* and one of it.
LEMMA RunsInTime ==
  ASSUME TypeOK, NeverTooLate, Forward, failures = 0
  PROVE  NotAfter(now, Plus(NextIteration(last, schedule), Late + 1))
<1> DEFINE n == NextIteration(last, schedule)
<1>1. DueAt = n /\ n \in Instant /\ now \in Instant /\ late \in 0 .. Late /\ Late \in Nat
  BY DueAtFollows, BoundsAssumption DEF DueAt, WithBackoff, TypeOK
<1> HIDE DEF n
<1>2. CASE Due
  <2>1. NotAfter(now, Plus(n, late + 1))
    BY <1>1, <1>2 DEF NeverTooLate
  <2>2. late + 1 \in Nat /\ Late + 1 \in Nat /\ late + 1 <= Late + 1
    BY <1>1
  <2>3. NotAfter(Plus(n, late + 1), Plus(n, Late + 1))
    BY <1>1, <2>2, PlusKeepsOrder
  <2>4. Plus(n, late + 1) \in Instant /\ Plus(n, Late + 1) \in Instant
    BY <1>1, <2>2, PlusIsLater
  <2> QED  BY <1>1, <2>1, <2>3, <2>4, BeforeIsTransitive DEF n
<1>3. CASE ~Due
  <2>1. NotAfter(now, n)
    BY <1>1, <1>3, DueAfterDueAt, BeforeIsTotal
  <2>2. Late + 1 \in Nat
    BY <1>1
  <2>3. NotAfter(n, Plus(n, Late + 1)) /\ Plus(n, Late + 1) \in Instant
    BY <1>1, <2>2, PlusIsLater
  <2> QED  BY <1>1, <2>1, <2>3, BeforeIsTransitive DEF n
<1> QED  BY <1>2, <1>3

\* A query that runs at an interval and does not fail is never further behind than
\* the interval and the delay of the workers (models/__init__.py:368-397).
THEOREM KeepsItsInterval == Spec => []IntervalKept
<1>1. TypeOK /\ NeverTooLate => IntervalKept
  <2> SUFFICES ASSUME TypeOK, NeverTooLate, schedule.time = NoTime, failures = 0
               PROVE  NotAfter(now, Plus(last, schedule.interval + Late + 1))
    BY DEF IntervalKept
  <2>1. schedule.interval \in Nat /\ Late \in Nat /\ last \in Instant
    BY ScheduleAssumption, BoundsAssumption DEF TypeOK, Schedule
  <2>2. NotAfter(now, Plus(Plus(last, schedule.interval), Late + 1))
    BY RunsInTime DEF Forward, NextIteration
  <2>3. Plus(Plus(last, schedule.interval), Late + 1) = Plus(last, schedule.interval + (Late + 1))
    BY <2>1, PlusAdds
  <2>4. schedule.interval + (Late + 1) = schedule.interval + Late + 1
    BY <2>1
  <2> QED  BY <2>2, <2>3, <2>4
<1> QED  BY <1>1, NeverTooLateHolds, PTL

\* A query with a daily slot that does not fail runs in every slot, or within Late
\* seconds of it, also one that was last run after midnight: "using naive
\* implementation of comparing timestamps, it will skip the execution"
\* (models/__init__.py:378-394). A weekly slot may be skipped.
THEOREM DailySlotsAreServed == Spec => [](Daily => NoSlotSkipped)
<1>1. TypeOK /\ NeverTooLate => (Daily => NoSlotSkipped)
  <2> SUFFICES ASSUME TypeOK, NeverTooLate, Daily, failures = 0, NEW d \in 0 .. MaxDay,
                      Before(Plus(SlotStart(d), SecondsPerMinute + Late), now),
                      ~NotAfter(SlotStart(d), last)
               PROVE  FALSE
    BY DEF NoSlotSkipped
  <2> DEFINE time == schedule.time
             n == NextIteration(last, schedule)
             sec == last.second
             u == [day |-> d, minute |-> time, second |-> sec]
  <2>1. /\ schedule = [interval |-> 1, time |-> time, day |-> NoDay]
        /\ time \in Minute
    BY ScheduleAssumption DEF TypeOK, Daily, Schedule
  <2>2. /\ last \in Instant /\ now \in Instant /\ d \in Int /\ sec \in Second
        /\ Late \in Nat /\ SecondsPerMinute \in Nat \ {0} /\ MinutesPerDay \in Nat \ {0}
        /\ 0 \in Second /\ SlotStart(d) \in Instant /\ u \in Instant
    BY <2>1, BoundsAssumption, ClockAssumption DEF TypeOK, Instant, Second, SlotStart
  <2>3. n \in Instant /\ n.minute = time /\ n.second = sec /\ NotAfter(n, u)
    <3>1. NotAfter(SlotStart(d), u)
      BY <2>1, <2>2 DEF SlotStart, NotAfter, Before, Second
    <3>2. Before(last, SlotStart(d))
      BY <2>2, BeforeIsTotal
    <3>3. Before(last, u)
      BY <2>2, <3>1, <3>2, BeforeIsTransitive
    <3>4. /\ n \in Instant /\ n.minute = time /\ n.second = sec
          /\ \A v \in Instant : v.minute = time /\ v.second = sec /\ Before(last, v)
               => NotAfter(n, v)
      BY <2>1, <2>2, NextIsTheNextSlot
    <3> QED  BY <2>2, <3>3, <3>4
  <2>4. n.day <= d
    <3>1. n = [day |-> n.day, minute |-> time, second |-> sec] /\ n.day \in Int
      BY <2>3 DEF Instant
    <3>2. time \in Int /\ sec \in Int
      BY <2>1, <2>2, ClockAssumption DEF Minute, Second
    <3> HIDE DEF n
    <3> QED  BY <2>2, <2>3, <3>1, <3>2 DEF NotAfter, Before
  <2>5. NotAfter(now, Plus(n, Late + 1))
    BY RunsInTime DEF Forward
  <2>6. NotAfter(Plus(n, Late + 1), Plus(u, Late + 1))
    <3>1. u.minute = n.minute /\ u.second = n.second /\ n.day <= u.day /\ Late + 1 \in Nat
      BY <2>2, <2>3, <2>4
    <3> HIDE DEF n, u
    <3> QED  BY <2>2, <2>3, <3>1, PlusKeepsOrder
  <2>7. u = Plus(SlotStart(d), sec)
    <3>1. sec \in 0 .. SecondsPerMinute /\ sec < SecondsPerMinute /\ 0 + sec = sec
      BY <2>2 DEF Second
    <3>2. sec \div SecondsPerMinute = 0 /\ sec % SecondsPerMinute = sec
      BY <2>2, <3>1, DivisionOnce
    <3>3. time \in 0 .. MinutesPerDay /\ time < MinutesPerDay /\ time + 0 = time
      BY <2>1, <2>2 DEF Minute
    <3>4. time \div MinutesPerDay = 0 /\ time % MinutesPerDay = time
      BY <2>2, <3>3, DivisionOnce
    <3>5. Plus(SlotStart(d), sec) =
            [day |-> d + (time + (0 + sec) \div SecondsPerMinute) \div MinutesPerDay,
             minute |-> (time + (0 + sec) \div SecondsPerMinute) % MinutesPerDay,
             second |-> (0 + sec) % SecondsPerMinute]
      BY DEF Plus, SlotStart
    <3>6. Plus(SlotStart(d), sec) = [day |-> d + 0, minute |-> time, second |-> sec]
      BY <3>1, <3>2, <3>3, <3>4, <3>5, Zenon
    <3> QED  BY <2>2, <3>6
  <2>8. NotAfter(Plus(u, Late + 1), Plus(SlotStart(d), SecondsPerMinute + Late))
    <3>1. /\ sec \in Nat /\ Late + 1 \in Nat /\ sec + (Late + 1) \in Nat
          /\ SecondsPerMinute + Late \in Nat /\ sec + (Late + 1) <= SecondsPerMinute + Late
      BY <2>2 DEF Second
    <3>2. Plus(u, Late + 1) = Plus(SlotStart(d), sec + (Late + 1))
      BY <2>2, <2>7, <3>1, PlusAdds
    <3> QED  BY <2>2, <3>1, <3>2, PlusKeepsOrder
  <2>9. NotAfter(now, Plus(SlotStart(d), SecondsPerMinute + Late))
    <3>1. /\ Plus(n, Late + 1) \in Instant /\ Plus(u, Late + 1) \in Instant
          /\ Plus(SlotStart(d), SecondsPerMinute + Late) \in Instant
      BY <2>2, <2>3, PlusIsLater
    <3> QED  BY <2>2, <2>5, <2>6, <2>8, <3>1, BeforeIsTransitive
  <2>10. Plus(SlotStart(d), SecondsPerMinute + Late) \in Instant
    BY <2>2, PlusIsLater
  <2> QED  BY <2>2, <2>9, <2>10, BeforeIsTotal
<1> QED  BY <1>1, NeverTooLateHolds, PTL

=============================================================================
