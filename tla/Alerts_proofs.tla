---------------------------- MODULE Alerts_proofs ----------------------------
(***************************************************************************)
(* Proofs about Alerts, for any number of alerts, workers, subscribers and *)
(* results: its types, that everybody who is owed news of a commit is      *)
(* told, and that only tasks that overlap announce a state twice.          *)
(***************************************************************************)
EXTENDS Alerts, FiniteSetTheorems, TLAPS

Commit == [old : States, new : States, at : 1..MaxTime, read : Nat, owed : SUBSET Subscribers]

\* A task before it has the result, before its first commit, and after one.
Reading == [pc : {"data"}, seen : Seen, read : [Alerts -> Nat], todo : SUBSET Alerts]
Checking == [pc : {"check"}, seen : Seen, read : [Alerts -> Nat], todo : SUBSET Alerts,
             data : Value]
Writing == [pc : {"check", "load", "notify"}, seen : Seen, read : [Alerts -> Nat],
            todo : SUBSET Alerts, data : Value, about : Alerts, number : Nat \ {0}, left : SUBSET Subscribers]

Shapes ==
  /\ now \in 1..MaxTime
  /\ results \in 0..MaxResults /\ unsent \in Nat /\ queue \in Nat
  /\ latest \in Value
  /\ alert \in Seen
  /\ subs \in [Alerts -> SUBSET Subscribers]
  /\ writes \in [Alerts -> Seq(Commit)]
  /\ task \in [Workers -> {Idle} \cup Reading \cup Checking \cup Writing]

\* A task's commit is one of those of its alert.
Numbered ==
  \A w \in Workers :
    task[w] \in Writing => task[w].number <= Len(writes[task[w].about])

\* What a task may do depends on the shape of its state.
LEMMA TaskShapes ==
  ASSUME Shapes, NEW w \in Workers
  PROVE  /\ task[w].pc = "data" => task[w] \in Reading
         /\ task[w].pc = "check" => task[w] \in Checking \cup Writing
         /\ task[w].pc \in {"load", "notify"} => task[w] \in Writing
         /\ task[w].pc \in {"idle", "data", "check", "load", "notify"}
         /\ task[w].pc = "idle" => task[w] = Idle
BY DEF Shapes, Idle, Reading, Checking, Writing

\* The state that a task finds is one of the three (tasks/alerts.py:31).
LEMMA NewStateIsState ==
  ASSUME NEW w \in Workers, NEW a \in Alerts
  PROVE  NewState(w, a) \in States
BY DEF NewState, Evaluate, States

\* Owing the news to fewer leaves the commits and their number.
LEMMA OweOnlyShape ==
  ASSUME Shapes, NEW a \in Alerts, NEW S
  PROVE  /\ OweOnly(a, S) \in [Alerts -> Seq(Commit)]
         /\ \A b \in Alerts : Len(OweOnly(a, S)[b]) = Len(writes[b])
<1> DEFINE s == writes[a]
           t == [i \in DOMAIN s |-> [s[i] EXCEPT !.owed = s[i].owed \cap S]]
<1>1. s \in Seq(Commit)
  BY DEF Shapes
<1>2. DOMAIN s = 1..Len(s) /\ Len(s) \in Nat
  BY <1>1
<1>3. \A i \in DOMAIN s : t[i] \in Commit
  <2> SUFFICES ASSUME NEW i \in DOMAIN s PROVE t[i] \in Commit
    OBVIOUS
  <2>1. s[i] \in Commit
    BY <1>1, <1>2
  <2>2. [s[i] EXCEPT !.owed = s[i].owed \cap S] \in Commit
    BY <2>1 DEF Commit
  <2> QED
    BY <2>2
<1>4. t \in [1..Len(s) -> Commit]
  BY <1>2, <1>3
<1>5. t \in Seq(Commit) /\ Len(t) = Len(s)
  BY <1>2, <1>4
<1>6. OweOnly(a, S) = [writes EXCEPT ![a] = t]
  BY DEF OweOnly
<1> HIDE DEF t
<1> QED  BY <1>5, <1>6 DEF Shapes

LEMMA OweShape ==
  ASSUME Shapes, NEW a \in Alerts, NEW n \in 1..Len(writes[a]), NEW S \in SUBSET Subscribers
  PROVE  /\ Owe(a, n, S) \in [Alerts -> Seq(Commit)]
         /\ \A b \in Alerts : Len(Owe(a, n, S)[b]) = Len(writes[b])
<1> DEFINE s == writes[a]
           t == [s EXCEPT ![n] = [s[n] EXCEPT !.owed = S]]
<1>1. s \in Seq(Commit) /\ Len(s) \in Nat
  BY DEF Shapes
<1>2. [s[n] EXCEPT !.owed = S] \in Commit
  <2>1. s[n] \in Commit
    BY <1>1
  <2> QED
    BY <2>1 DEF Commit
<1>3. t \in Seq(Commit) /\ Len(t) = Len(s)
  BY <1>1, <1>2
<1>4. Owe(a, n, S) = [writes EXCEPT ![a] = t]
  BY DEF Owe
<1> HIDE DEF t
<1> QED  BY <1>3, <1>4 DEF Shapes

\* A task that notifies has a commit among those of its alert.
LEMMA TaskCommit ==
  ASSUME Shapes, Numbered, NEW w \in Workers, task[w].pc \in {"load", "notify"}
  PROVE  /\ task[w] \in Writing
         /\ task[w].about \in Alerts
         /\ task[w].number \in 1..Len(writes[task[w].about])
         /\ writes[task[w].about][task[w].number] \in Commit
<1>1. task[w] \in Writing
  BY TaskShapes
<1>2. task[w].about \in Alerts /\ task[w].number \in Nat \ {0}
  BY <1>1 DEF Writing
<1>3. writes[task[w].about] \in Seq(Commit)
  BY <1>2 DEF Shapes
<1>4. task[w].number <= Len(writes[task[w].about])
  BY <1>1 DEF Numbered
<1> QED  BY <1>1, <1>2, <1>3, <1>4

-----------------------------------------------------------------------------
(* The types                                                               *)

IShapes == Shapes /\ Numbered

LEMMA InitShapes == Init => IShapes
BY BoundsAssumption
   DEF Init, IShapes, Shapes, Numbered, Seen, AlertRow, Value, States, Idle, Writing

\* Results, the broker, and the handlers of alerts and subscriptions.
LEMMA OthersKeepShapes ==
  ASSUME IShapes,
         \/ Tick \/ NewResult \/ QueueCheck \/ ExecutorLost
         \/ \E a \in Alerts, o \in SUBSET Values : Create(a, o) \/ Edit(a, o)
         \/ \E a \in Alerts : Delete(a)
         \/ \E a \in Alerts, s \in Subscribers : Subscribe(a, s) \/ Unsubscribe(a, s)
         \/ UNCHANGED vars
  PROVE  IShapes'
<1> USE DEF IShapes
<1>1. CASE Tick
  BY <1>1, BoundsAssumption DEF Tick, resultVars, Shapes, Numbered
<1>2. CASE NewResult
  BY <1>2, BoundsAssumption DEF NewResult, Shapes, Numbered, Value
<1>3. CASE QueueCheck \/ ExecutorLost
  BY <1>3 DEF QueueCheck, ExecutorLost, Shapes, Numbered
<1>4. ASSUME NEW a \in Alerts, NEW o \in SUBSET Values, Create(a, o) \/ Edit(a, o)
      PROVE  IShapes'
  <2>1. alert[a] \in AlertRow
    BY DEF Shapes, Seen
  <2>2. [row |-> "live", options |-> o, state |-> "unknown", last |-> 0] \in AlertRow
    BY BoundsAssumption DEF AlertRow, States
  <2>3. [alert[a] EXCEPT !.options = o] \in AlertRow
    BY <2>1 DEF AlertRow
  <2>4. alert' \in Seen
    BY <1>4, <2>2, <2>3 DEF Create, Edit, Shapes, Seen
  <2> QED
    BY <1>4, <2>4 DEF Create, Edit, resultVars, Shapes, Numbered
<1>5. ASSUME NEW a \in Alerts, NEW S, writes' = OweOnly(a, S), alert' \in Seen,
             subs' \in [Alerts -> SUBSET Subscribers],
             UNCHANGED <<now, resultVars, queue, task>>
      PROVE  IShapes'
  <2>1. writes' \in [Alerts -> Seq(Commit)] /\ \A b \in Alerts : Len(writes'[b]) = Len(writes[b])
    BY <1>5, OweOnlyShape
  <2>2. \A w \in Workers : task[w] \in Writing => task[w].about \in Alerts
    BY DEF Writing
  <2> QED
    BY <1>5, <2>1, <2>2 DEF resultVars, Shapes, Numbered
<1>6. ASSUME NEW a \in Alerts, Delete(a) PROVE IShapes'
  <2>1. alert' \in Seen
    BY <1>6 DEF Delete, Shapes, Seen, AlertRow
  <2> QED
    BY <1>5, <1>6, <2>1 DEF Delete, Shapes
<1>7. ASSUME NEW a \in Alerts, NEW s \in Subscribers, Subscribe(a, s) PROVE IShapes'
  BY <1>7 DEF Subscribe, resultVars, Shapes, Numbered
<1>8. ASSUME NEW a \in Alerts, NEW s \in Subscribers, Unsubscribe(a, s) PROVE IShapes'
  BY <1>5, <1>8 DEF Unsubscribe, Shapes
<1>9. CASE UNCHANGED vars
  BY <1>9 DEF vars, resultVars, Shapes, Numbered
<1> QED  BY <1>1, <1>2, <1>3, <1>4, <1>6, <1>7, <1>8, <1>9

\* A step of one task, if its new state has a shape and its commit is there.
LEMMA OneTask ==
  ASSUME IShapes, NEW w \in Workers, NEW t \in {Idle} \cup Reading \cup Checking \cup Writing,
         task' = [task EXCEPT ![w] = t],
         t \in Writing => t.number <= Len(writes'[t.about]),
         writes' \in [Alerts -> Seq(Commit)],
         \A b \in Alerts : Len(writes[b]) <= Len(writes'[b]),
         UNCHANGED <<now, resultVars, subs>>, queue' \in Nat, alert' \in Seen
  PROVE  IShapes'
<1>1. Shapes'
  BY DEF IShapes, Shapes, resultVars
<1>2. ASSUME NEW v \in Workers, task'[v] \in Writing
      PROVE  task'[v].number <= Len(writes'[task'[v].about])
  <2>1. CASE v = w
    BY <1>2, <2>1 DEF IShapes, Shapes
  <2>2. CASE v # w
    <3>1. task[v] \in Writing /\ task'[v] = task[v]
      BY <1>2, <2>2 DEF IShapes, Shapes
    <3>2. task[v].about \in Alerts /\ task[v].number \in Nat
      BY <3>1 DEF Writing
    <3>3. writes[task[v].about] \in Seq(Commit) /\ writes'[task[v].about] \in Seq(Commit)
      BY <3>2 DEF IShapes, Shapes
    <3>4. Len(writes[task[v].about]) \in Nat /\ Len(writes'[task[v].about]) \in Nat
      BY <3>3
    <3>5. task[v].number <= Len(writes[task[v].about])
      BY <3>1 DEF IShapes, Numbered
    <3>6. Len(writes[task[v].about]) <= Len(writes'[task[v].about])
      BY <3>2
    <3> QED
      BY <3>1, <3>2, <3>4, <3>5, <3>6
  <2> QED
    BY <2>1, <2>2
<1> QED  BY <1>1, <1>2 DEF IShapes, Numbered

\* The same if nothing is committed.
LEMMA OneTaskOnly ==
  ASSUME IShapes, NEW w \in Workers, NEW t \in {Idle} \cup Reading \cup Checking \cup Writing,
         task' = [task EXCEPT ![w] = t],
         t \in Writing => t.number <= Len(writes[t.about]),
         UNCHANGED <<now, resultVars, subs, alert, writes>>, queue' \in Nat
  PROVE  IShapes'
<1>1. \A b \in Alerts : Len(writes[b]) \in Nat
  BY DEF IShapes, Shapes
<1>2. writes' \in [Alerts -> Seq(Commit)] /\ alert' \in Seen
  BY DEF IShapes, Shapes
<1>3. writes' = writes /\ UNCHANGED <<now, resultVars, subs>>
  OBVIOUS
<1>4. \A b \in Alerts : Len(writes[b]) <= Len(writes'[b])
  BY <1>1, <1>3
<1>5. t \in Writing => t.number <= Len(writes'[t.about])
  BY <1>3
<1> HIDE DEF IShapes
<1> QED  BY <1>2, <1>3, <1>4, <1>5, OneTask

\* The tasks: one that ends is idle, and the others keep a shape.
LEMMA TasksKeepShapes ==
  ASSUME IShapes, NEW w \in Workers, TaskStep(w) \/ WorkerLost(w)
  PROVE  IShapes'
<1> USE DEF IShapes
<1>0. Shapes /\ Numbered
  OBVIOUS
<1>1. CASE Begin(w)
  <2> DEFINE t == [pc |-> "data", seen |-> alert, read |-> [a \in Alerts |-> Len(writes[a])],
                   todo |-> {a \in Alerts : alert[a].row = "live"}]
  <2>0. [a \in Alerts |-> Len(writes[a])] \in [Alerts -> Nat]
    BY DEF Shapes
  <2>1. t \in Reading
    BY <2>0 DEF Reading, Shapes
  <2>2. t \notin Writing
    BY <2>1 DEF Reading, Writing
  <2>3. queue' \in Nat
    BY <1>1 DEF Begin, Shapes
  <2> HIDE DEF t
  <2>4. task' = [task EXCEPT ![w] = t]
    BY <1>1 DEF Begin, t
  <2> QED
    BY <1>1, <2>1, <2>2, <2>3, <2>4, OneTaskOnly DEF Begin
<1>2. CASE ReadResult(w)
  <2> DEFINE t == [pc |-> "check", seen |-> task[w].seen, read |-> task[w].read,
                   todo |-> task[w].todo, data |-> latest]
  <2>1. task[w] \in Reading
    BY <1>2, TaskShapes DEF ReadResult
  <2>2. t \in Checking
    BY <2>1 DEF Reading, Checking, Shapes
  <2>3. t \notin Writing
    BY <2>2 DEF Checking, Writing
  <2> HIDE DEF t
  <2>4. task' = [task EXCEPT ![w] = t]
    BY <1>2 DEF ReadResult, t, Shapes
  <2> QED
    BY <1>2, <2>2, <2>3, <2>4, OneTaskOnly DEF ReadResult, Shapes
<1>3. ASSUME NEW a \in Alerts, Skip(w, a) PROVE IShapes'
  <2> DEFINE t == [task[w] EXCEPT !.todo = task[w].todo \ {a}]
  <2>1. task[w] \in Checking \cup Writing
    BY <1>3, TaskShapes DEF Skip
  <2>2. task[w] \in Checking => t \in Checking /\ t \notin Writing
    BY DEF Checking, Writing
  <2>3. task[w] \in Writing => t \in Writing /\ t.number = task[w].number /\ t.about = task[w].about
    BY DEF Writing
  <2>4. task' = [task EXCEPT ![w] = t]
    BY <1>3 DEF Skip, Shapes
  <2>5. t \in Writing => t.number <= Len(writes[t.about])
    BY <2>1, <2>2, <2>3 DEF Numbered
  <2> HIDE DEF t
  <2> QED
    BY <1>3, <2>1, <2>2, <2>3, <2>4, <2>5, OneTaskOnly DEF Skip, Shapes
<1>4. ASSUME NEW a \in Alerts, Write(w, a) PROVE IShapes'
  <2> DEFINE old == task[w].seen[a].state
             new == NewState(w, a)
             c == [old |-> old, new |-> new, at |-> now, read |-> task[w].read[a],
                   owed |-> subs[a]]
             t == [pc |-> IF old = "unknown" /\ new = "ok" THEN "check" ELSE "load",
                   seen |-> task[w].seen, read |-> task[w].read, todo |-> task[w].todo \ {a}, data |-> task[w].data,
                   about |-> a, number |-> Len(writes[a]) + 1, left |-> {}]
  <2>1. task[w] \in Checking \cup Writing
    BY <1>4, TaskShapes DEF Write
  <2>2. /\ task[w].seen \in Seen /\ task[w].todo \subseteq Alerts /\ task[w].data \in Value
        /\ task[w].read \in [Alerts -> Nat]
    BY <2>1 DEF Checking, Writing
  <2>3. old \in States /\ new \in States
    BY <2>2, NewStateIsState DEF Seen, AlertRow
  <2>4. writes[a] \in Seq(Commit) /\ Len(writes[a]) \in Nat
    BY DEF Shapes
  <2>5. c \in Commit
    BY <2>2, <2>3 DEF Commit, Shapes
  <2>6. Append(writes[a], c) \in Seq(Commit) /\ Len(Append(writes[a], c)) = Len(writes[a]) + 1
    BY <2>4, <2>5
  <2>7. writes' = [writes EXCEPT ![a] = Append(writes[a], c)]
    BY <1>4 DEF Write
  <2>8. t \in Writing /\ t.number = Len(writes[a]) + 1 /\ t.about = a
    BY <2>2, <2>4 DEF Writing
  <2>9. task' = [task EXCEPT ![w] = t]
    BY <1>4 DEF Write
  <2>10. alert' \in Seen
    <3>1. alert' = [alert EXCEPT ![a] = [alert[a] EXCEPT
                                  !.state = IF new = old THEN alert[a].state ELSE new, !.last = now]]
      BY <1>4 DEF Write, Shapes, Seen, AlertRow
    <3>2. [alert[a] EXCEPT !.state = IF new = old THEN alert[a].state ELSE new, !.last = now]
            \in AlertRow
      <4>1. alert[a] \in AlertRow /\ now \in 0..MaxTime
        BY BoundsAssumption DEF Shapes, Seen
      <4> HIDE DEF new, old
      <4> QED
        BY <2>3, <4>1 DEF AlertRow
    <3> QED
      BY <3>1, <3>2 DEF Shapes, Seen
  <2> HIDE DEF t, c
  <2>11. writes' \in [Alerts -> Seq(Commit)]
    BY <2>6, <2>7 DEF Shapes
  <2>12. \A b \in Alerts : Len(writes[b]) \in Nat /\ Len(writes[b]) <= Len(writes'[b])
    BY <2>4, <2>6, <2>7 DEF Shapes
  <2>13. Len(writes'[a]) = Len(writes[a]) + 1
    BY <2>6, <2>7 DEF Shapes
  <2>14. t.number <= Len(writes'[t.about])
    BY <2>4, <2>8, <2>13
  <2> QED
    BY <1>0, <1>4, <2>8, <2>9, <2>10, <2>11, <2>12, <2>14, OneTask DEF Write, Shapes
<1>5. ASSUME task' = [task EXCEPT ![w] = Idle],
             UNCHANGED <<now, resultVars, queue, alert, subs, writes>>
      PROVE  IShapes'
  <2>1. Idle \notin Writing
    BY DEF Idle, Writing
  <2> QED
    BY <1>5, <2>1, OneTaskOnly DEF Shapes
<1>6. ASSUME NEW a \in Alerts, WriteFails(w, a) PROVE IShapes'
  BY <1>5, <1>6 DEF WriteFails
<1>7. CASE End(w)
  BY <1>5, <1>7 DEF End
<1>8. CASE LoadSubscriptions(w)
  <2> DEFINE t == [task[w] EXCEPT !.pc = "notify", !.left = subs[task[w].about]]
  <2>1. task[w] \in Writing /\ task[w].number <= Len(writes[task[w].about])
    BY <1>8, TaskShapes DEF LoadSubscriptions, Numbered
  <2>2. subs[task[w].about] \in SUBSET Subscribers
    BY <2>1 DEF Writing, Shapes
  <2>3. t \in Writing /\ t.number = task[w].number /\ t.about = task[w].about
    BY <2>1, <2>2 DEF Writing
  <2>4. task' = [task EXCEPT ![w] = t]
    BY <1>8, <2>1 DEF LoadSubscriptions, Shapes, Writing
  <2> HIDE DEF t
  <2> QED
    BY <1>8, <2>1, <2>3, <2>4, OneTaskOnly DEF LoadSubscriptions, Shapes
<1>9. ASSUME NEW s \in Subscribers, Notify(w, s) PROVE IShapes'
  <2> DEFINE t == [task[w] EXCEPT !.left = task[w].left \ {s}]
             owed == writes[task[w].about][task[w].number].owed \ {s}
  <2>1. /\ task[w] \in Writing /\ task[w].about \in Alerts
        /\ task[w].number \in 1..Len(writes[task[w].about])
        /\ writes[task[w].about][task[w].number] \in Commit
    BY <1>9, TaskCommit DEF Notify
  <2>2. t \in Writing /\ t.number = task[w].number /\ t.about = task[w].about
    BY <2>1 DEF Writing
  <2>3. task' = [task EXCEPT ![w] = t]
    BY <1>9, <2>1 DEF Notify, Shapes, Writing
  <2>4. owed \in SUBSET Subscribers
    BY <2>1 DEF Commit
  <2>5. writes' = Owe(task[w].about, task[w].number, owed)
    BY <1>9 DEF Notify, Tried
  <2>6. \A b \in Alerts : Len(writes[b]) \in Nat
    BY DEF Shapes
  <2> HIDE DEF t, owed
  <2>7. /\ writes' \in [Alerts -> Seq(Commit)]
        /\ \A b \in Alerts : Len(writes'[b]) = Len(writes[b])
    BY <2>1, <2>4, <2>5, OweShape
  <2>8. t.number <= Len(writes'[t.about])
    BY <2>1, <2>2, <2>6, <2>7
  <2>9. \A b \in Alerts : Len(writes[b]) <= Len(writes'[b])
    BY <2>6, <2>7
  <2> QED
    BY <1>0, <1>9, <2>2, <2>3, <2>7, <2>8, <2>9, OneTask DEF Notify, Shapes
<1>10. CASE Notified(w)
  <2> DEFINE t == [task[w] EXCEPT !.pc = "check"]
  <2>1. task[w] \in Writing /\ task[w].number <= Len(writes[task[w].about])
    BY <1>10, TaskShapes DEF Notified, Numbered
  <2>2. t \in Writing /\ t.number = task[w].number /\ t.about = task[w].about
    BY <2>1 DEF Writing
  <2>3. task' = [task EXCEPT ![w] = t]
    BY <1>10, <2>1 DEF Notified, Shapes, Writing
  <2> HIDE DEF t
  <2> QED
    BY <1>10, <2>1, <2>2, <2>3, OneTaskOnly DEF Notified, Shapes
<1>11. CASE WorkerLost(w)
  <2>1. CASE task[w].pc \in {"load", "notify"}
    <3>1. /\ task[w].about \in Alerts /\ task[w].number \in 1..Len(writes[task[w].about])
      BY <2>1, TaskCommit
    <3>2. /\ writes' \in [Alerts -> Seq(Commit)]
          /\ \A b \in Alerts : Len(writes'[b]) = Len(writes[b])
      BY <1>11, <2>1, <3>1, OweShape DEF WorkerLost
    <3>3. \A b \in Alerts : Len(writes[b]) \in Nat
      BY DEF Shapes
    <3>4. \A b \in Alerts : Len(writes[b]) <= Len(writes'[b])
      BY <3>2, <3>3
    <3>5. Idle \notin Writing
      BY DEF Idle, Writing
    <3> QED
      BY <1>0, <1>11, <3>2, <3>4, <3>5, OneTask DEF WorkerLost, Shapes
  <2>2. CASE task[w].pc \notin {"load", "notify"}
    BY <1>5, <1>11, <2>2 DEF WorkerLost
  <2> QED
    BY <2>1, <2>2
<1> QED
  BY <1>1, <1>2, <1>3, <1>4, <1>6, <1>7, <1>8, <1>9, <1>10, <1>11 DEF TaskStep

\* Every reachable state has the shapes.
LEMMA ShapesHold == Spec => []IShapes
<1>1. IShapes /\ [Next]_vars => IShapes'
  BY OthersKeepShapes, TasksKeepShapes DEF Next
<1> QED  BY InitShapes, <1>1, PTL DEF Spec

-----------------------------------------------------------------------------
(* An alert has no more commits than its query has results: what is still  *)
(* to be done about the alert, by executors, the broker and the tasks, is  *)
(* counted too.                                                            *)

Pending(a) == {w \in Workers : task[w].pc # "idle" /\ a \in task[w].todo}

Counted ==
  /\ unsent + queue <= results
  /\ \A a \in Alerts : Len(writes[a]) + Cardinality(Pending(a)) + unsent + queue <= results

LEMMA PendingSize ==
  ASSUME NEW a \in Alerts
  PROVE  /\ IsFiniteSet(Pending(a)) /\ Cardinality(Pending(a)) \in Nat
         /\ IsFiniteSet(Pending(a)') /\ Cardinality(Pending(a)') \in Nat
<1>1. Pending(a) \subseteq Workers /\ Pending(a)' \subseteq Workers
  BY DEF Pending
<1>2. IsFiniteSet(Pending(a)) /\ IsFiniteSet(Pending(a)')
  BY <1>1, WorkersAssumption, FS_Subset
<1> QED  BY <1>2, FS_CardinalityType

LEMMA Sizes ==
  ASSUME IShapes
  PROVE  /\ results \in Nat /\ unsent \in Nat /\ queue \in Nat
         /\ \A a \in Alerts : Len(writes[a]) \in Nat
BY BoundsAssumption DEF IShapes, Shapes

LEMMA Sums ==
  ASSUME NEW u \in Nat, NEW q \in Nat, NEW r \in Nat,
         NEW u2 \in Nat, NEW q2 \in Nat, NEW r2 \in Nat,
         u2 + q2 + r <= u + q + r2
  PROVE  u + q <= r => u2 + q2 <= r2
OBVIOUS

LEMMA LongSums ==
  ASSUME NEW u \in Nat, NEW q \in Nat, NEW r \in Nat,
         NEW u2 \in Nat, NEW q2 \in Nat, NEW r2 \in Nat,
         NEW n \in Nat, NEW p \in Nat, NEW p2 \in Nat,
         u2 + q2 + r <= u + q + r2, p2 <= p, n + p + u + q <= r
  PROVE  n + p2 + u2 + q2 <= r2
OBVIOUS

\* The sums do not grow if their parts do not.
LEMMA SumsStay ==
  ASSUME IShapes, Counted, unsent' \in Nat, queue' \in Nat, results' \in Nat,
         unsent' + queue' + results <= unsent + queue + results',
         \A a \in Alerts : Len(writes'[a]) = Len(writes[a]),
         \A a \in Alerts : Pending(a)' \subseteq Pending(a)
  PROVE  Counted'
<1>1. results \in Nat /\ unsent \in Nat /\ queue \in Nat
  BY Sizes
<1>2. unsent' + queue' <= results'
  BY <1>1, Sums DEF Counted
<1>3. ASSUME NEW a \in Alerts
      PROVE  Len(writes'[a]) + Cardinality(Pending(a)') + unsent' + queue' <= results'
  <2> DEFINE n == Len(writes[a])
             p == Cardinality(Pending(a))
             q == Cardinality(Pending(a)')
  <2>1. n \in Nat /\ p \in Nat /\ q \in Nat
    BY Sizes, PendingSize
  <2>2. q <= p
    BY PendingSize, FS_Subset
  <2>3. n + p + unsent + queue <= results
    BY DEF Counted
  <2>4. Len(writes'[a]) = n
    OBVIOUS
  <2> HIDE DEF n, p
  <2>5. n + q + unsent' + queue' <= results'
    <3> HIDE DEF q
    <3> QED
      BY <1>1, <2>1, <2>2, <2>3, LongSums
  <2> QED
    BY <2>4, <2>5
<1> QED  BY <1>2, <1>3 DEF Counted

LEMMA InitCounted == Init => Counted
<1> SUFFICES ASSUME Init PROVE Counted
  OBVIOUS
<1>1. \A a \in Alerts : Pending(a) = {}
  BY DEF Init, Pending, Idle
<1>2. Cardinality({}) = 0
  BY FS_EmptySet
<1>3. \A a \in Alerts : Len(writes[a]) = 0
  BY DEF Init
<1>4. results = 0 /\ unsent = 0 /\ queue = 0
  BY DEF Init
<1>5. \A a \in Alerts : Cardinality(Pending(a)) = 0
  BY <1>1, <1>2
<1> QED  BY <1>3, <1>4, <1>5 DEF Counted

\* What does not touch the tasks.
LEMMA OthersKeepCount ==
  ASSUME IShapes, Counted,
         \/ Tick \/ NewResult \/ QueueCheck \/ ExecutorLost
         \/ \E a \in Alerts, o \in SUBSET Values : Create(a, o) \/ Edit(a, o)
         \/ \E a \in Alerts : Delete(a)
         \/ \E a \in Alerts, s \in Subscribers : Subscribe(a, s) \/ Unsubscribe(a, s)
         \/ UNCHANGED vars
  PROVE  Counted'
<1>1. \A a \in Alerts : Pending(a)' = Pending(a)
  BY DEF Tick, NewResult, QueueCheck, ExecutorLost, Create, Edit, Delete, Subscribe,
         Unsubscribe, vars, Pending
<1>2. \A a \in Alerts : Len(writes'[a]) = Len(writes[a])
  <2>1. ASSUME NEW b \in Alerts, NEW S, writes' = OweOnly(b, S)
        PROVE  \A a \in Alerts : Len(writes'[a]) = Len(writes[a])
    BY <2>1, OweOnlyShape DEF IShapes
  <2> QED
    BY <2>1 DEF Tick, NewResult, QueueCheck, ExecutorLost, Create, Edit, Delete, Subscribe,
                Unsubscribe, vars
<1>3. unsent' + queue' + results <= unsent + queue + results'
  BY Sizes DEF Tick, NewResult, QueueCheck, ExecutorLost, Create, Edit, Delete, Subscribe,
               Unsubscribe, vars, resultVars
<1>4. unsent' \in Nat /\ queue' \in Nat /\ results' \in Nat
  BY Sizes DEF Tick, NewResult, QueueCheck, ExecutorLost, Create, Edit, Delete, Subscribe,
               Unsubscribe, vars, resultVars
<1> QED  BY <1>1, <1>2, <1>3, <1>4, SumsStay

\* A step that lets no task begin takes nothing from the broker.
LEMMA TasksKeepCount ==
  ASSUME IShapes, IShapes', Counted, NEW w \in Workers, TaskStep(w) \/ WorkerLost(w)
  PROVE  Counted'
<1>1. results \in Nat /\ unsent \in Nat /\ queue \in Nat
  BY Sizes
<1>2. task \in [Workers -> {Idle} \cup Reading \cup Checking \cup Writing]
  BY DEF IShapes, Shapes
<1>3. ASSUME UNCHANGED <<resultVars, queue>>, \A a \in Alerts : Pending(a)' \subseteq Pending(a),
             \A a \in Alerts : Len(writes'[a]) = Len(writes[a])
      PROVE  Counted'
  <2>1. UNCHANGED <<results, unsent, queue>>
    BY <1>3 DEF resultVars
  <2> QED
    BY <1>1, <1>3, <2>1, SumsStay
<1>4. CASE Begin(w)
  <2>1. \A a \in Alerts : Pending(a)' \subseteq Pending(a) \cup {w}
    BY <1>2, <1>4 DEF Begin, Pending
  <2>2. queue' = queue - 1 /\ queue > 0 /\ UNCHANGED <<results, unsent, writes>>
    BY <1>4 DEF Begin, resultVars
  <2>3. ASSUME NEW a \in Alerts
        PROVE  Len(writes'[a]) + Cardinality(Pending(a)') + unsent' + queue' <= results'
    <3> DEFINE n == Len(writes[a])
               p == Cardinality(Pending(a))
               q == Cardinality(Pending(a)')
    <3>1. /\ IsFiniteSet(Pending(a) \cup {w})
          /\ Cardinality(Pending(a) \cup {w}) = IF w \in Pending(a) THEN p ELSE p + 1
      BY PendingSize, FS_AddElement
    <3>2. q <= Cardinality(Pending(a) \cup {w})
      BY <2>1, <3>1, FS_Subset
    <3>3. n \in Nat /\ p \in Nat /\ q \in Nat
      BY Sizes, PendingSize
    <3>4. q <= p + 1
      <4> HIDE DEF q, p
      <4> QED
        BY <3>1, <3>2, <3>3
    <3>5. n + p + unsent + queue <= results
      BY DEF Counted
    <3>6. Len(writes'[a]) = n
      BY <2>2
    <3> HIDE DEF n, p, q
    <3>7. n + q + unsent' + queue' <= results'
      BY <1>1, <2>2, <3>3, <3>4, <3>5
    <3> QED
      BY <3>6, <3>7 DEF q
  <2> QED
    BY <1>1, <2>2, <2>3 DEF Counted
<1>5. ASSUME NEW a \in Alerts, Write(w, a) PROVE Counted'
  <2>1. w \in Pending(a) /\ w \notin Pending(a)'
    BY <1>2, <1>5 DEF Write, Pending
  <2>2. \A b \in Alerts : Pending(b)' \subseteq Pending(b)
    BY <1>2, <1>5 DEF Write, Pending
  <2>3. Len(writes'[a]) = Len(writes[a]) + 1 /\ \A b \in Alerts \ {a} : writes'[b] = writes[b]
    BY <1>5 DEF Write, IShapes, Shapes
  <2>4. UNCHANGED <<results, unsent, queue>>
    BY <1>5 DEF Write, resultVars
  <2>5. ASSUME NEW b \in Alerts
        PROVE  Len(writes'[b]) + Cardinality(Pending(b)') + unsent' + queue' <= results'
    <3> DEFINE n == Len(writes[b])
               p == Cardinality(Pending(b))
               q == Cardinality(Pending(b)')
               m == Len(writes'[b])
    <3>1. n \in Nat /\ p \in Nat /\ q \in Nat
      BY Sizes, PendingSize
    <3>2. m + q <= n + p /\ m \in Nat
      <4>1. CASE b = a
        <5>1. IsFiniteSet(Pending(a) \ {w}) /\ Cardinality(Pending(a) \ {w}) = p - 1
          BY <2>1, <4>1, PendingSize, FS_RemoveElement
        <5>2. Pending(a)' \subseteq Pending(a) \ {w}
          BY <2>1, <2>2
        <5>3. q <= p - 1
          BY <4>1, <5>1, <5>2, FS_Subset
        <5>4. m = n + 1
          BY <2>3, <4>1
        <5> HIDE DEF m, n, p, q
        <5> QED
          BY <3>1, <5>3, <5>4
      <4>2. CASE b # a
        <5>1. q <= p
          BY <2>2, PendingSize, FS_Subset
        <5>2. m = n
          BY <2>3, <4>2
        <5> HIDE DEF m, n, p, q
        <5> QED
          BY <3>1, <5>1, <5>2
      <4> QED
        BY <4>1, <4>2
    <3>3. n + p + unsent + queue <= results
      BY DEF Counted
    <3> HIDE DEF m, n, p, q
    <3>4. m + q + unsent' + queue' <= results'
      BY <1>1, <2>4, <3>1, <3>2, <3>3
    <3> QED
      BY <3>4 DEF m, q
  <2> QED
    BY <2>4, <2>5 DEF Counted
<1>6. CASE ReadResult(w) \/ LoadSubscriptions(w) \/ Notified(w) \/ End(w)
  <2>1. task[w].pc # "idle" /\ \A v \in Workers : v # w => task'[v] = task[v]
    BY <1>2, <1>6 DEF ReadResult, LoadSubscriptions, Notified, End
  <2>2. task'[w].pc # "idle" => task'[w].todo = task[w].todo
    BY <1>2, <1>6 DEF ReadResult, LoadSubscriptions, Notified, End, Idle, Reading, Checking, Writing
  <2>3. \A a \in Alerts : Pending(a)' \subseteq Pending(a)
    BY <2>1, <2>2 DEF Pending
  <2> QED
    BY <1>3, <1>6, <2>3 DEF ReadResult, LoadSubscriptions, Notified, End
<1>7. ASSUME NEW a \in Alerts, Skip(w, a) \/ WriteFails(w, a) PROVE Counted'
  <2>1. task[w].pc # "idle" /\ \A v \in Workers : v # w => task'[v] = task[v]
    BY <1>2, <1>7 DEF Skip, WriteFails
  <2>2. task'[w].pc # "idle" => task'[w].todo \subseteq task[w].todo
    <3>1. CASE Skip(w, a)
      <4>1. task' = [task EXCEPT ![w] = [task[w] EXCEPT !.todo = task[w].todo \ {a}]]
        BY <1>2, <3>1 DEF Skip
      <4>2. task[w] \in Checking \cup Writing
        BY <3>1, TaskShapes DEF Skip, IShapes
      <4> QED
        BY <1>2, <4>1, <4>2 DEF Checking, Writing
    <3>2. CASE WriteFails(w, a)
      BY <1>2, <3>2 DEF WriteFails, Idle
    <3> QED
      BY <1>7, <3>1, <3>2
  <2>3. \A b \in Alerts : Pending(b)' \subseteq Pending(b)
    BY <2>1, <2>2 DEF Pending
  <2> QED
    BY <1>3, <1>7, <2>3 DEF Skip, WriteFails
<1>8. ASSUME NEW s \in Subscribers, Notify(w, s) PROVE Counted'
  <2>1. \A a \in Alerts : Pending(a)' \subseteq Pending(a)
    BY <1>2, <1>8 DEF Notify, Pending
  <2>2. /\ task[w].about \in Alerts /\ task[w].number \in 1..Len(writes[task[w].about])
        /\ writes[task[w].about][task[w].number] \in Commit
    BY <1>8, TaskCommit DEF Notify, IShapes
  <2>3. \A a \in Alerts : Len(writes'[a]) = Len(writes[a])
    <3> DEFINE b == task[w].about
               n == task[w].number
               S == writes[b][n].owed \ {s}
    <3>1. writes' = Owe(b, n, S)
      BY <1>8 DEF Notify, Tried
    <3>2. S \in SUBSET Subscribers
      BY <2>2 DEF Commit
    <3>3. Shapes /\ b \in Alerts /\ n \in 1..Len(writes[b])
      BY <2>2 DEF IShapes
    <3> HIDE DEF b, n, S
    <3> QED
      BY <3>1, <3>2, <3>3, OweShape
  <2> QED
    BY <1>3, <1>8, <2>1, <2>3 DEF Notify
<1>9. CASE WorkerLost(w)
  <2>1. \A a \in Alerts : Pending(a)' \subseteq Pending(a)
    BY <1>2, <1>9 DEF WorkerLost, Pending, Idle
  <2>2. \A a \in Alerts : Len(writes'[a]) = Len(writes[a])
    BY <1>9, TaskCommit, OweShape DEF WorkerLost, IShapes
  <2> QED
    BY <1>3, <1>9, <2>1, <2>2 DEF WorkerLost
<1> QED  BY <1>4, <1>5, <1>6, <1>7, <1>8, <1>9 DEF TaskStep

\* Every reachable state has the shapes and the count.
LEMMA CountHolds == Spec => [](IShapes /\ Counted)
<1>1. IShapes /\ Counted /\ [Next]_vars => (IShapes /\ Counted)'
  BY OthersKeepShapes, TasksKeepShapes, OthersKeepCount, TasksKeepCount DEF Next
<1> QED  BY InitShapes, InitCounted, <1>1, PTL DEF Spec

\* The types (redash/tasks/alerts.py, models.Alert): the bounds of the queue and
\* of a task's commit follow from the count.
THEOREM AlertTypesCorrect == Spec => []TypeOK
<1>1. IShapes /\ Counted => TypeOK
  <2> SUFFICES ASSUME IShapes, Counted PROVE TypeOK
    OBVIOUS
  <2>1. unsent \in 0..MaxResults /\ queue \in 0..MaxResults /\ results \in 0..MaxResults
    BY BoundsAssumption DEF IShapes, Shapes, Counted
  <2>2. \A a \in Alerts : Len(writes[a]) \in Nat /\ Len(writes[a]) <= MaxResults
    <3> SUFFICES ASSUME NEW a \in Alerts PROVE Len(writes[a]) \in Nat /\ Len(writes[a]) <= MaxResults
      OBVIOUS
    <3> DEFINE n == Len(writes[a])
               p == Cardinality(Pending(a))
    <3>1. n \in Nat /\ p \in Nat
      BY Sizes, PendingSize
    <3>2. n + p + unsent + queue <= results
      BY DEF Counted
    <3> HIDE DEF n, p
    <3>3. n <= MaxResults
      BY <2>1, <3>1, <3>2, BoundsAssumption
    <3> QED
      BY <3>1, <3>3 DEF n
  <2>3. \A a \in Alerts : \A i \in DOMAIN writes[a] :
          writes[a][i] \in [old : States, new : States, at : 1..MaxTime, read : Nat,
                            owed : SUBSET Subscribers]
    <3> SUFFICES ASSUME NEW a \in Alerts, NEW i \in DOMAIN writes[a] PROVE writes[a][i] \in Commit
      BY DEF Commit
    <3>1. writes[a] \in Seq(Commit)
      BY DEF IShapes, Shapes
    <3> QED
      BY <3>1
  <2>4. ASSUME NEW w \in Workers, task[w] \in Writing
        PROVE  task[w].number \in 1..MaxResults
    <3>1. task[w].about \in Alerts /\ task[w].number \in Nat \ {0}
      BY <2>4 DEF Writing
    <3>2. task[w].number <= Len(writes[task[w].about])
      BY <2>4 DEF IShapes, Numbered
    <3> QED
      BY <2>2, <3>1, <3>2, BoundsAssumption
  <2>5. \A w \in Workers :
          task[w] \in {Idle} \cup [pc : {"data"}, seen : Seen, read : Counts, todo : SUBSET Alerts]
            \cup [pc : {"check"}, seen : Seen, read : Counts, todo : SUBSET Alerts, data : Value]
            \cup [pc : {"check", "load", "notify"}, seen : Seen, read : Counts,
                  todo : SUBSET Alerts, data : Value, about : Alerts, number : 1..MaxResults, left : SUBSET Subscribers]
    BY <2>4 DEF IShapes, Shapes, Reading, Checking, Writing, Counts
  <2> QED
    BY <2>1, <2>3, <2>5 DEF TypeOK, IShapes, Shapes
<1> QED  BY <1>1, CountHolds, PTL

-----------------------------------------------------------------------------
(* Who is owed the news of a commit is still subscribed, and the task that *)
(* made the commit will reach him.                                         *)

Owing == \A a \in Alerts : \A i \in DOMAIN writes[a] : writes[a][i].owed \subseteq subs[a]

Tells(w, a, i, s) ==
  /\ task[w].pc \in {"load", "notify"}
  /\ task[w].about = a /\ task[w].number = i
  /\ task[w].pc = "notify" => s \in task[w].left

\* The commits are the same, and owe the news to no more.
NoMoreOwed ==
  \A a \in Alerts :
    /\ DOMAIN writes'[a] = DOMAIN writes[a]
    /\ \A i \in DOMAIN writes[a] :
         /\ writes'[a][i].old = writes[a][i].old /\ writes'[a][i].new = writes[a][i].new
         /\ writes'[a][i].at = writes[a][i].at /\ writes'[a][i].read = writes[a][i].read
         /\ writes'[a][i].owed \subseteq writes[a][i].owed

LEMMA OweOnlyOwesLess ==
  ASSUME IShapes, NEW a \in Alerts, NEW S, writes' = OweOnly(a, S)
  PROVE  NoMoreOwed /\ \A i \in DOMAIN writes[a] : writes'[a][i].owed \subseteq S
<1>1. writes \in [Alerts -> Seq(Commit)]
  BY DEF IShapes, Shapes
<1>2. writes'[a] = [i \in DOMAIN writes[a] |-> [writes[a][i] EXCEPT !.owed = writes[a][i].owed \cap S]]
  BY <1>1 DEF OweOnly
<1>3. \A b \in Alerts \ {a} : writes'[b] = writes[b]
  BY <1>1 DEF OweOnly
<1>4. ASSUME NEW i \in DOMAIN writes[a]
      PROVE  /\ writes'[a][i].old = writes[a][i].old /\ writes'[a][i].new = writes[a][i].new
             /\ writes'[a][i].at = writes[a][i].at /\ writes'[a][i].read = writes[a][i].read
             /\ writes'[a][i].owed = writes[a][i].owed \cap S
  <2>1. writes[a][i] \in Commit
    BY <1>1, <1>4
  <2>2. writes'[a][i] = [writes[a][i] EXCEPT !.owed = writes[a][i].owed \cap S]
    BY <1>2, <1>4
  <2> QED
    BY <2>1, <2>2 DEF Commit
<1>5. DOMAIN writes'[a] = DOMAIN writes[a]
  BY <1>2
<1> QED  BY <1>3, <1>4, <1>5 DEF NoMoreOwed

LEMMA OweOwesLess ==
  ASSUME IShapes, NEW a \in Alerts, NEW n \in 1..Len(writes[a]),
         NEW S \in SUBSET writes[a][n].owed, writes' = Owe(a, n, S)
  PROVE  NoMoreOwed /\ writes'[a][n].owed = S
<1>1. writes \in [Alerts -> Seq(Commit)]
  BY DEF IShapes, Shapes
<1>2. writes'[a] = [writes[a] EXCEPT ![n] = [writes[a][n] EXCEPT !.owed = S]]
  BY <1>1 DEF Owe
<1>3. \A b \in Alerts \ {a} : writes'[b] = writes[b]
  BY <1>1 DEF Owe
<1>4. n \in DOMAIN writes[a] /\ writes[a][n] \in Commit
  BY <1>1
<1>5. writes'[a][n] = [writes[a][n] EXCEPT !.owed = S]
  BY <1>2, <1>4
<1>6. /\ writes'[a][n].old = writes[a][n].old /\ writes'[a][n].new = writes[a][n].new
      /\ writes'[a][n].at = writes[a][n].at /\ writes'[a][n].read = writes[a][n].read
      /\ writes'[a][n].owed = S
  BY <1>4, <1>5 DEF Commit
<1>7. \A i \in DOMAIN writes[a] \ {n} : writes'[a][i] = writes[a][i]
  BY <1>2
<1>8. DOMAIN writes'[a] = DOMAIN writes[a]
  BY <1>2
<1> QED  BY <1>3, <1>6, <1>7, <1>8 DEF NoMoreOwed

\* Nobody is lost while the other tasks stay as they are, and this one still
\* tells whom it would have told.
LEMMA StillTold ==
  ASSUME IShapes, EverybodyIsTold, NoMoreOwed, NEW w \in Workers,
         \A v \in Workers : v # w => task'[v] = task[v],
         \A a \in Alerts : \A i \in DOMAIN writes[a] : \A s \in writes'[a][i].owed :
           Tells(w, a, i, s) => Tells(w, a, i, s)'
  PROVE  EverybodyIsTold'
<1> SUFFICES ASSUME NEW a \in Alerts, NEW i \in DOMAIN writes'[a], NEW s \in writes'[a][i].owed
             PROVE  \/ writes'[a][i].old = "unknown" /\ writes'[a][i].new = "ok"
                    \/ \E v \in Workers : Tells(v, a, i, s)'
  BY DEF EverybodyIsTold, Tells
<1>1. /\ i \in DOMAIN writes[a] /\ s \in writes[a][i].owed
      /\ writes'[a][i].old = writes[a][i].old /\ writes'[a][i].new = writes[a][i].new
  BY DEF NoMoreOwed
<1>2. CASE writes[a][i].old = "unknown" /\ writes[a][i].new = "ok"
  BY <1>1, <1>2
<1>3. ASSUME NEW v \in Workers, Tells(v, a, i, s)
      PROVE  Tells(v, a, i, s)'
  <2>1. CASE v = w
    BY <1>1, <1>3, <2>1
  <2>2. CASE v # w
    BY <1>3, <2>2 DEF Tells
  <2> QED
    BY <2>1, <2>2
<1> QED  BY <1>1, <1>2, <1>3 DEF EverybodyIsTold, Tells

\* Without a task's step: subscriptions may be added, or removed with what is owed.
LEMMA OthersKeepTold ==
  ASSUME IShapes, Owing, EverybodyIsTold,
         \/ Tick \/ NewResult \/ QueueCheck \/ ExecutorLost
         \/ \E a \in Alerts, o \in SUBSET Values : Create(a, o) \/ Edit(a, o)
         \/ \E a \in Alerts : Delete(a)
         \/ \E a \in Alerts, s \in Subscribers : Subscribe(a, s) \/ Unsubscribe(a, s)
         \/ UNCHANGED vars
  PROVE  Owing' /\ EverybodyIsTold'
<1>1. task' = task
  BY DEF Tick, NewResult, QueueCheck, ExecutorLost, Create, Edit, Delete, Subscribe,
         Unsubscribe, vars
<1>2. ASSUME NoMoreOwed PROVE EverybodyIsTold'
  BY <1>1, <1>2 DEF EverybodyIsTold, NoMoreOwed
<1>3. ASSUME UNCHANGED <<writes, subs>> PROVE Owing' /\ EverybodyIsTold'
  BY <1>1, <1>3 DEF Owing, EverybodyIsTold
<1>4. ASSUME NEW a \in Alerts, Delete(a) PROVE Owing' /\ EverybodyIsTold'
  <2>1. NoMoreOwed /\ \A i \in DOMAIN writes[a] : writes'[a][i].owed \subseteq {}
    BY <1>4, OweOnlyOwesLess DEF Delete
  <2>2. \A b \in Alerts \ {a} : subs'[b] = subs[b]
    BY <1>4 DEF Delete, IShapes, Shapes
  <2> QED
    BY <1>2, <2>1, <2>2 DEF Owing, NoMoreOwed
<1>5. ASSUME NEW a \in Alerts, NEW s \in Subscribers, Subscribe(a, s)
      PROVE  Owing' /\ EverybodyIsTold'
  <2>1. \A b \in Alerts : subs[b] \subseteq subs'[b]
    BY <1>5 DEF Subscribe, IShapes, Shapes
  <2>2. writes' = writes
    BY <1>5 DEF Subscribe
  <2>3. Owing'
    BY <2>1, <2>2 DEF Owing
  <2>4. EverybodyIsTold'
    BY <1>1, <2>2 DEF EverybodyIsTold
  <2> QED
    BY <2>3, <2>4
<1>6. ASSUME NEW a \in Alerts, NEW s \in Subscribers, Unsubscribe(a, s)
      PROVE  Owing' /\ EverybodyIsTold'
  <2>1. NoMoreOwed /\ \A i \in DOMAIN writes[a] : writes'[a][i].owed \subseteq subs'[a]
    BY <1>6, OweOnlyOwesLess DEF Unsubscribe
  <2>2. \A b \in Alerts \ {a} : subs'[b] = subs[b]
    BY <1>6 DEF Unsubscribe, IShapes, Shapes
  <2> QED
    BY <1>2, <2>1, <2>2 DEF Owing, NoMoreOwed
<1> QED
  BY <1>3, <1>4, <1>5, <1>6 DEF Tick, NewResult, QueueCheck, ExecutorLost, Create, Edit, vars

\* A task that neither writes nor notifies leaves the commits alone.
LEMMA TasksKeepTold ==
  ASSUME IShapes, Owing, EverybodyIsTold, NEW w \in Workers, TaskStep(w) \/ WorkerLost(w)
  PROVE  Owing' /\ EverybodyIsTold'
<1>0. Shapes /\ Numbered
  BY DEF IShapes
<1>1. ASSUME UNCHANGED <<writes, subs>>, \A v \in Workers : v # w => task'[v] = task[v],
             \A a \in Alerts : \A i \in DOMAIN writes[a] : \A s \in writes[a][i].owed :
               Tells(w, a, i, s) => Tells(w, a, i, s)'
      PROVE  Owing' /\ EverybodyIsTold'
  <2>1. NoMoreOwed
    BY <1>1 DEF NoMoreOwed
  <2>2. EverybodyIsTold'
    BY <1>1, <2>1, StillTold
  <2>3. Owing'
    BY <1>1 DEF Owing
  <2> QED
    BY <2>2, <2>3
<1>2. ASSUME Begin(w) \/ ReadResult(w) \/ End(w) \/ \E a \in Alerts : Skip(w, a) \/ WriteFails(w, a)
      PROVE  Owing' /\ EverybodyIsTold'
  <2>1. task[w].pc \notin {"load", "notify"}
    BY <1>2 DEF Begin, ReadResult, End, Skip, WriteFails
  <2>2. UNCHANGED <<writes, subs>> /\ \A v \in Workers : v # w => task'[v] = task[v]
    BY <1>0, <1>2 DEF Begin, ReadResult, End, Skip, WriteFails, Shapes
  <2> QED
    BY <1>1, <2>1, <2>2 DEF Tells
<1>3. CASE LoadSubscriptions(w)
  <2>1. UNCHANGED <<writes, subs>> /\ \A v \in Workers : v # w => task'[v] = task[v]
    BY <1>0, <1>3 DEF LoadSubscriptions, Shapes
  <2>2. task[w] \in Writing
    BY <1>0, <1>3, TaskShapes DEF LoadSubscriptions
  <2>3. /\ task'[w].pc = "notify" /\ task'[w].left = subs[task[w].about]
        /\ task'[w].about = task[w].about /\ task'[w].number = task[w].number
    BY <1>0, <1>3, <2>2 DEF LoadSubscriptions, Shapes, Writing
  <2> QED
    BY <1>1, <2>1, <2>3 DEF Tells, Owing
<1>4. CASE Notified(w)
  <2>1. UNCHANGED <<writes, subs>> /\ \A v \in Workers : v # w => task'[v] = task[v]
    BY <1>0, <1>4 DEF Notified, Shapes
  <2>2. task[w].pc = "notify" /\ task[w].left = {}
    BY <1>4 DEF Notified
  <2> QED
    BY <1>1, <2>1, <2>2 DEF Tells
<1>5. ASSUME NEW s \in Subscribers, Notify(w, s) PROVE Owing' /\ EverybodyIsTold'
  <2> DEFINE a == task[w].about
             n == task[w].number
             owed == writes[a][n].owed \ {s}
  <2>1. task[w] \in Writing /\ a \in Alerts /\ n \in 1..Len(writes[a])
    BY <1>0, <1>5, TaskCommit DEF Notify
  <2>2. writes' = Owe(a, n, owed)
    BY <1>5 DEF Notify, Tried
  <2>3. NoMoreOwed /\ writes'[a][n].owed = owed
    <3>1. owed \in SUBSET writes[a][n].owed
      OBVIOUS
    <3> HIDE DEF owed
    <3> QED
      BY <2>1, <2>2, <3>1, OweOwesLess
  <2>4. /\ task'[w].pc = "notify" /\ task'[w].left = task[w].left \ {s}
        /\ task'[w].about = a /\ task'[w].number = n
    BY <1>0, <1>5, <2>1 DEF Notify, Shapes, Writing
  <2>5. \A v \in Workers : v # w => task'[v] = task[v]
    BY <1>0, <1>5 DEF Notify, Shapes
  <2>6. subs' = subs
    BY <1>5 DEF Notify
  <2>7. ASSUME NEW b \in Alerts, NEW i \in DOMAIN writes[b], NEW t \in writes'[b][i].owed,
               Tells(w, b, i, t)
        PROVE  Tells(w, b, i, t)'
    <3>1. b = a /\ i = n /\ task[w].pc = "notify" /\ t \in task[w].left
      BY <1>5, <2>7 DEF Tells, Notify
    <3>2. t # s
      BY <2>3, <2>7, <3>1
    <3> QED
      BY <2>4, <3>1, <3>2 DEF Tells
  <2>8. EverybodyIsTold'
    BY <2>3, <2>5, <2>7, StillTold
  <2>9. Owing'
    BY <2>3, <2>6 DEF Owing, NoMoreOwed
  <2> QED
    BY <2>8, <2>9
<1>6. CASE WorkerLost(w)
  <2>1. \A v \in Workers : v # w => task'[v] = task[v]
    BY <1>0, <1>6 DEF WorkerLost, Shapes
  <2>2. subs' = subs
    BY <1>6 DEF WorkerLost
  <2>3. CASE task[w].pc \in {"load", "notify"}
    <3> DEFINE a == task[w].about
               n == task[w].number
    <3>1. a \in Alerts /\ n \in 1..Len(writes[a])
      BY <1>0, <2>3, TaskCommit
    <3>2. writes' = Owe(a, n, {})
      BY <1>6, <2>3 DEF WorkerLost
    <3>3. NoMoreOwed /\ writes'[a][n].owed = {}
      BY <3>1, <3>2, OweOwesLess
    <3>4. \A b \in Alerts : \A i \in DOMAIN writes[b] : \A t \in writes'[b][i].owed :
            ~Tells(w, b, i, t)
      BY <3>3 DEF Tells
    <3>5. EverybodyIsTold'
      BY <2>1, <3>3, <3>4, StillTold
    <3>6. Owing'
      BY <2>2, <3>3 DEF Owing, NoMoreOwed
    <3> QED
      BY <3>5, <3>6
  <2>4. CASE task[w].pc \notin {"load", "notify"}
    BY <1>1, <1>6, <2>1, <2>2, <2>4 DEF WorkerLost, Tells
  <2> QED
    BY <2>3, <2>4
<1>7. ASSUME NEW a \in Alerts, Write(w, a) PROVE Owing' /\ EverybodyIsTold'
  <2> DEFINE c == [old |-> task[w].seen[a].state, new |-> NewState(w, a), at |-> now,
                   read |-> task[w].read[a], owed |-> subs[a]]
             n == Len(writes[a])
  <2>1. writes' = [writes EXCEPT ![a] = Append(writes[a], c)] /\ subs' = subs
    BY <1>7 DEF Write
  <2>2. writes[a] \in Seq(Commit) /\ n \in Nat
    BY <1>0 DEF Shapes
  <2>3. \A b \in Alerts \ {a} : writes'[b] = writes[b]
    BY <1>0, <2>1 DEF Shapes
  <2>4. writes'[a] = Append(writes[a], c)
    BY <1>0, <2>1 DEF Shapes
  <2>5. /\ DOMAIN writes'[a] = 1..(n + 1) /\ DOMAIN writes[a] = 1..n
        /\ writes'[a][n + 1] = c /\ \A i \in 1..n : writes'[a][i] = writes[a][i]
    <3> HIDE DEF c
    <3> QED
      BY <2>2, <2>4
  <2>6. \A v \in Workers : v # w => task'[v] = task[v]
    BY <1>0, <1>7 DEF Write, Shapes
  <2>7. \/ c.old = "unknown" /\ c.new = "ok"
        \/ task'[w].pc = "load" /\ task'[w].about = a /\ task'[w].number = n + 1
    <3>1. task'[w] = [pc |-> IF c.old = "unknown" /\ c.new = "ok" THEN "check" ELSE "load",
                      seen |-> task[w].seen, read |-> task[w].read,
                      todo |-> task[w].todo \ {a}, data |-> task[w].data, about |-> a, number |-> n + 1, left |-> {}]
      BY <1>0, <1>7 DEF Write, Shapes
    <3> HIDE DEF c, n
    <3> QED
      BY <3>1
  <2>8. task[w].pc = "check"
    BY <1>7 DEF Write
  <2>9. Owing'
    <3> SUFFICES ASSUME NEW b \in Alerts, NEW i \in DOMAIN writes'[b]
                 PROVE  writes'[b][i].owed \subseteq subs[b]
      BY <2>1 DEF Owing
    <3>1. CASE b # a
      BY <2>3, <3>1 DEF Owing
    <3>2. CASE b = a /\ i = n + 1
      BY <2>5, <3>2
    <3>3. CASE b = a /\ i \in 1..n
      BY <2>5, <3>3 DEF Owing
    <3> QED
      BY <2>2, <2>5, <3>1, <3>2, <3>3
  <2>10. EverybodyIsTold'
    <3> SUFFICES ASSUME NEW b \in Alerts, NEW i \in DOMAIN writes'[b], NEW t \in writes'[b][i].owed
                 PROVE  \/ writes'[b][i].old = "unknown" /\ writes'[b][i].new = "ok"
                        \/ \E v \in Workers : Tells(v, b, i, t)'
      BY DEF EverybodyIsTold, Tells
    <3>1. CASE b = a /\ i = n + 1
      <4>1. writes'[b][i] = c
        BY <2>5, <3>1
      <4> HIDE DEF c, n
      <4>2. CASE c.old = "unknown" /\ c.new = "ok"
        BY <4>1, <4>2
      <4>3. CASE task'[w].pc = "load" /\ task'[w].about = a /\ task'[w].number = n + 1
        BY <3>1, <4>3 DEF Tells
      <4> QED
        BY <2>7, <4>2, <4>3
    <3>2. CASE ~(b = a /\ i = n + 1)
      <4>1. i \in DOMAIN writes[b] /\ writes'[b][i] = writes[b][i]
        BY <2>2, <2>3, <2>5, <3>2
      <4>2. CASE writes[b][i].old = "unknown" /\ writes[b][i].new = "ok"
        BY <4>1, <4>2
      <4>3. ASSUME NEW v \in Workers, Tells(v, b, i, t) PROVE Tells(v, b, i, t)'
        <5>1. v # w
          BY <2>8, <4>3 DEF Tells
        <5> QED
          BY <2>6, <4>3, <5>1 DEF Tells
      <4> QED
        BY <4>1, <4>2, <4>3 DEF EverybodyIsTold, Tells
    <3> QED
      BY <3>1, <3>2
  <2> QED
    BY <2>9, <2>10
<1> QED  BY <1>2, <1>3, <1>4, <1>5, <1>6, <1>7 DEF TaskStep

\* Whoever stays subscribed is told of every commit made while he was, or the task
\* that made it is still about to (tasks/alerts.py:14-33, 50-61).
THEOREM NewsIsTold == Spec => []EverybodyIsTold
<1>1. Init => Owing /\ EverybodyIsTold
  BY DEF Init, Owing, EverybodyIsTold
<1>2. IShapes /\ Owing /\ EverybodyIsTold /\ [Next]_vars => (Owing /\ EverybodyIsTold)'
  BY OthersKeepTold, TasksKeepTold DEF Next
<1> QED  BY <1>1, <1>2, ShapesHold, PTL DEF Spec

-----------------------------------------------------------------------------
(* A task that has read an alert since its last commit knows the row; the  *)
(* row has the state of that commit, unless the commit was a repetition by *)
(* a task that had not read the one before it.                             *)

LastCommit(a) == writes[a][Len(writes[a])]

RowsFollow ==
  \A a \in Alerts : writes[a] # <<>> =>
    /\ alert[a].row # "none"
    /\ alert[a].last = LastCommit(a).at
    /\ \/ alert[a].state = LastCommit(a).new
       \/ OutOfDate(a, Len(writes[a])) /\ LastCommit(a).old = LastCommit(a).new

TasksKnowRows ==
  \A w \in Workers : task[w].pc # "idle" =>
    \A a \in task[w].todo :
      /\ alert[a].row # "none"
      /\ task[w].read[a] <= Len(writes[a])
      /\ task[w].read[a] = Len(writes[a]) =>
           task[w].seen[a].state = alert[a].state /\ task[w].seen[a].last = alert[a].last

News == RowsFollow /\ TasksKnowRows /\ RepeatsOverlap

\* The commits stay, but for whom they are owed to.
LEMMA SameCommits ==
  ASSUME IShapes, NoMoreOwed, writes' \in [Alerts -> Seq(Commit)]
  PROVE  /\ \A a \in Alerts : Len(writes'[a]) = Len(writes[a]) /\ (writes'[a] = <<>> <=> writes[a] = <<>>)
         /\ \A a \in Alerts : writes[a] # <<>> =>
              /\ LastCommit(a)'.new = LastCommit(a).new /\ LastCommit(a)'.at = LastCommit(a).at
              /\ LastCommit(a)'.old = LastCommit(a).old /\ LastCommit(a)'.read = LastCommit(a).read
         /\ RepeatsOverlap => RepeatsOverlap'
<1>1. ASSUME NEW a \in Alerts
      PROVE  /\ Len(writes'[a]) = Len(writes[a]) /\ (writes'[a] = <<>> <=> writes[a] = <<>>)
             /\ Len(writes[a]) \in Nat /\ (writes[a] # <<>> => Len(writes[a]) \in DOMAIN writes[a])
             /\ DOMAIN writes[a] = 1..Len(writes[a])
  <2>1. writes[a] \in Seq(Commit) /\ writes'[a] \in Seq(Commit) /\ DOMAIN writes'[a] = DOMAIN writes[a]
    BY DEF IShapes, Shapes, NoMoreOwed
  <2> QED
    BY <2>1
<1>2. \A a \in Alerts : writes[a] # <<>> =>
        /\ LastCommit(a)'.new = LastCommit(a).new /\ LastCommit(a)'.at = LastCommit(a).at
        /\ LastCommit(a)'.old = LastCommit(a).old /\ LastCommit(a)'.read = LastCommit(a).read
  BY <1>1 DEF NoMoreOwed, LastCommit
<1>3. ASSUME RepeatsOverlap, NEW a \in Alerts, NEW i \in 1 .. Len(writes[a]) - 1
      PROVE  \/ IsNews(writes'[a][i], writes'[a][i + 1])
             \/ OutOfDate(a, i + 1)'
             \/ OutOfDate(a, i)' /\ writes'[a][i].old = writes'[a][i].new
  <2>1. i \in DOMAIN writes[a] /\ i + 1 \in DOMAIN writes[a]
    BY <1>1
  <2>2. /\ writes'[a][i].new = writes[a][i].new /\ writes'[a][i].at = writes[a][i].at
        /\ writes'[a][i].old = writes[a][i].old /\ writes'[a][i].read = writes[a][i].read
        /\ writes'[a][i + 1].new = writes[a][i + 1].new /\ writes'[a][i + 1].at = writes[a][i + 1].at
        /\ writes'[a][i + 1].read = writes[a][i + 1].read
    BY <2>1 DEF NoMoreOwed
  <2> QED
    BY <1>3, <2>2 DEF RepeatsOverlap, IsNews, OutOfDate
<1>4. RepeatsOverlap => RepeatsOverlap'
  BY <1>1, <1>3 DEF RepeatsOverlap
<1> QED  BY <1>1, <1>2, <1>4

\* A step after which no task has more to do, unless it has just read the
\* alerts, and no row or commit another state.
LEMMA KeepsNews ==
  ASSUME IShapes, News, NoMoreOwed, writes' \in [Alerts -> Seq(Commit)],
         \A a \in Alerts : alert[a].row # "none" =>
           /\ alert'[a].row # "none"
           /\ alert'[a].state = alert[a].state /\ alert'[a].last = alert[a].last,
         \A w \in Workers : task'[w].pc # "idle" =>
           \/ /\ task[w].pc # "idle" /\ task[w].todo \subseteq Alerts
              /\ task'[w].todo \subseteq task[w].todo
              /\ task'[w].seen = task[w].seen /\ task'[w].read = task[w].read
           \/ /\ task'[w].todo \subseteq {a \in Alerts : alert[a].row # "none"}
              /\ task'[w].seen = alert /\ task'[w].read = [a \in Alerts |-> Len(writes[a])]
  PROVE  News'
<1>1. RowsFollow'
  <2> SUFFICES ASSUME NEW a \in Alerts, writes'[a] # <<>>
               PROVE  /\ alert'[a].row # "none"
                      /\ alert'[a].last = LastCommit(a)'.at
                      /\ \/ alert'[a].state = LastCommit(a)'.new
                         \/ /\ OutOfDate(a, Len(writes[a]))'
                            /\ LastCommit(a)'.old = LastCommit(a)'.new
    BY DEF RowsFollow
  <2>1. /\ writes[a] # <<>> /\ Len(writes'[a]) = Len(writes[a])
        /\ LastCommit(a)'.new = LastCommit(a).new /\ LastCommit(a)'.at = LastCommit(a).at
        /\ LastCommit(a)'.old = LastCommit(a).old /\ LastCommit(a)'.read = LastCommit(a).read
    BY SameCommits
  <2>2. OutOfDate(a, Len(writes[a])) => OutOfDate(a, Len(writes[a]))'
    BY <2>1 DEF OutOfDate, LastCommit
  <2> QED
    BY <2>1, <2>2 DEF News, RowsFollow
<1>2. ASSUME NEW w \in Workers, task'[w].pc # "idle", NEW a \in task'[w].todo
      PROVE  /\ alert'[a].row # "none"
             /\ task'[w].read[a] <= Len(writes'[a])
             /\ task'[w].read[a] = Len(writes'[a]) =>
                  task'[w].seen[a].state = alert'[a].state /\ task'[w].seen[a].last = alert'[a].last
  <2>1. CASE /\ task[w].pc # "idle" /\ task[w].todo \subseteq Alerts
             /\ task'[w].todo \subseteq task[w].todo
             /\ task'[w].seen = task[w].seen /\ task'[w].read = task[w].read
    BY <1>2, <2>1, SameCommits DEF News, TasksKnowRows
  <2>2. CASE /\ task'[w].todo \subseteq {b \in Alerts : alert[b].row # "none"}
             /\ task'[w].seen = alert /\ task'[w].read = [b \in Alerts |-> Len(writes[b])]
    <3>1. a \in Alerts /\ alert[a].row # "none"
      BY <1>2, <2>2
    <3>2. Len(writes'[a]) = Len(writes[a]) /\ Len(writes[a]) \in Nat
      BY <3>1, SameCommits DEF IShapes, Shapes
    <3> QED
      BY <2>2, <3>1, <3>2
  <2> QED
    BY <1>2, <2>1, <2>2
<1>3. TasksKnowRows'
  BY <1>2 DEF TasksKnowRows
<1> QED  BY <1>1, <1>3, SameCommits DEF News

LEMMA OthersKeepNews ==
  ASSUME IShapes, IShapes', News,
         \/ Tick \/ NewResult \/ QueueCheck \/ ExecutorLost
         \/ \E a \in Alerts, o \in SUBSET Values : Create(a, o) \/ Edit(a, o)
         \/ \E a \in Alerts : Delete(a)
         \/ \E a \in Alerts, s \in Subscribers : Subscribe(a, s) \/ Unsubscribe(a, s)
         \/ UNCHANGED vars
  PROVE  News'
<1>1. task' = task /\ writes' \in [Alerts -> Seq(Commit)] /\ alert \in Seen
  BY DEF Tick, NewResult, QueueCheck, ExecutorLost, Create, Edit, Delete, Subscribe,
         Unsubscribe, vars, IShapes, Shapes
<1>2. \A w \in Workers : task[w].pc # "idle" => task[w].todo \subseteq Alerts
  <2>1. Shapes
    BY DEF IShapes
  <2> QED
    BY <2>1 DEF Shapes, Idle, Reading, Checking, Writing
<1>3. NoMoreOwed
  <2>1. CASE writes' = writes
    BY <2>1 DEF NoMoreOwed
  <2>2. ASSUME NEW a \in Alerts, NEW S, writes' = OweOnly(a, S) PROVE NoMoreOwed
    BY <2>2, OweOnlyOwesLess
  <2> QED
    BY <2>1, <2>2 DEF Tick, NewResult, QueueCheck, ExecutorLost, Create, Edit, Delete, Subscribe,
         Unsubscribe, vars
<1>4. ASSUME NEW b \in Alerts, alert[b].row # "none"
      PROVE  /\ alert'[b].row # "none"
             /\ alert'[b].state = alert[b].state /\ alert'[b].last = alert[b].last
  <2>1. alert[b] \in AlertRow
    BY <1>1 DEF Seen
  <2>2. CASE alert' = alert
    BY <1>4, <2>2
  <2>3. ASSUME NEW a \in Alerts, NEW o \in SUBSET Values, Create(a, o)
        PROVE  alert'[b] = alert[b]
    BY <1>1, <1>4, <2>3 DEF Create, Seen
  <2>4. ASSUME NEW a \in Alerts, NEW o \in SUBSET Values, Edit(a, o)
        PROVE  /\ alert'[b].row = alert[b].row
               /\ alert'[b].state = alert[b].state /\ alert'[b].last = alert[b].last
    BY <1>1, <2>1, <2>4 DEF Edit, Seen, AlertRow
  <2>5. ASSUME NEW a \in Alerts, Delete(a)
        PROVE  /\ alert'[b].row # "none"
               /\ alert'[b].state = alert[b].state /\ alert'[b].last = alert[b].last
    BY <1>1, <1>4, <2>1, <2>5 DEF Delete, Seen, AlertRow
  <2> QED
    BY <1>4, <2>2, <2>3, <2>4, <2>5 DEF Tick, NewResult, QueueCheck, ExecutorLost, Subscribe,
         Unsubscribe, vars
<1> QED  BY <1>1, <1>2, <1>3, <1>4, KeepsNews

\* A task's step without a commit.
LEMMA TasksKeepNews ==
  ASSUME IShapes, IShapes', News, NEW w \in Workers,
         \/ Begin(w) \/ ReadResult(w) \/ LoadSubscriptions(w) \/ Notified(w) \/ End(w)
         \/ \E a \in Alerts : Skip(w, a) \/ WriteFails(w, a)
         \/ \E s \in Subscribers : Notify(w, s)
         \/ WorkerLost(w)
  PROVE  News'
<1>1. writes' \in [Alerts -> Seq(Commit)] /\ Shapes /\ Numbered
  BY DEF IShapes, Shapes
<1>2. alert' = alert
  BY DEF Begin, ReadResult, LoadSubscriptions, Notified, End, Skip, WriteFails, Notify, WorkerLost
<1>3. \A v \in Workers : v # w => task'[v] = task[v]
  BY <1>1 DEF Begin, ReadResult, LoadSubscriptions, Notified, End, Skip, WriteFails, Notify,
     WorkerLost, Shapes
<1>4. \A v \in Workers : task[v].pc # "idle" => task[v].todo \subseteq Alerts
  BY <1>1 DEF Shapes, Idle, Reading, Checking, Writing
<1>5. NoMoreOwed
  <2>1. CASE writes' = writes
    BY <2>1 DEF NoMoreOwed
  <2>2. ASSUME NEW S \in SUBSET writes[task[w].about][task[w].number].owed,
               task[w].pc \in {"load", "notify"}, writes' = Owe(task[w].about, task[w].number, S)
        PROVE  NoMoreOwed
    BY <1>1, <2>2, TaskCommit, OweOwesLess
  <2>3. ASSUME NEW s \in Subscribers, Notify(w, s) PROVE NoMoreOwed
    BY <2>2, <2>3 DEF Notify, Tried
  <2>4. CASE WorkerLost(w)
    BY <2>1, <2>2, <2>4 DEF WorkerLost
  <2> QED
    BY <2>1, <2>3, <2>4 DEF Begin, ReadResult, LoadSubscriptions, Notified, End, Skip, WriteFails
<1>6. \/ task'[w].pc = "idle"
      \/ /\ task[w].pc # "idle"
         /\ task'[w].todo \subseteq task[w].todo
         /\ task'[w].seen = task[w].seen /\ task'[w].read = task[w].read
      \/ /\ task'[w].todo \subseteq {a \in Alerts : alert[a].row # "none"}
         /\ task'[w].seen = alert /\ task'[w].read = [a \in Alerts |-> Len(writes[a])]
  <2>1. CASE Begin(w)
    BY <1>1, <2>1 DEF Begin, Shapes
  <2>2. CASE ReadResult(w)
    BY <1>1, <2>2 DEF ReadResult, Shapes
  <2>3. CASE LoadSubscriptions(w) \/ Notified(w) \/ \E s \in Subscribers : Notify(w, s)
    <3>1. task[w] \in Writing /\ task[w].pc # "idle"
      BY <1>1, <2>3, TaskShapes DEF LoadSubscriptions, Notified, Notify
    <3>2. \/ task'[w] = [task[w] EXCEPT !.pc = "notify", !.left = subs[task[w].about]]
          \/ task'[w] = [task[w] EXCEPT !.pc = "check"]
          \/ \E s \in Subscribers : task'[w] = [task[w] EXCEPT !.left = task[w].left \ {s}]
      BY <1>1, <2>3 DEF LoadSubscriptions, Notified, Notify, Shapes
    <3> QED
      BY <3>1, <3>2 DEF Writing
  <2>4. CASE \E a \in Alerts : Skip(w, a)
    <3> PICK a \in Alerts : Skip(w, a)
      BY <2>4
    <3>1. task[w] \in Checking \cup Writing /\ task[w].pc = "check"
      BY <1>1, TaskShapes DEF Skip
    <3>2. task'[w] = [task[w] EXCEPT !.todo = task[w].todo \ {a}]
      BY <1>1 DEF Skip, Shapes
    <3> QED
      BY <3>1, <3>2 DEF Checking, Writing
  <2>5. CASE End(w) \/ WorkerLost(w) \/ \E a \in Alerts : WriteFails(w, a)
    BY <1>1, <2>5 DEF End, WorkerLost, WriteFails, Shapes, Idle
  <2> QED
    BY <2>1, <2>2, <2>3, <2>4, <2>5
<1>7. \A v \in Workers : task'[v].pc # "idle" =>
        \/ /\ task[v].pc # "idle" /\ task[v].todo \subseteq Alerts
           /\ task'[v].todo \subseteq task[v].todo
           /\ task'[v].seen = task[v].seen /\ task'[v].read = task[v].read
        \/ /\ task'[v].todo \subseteq {a \in Alerts : alert[a].row # "none"}
           /\ task'[v].seen = alert /\ task'[v].read = [a \in Alerts |-> Len(writes[a])]
  BY <1>3, <1>4, <1>6
<1>8. \A a \in Alerts : alert[a].row # "none" =>
        /\ alert'[a].row # "none"
        /\ alert'[a].state = alert[a].state /\ alert'[a].last = alert[a].last
  BY <1>2
<1> QED  BY <1>1, <1>5, <1>7, <1>8, KeepsNews

\* What a commit says is news, or its task had not read the one before.
LEMMA WriteIsNews ==
  ASSUME IShapes, News, NEW w \in Workers, NEW a \in Alerts, Write(w, a)
  PROVE  News'
<1> DEFINE old == task[w].seen[a].state
           new == NewState(w, a)
           read == task[w].read[a]
           c == [old |-> old, new |-> new, at |-> now, read |-> read, owed |-> subs[a]]
           n == Len(writes[a])
<1>1. Shapes /\ task[w].pc = "check" /\ a \in task[w].todo /\ ~Unchanged(w, a)
  BY DEF IShapes, Write
<1>2. /\ writes' = [writes EXCEPT ![a] = Append(writes[a], c)]
      /\ alert' = [alert EXCEPT ![a].state = IF new = old THEN alert[a].state ELSE new,
                                ![a].last = now]
      /\ alert[a].row = "live"
  BY DEF Write, Shapes, IShapes, Seen, AlertRow
<1>3. /\ writes[a] \in Seq(Commit) /\ n \in Nat /\ alert[a] \in AlertRow /\ now \in 1..MaxTime
      /\ read \in Nat /\ read <= n
  <2>1. task[w].read \in [Alerts -> Nat]
    BY <1>1, TaskShapes DEF Checking, Writing
  <2> QED
    BY <1>1, <2>1 DEF Shapes, Seen, News, TasksKnowRows
<1>4. /\ writes'[a] = Append(writes[a], c)
      /\ \A b \in Alerts \ {a} : writes'[b] = writes[b] /\ alert'[b] = alert[b]
      /\ alert'[a].row = "live" /\ alert'[a].last = now
      /\ alert'[a].state = IF new = old THEN alert[a].state ELSE new
  BY <1>1, <1>2, <1>3 DEF Shapes, Seen, AlertRow
<1>5. /\ Len(writes'[a]) = n + 1 /\ writes'[a][n + 1] = c
      /\ \A i \in 1..n : writes'[a][i] = writes[a][i]
      /\ n > 0 => writes[a] # <<>>
  <2> HIDE DEF c
  <2> QED
    BY <1>3, <1>4
<1>6. read = n => old = alert[a].state /\ task[w].seen[a].last = alert[a].last
  BY <1>1 DEF News, TasksKnowRows
<1>7. RowsFollow'
  <2>1. LastCommit(a)' = c
    BY <1>5 DEF LastCommit
  <2>2. OutOfDate(a, Len(writes[a]))' <=> read < n
    BY <1>3, <1>5 DEF OutOfDate
  <2> SUFFICES ASSUME NEW b \in Alerts, writes'[b] # <<>>
               PROVE  /\ alert'[b].row # "none" /\ alert'[b].last = LastCommit(b)'.at
                      /\ \/ alert'[b].state = LastCommit(b)'.new
                         \/ /\ OutOfDate(b, Len(writes[b]))'
                            /\ LastCommit(b)'.old = LastCommit(b)'.new
    BY DEF RowsFollow
  <2>3. CASE b = a
    <3>1. new = old => alert'[a].state = new \/ read < n
      BY <1>3, <1>4, <1>6
    <3>2. c.new = new /\ c.old = old /\ c.at = now
      OBVIOUS
    <3> HIDE DEF c, new, old, n
    <3> QED
      BY <1>4, <2>1, <2>2, <2>3, <3>1, <3>2
  <2>4. CASE b # a
    BY <1>4, <2>4 DEF News, RowsFollow, LastCommit, OutOfDate
  <2> QED
    BY <2>3, <2>4
<1>8. TasksKnowRows'
  <2> SUFFICES ASSUME NEW v \in Workers, task'[v].pc # "idle", NEW b \in task'[v].todo
               PROVE  /\ alert'[b].row # "none"
                      /\ task'[v].read[b] <= Len(writes'[b])
                      /\ task'[v].read[b] = Len(writes'[b]) =>
                           /\ task'[v].seen[b].state = alert'[b].state
                           /\ task'[v].seen[b].last = alert'[b].last
    BY DEF TasksKnowRows
  <2>1. /\ task'[v].seen = task[v].seen /\ task'[v].read = task[v].read
        /\ b \in task[v].todo /\ task[v].pc # "idle"
        /\ v = w => b # a
    BY <1>1 DEF Write, Shapes
  <2>2. b \in Alerts
    BY <1>1, <2>1 DEF Shapes, Idle, Reading, Checking, Writing
  <2>3. /\ alert[b].row # "none" /\ task[v].read[b] <= Len(writes[b])
        /\ task[v].read[b] = Len(writes[b]) =>
             task[v].seen[b].state = alert[b].state /\ task[v].seen[b].last = alert[b].last
    BY <2>1 DEF News, TasksKnowRows
  <2>4. CASE b # a
    BY <1>4, <2>1, <2>2, <2>3, <2>4
  <2>5. CASE b = a
    <3>1. task[v].read \in [Alerts -> Nat]
      BY <1>1, <2>1 DEF Shapes, Idle, Reading, Checking, Writing
    <3>2. task[v].read[a] \in Nat /\ task[v].read[a] <= n
      BY <2>3, <2>5, <3>1
    <3> HIDE DEF n
    <3>3. task[v].read[a] < n + 1
      BY <1>3, <3>2
    <3> QED
      BY <1>3, <1>4, <1>5, <2>1, <2>5, <3>2, <3>3
  <2> QED
    BY <2>4, <2>5
<1>9. ASSUME n > 0, read = n
      PROVE  \/ IsNews(writes[a][n], c)
             \/ OutOfDate(a, n) /\ writes[a][n].old = writes[a][n].new
  <2>1. /\ \/ old = writes[a][n].new
           \/ OutOfDate(a, n) /\ writes[a][n].old = writes[a][n].new
        /\ task[w].seen[a].last = writes[a][n].at
    BY <1>5, <1>6, <1>9 DEF News, RowsFollow, LastCommit
  <2>2. \/ new # old
        \/ new = "triggered" /\ PassedRearm(task[w].seen[a])
    BY <1>1 DEF Unchanged, ShouldNotify
  <2>3. c.new = new /\ c.at = now
    OBVIOUS
  <2> HIDE DEF c, new, old
  <2> QED
    BY <2>1, <2>2, <2>3 DEF PassedRearm, IsNews
<1>10. RepeatsOverlap'
  <2>0. c.read = read
    OBVIOUS
  <2> HIDE DEF c, read
  <2> SUFFICES ASSUME NEW b \in Alerts, NEW i \in 1 .. Len(writes'[b]) - 1
               PROVE  \/ IsNews(writes'[b][i], writes'[b][i + 1])
                      \/ OutOfDate(b, i + 1)'
                      \/ OutOfDate(b, i)' /\ writes'[b][i].old = writes'[b][i].new
    BY DEF RepeatsOverlap
  <2>1. CASE b # a
    BY <1>4, <2>1 DEF News, RepeatsOverlap, OutOfDate
  <2>2. CASE b = a /\ i = n
    <3>1. CASE read = n
      <4>1. writes'[a][n] = writes[a][n] /\ writes'[a][n + 1] = c /\ n > 0
        BY <1>3, <1>5, <2>2
      <4>2. OutOfDate(a, i) => OutOfDate(a, i)'
        BY <2>2, <4>1 DEF OutOfDate
      <4> QED
        BY <1>9, <2>2, <3>1, <4>1, <4>2
    <3>2. CASE read # n
      <4>1. read < n
        BY <1>3, <3>2
      <4>2. OutOfDate(a, i + 1)'
        BY <1>3, <1>5, <2>0, <2>2, <4>1 DEF OutOfDate
      <4> QED
        BY <2>2, <4>2
    <3> QED
      BY <3>1, <3>2
  <2>3. CASE b = a /\ i # n
    <3>1. i \in 1 .. n - 1
      BY <1>3, <1>5, <2>3
    <3>2. writes'[a][i] = writes[a][i] /\ writes'[a][i + 1] = writes[a][i + 1]
      <4>1. i \in 1..n /\ i + 1 \in 1..n
        BY <1>3, <3>1
      <4> HIDE DEF n
      <4> QED
        BY <1>5, <4>1
    <3> QED
      BY <2>3, <3>1, <3>2 DEF News, RepeatsOverlap, OutOfDate
  <2> QED
    BY <2>1, <2>2, <2>3
<1> QED  BY <1>7, <1>8, <1>10 DEF News

\* Whatever the number of workers, only tasks that overlap announce an alert's
\* state twice, whatever is edited, created, deleted or lost meanwhile
\* (tasks/alerts.py:28-61).
THEOREM OnlyOverlapsRepeat == Spec => []RepeatsOverlap
<1>1. Init => News
  BY DEF Init, News, RowsFollow, TasksKnowRows, RepeatsOverlap, Idle
<1>2. IShapes /\ IShapes' /\ News /\ [Next]_vars => News'
  <2> SUFFICES ASSUME IShapes, IShapes', News, [Next]_vars PROVE News'
    OBVIOUS
  <2>1. ASSUME NEW w \in Workers, TaskStep(w) \/ WorkerLost(w) PROVE News'
    BY <2>1, TasksKeepNews, WriteIsNews DEF TaskStep
  <2> QED
    BY <2>1, OthersKeepNews DEF Next
<1>3. News => RepeatsOverlap
  BY DEF News
<1> QED  BY <1>1, <1>2, <1>3, ShapesHold, PTL DEF Spec

=============================================================================
