-------------------------- MODULE QueryJobs_proofs --------------------------
(***************************************************************************)
(* Theorems about QueryJobs, for every set of callers and jobs, every      *)
(* bound of the retry loop and every set of faults.                        *)
(***************************************************************************)
EXTENDS QueryJobs, TLAPS

USE DEF clientVars, jobVars


-----------------------------------------------------------------------------
(* Every variable keeps its type.                                          *)
LEMMA TypeInit == Init => TypeOK
  BY MaxTriesAssumption DEF Init, TypeOK, PC, Phase, Status

LEMMA TypeNext == TypeOK /\ [Next]_vars => TypeOK'
<1> SUFFICES ASSUME TypeOK, [Next]_vars PROVE TypeOK'
  OBVIOUS
<1> USE DEF TypeOK, PC, Phase, Status, Goto, Advance, SetStatus, At
<1>1. ASSUME NEW c \in Clients, Call(c) PROVE TypeOK'
  BY <1>1, MaxTriesAssumption DEF Call
<1>2. ASSUME NEW c \in Clients, Watch(c) PROVE TypeOK'
  BY <1>2, MaxTriesAssumption DEF Watch
<1>3. ASSUME NEW c \in Clients, GiveUp(c) \/ CheckReady(c) \/ ExecFails(c)
      PROVE  TypeOK'
  BY <1>3 DEF GiveUp, CheckReady, ExecFails
<1>4. ASSUME NEW c \in Clients, Get(c) PROVE TypeOK'
  BY <1>4 DEF Get
<1>5. ASSUME NEW c \in Clients, RemoveReadyLock(c) PROVE TypeOK'
  BY <1>5 DEF RemoveReadyLock, DeleteKey, TouchLock
<1>6. ASSUME NEW c \in Clients, Submit(c) PROVE TypeOK'
  BY <1>6 DEF Submit
<1>7. ASSUME NEW c \in Clients, ExecOk(c) PROVE TypeOK'
  BY <1>7 DEF ExecOk, TouchLock
<1>8. ASSUME NEW c \in Clients, Return(c) \/ ClientLost(c) PROVE TypeOK'
  <2>1. /\ job' = [job EXCEPT ![c] = NoJob]
        /\ tries' = [tries EXCEPT ![c] = 0]
        /\ dirty' = [dirty EXCEPT ![c] = FALSE]
        /\ overAtCall' = [overAtCall EXCEPT ![c] = {}]
        /\ pc' = [pc EXCEPT ![c] = "idle"]
        /\ UNCHANGED <<lock, phase, status, outcome, revoke, stored>>
    BY <1>8 DEF Return, ClientLost
  <2>2. QED
    BY <2>1, MaxTriesAssumption
<1>9. ASSUME NEW j \in Jobs, JobStep(j) PROVE TypeOK'
  <2>1. CASE Take(j) \/ TakeRevoked(j) \/ Load(j) \/ Report(j)
    BY <2>1 DEF Take, TakeRevoked, Load, Report
  <2>2. CASE RunQuery(j)
    BY <2>2 DEF RunQuery
  <2>3. CASE Unlock(j)
    BY <2>3 DEF Unlock, DeleteKey, TouchLock
  <2>4. CASE Store(j)
    BY <2>4 DEF Store
  <2>5. QED
    BY <1>9, <2>1, <2>2, <2>3, <2>4 DEF JobStep
<1>10. ASSUME NEW j \in Jobs, Error(j) \/ Cancel(j) PROVE TypeOK'
  BY <1>10 DEF Error, Cancel, Abandon
<1>11. ASSUME NEW j \in Jobs, RevokeStep(j) PROVE TypeOK'
  BY <1>11 DEF RevokeStep, Signal, MarkRevoked, Abandon
<1>12. ASSUME NEW j \in Jobs, TimeLimit(j) \/ WorkerLost(j) \/ ResultExpires(j)
       PROVE  TypeOK'
  BY <1>12 DEF TimeLimit, WorkerLost, ResultExpires
<1>13. CASE LockExpires
  BY <1>13 DEF LockExpires, TouchLock
<1>14. CASE UNCHANGED vars
  BY <1>14 DEF vars
<1>15. QED
  BY <1>1, <1>2, <1>3, <1>4, <1>5, <1>6, <1>7, <1>8, <1>9, <1>10, <1>11,
     <1>12, <1>13, <1>14 DEF Next, ClientStep

(* Every reachable state has the types that TypeOK gives its variables.    *)
THEOREM TypeCorrect == Spec => []TypeOK
  BY TypeInit, TypeNext, PTL DEF Spec

-----------------------------------------------------------------------------
(* WATCH and EXEC. A caller on its way to EXEC whose connection has not    *)
(* been marked can be sure that the key is absent: any SET would have      *)
(* marked it, and a DEL or an expiry only makes the key absent.            *)
CleanMeansAbsent ==
  \A c \in Clients : pc[c] \in {"submit", "exec"} /\ ~dirty[c] => lock = NoJob

LEMMA CleanNext ==
  TypeOK /\ CleanMeansAbsent /\ [Next]_vars => CleanMeansAbsent'
<1> SUFFICES ASSUME TypeOK, CleanMeansAbsent, [Next]_vars,
                    NEW d \in Clients, pc'[d] \in {"submit", "exec"}, ~dirty'[d]
             PROVE  lock' = NoJob
  BY DEF CleanMeansAbsent
<1> USE DEF TypeOK, PC, Goto, CleanMeansAbsent
<1>1. ASSUME NEW c \in Clients,
             Call(c) \/ Watch(c) \/ GiveUp(c) \/ Get(c) \/ CheckReady(c)
               \/ Submit(c) \/ ExecFails(c) \/ Return(c) \/ ClientLost(c)
      PROVE  lock' = NoJob
  BY <1>1 DEF Call, Watch, GiveUp, Get, CheckReady, Submit, ExecFails, Return,
              ClientLost
<1>2. ASSUME NEW c \in Clients, RemoveReadyLock(c) PROVE lock' = NoJob
  BY <1>2 DEF RemoveReadyLock, DeleteKey
<1>3. ASSUME NEW c \in Clients, ExecOk(c) PROVE lock' = NoJob
  BY <1>3 DEF ExecOk, TouchLock, Watching
<1>4. ASSUME NEW j \in Jobs, Unlock(j) PROVE lock' = NoJob
  BY <1>4 DEF Unlock, DeleteKey
<1>5. ASSUME UNCHANGED <<pc, dirty, lock>> PROVE lock' = NoJob
  BY <1>5
<1>6. ASSUME LockExpires PROVE lock' = NoJob
  BY <1>6 DEF LockExpires
<1>7. QED
  BY <1>1, <1>2, <1>3, <1>4, <1>5, <1>6
     DEF Next, ClientStep, JobStep, RevokeStep, vars, Take, TakeRevoked, Load,
         RunQuery, Store, Report, Error, Abandon, Cancel, Signal, MarkRevoked,
         TimeLimit, WorkerLost, ResultExpires

(* The key changes only by being set when absent, or by being deleted.     *)
LEMMA LockStep ==
  TypeOK /\ CleanMeansAbsent /\ [Next]_vars
    => [lock # NoJob => lock' \in {lock, NoJob}]_vars
<1> SUFFICES ASSUME TypeOK, CleanMeansAbsent, [Next]_vars, lock # NoJob
             PROVE  lock' \in {lock, NoJob}
  OBVIOUS
<1>1. ASSUME NEW c \in Clients, ExecOk(c) PROVE FALSE
  BY <1>1 DEF ExecOk, CleanMeansAbsent
<1>2. CASE UNCHANGED vars
  BY <1>2 DEF vars
<1>3. QED
  BY <1>1, <1>2
     DEF Next, ClientStep, JobStep, RevokeStep, Call, Watch, GiveUp, Get,
         CheckReady, RemoveReadyLock, Submit, ExecFails, Return, ClientLost,
         DeleteKey, Take, TakeRevoked, Load, RunQuery, Unlock, Store, Report,
         Error, Abandon, Cancel, Signal, MarkRevoked, TimeLimit, WorkerLost,
         LockExpires, ResultExpires

(* No caller's SET replaces a job that the key names: WATCH, MULTI and     *)
(* EXEC in enqueue_query protect the key whatever the callers, the         *)
(* executors and the timers do between them.                               *)
THEOREM LockIsNeverOverwritten == Spec => NoLockOverwrite
<1>1. Init => CleanMeansAbsent
  BY DEF Init, CleanMeansAbsent
<1>2. QED
  BY <1>1, TypeInit, TypeNext, CleanNext, LockStep, PTL DEF Spec, NoLockOverwrite

-----------------------------------------------------------------------------
(* What the local variable `job' and the key may hold.                     *)
SubmittedInv ==
  /\ LockNamesSubmittedJob
  /\ \A c \in Clients :
       /\ job[c] # NoJob => phase[job[c]] # "new"
       /\ pc[c] \in {"ready", "exec", "return"} => job[c] # NoJob
       /\ pc[c] = "loop" /\ tries[c] > 0 => job[c] # NoJob

(* A job that was submitted stays submitted.                               *)
LEMMA SubmittedForever ==
  ASSUME TypeOK, [Next]_vars, NEW j \in Jobs, phase[j] # "new"
  PROVE  phase'[j] # "new"
  BY DEF TypeOK, Next, ClientStep, JobStep, RevokeStep, Call, Watch, GiveUp,
         Get, CheckReady, RemoveReadyLock, Submit, ExecOk, ExecFails, Return,
         ClientLost, Take, TakeRevoked, Load, RunQuery, Unlock, Store, Report,
         Error, Abandon, Cancel, Signal, MarkRevoked, TimeLimit, WorkerLost,
         LockExpires, ResultExpires, Advance, At, vars

LEMMA SubmittedNext ==
  TypeOK /\ SubmittedInv /\ [Next]_vars => SubmittedInv'
<1> SUFFICES ASSUME TypeOK, SubmittedInv, [Next]_vars PROVE SubmittedInv'
  OBVIOUS
<1> USE DEF TypeOK, PC, Goto, SubmittedInv, LockNamesSubmittedJob
<1>0. \A j \in Jobs : phase[j] # "new" => phase'[j] # "new"
  BY SubmittedForever
<1>1. ASSUME NEW c \in Clients, Call(c) \/ Return(c) \/ ClientLost(c)
      PROVE  SubmittedInv'
  BY <1>0, <1>1, NoJobAssumption DEF Call, Return, ClientLost
<1>2. ASSUME NEW c \in Clients, Watch(c) \/ Get(c) \/ CheckReady(c) PROVE SubmittedInv'
  BY <1>0, <1>2, NoJobAssumption DEF Watch, Get, CheckReady
<1>3. ASSUME NEW c \in Clients, GiveUp(c) PROVE SubmittedInv'
  BY <1>0, <1>3, MaxTriesAssumption DEF GiveUp
<1>4. ASSUME NEW c \in Clients, RemoveReadyLock(c) PROVE SubmittedInv'
  BY <1>0, <1>4, NoJobAssumption DEF RemoveReadyLock, DeleteKey
<1>5. ASSUME NEW c \in Clients, Submit(c) PROVE SubmittedInv'
  BY <1>0, <1>5, NoJobAssumption DEF Submit
<1>6. ASSUME NEW c \in Clients, ExecOk(c) \/ ExecFails(c) PROVE SubmittedInv'
  BY <1>0, <1>6 DEF ExecOk, ExecFails
<1>7. ASSUME UNCHANGED <<pc, job, tries>>, lock' \in {lock, NoJob}
      PROVE  SubmittedInv'
  BY <1>0, <1>7
<1>8. QED
  BY <1>1, <1>2, <1>3, <1>4, <1>5, <1>6, <1>7
     DEF Next, ClientStep, JobStep, RevokeStep, vars, Take, TakeRevoked, Load,
         RunQuery, Unlock, DeleteKey, Store, Report, Error, Abandon, Cancel,
         Signal, MarkRevoked, TimeLimit, WorkerLost, LockExpires, ResultExpires

(* The key only names jobs that were handed to the broker: apply_async     *)
(* precedes SET in enqueue_query.                                          *)
THEOREM LockNamesASubmittedJob == Spec => []LockNamesSubmittedJob
<1>1. Init => SubmittedInv
  BY DEF Init, SubmittedInv, LockNamesSubmittedJob
<1>2. SubmittedInv => LockNamesSubmittedJob
  BY DEF SubmittedInv
<1>3. QED
  BY <1>1, <1>2, TypeInit, TypeNext, SubmittedNext, PTL DEF Spec

(* enqueue_query always returns a job that was handed to the broker, even  *)
(* when every try of its loop ends in a WatchError.                        *)
THEOREM EnqueueReturnsASubmittedJob == Spec => []ReturnsSubmittedJob
<1>1. Init => SubmittedInv
  BY DEF Init, SubmittedInv, LockNamesSubmittedJob
<1>2. TypeOK /\ SubmittedInv => ReturnsSubmittedJob
  BY DEF TypeOK, SubmittedInv, ReturnsSubmittedJob
<1>3. QED
  BY <1>1, <1>2, TypeInit, TypeNext, SubmittedNext, PTL DEF Spec

-----------------------------------------------------------------------------
(* The result is committed before success is reported.                     *)
StoredInv ==
  /\ SuccessIsStored
  /\ \A j \in Jobs : phase[j] = "report" /\ outcome[j] = "ok" => j \in stored

LEMMA StoredNext == TypeOK /\ StoredInv /\ [Next]_vars => StoredInv'
<1> SUFFICES ASSUME TypeOK, StoredInv, [Next]_vars, NEW k \in Jobs
             PROVE  /\ status'[k] = "SUCCESS" => k \in stored'
                    /\ phase'[k] = "report" /\ outcome'[k] = "ok" => k \in stored'
  BY DEF StoredInv, SuccessIsStored
<1> DEFINE Kept == /\ status'[k] = "SUCCESS" => k \in stored'
                   /\ phase'[k] = "report" /\ outcome'[k] = "ok" => k \in stored'
<1> USE DEF TypeOK, StoredInv, SuccessIsStored, Advance, SetStatus, At, Running
<1>1. ASSUME NEW j \in Jobs, Take(j) \/ TakeRevoked(j) \/ Load(j) \/ RunQuery(j)
      PROVE  Kept
  BY <1>1 DEF Take, TakeRevoked, Load, RunQuery
<1>2. ASSUME NEW j \in Jobs, Unlock(j) \/ Store(j) \/ Report(j) PROVE Kept
  BY <1>2 DEF Unlock, Store, Report
<1>3. ASSUME NEW j \in Jobs, Error(j) \/ Cancel(j) PROVE Kept
  BY <1>3 DEF Error, Cancel, Abandon
<1>4. ASSUME NEW j \in Jobs, RevokeStep(j) PROVE Kept
  BY <1>4 DEF RevokeStep, Signal, MarkRevoked, Abandon
<1>5. ASSUME NEW j \in Jobs, TimeLimit(j) \/ WorkerLost(j) \/ ResultExpires(j)
      PROVE  Kept
  BY <1>5 DEF TimeLimit, WorkerLost, ResultExpires
<1>6. ASSUME NEW c \in Clients, Submit(c) PROVE Kept
  BY <1>6 DEF Submit
<1>7. ASSUME UNCHANGED jobVars PROVE Kept
  BY <1>7
<1>8. QED
  BY <1>1, <1>2, <1>3, <1>4, <1>5, <1>6, <1>7
     DEF Next, ClientStep, JobStep, vars, Call, Watch, GiveUp, Get, CheckReady,
         RemoveReadyLock, ExecOk, ExecFails, Return, ClientLost, LockExpires

(* A client that sees SUCCESS finds the result: QueryExecutor.run commits  *)
(* before it returns, and a cancelled or failing job never turns its error *)
(* into a success.                                                         *)
THEOREM SuccessMeansStored == Spec => []SuccessIsStored
<1>1. Init => StoredInv
  BY DEF Init, StoredInv, SuccessIsStored
<1>2. StoredInv => SuccessIsStored
  BY DEF StoredInv
<1>3. QED
  BY <1>1, <1>2, TypeInit, TypeNext, StoredNext, PTL DEF Spec

-----------------------------------------------------------------------------
(* While no worker is lost without a word and the backend keeps results,   *)
(* every job that is over is known to be.                                  *)
NothingForgotten == "workerLost" \notin Faults /\ "resultTTL" \notin Faults

OverIsReady == \A j \in Jobs : phase[j] = "over" => Ready(j)

LEMMA OverNext ==
  NothingForgotten /\ TypeOK /\ OverIsReady /\ [Next]_vars => OverIsReady'
<1> SUFFICES ASSUME NothingForgotten, TypeOK, OverIsReady, [Next]_vars,
                    NEW k \in Jobs, phase'[k] = "over"
             PROVE  status'[k] \in {"SUCCESS", "FAILURE", "REVOKED"}
  BY DEF OverIsReady, Ready
<1> USE DEF NothingForgotten, TypeOK, OverIsReady, Ready, Advance, SetStatus, At
<1> DEFINE Known == status'[k] \in {"SUCCESS", "FAILURE", "REVOKED"}
<1>1. ASSUME NEW j \in Jobs, JobStep(j) PROVE Known
  BY <1>1 DEF JobStep, Take, TakeRevoked, Load, RunQuery, Unlock, Store, Report
<1>2. ASSUME NEW j \in Jobs, Error(j) \/ Cancel(j) \/ TimeLimit(j) PROVE Known
  BY <1>2 DEF Error, Cancel, TimeLimit, Abandon
<1>3. ASSUME NEW j \in Jobs, RevokeStep(j) PROVE Known
  BY <1>3 DEF RevokeStep, Signal, MarkRevoked, Abandon
<1>4. ASSUME NEW c \in Clients, Submit(c) PROVE Known
  BY <1>4 DEF Submit
<1>5. ASSUME UNCHANGED jobVars PROVE Known
  BY <1>5
<1>6. QED
  BY <1>1, <1>2, <1>3, <1>4, <1>5
     DEF Next, ClientStep, vars, Call, Watch, GiveUp, Get, CheckReady,
         RemoveReadyLock, ExecOk, ExecFails, Return, ClientLost, LockExpires,
         WorkerLost, ResultExpires

(* A leftover key never hides a dead job: cancellations, executor errors,  *)
(* time limits and lost callers all leave a state that ready() recognises. *)
THEOREM LeftoverLocksAreReady ==
  ASSUME NothingForgotten
  PROVE  Spec => []LeftoverLockIsReady
<1>1. Init => OverIsReady
  BY DEF Init, OverIsReady
<1>2. TypeOK /\ OverIsReady => LeftoverLockIsReady
  BY DEF TypeOK, OverIsReady, LeftoverLockIsReady
<1>3. TypeOK /\ OverIsReady /\ [Next]_vars => OverIsReady'
  BY OverNext
<1>4. QED
  BY <1>1, <1>2, <1>3, TypeInit, TypeNext, PTL DEF Spec

-----------------------------------------------------------------------------
(* A job that was over at the start of a call may be looked at by the call *)
(* ("ready"), and is then known to be ready and dropped ("delete").        *)
FreshInv ==
  \A c \in Clients :
    /\ \A j \in overAtCall[c] : phase[j] = "over"
    /\ pc[c] \notin {"ready", "delete"} => job[c] \notin overAtCall[c]

LEMMA OverForever ==
  ASSUME TypeOK, [Next]_vars, NEW j \in Jobs, phase[j] = "over"
  PROVE  phase'[j] = "over"
  BY DEF TypeOK, Next, ClientStep, JobStep, RevokeStep, Call, Watch, GiveUp,
         Get, CheckReady, RemoveReadyLock, Submit, ExecOk, ExecFails, Return,
         ClientLost, Take, TakeRevoked, Load, RunQuery, Unlock, Store, Report,
         Error, Abandon, Cancel, Signal, MarkRevoked, TimeLimit, WorkerLost,
         LockExpires, ResultExpires, Advance, At, Running, vars

LEMMA FreshNext ==
  TypeOK /\ OverIsReady /\ FreshInv /\ [Next]_vars => FreshInv'
<1> SUFFICES ASSUME TypeOK, OverIsReady, FreshInv, [Next]_vars, NEW d \in Clients
             PROVE  /\ \A j \in overAtCall'[d] : phase'[j] = "over"
                    /\ pc'[d] \notin {"ready", "delete"} => job'[d] \notin overAtCall'[d]
  BY DEF FreshInv
<1> DEFINE Kept == /\ \A j \in overAtCall'[d] : phase'[j] = "over"
                   /\ pc'[d] \notin {"ready", "delete"} => job'[d] \notin overAtCall'[d]
<1>0. \A j \in Jobs : phase[j] = "over" => phase'[j] = "over"
  BY OverForever
<1> USE DEF TypeOK, PC, Goto, FreshInv
<1>1. ASSUME NEW c \in Clients, Call(c) \/ Return(c) \/ ClientLost(c) PROVE Kept
  BY <1>0, <1>1, NoJobAssumption DEF Call, Return, ClientLost
<1>2. ASSUME NEW c \in Clients, Watch(c) \/ GiveUp(c) \/ Get(c) PROVE Kept
  BY <1>0, <1>2, NoJobAssumption DEF Watch, GiveUp, Get
<1>3. ASSUME NEW c \in Clients, CheckReady(c) PROVE Kept
  <2>1. CASE c # d
    BY <1>0, <1>3, <2>1 DEF CheckReady
  <2>2. CASE c = d /\ Ready(job[c])
    BY <1>0, <1>3, <2>2 DEF CheckReady
  <2>3. CASE c = d /\ ~Ready(job[c])
    BY <1>0, <1>3, <2>3 DEF CheckReady, OverIsReady
  <2>4. QED
    BY <2>1, <2>2, <2>3
<1>4. ASSUME NEW c \in Clients, RemoveReadyLock(c) PROVE Kept
  BY <1>0, <1>4, NoJobAssumption DEF RemoveReadyLock
<1>5. ASSUME NEW c \in Clients, Submit(c) PROVE Kept
  BY <1>0, <1>5 DEF Submit
<1>6. ASSUME NEW c \in Clients, ExecOk(c) \/ ExecFails(c) PROVE Kept
  BY <1>0, <1>6 DEF ExecOk, ExecFails
<1>7. ASSUME UNCHANGED <<pc, job, overAtCall>> PROVE Kept
  BY <1>0, <1>7
<1>8. QED
  BY <1>1, <1>2, <1>3, <1>4, <1>5, <1>6, <1>7
     DEF Next, ClientStep, JobStep, RevokeStep, vars, Take, TakeRevoked, Load,
         RunQuery, Unlock, Store, Report, Error, Abandon, Cancel, Signal,
         MarkRevoked, TimeLimit, WorkerLost, LockExpires, ResultExpires

(* max_age 0 "always executes" as long as nothing is forgotten: no call of *)
(* enqueue_query is answered with a job that was over before it began.     *)
THEOREM CallsAlwaysExecute ==
  ASSUME NothingForgotten
  PROVE  Spec => []AlwaysExecutes
<1>1. Init => OverIsReady /\ FreshInv
  BY DEF Init, OverIsReady, FreshInv
<1>2. FreshInv => AlwaysExecutes
  BY DEF FreshInv, AlwaysExecutes
<1>3. TypeOK /\ OverIsReady /\ [Next]_vars => OverIsReady'
  BY OverNext
<1>4. QED
  BY <1>1, <1>2, <1>3, TypeInit, TypeNext, FreshNext, PTL DEF Spec

-----------------------------------------------------------------------------
(* The refinement of JobDesk                                               *)

LEMMA WorkValues ==
  ASSUME NEW p, NEW ready \in BOOLEAN
  PROVE  /\ p = "new" => WorkAt(p, ready) = "new"
         /\ p = "over" => WorkAt(p, ready) = IF ready THEN "over" ELSE "lost"
         /\ p \notin {"new", "over"} => WorkAt(p, ready) = "open"
  BY DEF WorkAt

LEMMA StateValues ==
  ASSUME NEW p, NEW j
  PROVE  /\ p = "idle" => StateAt(p, j) = "none" /\ GivenAt(p, j) = NoJob
         /\ p = "return" => StateAt(p, j) = "answered" /\ GivenAt(p, j) = j
         /\ p = "exec" => StateAt(p, j) = "holding" /\ GivenAt(p, j) = j
         /\ p \in {"loop", "get"} =>
              /\ StateAt(p, j) = IF j = NoJob THEN "asking" ELSE "holding"
              /\ GivenAt(p, j) = j
         /\ p \in {"ready", "delete", "submit"} =>
              StateAt(p, j) = "asking" /\ GivenAt(p, j) = NoJob
  BY DEF StateAt, GivenAt, Holds

\* A step of one caller in the eyes of the desk.
LEMMA OneCaller ==
  ASSUME TypeOK, NEW c \in Clients, NEW p, NEW j,
         pc' = [pc EXCEPT ![c] = p], job' = [job EXCEPT ![c] = j]
  PROVE  /\ States' = [States EXCEPT ![c] = StateAt(p, j)]
         /\ Givens' = [Givens EXCEPT ![c] = GivenAt(p, j)]
         /\ States[c] = StateAt(pc[c], job[c])
         /\ Givens[c] = GivenAt(pc[c], job[c])
  BY DEF TypeOK, States, Givens

\* A caller's step that the desk does not see.
LEMMA SameCaller ==
  ASSUME TypeOK, NEW c \in Clients, NEW p, NEW j,
         pc' = [pc EXCEPT ![c] = p], job' = [job EXCEPT ![c] = j],
         StateAt(p, j) = StateAt(pc[c], job[c]), GivenAt(p, j) = GivenAt(pc[c], job[c])
  PROVE  UNCHANGED <<States, Givens>>
<1>1. /\ States' = [States EXCEPT ![c] = StateAt(p, j)]
      /\ Givens' = [Givens EXCEPT ![c] = GivenAt(p, j)]
      /\ States[c] = StateAt(pc[c], job[c])
      /\ Givens[c] = GivenAt(pc[c], job[c])
  BY OneCaller, Zenon
<1>2. QED
  BY <1>1 DEF States, Givens

LEMMA SameWork == UNCHANGED jobVars => UNCHANGED Works
  BY DEF Works, Ready

\* A step of one job in the eyes of the desk.
LEMMA OneJob ==
  ASSUME TypeOK, NEW j \in Jobs, NEW p, NEW s,
         phase' = [phase EXCEPT ![j] = p], status' = [status EXCEPT ![j] = s],
         UNCHANGED clientVars
  PROVE  /\ Works[j] = WorkAt(phase[j], Ready(j))
         /\ Works' = [Works EXCEPT ![j] =
                        WorkAt(p, s \in {"SUCCESS", "FAILURE", "REVOKED"})]
         /\ UNCHANGED <<States, Givens>>
<1>1. /\ Works[j] = WorkAt(phase[j], Ready(j))
      /\ Works' = [Works EXCEPT ![j] =
                     WorkAt(p, s \in {"SUCCESS", "FAILURE", "REVOKED"})]
  BY DEF TypeOK, Works, Ready
<1>2. QED
  BY <1>1 DEF States, Givens

LEMMA SameJob ==
  ASSUME TypeOK, NEW j \in Jobs, NEW p, NEW s,
         phase' = [phase EXCEPT ![j] = p], status' = [status EXCEPT ![j] = s],
         UNCHANGED clientVars, phase[j] \notin {"new", "over"}, p \notin {"new", "over"}
  PROVE  UNCHANGED <<Works, States, Givens>>
<1>1. Ready(j) \in BOOLEAN
  BY DEF Ready
<1>2. WorkAt(phase[j], Ready(j)) = "open"
  BY <1>1, WorkValues
<1> DEFINE r == s \in {"SUCCESS", "FAILURE", "REVOKED"}
<1>3. /\ Works[j] = WorkAt(phase[j], Ready(j))
      /\ Works' = [Works EXCEPT ![j] = WorkAt(p, r)]
      /\ UNCHANGED <<States, Givens>>
  BY OneJob, Zenon
<1>4. r \in BOOLEAN
  OBVIOUS
<1> HIDE DEF r
<1>5. WorkAt(p, r) = "open"
  BY <1>4, WorkValues
<1>6. QED
  BY <1>2, <1>3, <1>5 DEF Works

\* The steps of a caller: what each of them is to the desk.
LEMMA AskingSteps ==
  ASSUME TypeOK, NEW c \in Clients
  PROVE  /\ Call(c) => Desk!Ask(c)
         /\ Watch(c) => UNCHANGED Desk!vars
         /\ RemoveReadyLock(c) => Desk!Clear
<1> USE DEF PC, Goto
<1>0. pc \in [Clients -> PC] /\ job \in [Clients -> Jobs \cup {NoJob}]
  BY DEF TypeOK
<1>1. ASSUME Call(c) PROVE Desk!Ask(c)
  <2>1. /\ pc[c] = "idle"
        /\ pc' = [pc EXCEPT ![c] = "loop"] /\ job' = [job EXCEPT ![c] = NoJob]
    BY <1>1 DEF Call
  <2>2. /\ StateAt("loop", NoJob) = "asking" /\ GivenAt("loop", NoJob) = NoJob
        /\ StateAt(pc[c], job[c]) = "none" /\ GivenAt(pc[c], job[c]) = NoJob
    BY <2>1, StateValues
  <2>3. /\ States' = [States EXCEPT ![c] = StateAt("loop", NoJob)]
        /\ Givens' = [Givens EXCEPT ![c] = GivenAt("loop", NoJob)]
        /\ States[c] = StateAt(pc[c], job[c]) /\ Givens[c] = GivenAt(pc[c], job[c])
    BY <2>1, OneCaller, Zenon
  <2>4. UNCHANGED <<Works, lock>>
    BY <1>1, SameWork DEF Call
  <2>5. UNCHANGED Givens
    BY <2>2, <2>3 DEF Givens
  <2>6. QED
    BY <2>2, <2>3, <2>4, <2>5 DEF Desk!Ask
<1>2. ASSUME Watch(c) PROVE UNCHANGED Desk!vars
  <2>1. /\ pc[c] = "loop"
        /\ pc' = [pc EXCEPT ![c] = "get"] /\ job' = [job EXCEPT ![c] = job[c]]
    BY <1>0, <1>2 DEF Watch
  <2>2. /\ StateAt("get", job[c]) = StateAt(pc[c], job[c])
        /\ GivenAt("get", job[c]) = GivenAt(pc[c], job[c])
    BY <2>1, StateValues
  <2>3. UNCHANGED <<States, Givens>>
    BY <1>0, <2>1, <2>2, SameCaller
  <2>4. QED
    BY <1>2, <2>3, SameWork DEF Watch, Desk!vars
<1>3. ASSUME RemoveReadyLock(c) PROVE Desk!Clear
  <2>1. /\ pc[c] = "delete"
        /\ pc' = [pc EXCEPT ![c] = "submit"] /\ job' = [job EXCEPT ![c] = NoJob]
    BY <1>3 DEF RemoveReadyLock
  <2>2. /\ StateAt("submit", NoJob) = StateAt(pc[c], job[c])
        /\ GivenAt("submit", NoJob) = GivenAt(pc[c], job[c])
    BY <2>1, StateValues
  <2>3. UNCHANGED <<States, Givens>>
    BY <2>1, <2>2, SameCaller
  <2>4. QED
    BY <1>3, <2>3, SameWork DEF RemoveReadyLock, DeleteKey, Desk!Clear
<1>4. QED
  BY <1>1, <1>2, <1>3

LEMMA JoiningSteps ==
  ASSUME TypeOK, SubmittedInv, NEW c \in Clients
  PROVE  /\ Get(c) => Desk!Defer(c) \/ Desk!Keep(c) \/ UNCHANGED Desk!vars
         /\ CheckReady(c) => (\E j \in Jobs : Desk!Join(c, j)) \/ UNCHANGED Desk!vars
         /\ Submit(c) => \E j \in Jobs : Desk!Hand(c, j)
<1> USE DEF PC, Goto
<1>0. pc \in [Clients -> PC] /\ job \in [Clients -> Jobs \cup {NoJob}]
  BY DEF TypeOK
<1>1. ASSUME Get(c) PROVE Desk!Defer(c) \/ Desk!Keep(c) \/ UNCHANGED Desk!vars
  <2>1. pc[c] = "get" /\ UNCHANGED <<lock, jobVars>>
    BY <1>1 DEF Get
  <2>2. UNCHANGED Works
    BY <2>1, SameWork
  <2>3. CASE lock # NoJob
    <3>1. /\ pc' = [pc EXCEPT ![c] = "ready"] /\ job' = [job EXCEPT ![c] = lock]
          /\ lock \in Jobs
      BY <1>1, <2>3 DEF Get, TypeOK
    <3>2. /\ StateAt("ready", lock) = "asking" /\ GivenAt("ready", lock) = NoJob
          /\ StateAt(pc[c], job[c]) = IF job[c] = NoJob THEN "asking" ELSE "holding"
          /\ GivenAt(pc[c], job[c]) = job[c]
      BY <2>1, StateValues
    <3>3. CASE job[c] = NoJob
      <4>1. UNCHANGED <<States, Givens>>
        BY <3>1, <3>2, <3>3, SameCaller
      <4>2. QED
        BY <2>1, <2>2, <4>1 DEF Desk!vars
    <3>4. CASE job[c] # NoJob
      <4>1. /\ States' = [States EXCEPT ![c] = StateAt("ready", lock)]
            /\ Givens' = [Givens EXCEPT ![c] = GivenAt("ready", lock)]
            /\ States[c] = StateAt(pc[c], job[c]) /\ Givens[c] = GivenAt(pc[c], job[c])
        BY <3>1, OneCaller, Zenon
      <4>2. QED
        BY <2>1, <2>2, <2>3, <3>2, <3>4, <4>1 DEF Desk!Defer
    <3>5. QED
      BY <3>3, <3>4
  <2>4. CASE lock = NoJob /\ job[c] = NoJob
    <3>1. /\ pc' = [pc EXCEPT ![c] = "submit"] /\ job' = [job EXCEPT ![c] = NoJob]
      BY <1>0, <1>1, <2>4 DEF Get
    <3>2. /\ StateAt("submit", NoJob) = StateAt(pc[c], job[c])
          /\ GivenAt("submit", NoJob) = GivenAt(pc[c], job[c])
      BY <2>1, <2>4, StateValues
    <3>3. UNCHANGED <<States, Givens>>
      BY <3>1, <3>2, SameCaller
    <3>4. QED
      BY <2>1, <2>2, <3>3 DEF Desk!vars
  <2>5. CASE lock = NoJob /\ job[c] # NoJob
    <3>1. /\ pc' = [pc EXCEPT ![c] = "return"] /\ job' = [job EXCEPT ![c] = job[c]]
      BY <1>0, <1>1, <2>5 DEF Get
    <3>2. /\ StateAt("return", job[c]) = "answered" /\ GivenAt("return", job[c]) = job[c]
          /\ StateAt(pc[c], job[c]) = "holding" /\ GivenAt(pc[c], job[c]) = job[c]
      BY <2>1, <2>5, StateValues
    <3>3. /\ States' = [States EXCEPT ![c] = StateAt("return", job[c])]
          /\ Givens' = [Givens EXCEPT ![c] = GivenAt("return", job[c])]
          /\ States[c] = StateAt(pc[c], job[c]) /\ Givens[c] = GivenAt(pc[c], job[c])
      BY <3>1, OneCaller, Zenon
    <3>4. UNCHANGED Givens
      BY <3>2, <3>3 DEF Givens
    <3>5. QED
      BY <2>1, <2>2, <3>2, <3>3, <3>4 DEF Desk!Keep
  <2>6. QED
    BY <2>3, <2>4, <2>5
<1>2. ASSUME CheckReady(c)
      PROVE  (\E j \in Jobs : Desk!Join(c, j)) \/ UNCHANGED Desk!vars
  <2>1. pc[c] = "ready" /\ UNCHANGED <<lock, jobVars>>
    BY <1>2 DEF CheckReady
  <2>2. UNCHANGED Works
    BY <2>1, SameWork
  <2>3. job[c] \in Jobs /\ phase[job[c]] # "new"
    BY <1>0, <2>1 DEF SubmittedInv
  <2>4. StateAt(pc[c], job[c]) = "asking" /\ GivenAt(pc[c], job[c]) = NoJob
    BY <2>1, StateValues
  <2>5. CASE Ready(job[c])
    <3>1. /\ pc' = [pc EXCEPT ![c] = "delete"] /\ job' = [job EXCEPT ![c] = job[c]]
      BY <1>0, <1>2, <2>5 DEF CheckReady
    <3>2. /\ StateAt("delete", job[c]) = "asking" /\ GivenAt("delete", job[c]) = NoJob
      BY StateValues
    <3>3. UNCHANGED <<States, Givens>>
      BY <1>0, <2>4, <3>1, <3>2, SameCaller
    <3>4. QED
      BY <2>1, <2>2, <3>3 DEF Desk!vars
  <2>6. CASE ~Ready(job[c])
    <3>1. /\ pc' = [pc EXCEPT ![c] = "return"] /\ job' = [job EXCEPT ![c] = job[c]]
      BY <1>0, <1>2, <2>6 DEF CheckReady
    <3>2. /\ StateAt("return", job[c]) = "answered" /\ GivenAt("return", job[c]) = job[c]
      BY StateValues
    <3>3. /\ States' = [States EXCEPT ![c] = StateAt("return", job[c])]
          /\ Givens' = [Givens EXCEPT ![c] = GivenAt("return", job[c])]
          /\ States[c] = StateAt(pc[c], job[c]) /\ Givens[c] = GivenAt(pc[c], job[c])
      BY <3>1, OneCaller, Zenon
    <3>4. Works[job[c]] \in {"open", "lost"}
      <4>1. Works[job[c]] = WorkAt(phase[job[c]], Ready(job[c]))
        BY <2>3 DEF Works
      <4>2. Ready(job[c]) \in BOOLEAN
        BY DEF Ready
      <4>3. QED
        BY <2>3, <2>6, <4>1, <4>2, WorkValues
    <3>5. Desk!Join(c, job[c])
      BY <2>1, <2>2, <2>4, <3>2, <3>3, <3>4 DEF Desk!Join
    <3>6. QED
      BY <2>3, <3>5
  <2>7. QED
    BY <2>5, <2>6
<1>3. ASSUME Submit(c) PROVE \E j \in Jobs : Desk!Hand(c, j)
  <2>1. PICK j \in Jobs :
          /\ phase[j] = "new"
          /\ phase' = [phase EXCEPT ![j] = "queued"]
          /\ job' = [job EXCEPT ![c] = j]
    BY <1>3 DEF Submit
  <2>2. /\ pc[c] = "submit" /\ pc' = [pc EXCEPT ![c] = "exec"]
        /\ UNCHANGED <<lock, status>>
    BY <1>3 DEF Submit
  <2>3. /\ StateAt("exec", j) = "holding" /\ GivenAt("exec", j) = j
        /\ StateAt(pc[c], job[c]) = "asking"
    BY <2>2, StateValues
  <2>4. /\ States' = [States EXCEPT ![c] = StateAt("exec", j)]
        /\ Givens' = [Givens EXCEPT ![c] = GivenAt("exec", j)]
        /\ States[c] = StateAt(pc[c], job[c]) /\ Givens[c] = GivenAt(pc[c], job[c])
    BY <2>1, <2>2, OneCaller, Zenon
  <2>5. /\ WorkAt("queued", Ready(j)) = "open" /\ WorkAt("new", Ready(j)) = "new"
    <3>1. Ready(j) \in BOOLEAN
      BY DEF Ready
    <3>2. QED
      BY <3>1, WorkValues
  <2>6. /\ Works[j] = "new"
        /\ Works' = [Works EXCEPT ![j] = "open"]
    BY <2>1, <2>2, <2>5 DEF Works, Ready, TypeOK
  <2>7. QED
    BY <2>2, <2>3, <2>4, <2>6 DEF Desk!Hand
<1>4. QED
  BY <1>1, <1>2, <1>3

LEMMA AnsweringSteps ==
  ASSUME TypeOK, SubmittedInv, CleanMeansAbsent, NEW c \in Clients
  PROVE  /\ GiveUp(c) => Desk!Keep(c)
         /\ ExecOk(c) => Desk!Register(c)
         /\ ExecFails(c) => UNCHANGED Desk!vars
         /\ Return(c) \/ ClientLost(c) => Desk!Leave(c)
<1> USE DEF PC, Goto
<1>0. pc \in [Clients -> PC] /\ job \in [Clients -> Jobs \cup {NoJob}]
  BY DEF TypeOK
<1>1. ASSUME pc[c] \in {"loop", "exec"}, job[c] # NoJob,
             pc' = [pc EXCEPT ![c] = "return"], UNCHANGED job
      PROVE  /\ States' = [States EXCEPT ![c] = "answered"] /\ UNCHANGED Givens
             /\ States[c] = "holding" /\ Givens[c] = job[c]
  <2>1. job' = [job EXCEPT ![c] = job[c]]
    BY <1>0, <1>1
  <2>2. /\ StateAt("return", job[c]) = "answered" /\ GivenAt("return", job[c]) = job[c]
        /\ StateAt(pc[c], job[c]) = "holding" /\ GivenAt(pc[c], job[c]) = job[c]
    BY <1>1, StateValues
  <2>3. /\ States' = [States EXCEPT ![c] = StateAt("return", job[c])]
        /\ Givens' = [Givens EXCEPT ![c] = GivenAt("return", job[c])]
        /\ States[c] = StateAt(pc[c], job[c]) /\ Givens[c] = GivenAt(pc[c], job[c])
    BY <1>1, <2>1, OneCaller, Zenon
  <2>4. UNCHANGED Givens
    BY <2>2, <2>3 DEF Givens
  <2>5. QED
    BY <2>2, <2>3, <2>4
<1>2. ASSUME GiveUp(c) PROVE Desk!Keep(c)
  <2>1. /\ pc[c] = "loop" /\ pc' = [pc EXCEPT ![c] = "return"]
        /\ UNCHANGED <<lock, job, jobVars>>
    BY <1>2 DEF GiveUp
  <2>2. job[c] # NoJob
    BY <1>2, MaxTriesAssumption DEF GiveUp, SubmittedInv, TypeOK
  <2>3. QED
    BY <1>1, <2>1, <2>2, SameWork DEF Desk!Keep
<1>3. ASSUME ExecOk(c) PROVE Desk!Register(c)
  <2>1. /\ pc[c] = "exec" /\ pc' = [pc EXCEPT ![c] = "return"]
        /\ lock' = job[c] /\ UNCHANGED <<job, jobVars>>
    BY <1>3 DEF ExecOk
  <2>2. job[c] # NoJob /\ lock = NoJob
    BY <1>3 DEF ExecOk, SubmittedInv, CleanMeansAbsent
  <2>3. QED
    BY <1>1, <2>1, <2>2, SameWork DEF Desk!Register
<1>4. ASSUME ExecFails(c) PROVE UNCHANGED Desk!vars
  <2>1. /\ pc[c] = "exec" /\ pc' = [pc EXCEPT ![c] = "loop"]
        /\ job' = [job EXCEPT ![c] = job[c]] /\ UNCHANGED <<lock, jobVars>>
    BY <1>0, <1>4 DEF ExecFails
  <2>2. job[c] # NoJob
    BY <2>1 DEF SubmittedInv
  <2>3. /\ StateAt("loop", job[c]) = StateAt(pc[c], job[c])
        /\ GivenAt("loop", job[c]) = GivenAt(pc[c], job[c])
    BY <2>1, <2>2, StateValues
  <2>4. UNCHANGED <<States, Givens>>
    BY <2>1, <2>3, SameCaller
  <2>5. QED
    BY <2>1, <2>4, SameWork DEF Desk!vars
<1>5. ASSUME Return(c) \/ ClientLost(c) PROVE Desk!Leave(c)
  <2>1. /\ pc[c] # "idle" /\ pc' = [pc EXCEPT ![c] = "idle"]
        /\ job' = [job EXCEPT ![c] = NoJob] /\ UNCHANGED <<lock, jobVars>>
    BY <1>5 DEF Return, ClientLost
  <2>2. /\ StateAt("idle", NoJob) = "none" /\ GivenAt("idle", NoJob) = NoJob
    BY StateValues
  <2>3. StateAt(pc[c], job[c]) # "none"
    BY <2>1 DEF StateAt
  <2>4. /\ States' = [States EXCEPT ![c] = StateAt("idle", NoJob)]
        /\ Givens' = [Givens EXCEPT ![c] = GivenAt("idle", NoJob)]
        /\ States[c] = StateAt(pc[c], job[c]) /\ Givens[c] = GivenAt(pc[c], job[c])
    BY <2>1, OneCaller, Zenon
  <2>5. QED
    BY <2>1, <2>2, <2>3, <2>4, SameWork DEF Desk!Leave
<1>6. QED
  BY <1>2, <1>3, <1>4, <1>5

\* The steps of a job and what is done to it.
LEMMA FinishingSteps ==
  ASSUME TypeOK, NEW j \in Jobs
  PROVE  /\ TakeRevoked(j) \/ Report(j) \/ TimeLimit(j) => Desk!Finish(j)
         /\ WorkerLost(j) => Desk!Finish(j) \/ Desk!Forget(j)
<1> DEFINE Final == {"SUCCESS", "FAILURE", "REVOKED"}
<1>1. ASSUME NEW s, phase[j] \notin {"new", "over"}, phase' = [phase EXCEPT ![j] = "over"],
             status' = [status EXCEPT ![j] = s], UNCHANGED <<clientVars, lock>>
      PROVE  /\ s \in Final => Desk!Finish(j)
             /\ "workerLost" \in Faults => Desk!Finish(j) \/ Desk!Forget(j)
  <2>1. Ready(j) \in BOOLEAN /\ (s \in Final) \in BOOLEAN
    BY DEF Ready
  <2>2. /\ WorkAt(phase[j], Ready(j)) = "open"
        /\ WorkAt("over", s \in Final) = IF s \in Final THEN "over" ELSE "lost"
    BY <1>1, <2>1, WorkValues
  <2>3. /\ Works[j] = WorkAt(phase[j], Ready(j))
        /\ Works' = [Works EXCEPT ![j] = WorkAt("over", s \in Final)]
        /\ UNCHANGED <<States, Givens>>
    BY <1>1, OneJob, Zenon
  <2>4. QED
    BY <1>1, <2>2, <2>3 DEF Desk!Finish, Desk!Forget
<1> HIDE DEF Final
<1>2. ASSUME TakeRevoked(j) \/ Report(j) \/ TimeLimit(j) PROVE Desk!Finish(j)
  <2>1. PICK s \in {"REVOKED", "SUCCESS", "FAILURE"} : status' = [status EXCEPT ![j] = s]
    BY <1>2 DEF TakeRevoked, Report, TimeLimit, SetStatus
  <2>2. /\ phase[j] \notin {"new", "over"} /\ phase' = [phase EXCEPT ![j] = "over"]
        /\ UNCHANGED <<clientVars, lock>>
    BY <1>2 DEF TakeRevoked, Report, TimeLimit, At, Advance, Running
  <2>3. s \in Final
    BY <2>1 DEF Final
  <2>4. QED
    BY <1>1, <2>1, <2>2, <2>3
<1>3. ASSUME WorkerLost(j) PROVE Desk!Finish(j) \/ Desk!Forget(j)
  <2>1. PICK s : status' = [status EXCEPT ![j] = s]
    BY <1>3 DEF WorkerLost, SetStatus
  <2>2. /\ phase[j] \notin {"new", "over"} /\ phase' = [phase EXCEPT ![j] = "over"]
        /\ UNCHANGED <<clientVars, lock>> /\ "workerLost" \in Faults
    BY <1>3 DEF WorkerLost, Advance, Running
  <2>3. QED
    BY <1>1, <2>1, <2>2
<1>4. QED
  BY <1>2, <1>3

LEMMA HiddenSteps ==
  ASSUME TypeOK, NEW j \in Jobs
  PROVE  /\ (Take(j) \/ Load(j) \/ RunQuery(j) \/ Store(j) \/ Error(j)
               \/ Cancel(j) \/ Signal(j)) => UNCHANGED Desk!vars
         /\ Unlock(j) => Desk!Clear
<1>0. phase \in [Jobs -> Phase] /\ status \in [Jobs -> Status]
  BY DEF TypeOK
<1>1. ASSUME NEW p, phase[j] \notin {"new", "over"}, p \notin {"new", "over"},
             phase' = [phase EXCEPT ![j] = p], UNCHANGED <<clientVars, status>>
      PROVE  UNCHANGED <<Works, States, Givens>>
  <2>1. status' = [status EXCEPT ![j] = status[j]]
    BY <1>0, <1>1
  <2>2. QED
    BY <1>1, <2>1, SameJob, Zenon
<1>2. ASSUME Take(j) PROVE UNCHANGED Desk!vars
  <2>1. /\ phase[j] = "queued" /\ phase' = [phase EXCEPT ![j] = "init"]
        /\ status' = [status EXCEPT ![j] = "STARTED"] /\ UNCHANGED <<clientVars, lock>>
    BY <1>2 DEF Take, At, Advance, SetStatus
  <2>2. phase[j] \notin {"new", "over"} /\ "init" \notin {"new", "over"}
    BY <2>1
  <2>3. UNCHANGED <<Works, States, Givens>>
    BY <2>1, <2>2, SameJob, Zenon
  <2>4. QED
    BY <2>1, <2>3, <1>2 DEF Desk!vars, Take
<1>3. ASSUME Load(j) \/ RunQuery(j) \/ Store(j) \/ Unlock(j)
      PROVE  /\ Load(j) \/ RunQuery(j) \/ Store(j) => UNCHANGED Desk!vars
             /\ Unlock(j) => Desk!Clear
  <2>1. PICK p \in {"query", "unlock", "store", "report"} :
          phase' = [phase EXCEPT ![j] = p]
    BY <1>3 DEF Load, RunQuery, Store, Unlock, Advance
  <2>2. phase[j] \notin {"new", "over"} /\ UNCHANGED <<clientVars, status>>
    BY <1>3 DEF Load, RunQuery, Store, Unlock, At
  <2>3. UNCHANGED <<Works, States, Givens>>
    BY <1>1, <2>1, <2>2
  <2>4. QED
    BY <1>3, <2>3 DEF Desk!vars, Desk!Clear, Load, RunQuery, Store, Unlock, DeleteKey
<1>4. ASSUME Abandon(j) PROVE UNCHANGED Desk!vars
  <2>1. /\ phase[j] \notin {"new", "over"} /\ phase' = [phase EXCEPT ![j] = "report"]
        /\ UNCHANGED <<clientVars, status, lock>>
    BY <1>4 DEF Abandon, Advance, Running
  <2>2. QED
    BY <1>1, <2>1 DEF Desk!vars
<1>5. ASSUME UNCHANGED <<clientVars, lock, phase, status>> PROVE UNCHANGED Desk!vars
  BY <1>5 DEF Desk!vars, Works, States, Givens, Ready
<1>6. ASSUME phase[j] = "query", phase' = [phase EXCEPT ![j] = "unlock"],
             UNCHANGED <<clientVars, status, lock>>
      PROVE  UNCHANGED Desk!vars
  BY <1>1, <1>6 DEF Desk!vars
<1>7. ASSUME Error(j) \/ Cancel(j) \/ Signal(j) PROVE UNCHANGED Desk!vars
  <2>1. CASE Abandon(j)
    BY <1>4, <2>1
  <2>2. CASE ~Abandon(j)
    BY <1>5, <1>6, <1>7, <2>2 DEF Error, Cancel, Signal, At, Advance
  <2>3. QED
    BY <2>1, <2>2
<1>8. QED
  BY <1>2, <1>3, <1>7

LEMMA StatusSteps ==
  ASSUME TypeOK, NEW j \in Jobs
  PROVE  /\ MarkRevoked(j) => Desk!Finish(j) \/ UNCHANGED Desk!vars
         /\ ResultExpires(j) => Desk!Forget(j) \/ UNCHANGED Desk!vars
<1> DEFINE Final == {"SUCCESS", "FAILURE", "REVOKED"}
<1>0. phase \in [Jobs -> Phase] /\ status \in [Jobs -> Status]
  BY DEF TypeOK
<1>1. ASSUME NEW s, status' = [status EXCEPT ![j] = s], UNCHANGED <<clientVars, lock, phase>>
      PROVE  /\ UNCHANGED <<States, Givens, lock>>
             /\ phase[j] # "over" => UNCHANGED Works
             /\ phase[j] = "over" =>
                  /\ Works[j] = IF Ready(j) THEN "over" ELSE "lost"
                  /\ Works' = [Works EXCEPT ![j] = IF s \in Final THEN "over" ELSE "lost"]
  <2>1. phase' = [phase EXCEPT ![j] = phase[j]]
    BY <1>0, <1>1
  <2>2. Ready(j) \in BOOLEAN /\ (s \in Final) \in BOOLEAN
    BY DEF Ready
  <2>3. /\ Works[j] = WorkAt(phase[j], Ready(j))
        /\ Works' = [Works EXCEPT ![j] = WorkAt(phase[j], s \in Final)]
        /\ UNCHANGED <<States, Givens>>
    BY <1>1, <2>1, OneJob, Zenon
  <2>4. phase[j] # "over" => WorkAt(phase[j], s \in Final) = WorkAt(phase[j], Ready(j))
    BY DEF WorkAt
  <2>5. phase[j] # "over" => UNCHANGED Works
    BY <2>3, <2>4 DEF Works
  <2>6. phase[j] = "over" =>
          /\ WorkAt(phase[j], Ready(j)) = IF Ready(j) THEN "over" ELSE "lost"
          /\ WorkAt(phase[j], s \in Final) = IF s \in Final THEN "over" ELSE "lost"
    BY <2>2, WorkValues
  <2>7. QED
    BY <1>1, <2>3, <2>5, <2>6
<1>2. ASSUME MarkRevoked(j) PROVE Desk!Finish(j) \/ UNCHANGED Desk!vars
  <2>1. /\ status' = [status EXCEPT ![j] = "REVOKED"]
        /\ UNCHANGED <<clientVars, lock, phase>>
    BY <1>2 DEF MarkRevoked, SetStatus
  <2>2. CASE phase[j] # "over"
    BY <1>1, <2>1, <2>2 DEF Desk!vars
  <2>3. CASE phase[j] = "over"
    <3>1. /\ Works[j] = IF Ready(j) THEN "over" ELSE "lost"
          /\ Works' = [Works EXCEPT ![j] = "over"] /\ UNCHANGED <<States, Givens, lock>>
      BY <1>1, <2>1, <2>3
    <3>2. Works[j] = "over" => UNCHANGED Works
      BY <3>1 DEF Works
    <3>3. QED
      BY <3>1, <3>2 DEF Desk!Finish, Desk!vars
  <2>4. QED
    BY <2>2, <2>3
<1>3. ASSUME ResultExpires(j) PROVE Desk!Forget(j) \/ UNCHANGED Desk!vars
  <2>1. /\ status' = [status EXCEPT ![j] = "PENDING"] /\ "resultTTL" \in Faults
        /\ UNCHANGED <<clientVars, lock, phase>>
    BY <1>3 DEF ResultExpires, SetStatus
  <2>2. CASE phase[j] # "over"
    BY <1>1, <2>1, <2>2 DEF Desk!vars
  <2>3. CASE phase[j] = "over"
    <3>1. "PENDING" \notin Final
      OBVIOUS
    <3>2. /\ Works[j] = IF Ready(j) THEN "over" ELSE "lost"
          /\ Works' = [Works EXCEPT ![j] = IF "PENDING" \in Final THEN "over" ELSE "lost"]
          /\ UNCHANGED <<States, Givens, lock>>
      BY <1>1, <2>1, <2>3, Zenon
    <3>3. Works[j] = "lost" => UNCHANGED Works
      BY <3>1, <3>2 DEF Works
    <3>4. QED
      BY <2>1, <3>1, <3>2, <3>3 DEF Desk!Forget, Desk!vars
  <2>4. QED
    BY <2>2, <2>3
<1>4. QED
  BY <1>2, <1>3

(* Whatever the interleaving of redis commands, broker calls, executors,   *)
(* cancellations and faults, enqueue_query gives each of its callers, at   *)
(* one instant, a job of its own or one that is in progress: the protocol  *)
(* implements JobDesk.                                                     *)
THEOREM DeskIsImplemented == Spec => DeskKeepsItsPromise
<1>1. Init => SubmittedInv /\ CleanMeansAbsent
  BY DEF Init, SubmittedInv, LockNamesSubmittedJob, CleanMeansAbsent
<1>2. Init => Desk!Init
  <2> SUFFICES ASSUME Init PROVE Desk!Init
    OBVIOUS
  <2>1. \A j \in Jobs : Works[j] = "new"
    BY DEF Init, Works, WorkAt
  <2>2. \A c \in Clients : States[c] = "none" /\ Givens[c] = NoJob
    BY DEF Init, States, Givens, StateAt, GivenAt, Holds
  <2>3. QED
    BY <2>1, <2>2 DEF Init, Desk!Init, Works, States, Givens
<1>3. TypeOK /\ SubmittedInv /\ CleanMeansAbsent /\ [Next]_vars
        => [Desk!Next]_(Desk!vars)
  <2> SUFFICES ASSUME TypeOK, SubmittedInv, CleanMeansAbsent, [Next]_vars
               PROVE  Desk!Next \/ UNCHANGED Desk!vars
    OBVIOUS
  <2>1. ASSUME NEW c \in Clients, Call(c) \/ ClientStep(c) \/ ClientLost(c)
        PROVE  Desk!Next \/ UNCHANGED Desk!vars
    <3>1. \/ Desk!Ask(c) \/ Desk!Register(c) \/ Desk!Keep(c) \/ Desk!Defer(c)
          \/ Desk!Leave(c) \/ Desk!Clear \/ UNCHANGED Desk!vars
          \/ \E j \in Jobs : Desk!Hand(c, j) \/ Desk!Join(c, j)
      BY <2>1, AskingSteps, JoiningSteps, AnsweringSteps DEF ClientStep
    <3>2. QED
      BY <3>1 DEF Desk!Next
  <2>2. ASSUME NEW j \in Jobs, \/ JobStep(j) \/ Error(j) \/ Cancel(j) \/ RevokeStep(j)
                               \/ TimeLimit(j) \/ WorkerLost(j) \/ ResultExpires(j)
        PROVE  Desk!Next \/ UNCHANGED Desk!vars
    <3>1. CASE TakeRevoked(j) \/ Report(j) \/ TimeLimit(j) \/ WorkerLost(j)
      BY <3>1, FinishingSteps DEF Desk!Next
    <3>2. CASE \/ Take(j) \/ Load(j) \/ RunQuery(j) \/ Store(j) \/ Error(j)
              \/ Cancel(j) \/ Signal(j)
      BY <3>2, HiddenSteps
    <3>3. CASE Unlock(j)
      BY <3>3, HiddenSteps DEF Desk!Next
    <3>4. CASE MarkRevoked(j) \/ ResultExpires(j)
      BY <3>4, StatusSteps DEF Desk!Next
    <3>5. QED
      BY <2>2, <3>1, <3>2, <3>3, <3>4 DEF JobStep, RevokeStep
  <2>3. CASE LockExpires
    <3>1. Desk!Clear
      BY <2>3, SameWork DEF LockExpires, Desk!Clear, States, Givens
    <3>2. QED
      BY <3>1 DEF Desk!Next
  <2>4. CASE UNCHANGED vars
    BY <2>4 DEF vars, Desk!vars, Works, States, Givens, Ready
  <2>5. QED
    BY <2>1, <2>2, <2>3, <2>4 DEF Next
<1>4. QED
  BY <1>1, <1>2, <1>3, TypeInit, TypeNext, SubmittedNext, CleanNext, PTL
     DEF Spec, DeskKeepsItsPromise, Desk!Spec

=============================================================================
