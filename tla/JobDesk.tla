------------------------------ MODULE JobDesk ------------------------------
(***************************************************************************)
(* What enqueue_query promises its callers: each call gets one job, at one *)
(* instant between the call and its answer. Either it hands over a new job *)
(* itself, or it joins a job that is in progress at that instant. At most  *)
(* one job is the one that others are to find: a job takes that place only *)
(* while it is empty.                                                      *)
(***************************************************************************)
CONSTANTS
  Clients,
  Jobs,
  NoJob,
  MayForget  \* whether it can be lost that a job has come to its end

VARIABLES
  work,     \* new, open, over, or "lost": over without anybody's knowing
  current,  \* the job that a call finds in progress, or none
  state,    \* what each caller has reached
  given     \* the job that each caller has

vars == <<work, current, state, given>>

Init ==
  /\ work = [j \in Jobs |-> "new"]
  /\ current = NoJob
  /\ state = [c \in Clients |-> "none"]
  /\ given = [c \in Clients |-> NoJob]

Ask(c) ==
  /\ state[c] = "none"
  /\ state' = [state EXCEPT ![c] = "asking"]
  /\ UNCHANGED <<work, current, given>>

\* The caller gets a job of its own.
Hand(c, j) ==
  /\ state[c] = "asking"
  /\ work[j] = "new"
  /\ work' = [work EXCEPT ![j] = "open"]
  /\ state' = [state EXCEPT ![c] = "holding"]
  /\ given' = [given EXCEPT ![c] = j]
  /\ UNCHANGED current

\* The caller is answered with a job that somebody has handed over and that
\* nobody knows to be over.
Join(c, j) ==
  /\ state[c] = "asking"
  /\ work[j] \in {"open", "lost"}
  /\ state' = [state EXCEPT ![c] = "answered"]
  /\ given' = [given EXCEPT ![c] = j]
  /\ UNCHANGED <<work, current>>

\* The caller's own job takes the empty place.
Register(c) ==
  /\ state[c] = "holding"
  /\ current = NoJob
  /\ current' = given[c]
  /\ state' = [state EXCEPT ![c] = "answered"]
  /\ UNCHANGED <<work, given>>

\* The caller's own job stays unknown to the others.
Keep(c) ==
  /\ state[c] = "holding"
  /\ state' = [state EXCEPT ![c] = "answered"]
  /\ UNCHANGED <<work, current, given>>

\* The caller prefers another's job to its own, which is left to itself.
Defer(c) ==
  /\ state[c] = "holding"
  /\ current # NoJob
  /\ state' = [state EXCEPT ![c] = "asking"]
  /\ given' = [given EXCEPT ![c] = NoJob]
  /\ UNCHANGED <<work, current>>

\* The answered caller leaves, or a caller without an answer is lost.
Leave(c) ==
  /\ state[c] # "none"
  /\ state' = [state EXCEPT ![c] = "none"]
  /\ given' = [given EXCEPT ![c] = NoJob]
  /\ UNCHANGED <<work, current>>

Clear ==
  /\ current' = NoJob
  /\ UNCHANGED <<work, state, given>>

Finish(j) ==
  /\ work[j] \in {"open", "lost"}
  /\ work' = [work EXCEPT ![j] = "over"]
  /\ UNCHANGED <<current, state, given>>

Forget(j) ==
  /\ MayForget
  /\ work[j] \in {"open", "over"}
  /\ work' = [work EXCEPT ![j] = "lost"]
  /\ UNCHANGED <<current, state, given>>

Next ==
  \/ \E c \in Clients :
       \/ Ask(c) \/ Register(c) \/ Keep(c) \/ Defer(c) \/ Leave(c)
       \/ \E j \in Jobs : Hand(c, j) \/ Join(c, j)
  \/ Clear
  \/ \E j \in Jobs : Finish(j) \/ Forget(j)

Spec == Init /\ [][Next]_vars
=============================================================================
