----------------------------- MODULE AccessList -----------------------------
(***************************************************************************)
(* What the access list of an object promises: it is a set of users; a     *)
(* grant puts a user into it and a revocation takes the user out, at one   *)
(* instant between the call and its answer. A grant may fail, which        *)
(* changes nothing.                                                        *)
(***************************************************************************)
CONSTANTS
  Workers,   \* calls in progress, one per worker
  Grantees

VARIABLES
  allowed,  \* the users on the list
  call      \* what each worker is doing

vars == <<allowed, call>>

NoCall == [state |-> "none"]

Init ==
  /\ allowed = {}
  /\ call = [w \in Workers |-> NoCall]

Call(w, op, g) ==
  /\ call[w] = NoCall
  /\ call' = [call EXCEPT ![w] = [state |-> "open", op |-> op, to |-> g]]
  /\ UNCHANGED allowed

Perform(w) ==
  /\ call[w].state = "open"
  /\ allowed' = IF call[w].op = "grant"
                THEN allowed \cup {call[w].to} ELSE allowed \ {call[w].to}
  /\ call' = [call EXCEPT ![w].state = "done"]

Fail(w) ==
  /\ call[w].state = "open"
  /\ call[w].op = "grant"
  /\ call' = [call EXCEPT ![w].state = "failed"]
  /\ UNCHANGED allowed

Answer(w) ==
  /\ call[w].state \in {"done", "failed"}
  /\ call' = [call EXCEPT ![w] = NoCall]
  /\ UNCHANGED allowed

Next ==
  \E w \in Workers :
    \/ \E op \in {"grant", "revoke"}, g \in Grantees : Call(w, op, g)
    \/ Perform(w) \/ Fail(w) \/ Answer(w)

Spec == Init /\ [][Next]_vars
=============================================================================
