------------------------------ MODULE EditLog ------------------------------
(***************************************************************************)
(* What optimistic locking promises of an object that several sessions     *)
(* edit: an edit that says what it was based on is applied only if nothing *)
(* was written since; other writers are not held back.                     *)
(***************************************************************************)
EXTENDS Naturals, Sequences

CONSTANTS
  Sessions,  \* pages on which the object is being edited
  NoBase     \* of a write that does not say what it is based on

VARIABLES
  log,   \* the writes that the object is the result of
  seen   \* how many of them each page shows

Init ==
  /\ log = <<>>
  /\ seen = [s \in Sessions |-> 0]

Look(s) ==
  /\ seen' = [seen EXCEPT ![s] = Len(log)]
  /\ UNCHANGED log

\* The page shows the object as it is, and its edit becomes part of it.
Save(s) ==
  /\ seen[s] = Len(log)
  /\ log' = Append(log, [by |-> s, base |-> seen[s]])
  /\ seen' = [seen EXCEPT ![s] = Len(log')]

\* A write that is applied whatever the object is: the page shows the result.
Overwrite(s) ==
  /\ log' = Append(log, [by |-> s, base |-> NoBase])
  /\ seen' = [seen EXCEPT ![s] = Len(log')]

Next == \E s \in Sessions : Look(s) \/ Save(s) \/ Overwrite(s)

Spec == Init /\ [][Next]_<<log, seen>>
=============================================================================
