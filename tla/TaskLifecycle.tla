----------------------------- MODULE TaskLifecycle -----------------------------
(***************************************************************************)
(* What a ledger promises of its tasks, whoever works them: a task is      *)
(* declared once, worked by one worker at a time, and settles once.  The   *)
(* worker may put its task back, or die and leave it in progress: such an  *)
(* orphan is never worked again.  A new plan replaces the whole ledger.    *)
(***************************************************************************)
CONSTANTS Tasks, NoTask

VARIABLES
  status,     \* what the ledger says of each task
  live        \* the task being worked, or NoTask

Init ==
  /\ status \in [Tasks -> {"absent", "pending"}]
  /\ live = NoTask

Declare(new) ==
  /\ new # {} /\ \A t \in new : status[t] = "absent"
  /\ status' = [t \in Tasks |-> IF t \in new THEN "pending" ELSE status[t]]
  /\ UNCHANGED live

PickUp(t) ==
  /\ live = NoTask /\ status[t] = "pending"
  /\ status' = [status EXCEPT ![t] = "in_progress"]
  /\ live' = t

Settle(t) ==
  /\ live = t
  /\ \E verdict \in {"done", "blocked"} : status' = [status EXCEPT ![t] = verdict]
  /\ live' = NoTask

PutBack(t) ==
  /\ live = t
  /\ status' = [status EXCEPT ![t] = "pending"]
  /\ live' = NoTask

\* A plan is changed between two tasks, never under the one being worked.
Drop(t) ==
  /\ live = NoTask /\ status[t] \in {"pending", "in_progress"}
  /\ status' = [status EXCEPT ![t] = "dropped"]
  /\ UNCHANGED live

Die == live' = NoTask /\ UNCHANGED status

Replace ==
  /\ live = NoTask
  /\ status' = [t \in Tasks |-> "absent"]
  /\ UNCHANGED live

Next ==
  \/ \E new \in SUBSET Tasks : Declare(new)
  \/ \E t \in Tasks : PickUp(t) \/ Settle(t) \/ PutBack(t) \/ Drop(t)
  \/ Die
  \/ Replace

Spec == Init /\ [][Next]_<<status, live>>
=============================================================================
