-------------------------------- MODULE Ledger --------------------------------
(***************************************************************************)
(* loop/ledger.py and the two planner tools of loop/tools.py: the tasks a  *)
(* run declared, in the order they will be worked.  A task is its number,  *)
(* its status and the blocked task whose consult added it; what it is      *)
(* about is abstracted away, and with it the refusals that read a          *)
(* description (a duplicate, a forbidden shape, an over-decomposed list):  *)
(* a refused entry is one the call does not add.                           *)
(***************************************************************************)
EXTENDS Naturals, SequencesExt

Nobody == 0         \* unblocks = "": no consult put the task in front

TaskStatus == {"pending", "in_progress", "done", "blocked", "dropped"}

Ids(tasks) == {tasks[i].id : i \in DOMAIN tasks}

InStatus(tasks, st) == {tasks[i].id : i \in {j \in DOMAIN tasks : tasks[j].status = st}}

resumable(tasks) == InStatus(tasks, "pending")

\* The position of the next task to work, 0 when there is none.
next_pending(tasks) == SelectInSeq(tasks, LAMBDA entry : entry.status = "pending")

\* _front_at: found at a consult's first addition, ahead of every pending task.
front(tasks, frontAt) ==
  IF frontAt # 0 THEN frontAt
  ELSE IF next_pending(tasks) # 0 THEN next_pending(tasks) ELSE Len(tasks) + 1

\* Mutant: a consult's task waits behind every pending one.
placeLast(tasks, unblocking, frontAt) == Len(tasks) + 1

place(tasks, unblocking, frontAt) ==
  IF unblocking = Nobody THEN Len(tasks) + 1 ELSE front(tasks, frontAt)

\* Mutant: numbered from the count itself, so the first id is taken or 0.
addedTooLow(tasks, count, unblocking) ==
  [i \in 1..count |-> [id |-> Len(tasks) + i - 1, status |-> "pending", unblocks |-> unblocking]]

\* The tasks of one add_tasks call: numbered by the count, kept together.
added(tasks, count, unblocking) ==
  [i \in 1..count |-> [id |-> Len(tasks) + i, status |-> "pending", unblocks |-> unblocking]]

add_tasks(tasks, count, unblocking, frontAt) ==
  LET at == place(tasks, unblocking, frontAt)
  IN  SubSeq(tasks, 1, at - 1) \o added(tasks, count, unblocking)
        \o SubSeq(tasks, at, Len(tasks))

set_status(tasks, id, st) ==
  [i \in DOMAIN tasks |->
     IF tasks[i].id = id THEN [tasks[i] EXCEPT !.status = st] ELSE tasks[i]]

\* Mutant: any task can be retracted.
droppableAll(tasks) == Ids(tasks)

\* drop_task refuses a settled task.

droppable(tasks) == InStatus(tasks, "pending") \cup InStatus(tasks, "in_progress")
=============================================================================
