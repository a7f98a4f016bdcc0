------------------------------- MODULE WorkLoop -------------------------------
(***************************************************************************)
(* The serial run around run_task: loop/engine.py plan() and work(), with  *)
(* main_agent.py _run, _settle_plan and check_resumable.  A process plans, *)
(* settles the plan with the user, works the ledger's tasks in order,      *)
(* consults the planner when it stalls, and ends; ledger.json is what the  *)
(* next process sees of it.  run_task is one outcome here: TaskRun has its *)
(* inside.                                                                 *)
(***************************************************************************)
EXTENDS Ledger

CONSTANTS
  MaxBlockedConsults,   \* MAX_BLOCKED_CONSULTS
  MaxRevisions,         \* MAX_REVISIONS
  MaxTasks,             \* bound of the model: tasks one ledger may hold
  MaxBatch,             \* bound of the model: tasks one add_tasks call adds
  MaxProcesses          \* bound of the model: processes started

ASSUME WorkLoopAssumption ==
  {MaxBlockedConsults, MaxRevisions, MaxTasks, MaxBatch, MaxProcesses} \subseteq Nat

VARIABLES
  disk, previous,       \* run/ledger.json and run/ledger.previous.json
  ledger,               \* Ledger.tasks
  unblocking, frontAt,  \* Ledger._unblocking, Ledger._front_at
  pc, current,          \* where the process is, and the task it works
  revisions,            \* plan revisions asked for at this approval
  baselineRed,          \* LoopContext.failure_baseline is not empty
  consultedOnEmpty, consultedOnStale, blockedConsults,
  processes,            \* processes started
  consults,             \* history: planner consults of this process
  plan                  \* history: the number of the plan on disk

fileVars   == <<disk, previous, plan>>
queueVars  == <<unblocking, frontAt>>
memoryVars == <<revisions, baselineRed, consultedOnEmpty, consultedOnStale, blockedConsults>>
vars == <<fileVars, ledger, queueVars, pc, current, memoryVars, processes, consults>>

\* Ledger.load: a missing or unreadable file is an empty ledger.
NoLedger == <<>>
NoTask == 0

Stages == {"clarify", "architect", "breakdown"}
\* The planner runs a breakdown stage, the only one that holds the ledger tools.
Breakdowns == {"breakdown", "revision", "consult"}
Planners == {"clarify", "architect"} \cup Breakdowns

-----------------------------------------------------------------------------
\* A process's memory: gone with it.
Forget ==
  /\ ledger' = <<>> /\ unblocking' = Nobody /\ frontAt' = 0 /\ current' = NoTask
  /\ revisions' = 0 /\ baselineRed' = FALSE
  /\ consultedOnEmpty' = FALSE /\ consultedOnStale' = FALSE
  /\ blockedConsults' = 0 /\ consults' = 0

Init ==
  /\ disk = NoLedger /\ previous = NoLedger /\ plan = 0
  /\ ledger = <<>> /\ unblocking = Nobody /\ frontAt = 0
  /\ pc = "down" /\ current = NoTask
  /\ revisions = 0 /\ baselineRed = FALSE
  /\ consultedOnEmpty = FALSE /\ consultedOnStale = FALSE /\ blockedConsults = 0
  /\ processes = 0 /\ consults = 0

\* Every change of the ledger ends in Ledger.save, atomic on disk.
Save(tasks) == ledger' = tasks /\ disk' = tasks

Exit == pc' = "down" /\ Forget /\ UNCHANGED <<fileVars, processes>>

-----------------------------------------------------------------------------
(***************************************************************************)
(* Planning.  A fresh run copies unfinished work aside, then saves an      *)
(* empty ledger before its first model call.                               *)
(***************************************************************************)
\* Mutant: an older copy is never overwritten.
preserve_first_ledger ==
  /\ pc = "down" /\ processes < MaxProcesses
  /\ previous' = IF resumable(disk) # {} /\ previous = NoLedger THEN disk ELSE previous
  /\ processes' = processes + 1
  /\ pc' = "saving"
  /\ UNCHANGED <<disk, plan, ledger, queueVars, current, memoryVars, consults>>

preserve_previous_ledger ==
  /\ pc = "down" /\ processes < MaxProcesses
  /\ previous' = IF resumable(disk) # {} THEN disk ELSE previous
  /\ processes' = processes + 1
  /\ pc' = "saving"
  /\ UNCHANGED <<disk, plan, ledger, queueVars, current, memoryVars, consults>>

SaveRequest ==
  /\ pc = "saving"
  /\ Save(<<>>) /\ plan' = processes
  /\ pc' = "clarify"
  /\ UNCHANGED <<previous, queueVars, current, memoryVars, processes, consults>>

StageEnds ==
  /\ pc \in Stages
  /\ pc' = CASE pc = "clarify" -> "architect"
             [] pc = "architect" -> "breakdown"
             [] pc = "breakdown" -> "settling"
  /\ UNCHANGED <<fileVars, ledger, queueVars, current, memoryVars, processes, consults>>

add_tasks_tool(count) ==
  /\ pc \in Breakdowns
  /\ Len(ledger) + count <= MaxTasks
  /\ Save(add_tasks(ledger, count, unblocking, frontAt))
  /\ frontAt' = IF unblocking = Nobody THEN 0 ELSE front(ledger, frontAt) + count
  /\ UNCHANGED <<previous, plan, unblocking, pc, current, memoryVars, processes, consults>>

drop_task(id) ==
  /\ pc \in Breakdowns /\ id \in droppable(ledger)
  /\ Save(set_status(ledger, id, "dropped"))
  /\ UNCHANGED <<previous, plan, queueVars, pc, current, memoryVars, processes, consults>>

\* A provider error to the planner, or a Ctrl-C while it runs, ends the run.
PlannerFails == pc \in Planners /\ Exit

-----------------------------------------------------------------------------
(***************************************************************************)
(* check_resumable and the approval.  --continue skips plan() and settles  *)
(* what the disk holds.                                                    *)
(***************************************************************************)
Resume ==
  /\ pc = "down" /\ processes < MaxProcesses
  /\ resumable(disk) # {}
  /\ ledger' = disk
  /\ processes' = processes + 1
  /\ pc' = "settling"
  /\ UNCHANGED <<fileVars, queueVars, current, memoryVars, consults>>

Approve ==
  /\ pc = "settling" /\ pc' = "picking"
  /\ UNCHANGED <<fileVars, ledger, queueVars, current, memoryVars, processes, consults>>

Revise ==
  /\ pc = "settling" /\ revisions < MaxRevisions
  /\ revisions' = revisions + 1 /\ pc' = "revision"
  /\ UNCHANGED <<fileVars, ledger, queueVars, current, baselineRed, consultedOnEmpty,
                 consultedOnStale, blockedConsults, processes, consults>>

RevisionEnds ==
  /\ pc = "revision" /\ pc' = "settling"
  /\ UNCHANGED <<fileVars, ledger, queueVars, current, memoryVars, processes, consults>>

\* Cancelled, plan mode, or one revision too many.
Decline == pc = "settling" /\ Exit

-----------------------------------------------------------------------------
(***************************************************************************)
(* work().                                                                 *)
(***************************************************************************)
PickUp ==
  LET at == next_pending(ledger)
  IN  /\ pc = "picking" /\ at # 0
      /\ current' = ledger[at].id
      /\ Save(set_status(ledger, ledger[at].id, "in_progress"))
      /\ pc' = "working"
      /\ UNCHANGED <<previous, plan, queueVars, memoryVars, processes, consults>>

Consult == pc' = "consult" /\ consults' = consults + 1

ConsultOnStale ==
  /\ pc = "picking" /\ next_pending(ledger) = 0
  /\ baselineRed /\ ~consultedOnStale
  /\ consultedOnStale' = TRUE
  /\ Consult
  /\ UNCHANGED <<fileVars, ledger, queueVars, current, revisions, baselineRed,
                 consultedOnEmpty, blockedConsults, processes>>

NothingStale == ~baselineRed \/ consultedOnStale

ConsultOnEmpty ==
  /\ pc = "picking" /\ next_pending(ledger) = 0 /\ NothingStale
  /\ ~consultedOnEmpty
  /\ consultedOnEmpty' = TRUE
  /\ Consult
  /\ UNCHANGED <<fileVars, ledger, queueVars, current, revisions, baselineRed,
                 consultedOnStale, blockedConsults, processes>>

NothingLeft ==
  /\ pc = "picking" /\ next_pending(ledger) = 0 /\ NothingStale
  /\ consultedOnEmpty
  /\ pc' = "closing"
  /\ UNCHANGED <<fileVars, ledger, queueVars, current, memoryVars, processes, consults>>

TaskDone ==
  /\ pc = "working"
  /\ Save(set_status(ledger, current, "done"))
  /\ baselineRed' \in BOOLEAN
  /\ current' = NoTask /\ pc' = "picking"
  /\ UNCHANGED <<previous, plan, queueVars, revisions, consultedOnEmpty,
                 consultedOnStale, blockedConsults, processes, consults>>

\* Mutant: nothing bounds the blocks of one run.
NeverOutOfConsults == FALSE
OutOfConsults == blockedConsults + 1 > MaxBlockedConsults

TaskBlocked ==
  /\ pc = "working"
  /\ Save(set_status(ledger, current, "blocked"))
  /\ baselineRed' \in BOOLEAN
  /\ current' = NoTask
  /\ blockedConsults' = blockedConsults + 1
  /\ \/ /\ OutOfConsults
        /\ pc' = "closing"
        /\ UNCHANGED <<queueVars, consultedOnEmpty, consults>>
     \/ /\ ~OutOfConsults
        /\ consultedOnEmpty' = FALSE
        /\ unblocking' = current /\ frontAt' = 0
        /\ Consult
  /\ UNCHANGED <<previous, plan, revisions, consultedOnStale, processes>>

ConsultEnds ==
  /\ pc = "consult"
  /\ unblocking' = Nobody /\ frontAt' = 0
  /\ pc' = "picking"
  /\ UNCHANGED <<fileVars, ledger, current, memoryVars, processes, consults>>

\* Mutant: the stop does not leave the loop.
TaskStopsAlone ==
  /\ pc = "working"
  /\ Save(set_status(ledger, current, "pending"))
  /\ current' = NoTask /\ pc' = "picking"
  /\ UNCHANGED <<previous, plan, queueVars, memoryVars, processes, consults>>

\* STOP_RUN: run_task has put the task back; the run closes with its review.
TaskStops ==
  /\ pc = "working"
  /\ Save(set_status(ledger, current, "pending"))
  /\ current' = NoTask /\ pc' = "closing"
  /\ UNCHANGED <<previous, plan, queueVars, memoryVars, processes, consults>>

\* Ctrl-C inside run_task: the task goes back, and no model is called again.
CancelTask ==
  /\ pc = "working"
  /\ disk' = set_status(ledger, current, "pending")
  /\ pc' = "down" /\ Forget
  /\ UNCHANGED <<previous, plan, processes>>

\* review_once, summarise_architecture, summarise: nothing in the ledger changes.
Close == pc = "closing" /\ Exit

\* A second Ctrl-C, a kill, a power cut: at any instant, with no handler run.
Crash == pc # "down" /\ Exit

WorkStep ==
  \/ PickUp \/ ConsultOnStale \/ ConsultOnEmpty \/ NothingLeft
  \/ TaskDone \/ TaskBlocked \/ TaskStops \/ ConsultEnds \/ Close

Next ==
  \/ preserve_previous_ledger \/ SaveRequest \/ StageEnds
  \/ \E count \in 1..MaxBatch : add_tasks_tool(count)
  \/ \E id \in 1..MaxTasks : drop_task(id)
  \/ PlannerFails
  \/ Resume \/ Approve \/ Revise \/ RevisionEnds \/ Decline
  \/ WorkStep
  \/ CancelTask
  \/ Crash

Spec == Init /\ [][Next]_vars /\ WF_vars(WorkStep)

-----------------------------------------------------------------------------
EntryOK ==
  [id : 1..MaxTasks, status : TaskStatus, unblocks : 0..MaxTasks]

IsLedger(tasks) ==
  /\ Len(tasks) <= MaxTasks
  /\ \A i \in DOMAIN tasks : tasks[i] \in EntryOK
  /\ Ids(tasks) = 1..Len(tasks)

TypeOK ==
  /\ IsLedger(ledger) /\ IsLedger(disk) /\ IsLedger(previous)
  /\ unblocking \in 0..MaxTasks /\ frontAt \in 0..MaxTasks + 1
  /\ pc \in Planners \cup {"down", "saving", "settling", "picking", "working", "closing"}
  /\ current \in 0..MaxTasks /\ (pc = "working" <=> current # NoTask)
  /\ revisions \in 0..MaxRevisions
  /\ baselineRed \in BOOLEAN /\ consultedOnEmpty \in BOOLEAN /\ consultedOnStale \in BOOLEAN
  /\ blockedConsults \in 0..MaxBlockedConsults + 1
  /\ processes \in 0..MaxProcesses /\ consults \in Nat /\ plan \in 0..MaxProcesses

(***************************************************************************)
(* What a blocked task's consult asked for is worked before every task     *)
(* that was waiting then, newest consult first and each in the order it    *)
(* was asked for; whatever plans, drops and resumes came in between.       *)
(***************************************************************************)
Waiting(i) == ledger[i].status = "pending"

UnblockersLead ==
  \A i, j \in DOMAIN ledger : i < j /\ Waiting(i) /\ Waiting(j) =>
    IF ledger[i].unblocks = ledger[j].unblocks
      THEN ledger[i].id < ledger[j].id
      ELSE ledger[j].unblocks # Nobody => ledger[j].id < ledger[i].id

(***************************************************************************)
(* A planner that answers every consult with tasks that block again cannot *)
(* keep the run going: a block re-arms the consult on an empty ledger, and *)
(* the blocks themselves are bounded.                                      *)
(***************************************************************************)
ConsultsBounded == consults <= 2 * MaxBlockedConsults + 2

(***************************************************************************)
(* A new plan replaces a ledger with tasks to resume only over a copy of   *)
(* it, even when the process that made the copy died before the save.      *)
(***************************************************************************)
UnfinishedWorkIsCopied ==
  [][plan' # plan /\ resumable(disk) # {} => previous' = disk]_vars

(***************************************************************************)
(* What ledger.json shows is a task lifecycle: a crash at any instant      *)
(* strands at most the task being worked, and no plan, consult, drop or    *)
(* resume works a settled or a stranded task again.                        *)
(***************************************************************************)
StatusOnDisk ==
  [t \in 1..MaxTasks |->
     IF t \in Ids(disk)
       THEN CHOOSE st \in TaskStatus : t \in InStatus(disk, st)
       ELSE "absent"]

Lifecycle ==
  INSTANCE TaskLifecycle WITH
    Tasks <- 1..MaxTasks, status <- StatusOnDisk, live <- current

LifecycleOnDisk == Lifecycle!Spec

(***************************************************************************)
(* Once the plan is approved the run ends, by itself: whatever run_task    *)
(* answers, whatever the planner adds.                                     *)
(***************************************************************************)
RunEnds == (pc = "picking") ~> (pc = "down")

(***************************************************************************)
(* A run is bounded: so are its consults, whatever the planner adds, and   *)
(* an approved run ends.                                                   *)
(***************************************************************************)
RunIsBounded == []ConsultsBounded /\ RunEnds
=============================================================================
