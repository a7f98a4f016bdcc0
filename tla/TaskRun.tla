------------------------------- MODULE TaskRun -------------------------------
(***************************************************************************)
(* loop/engine.py run_task: write, verify, fix, reverify, until the gate   *)
(* passes or the task stops, with the tasks of one ledger worked one at a  *)
(* time over a tree they share, and the run stopped and resumed.           *)
(*                                                                         *)
(* The driver is abstract here: any pending task may be picked up next     *)
(* (WorkLoop models the order, the planner's consults and the file on      *)
(* disk).  A subagent is an environment step that may write any files and  *)
(* leave any faults; the gate then reports what the tree holds.            *)
(***************************************************************************)
EXTENDS Gate

CONSTANTS
  Tasks,
  NoTask,
  MaxFixAttempts,     \* [agent] max_fix_attempts
  MaxRunErrors,       \* MAX_CONSECUTIVE_RUN_ERRORS
  MaxRefunds,         \* MAX_DEPENDENCY_GATES
  MaxRuns             \* bound of the model: a first run and its resumes

ASSUME TaskRunAssumption ==
  /\ NoTask \notin Tasks
  /\ MaxFixAttempts \in Nat \ {0}
  /\ MaxRunErrors \in Nat \ {0}
  /\ MaxRefunds \in Nat
  /\ MaxRuns \in Nat

VARIABLES
  tree,               \* the project: its faults, and whether it has tests
  status, attempts,   \* Task.status, Task.attempts
  touched,            \* Task.files_touched
  lastSignature,      \* Task.last_signature, NoSignature for None
  baseline,           \* LoopContext.failure_baseline
  baselineFailed,     \* LoopContext.baseline_failed
  runErrors,          \* LoopContext.run_errors
  pc, task,           \* where run_task is, and for which task
  budget, inherited, inheritedFailing, rejected, tested, refunds,
  carried,            \* what the failed dispatches since `before` changed
  diff,               \* changed_since(before) of the attempt being judged
  runs,               \* processes started on this ledger
  served,             \* history: attempts this call really had
  startTree           \* history: the tree when the task was picked up

ledgerVars == <<status, attempts, touched, lastSignature>>
runVars    == <<baseline, baselineFailed, runErrors, runs>>
callVars   == <<task, budget, inherited, inheritedFailing, rejected, tested,
                refunds, carried, diff, served, startTree>>
vars == <<tree, ledgerVars, runVars, pc, callVars>>

Status == {"pending", "in_progress", "done", "blocked"}

-----------------------------------------------------------------------------
Init ==
  /\ tree \in Trees
  /\ status = [t \in Tasks |-> "pending"]
  /\ attempts = [t \in Tasks |-> 0]
  /\ touched = [t \in Tasks |-> {}]
  /\ lastSignature = [t \in Tasks |-> NoSignature]
  /\ baseline = {} /\ baselineFailed = FALSE /\ runErrors = 0 /\ runs = 1
  /\ pc = "idle" /\ task = NoTask
  /\ budget = 0 /\ inherited = {} /\ inheritedFailing = FALSE
  /\ rejected = FALSE /\ tested = FALSE /\ refunds = 0
  /\ carried = {} /\ diff = {}
  /\ served = 0 /\ startTree = tree

(***************************************************************************)
(* What a subagent that changed the files `written` may leave behind.  A   *)
(* fault of a file's own text moves only with that file; a type error or a *)
(* failing test may follow from any change.                                *)
(***************************************************************************)
Rewrite(written) ==
  /\ tree' \in Trees
  /\ written = {} => tree' = tree
  /\ \A k \in Faults :
       k.stage \in Scoped /\ k.at \notin written =>
         (k \in tree'.faults <=> k \in tree.faults)

\* _record_touched: every attempt's files, never the last one's.
RecordTouched(files) == touched' = [touched EXCEPT ![task] = @ \cup files]

SetStatus(st) == status' = [status EXCEPT ![task] = st]

\* Mutant: the task the run stopped on is left in progress.
StopRunInProgress == UNCHANGED status /\ pc' = "stopped"

\* _stop: a run that stops mid-task leaves the task pending, never in progress.
StopRun == SetStatus("pending") /\ pc' = "stopped"

Settle(st) == SetStatus(st) /\ pc' = "idle"

-----------------------------------------------------------------------------
(***************************************************************************)
(* The head of the attempt loop.                                           *)
(***************************************************************************)
\* Mutant: everything not done is worked again.
UndoneWorkable(t) == status[t] # "done"
Workable(t) == status[t] = "pending"

Budget(t) == attempts[t] + MaxFixAttempts

Begin(t) ==
  /\ pc = "idle" /\ Workable(t)
  /\ pc' = "head" /\ task' = t
  /\ budget' = Budget(t)
  /\ inherited' = baseline /\ inheritedFailing' = baselineFailed
  /\ rejected' = FALSE /\ tested' = FALSE /\ refunds' = 0
  /\ carried' = {} /\ diff' = {}
  /\ served' = 0 /\ startTree' = tree
  /\ UNCHANGED <<tree, ledgerVars, runVars>>

\* Mutant: the attempt is not charged before it is given back.
DispatchUncharged ==
  /\ pc = "head" /\ attempts[task] < budget
  /\ SetStatus("in_progress") /\ pc' = "coder"
  /\ UNCHANGED <<tree, attempts, touched, lastSignature, runVars, callVars>>

\* Mutant: one attempt more than the budget.
DispatchOnceMore ==
  /\ pc = "head" /\ attempts[task] <= budget
  /\ attempts' = [attempts EXCEPT ![task] = @ + 1]
  /\ SetStatus("in_progress") /\ pc' = "coder"
  /\ UNCHANGED <<tree, touched, lastSignature, runVars, callVars>>

Dispatch ==
  /\ pc = "head" /\ attempts[task] < budget
  /\ attempts' = [attempts EXCEPT ![task] = @ + 1]
  /\ SetStatus("in_progress") /\ pc' = "coder"
  /\ UNCHANGED <<tree, touched, lastSignature, runVars, callVars>>

\* Mutant: one attempt fewer than the budget.
ExhaustEarly ==
  /\ pc = "head" /\ attempts[task] + 1 >= budget
  /\ Settle("blocked")
  /\ UNCHANGED <<tree, attempts, touched, lastSignature, runVars, callVars>>

Exhaust ==
  /\ pc = "head" /\ attempts[task] >= budget
  /\ Settle("blocked")
  /\ UNCHANGED <<tree, attempts, touched, lastSignature, runVars, callVars>>

-----------------------------------------------------------------------------
(***************************************************************************)
(* The coder.  `diff` is changed_since(before), which reaches back over    *)
(* the failed dispatches before this one; a later write is taken never to  *)
(* restore an earlier one byte for byte.                                   *)
(***************************************************************************)
\* Mutant: a failed dispatch is given back and counted nowhere.
ErrorsUncounted == runErrors
ErrorCount == runErrors + 1

CoderFails(written) ==
  /\ pc = "coder"
  /\ Rewrite(written) /\ RecordTouched(written)
  /\ carried' = carried \cup written
  /\ runErrors' = ErrorCount
  /\ attempts' = [attempts EXCEPT ![task] = @ - 1]
  /\ IF ErrorCount >= MaxRunErrors
       THEN StopRun
       ELSE pc' = "head" /\ UNCHANGED status
  /\ UNCHANGED <<lastSignature, baseline, baselineFailed, runs, task, budget,
                 inherited, inheritedFailing, rejected, tested, refunds, diff,
                 served, startTree>>

CoderServes(written) ==
  /\ pc = "coder"
  /\ Rewrite(written) /\ RecordTouched(carried \cup written)
  /\ diff' = carried \cup written /\ carried' = {}
  /\ runErrors' = 0
  /\ served' = served + 1
  /\ pc' = "gate"
  /\ UNCHANGED <<status, attempts, lastSignature, baseline, baselineFailed,
                 runs, task, budget, inherited, inheritedFailing, rejected,
                 tested, refunds, startTree>>

(***************************************************************************)
(* The gate.  `own_work_untested` sends a resumed task whose files are in  *)
(* place to the writing branch although this attempt wrote nothing.        *)
(***************************************************************************)
OwnWorkUntested(report) ==
  touched[task] # {} /\ ~rejected /\ Passed(report) /\ report.unjudged

WroteNothing(report) == diff = {} /\ ~OwnWorkUntested(report)

SendsTester(report) ==
  ~WroteNothing(report) /\ Passed(report) /\ ~tested /\ report.unjudged

SetBaseline(report) ==
  /\ baseline' = failure_keys(report)
  /\ baselineFailed' = ~Passed(report)

\* Mutant: an attempt that changed nothing is excused what the last one broke.
AttemptDiffVerdict(report) ==
  IF verdict_for(report, inherited) = "regressed" /\ inheritedFailing /\ ~Passed(report)
  THEN "inherited"
  ELSE verdict_for(report, inherited)

\* A task that changed no file cannot have caused a failure without a location.
EmptyDiffVerdict(report) ==
  IF /\ verdict_for(report, inherited) = "regressed"
     /\ inheritedFailing /\ touched[task] = {} /\ ~Passed(report)
  THEN "inherited"
  ELSE verdict_for(report, inherited)

\* Mutant: a green that judged nothing is proof enough.
ConfirmsVacuously(report) == EmptyDiffVerdict(report) # "regressed"

ConfirmsNothingToDo(report) ==
  EmptyDiffVerdict(report) # "regressed" /\ ~report.unjudged

Escalates(report) ==
  /\ report.escalate
  /\ StopRun
  /\ UNCHANGED <<attempts, lastSignature, baseline, baselineFailed, rejected, refunds>>

JudgeEmptyDiff(report) ==
  \/ Escalates(report)
  \/ /\ ~report.escalate
     /\ SetBaseline(report)
     /\ \/ /\ ConfirmsNothingToDo(report)
           /\ Settle("done")
           /\ UNCHANGED rejected
        \/ /\ ~ConfirmsNothingToDo(report)
           /\ rejected' = TRUE
           /\ pc' = "head" /\ UNCHANGED status
     /\ UNCHANGED <<attempts, lastSignature, refunds>>

NoProgress(report) == failure_signature(report) = lastSignature[task]

\* _refund_dependency_gate: the attempt is given back, a bounded number of times.
Refundable(report) == missing_packages(report) /\ refunds < MaxRefunds

Reject(report) ==
  /\ lastSignature' = [lastSignature EXCEPT ![task] = failure_signature(report)]
  /\ rejected' = TRUE
  /\ IF Refundable(report)
       THEN /\ attempts' = [attempts EXCEPT ![task] = @ - 1]
            /\ refunds' = refunds + 1
       ELSE UNCHANGED <<attempts, refunds>>
  /\ pc' = "head" /\ UNCHANGED status

JudgeWork(report) ==
  \/ Escalates(report)
  \/ /\ ~report.escalate
     /\ SetBaseline(report)
     /\ \/ /\ verdict_for(report, inherited) # "regressed"
           /\ Settle("done")
           /\ UNCHANGED <<attempts, lastSignature, rejected, refunds>>
        \/ /\ verdict_for(report, inherited) = "regressed" /\ NoProgress(report)
           /\ Settle("blocked")
           /\ UNCHANGED <<attempts, lastSignature, rejected, refunds>>
        \/ /\ verdict_for(report, inherited) = "regressed" /\ ~NoProgress(report)
           /\ Reject(report)

SendTester ==
  /\ tested' = TRUE /\ pc' = "tester"
  /\ UNCHANGED <<status, attempts, lastSignature, baseline, baselineFailed,
                 rejected, refunds>>

VerifyAttempt ==
  /\ pc = "gate"
  /\ \E report \in Reports(tree, touched[task]) :
       \/ WroteNothing(report) /\ JudgeEmptyDiff(report) /\ UNCHANGED tested
       \/ SendsTester(report) /\ SendTester
       \/ /\ ~WroteNothing(report) /\ ~SendsTester(report)
          /\ JudgeWork(report) /\ UNCHANGED tested
  /\ UNCHANGED <<tree, touched, runErrors, runs, task, budget, inherited,
                 inheritedFailing, carried, diff, served, startTree>>

(***************************************************************************)
(* The tester, dispatched once per call.  Its failure is recorded and does *)
(* not count; whatever it changed is the task's, and the gate runs again.  *)
(***************************************************************************)
TesterEnds(written) ==
  /\ pc = "tester"
  /\ Rewrite(written) /\ RecordTouched(diff \cup written)
  /\ pc' = "regate"
  /\ UNCHANGED <<status, attempts, lastSignature, runVars, callVars>>

VerifyTests ==
  /\ pc = "regate"
  /\ \E report \in Reports(tree, touched[task]) : JudgeWork(report)
  /\ UNCHANGED <<tree, touched, runErrors, runs, task, budget, inherited,
                 inheritedFailing, tested, carried, diff, served, startTree>>

-----------------------------------------------------------------------------
(***************************************************************************)
(* The run around the calls.  A cancellation reaches run_task at one of    *)
(* its awaits: inside a subagent, whose writes are on disk and in no       *)
(* record, or while the gate runs.  work() puts the task back to pending.  *)
(***************************************************************************)
Cancel(written) ==
  /\ pc \in {"coder", "gate", "tester", "regate"}
  /\ pc \in {"gate", "regate"} => written = {}
  /\ Rewrite(written)
  /\ StopRun
  /\ UNCHANGED <<attempts, touched, lastSignature, runVars, callVars>>

\* The driver may stop between two tasks: planner error, consult bound, nothing left.
EndRun ==
  /\ pc = "idle" /\ pc' = "stopped"
  /\ UNCHANGED <<tree, ledgerVars, runVars, callVars>>

\* --continue: a new process, with the ledger and none of the run's memory.
\* The user may have edited the project in between.
Resume ==
  /\ pc = "stopped" /\ runs < MaxRuns
  /\ \E t \in Tasks : status[t] = "pending"
  /\ tree' \in Trees
  /\ baseline' = {} /\ baselineFailed' = FALSE /\ runErrors' = 0
  /\ runs' = runs + 1
  /\ pc' = "idle"
  /\ UNCHANGED <<ledgerVars, callVars>>

CallStep ==
  \/ Dispatch
  \/ Exhaust
  \/ \E written \in SUBSET Files :
       CoderFails(written) \/ CoderServes(written) \/ TesterEnds(written)
  \/ VerifyAttempt
  \/ VerifyTests

Next ==
  \/ \E t \in Tasks : Begin(t)
  \/ CallStep
  \/ \E written \in SUBSET Files : Cancel(written)
  \/ EndRun
  \/ Resume

Spec == Init /\ [][Next]_vars /\ WF_vars(CallStep)

-----------------------------------------------------------------------------
InCall == pc \notin {"idle", "stopped"}

TypeOK ==
  /\ tree \in Trees
  /\ status \in [Tasks -> Status] /\ attempts \in [Tasks -> Nat]
  /\ touched \in [Tasks -> SUBSET Files]
  /\ lastSignature \in [Tasks -> SUBSET Faults]
  /\ baseline \subseteq Files /\ baselineFailed \in BOOLEAN
  /\ runErrors \in Nat /\ runs \in Nat
  /\ pc \in {"idle", "head", "coder", "gate", "tester", "regate", "stopped"}
  /\ task \in Tasks \cup {NoTask}
  /\ InCall => task \in Tasks
  /\ budget \in Nat /\ inherited \subseteq Files /\ inheritedFailing \in BOOLEAN
  /\ rejected \in BOOLEAN /\ tested \in BOOLEAN /\ refunds \in Nat
  /\ carried \subseteq Files /\ diff \subseteq Files
  /\ served \in Nat /\ startTree \in Trees

Becomes(t, st) == status[t] # st /\ status'[t] = st

(***************************************************************************)
(* Give-backs never make the fix loop longer than its budget: whatever the *)
(* mix of failed dispatches and refunded gates, the attempts a task has    *)
(* been charged are the ones it had, less the refunds, and one call serves *)
(* at most max_fix_attempts + MAX_DEPENDENCY_GATES of them.                *)
(***************************************************************************)
Charged == IF pc = "coder" THEN 1 ELSE 0

AttemptsAddUp ==
  InCall =>
    /\ attempts[task] + MaxFixAttempts + refunds = budget + served + Charged
    /\ refunds <= MaxRefunds
    /\ served + Charged <= MaxFixAttempts + refunds

(***************************************************************************)
(* A red gate makes a task done only if every failure it names (or, when   *)
(* it names none, the one it describes) was in the tree when the loop      *)
(* picked the task up: a regression attempt 1 introduced is still the      *)
(* task's own on attempt 2.                                                *)
(***************************************************************************)
DoneAnswersForItsOwn ==
  [][\A t \in Tasks : Becomes(t, "done") =>
       At(failure_signature(Verdict(tree', touched'[t]))) \subseteq At(startTree.faults)]_vars

(***************************************************************************)
(* A task that changed nothing is done only if the gate's tests ran: a     *)
(* vacuous green proves nothing about work nobody did.                     *)
(***************************************************************************)
DoneIsNotVacuous ==
  [][\A t \in Tasks : Becomes(t, "done") /\ touched'[t] = {} =>
       ~Verdict(tree', {}).unjudged]_vars

(***************************************************************************)
(* A task is given up only on evidence: the failure it drew last time is   *)
(* back after an attempt that ran, or every attempt of this run's budget   *)
(* was served and declined.                                                *)
(***************************************************************************)
SameFailureTwice(t) ==
  served > 0 /\ failure_signature(Verdict(tree, touched[t])) = lastSignature[t]

BlockedOnEvidence ==
  [][\A t \in Tasks : Becomes(t, "blocked") =>
       SameFailureTwice(t) \/ served = MaxFixAttempts + refunds]_vars

(***************************************************************************)
(* A task is settled on evidence: done for work that answers for its own   *)
(* failures and over tests that ran, blocked on a failure it could not     *)
(* move.                                                                   *)
(***************************************************************************)
SettledOnEvidence == DoneAnswersForItsOwn /\ DoneIsNotVacuous /\ BlockedOnEvidence

(***************************************************************************)
(* No call leaves its task in progress, however it ends, so --continue can *)
(* pick up the one the run stopped on.                                     *)
(***************************************************************************)
StoppedIsResumable == ~InCall => \A t \in Tasks : status[t] # "in_progress"

(***************************************************************************)
(* Through every retry, refund, stop and resume the tasks follow the       *)
(* ledger's lifecycle: one is worked at a time, by one call, and a settled *)
(* one never again.                                                        *)
(***************************************************************************)
Live == IF InCall /\ status[task] = "in_progress" THEN task ELSE NoTask

Lifecycle == INSTANCE TaskLifecycle WITH live <- Live

TasksFollowLifecycle == Lifecycle!Spec

(***************************************************************************)
(* Every call of run_task returns, whatever the subagents and the gate do: *)
(* the give-backs have their own bounds.                                   *)
(***************************************************************************)
EveryCallReturns == (pc = "head") ~> (pc \in {"idle", "stopped"})

(***************************************************************************)
(* A call of run_task comes back, and leaves no task where --continue      *)
(* would not find it.                                                      *)
(***************************************************************************)
CallsComeBack == []StoppedIsResumable /\ EveryCallReturns

-----------------------------------------------------------------------------
(***************************************************************************)
(* What the documentation says and the code does not do.                   *)
(***************************************************************************)
\* Documentation/06-troubleshooting.md: no placeholders in a done task's files.
DoneLeavesNoPlaceholder ==
  [][\A t \in Tasks : Becomes(t, "done") =>
       \A k \in tree'.faults : ~(k.stage = "stubs" /\ k.at \in touched'[t])]_vars

(***************************************************************************)
(* Documentation/05-how-it-works.md: a Ctrl-C lands between tasks, never   *)
(* mid-write, and leaves the state a run that stopped early leaves: what   *)
(* changed in a file's own text while a task was worked is in the task's   *)
(* record, where the syntax and placeholder stages look.                   *)
(***************************************************************************)
WritesAreRecorded ==
  [][\A t \in Tasks : status[t] = "in_progress" =>
       \A k \in tree'.faults \ tree.faults :
         k.stage \in Scoped => k.at \in touched'[t]]_vars
=============================================================================
