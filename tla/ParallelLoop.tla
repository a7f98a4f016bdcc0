----------------------------- MODULE ParallelLoop -----------------------------
(***************************************************************************)
(* loop/parallel.py: the optimistic driver that replaces work()'s loop     *)
(* when the endpoint allows a batch.  A frontier of pending tasks runs     *)
(* concurrently, each run_task in a worktree of its own; when all have     *)
(* returned, their work is merged into the main tree one at a time, and a  *)
(* merge that conflicts or regresses sends its task back to be redone.     *)
(*                                                                         *)
(* WorkLoop models the order of the queue: here a frontier is any set of   *)
(* pending tasks of the right size.  run_task is its outcome, as there.    *)
(***************************************************************************)
EXTENDS Gate, FiniteSets, FiniteSetsExt

CONSTANTS
  MaxTasks,             \* bound of the model: tasks the ledger may hold
  Fanout,               \* effective_fanout
  MaxRedos,             \* MAX_PARALLEL_REDOS
  MaxBlockedConsults,   \* MAX_BLOCKED_CONSULTS
  WorktreesFail         \* whether `git worktree add` may fail

ASSUME ParallelAssumption ==
  /\ {MaxTasks, Fanout, MaxRedos} \subseteq Nat \ {0}
  /\ Fanout > 1
  /\ MaxBlockedConsults \in Nat
  /\ WorktreesFail \in BOOLEAN

Tasks == 1..MaxTasks

VARIABLES
  status, disk,         \* Task.status, in memory and in ledger.json
  redos,                \* len(Task.redo_reasons)
  main,                 \* the main tree
  frontier, worktrees,  \* the batch, and the tasks with a checkout of their own
  outcome,              \* what run_task returned
  wrote,                \* whether that checkout differs from its base
  pc,
  base, beforeMerge,    \* the base gate's keys, and the tree `head` names
  merging,              \* the task whose merge is being checked
  reduced,              \* the tasks of the batch already merged back or passed over
  toConsult,            \* the blocked tasks of the batch not consulted about yet
  failureBaseline, consultedOnEmpty, consultedOnStale, blockedConsults,
  ended,                \* history: how the run ended
  landed,               \* history: tasks whose work is on the main tree
  baseTree,             \* history: the main tree the batch forked from
  stuck                 \* history: a merge of the batch that regressed was not undone

ledgerVars == <<status, disk, redos>>
batchVars  == <<frontier, worktrees, outcome, wrote, base, baseTree, stuck>>
mergeVars  == <<beforeMerge, merging, reduced>>
loopVars   == <<toConsult, failureBaseline, consultedOnEmpty, consultedOnStale, blockedConsults>>
vars == <<ledgerVars, main, landed, batchVars, mergeVars, loopVars, pc, ended>>

NoTask == 0
Status == {"absent", "pending", "in_progress", "done", "blocked", "dropped"}
In(st) == {t \in Tasks : status[t] = st}

\* run_main_gate: the whole-project stages only, and no more than their keys.
MainKeys(tree) == failure_keys(Verdict(tree, {}))

Init ==
  /\ status \in [Tasks -> {"absent", "pending"}] /\ disk = status
  /\ redos = [t \in Tasks |-> 0]
  /\ main \in Trees
  /\ frontier = {} /\ worktrees = {}
  /\ outcome = [t \in Tasks |-> "none"] /\ wrote = [t \in Tasks |-> FALSE]
  /\ pc = "picking"
  /\ base = MainKeys(main) /\ baseTree = main /\ beforeMerge = main /\ stuck = FALSE
  /\ merging = NoTask /\ reduced = {} /\ toConsult = {}
  /\ failureBaseline = {} /\ consultedOnEmpty = FALSE /\ consultedOnStale = FALSE
  /\ blockedConsults = 0
  /\ ended = "running" /\ landed = {}

\* Ledger.save writes every task, whoever calls it.
Save(st) == status' = st /\ disk' = st
Set(t, st) == [status EXCEPT ![t] = st]

-----------------------------------------------------------------------------
(***************************************************************************)
(* The batch: fork, work, join.                                            *)
(***************************************************************************)
\* Mutant: every pending task at once.
BatchesOfAll == {In("pending")}
Batches == kSubset(IF Cardinality(In("pending")) < Fanout
                     THEN Cardinality(In("pending")) ELSE Fanout, In("pending"))

\* A task whose worktree could not be made stays pending for a later batch.
Fork(batch, live) ==
  /\ pc = "picking" /\ In("pending") # {}
  /\ batch \in Batches /\ live \subseteq batch /\ (live = batch \/ WorktreesFail)
  /\ frontier' = batch /\ worktrees' = live
  /\ outcome' = [t \in Tasks |-> "none"] /\ wrote' = [t \in Tasks |-> FALSE]
  /\ base' = MainKeys(main) /\ baseTree' = main /\ stuck' = FALSE
  /\ failureBaseline' = MainKeys(main)
  /\ reduced' = {} /\ pc' = "batch"
  /\ UNCHANGED <<ledgerVars, main, landed, beforeMerge, merging, toConsult,
                 consultedOnEmpty, consultedOnStale, blockedConsults, ended>>

TaskStarts(t) ==
  /\ pc = "batch" /\ t \in worktrees
  /\ status[t] = "pending" /\ outcome[t] = "none"
  /\ Save(Set(t, "in_progress"))
  /\ UNCHANGED <<redos, main, landed, batchVars, mergeVars, loopVars, pc, ended>>

TaskEnds(t, result) ==
  /\ pc = "batch" /\ status[t] = "in_progress" /\ t \in worktrees
  /\ Save(Set(t, IF result = "stop" THEN "pending" ELSE result))
  /\ outcome' = [outcome EXCEPT ![t] = result]
  /\ \E differs \in BOOLEAN : wrote' = [wrote EXCEPT ![t] = differs]
  /\ UNCHANGED <<redos, main, landed, frontier, worktrees, base, baseTree, stuck, mergeVars,
                 loopVars, pc, ended>>

Joined == \A t \in worktrees : outcome[t] # "none"
Stopped == \E t \in worktrees : outcome[t] = "stop"

\* STOP_RUN from any task: nothing merges, and what is done is not done any more.
StopBatch ==
  /\ pc = "batch" /\ Joined /\ Stopped
  /\ Save([t \in Tasks |->
             IF t \in worktrees /\ status[t] = "done" THEN "pending" ELSE status[t]])
  /\ worktrees' = {} /\ pc' = "closing"
  /\ UNCHANGED <<redos, main, landed, frontier, outcome, wrote, base, baseTree, stuck,
                 mergeVars, loopVars, ended>>

StartReduce ==
  /\ pc = "batch" /\ Joined /\ ~Stopped
  /\ pc' = "reducing"
  /\ UNCHANGED <<ledgerVars, main, landed, batchVars, mergeVars, loopVars, ended>>

-----------------------------------------------------------------------------
(***************************************************************************)
(* _merge_back, in ascending id.  There is no await in it, so no Ctrl-C    *)
(* falls between its steps.  Memory alone changes; the loop saves after.   *)
(***************************************************************************)
Turn(t) == pc = "reducing" /\ t \in frontier \ reduced /\ \A o \in frontier \ reduced : t <= o

\* Mutant: the checkout of a merged task is left behind.
ReducedInPlace(t) == reduced' = reduced \cup {t} /\ UNCHANGED worktrees
Reduced(t) == reduced' = reduced \cup {t} /\ worktrees' = worktrees \ {t}

\* _redo
Redo(t) ==
  /\ status' = Set(t, "pending") /\ UNCHANGED disk
  /\ redos' = [redos EXCEPT ![t] = @ + 1]

PassOver(t) ==
  /\ Turn(t) /\ status[t] # "done"
  /\ Reduced(t)
  /\ UNCHANGED <<ledgerVars, main, landed, frontier, outcome, wrote, base, baseTree, stuck,
                 beforeMerge, merging, loopVars, pc, ended>>

\* A clean worktree: nothing to commit, nothing to merge, and the task stays done.
NothingToMerge(t) ==
  /\ Turn(t) /\ status[t] = "done" /\ ~wrote[t]
  /\ Reduced(t) /\ landed' = landed \cup {t}
  /\ UNCHANGED <<ledgerVars, main, frontier, outcome, wrote, base, baseTree, stuck,
                 beforeMerge, merging, loopVars, pc, ended>>

\* Mutant: nothing committed is read as nothing to commit.
CommitFailsUnseen(t) ==
  /\ Turn(t) /\ status[t] = "done"
  /\ Reduced(t)
  /\ UNCHANGED <<ledgerVars, main, landed, frontier, outcome, wrote, base, baseTree, stuck,
                 beforeMerge, merging, loopVars, pc, ended>>

\* The commit is refused, or git cannot say the worktree is clean.
CommitFails(t) ==
  /\ Turn(t) /\ status[t] = "done"
  /\ Redo(t) /\ Reduced(t)
  /\ UNCHANGED <<main, landed, frontier, outcome, wrote, base, baseTree, stuck,
                 beforeMerge, merging, loopVars, pc, ended>>

\* A conflict or any other failure: aborted, so the main tree is as before.
MergeFails(t) ==
  /\ Turn(t) /\ status[t] = "done" /\ wrote[t]
  /\ Redo(t) /\ Reduced(t)
  /\ UNCHANGED <<main, landed, frontier, outcome, wrote, base, baseTree, stuck,
                 beforeMerge, merging, loopVars, pc, ended>>

MergeApplies(t) ==
  /\ Turn(t) /\ status[t] = "done" /\ wrote[t]
  /\ beforeMerge' = main /\ main' \in Trees
  /\ merging' = t /\ pc' = "checking"
  /\ UNCHANGED <<ledgerVars, landed, batchVars, reduced, loopVars, ended>>

\* Mutant: every merge is kept.
NoCheck == TRUE
NoRegression == MainKeys(main) \subseteq base

MergeKept ==
  /\ pc = "checking" /\ NoRegression
  /\ landed' = landed \cup {merging}
  /\ Reduced(merging) /\ merging' = NoTask /\ pc' = "reducing"
  /\ UNCHANGED <<ledgerVars, main, frontier, outcome, wrote, base, baseTree, stuck,
                 beforeMerge, loopVars, ended>>

\* The result of `git reset` is not read, and a deny rule may refuse it.
AfterReset == {beforeMerge, main}

MergeUndone ==
  /\ pc = "checking" /\ ~NoRegression
  /\ main' \in AfterReset /\ stuck' = (stuck \/ main' # beforeMerge)
  /\ Redo(merging)
  /\ Reduced(merging) /\ merging' = NoTask /\ pc' = "reducing"
  /\ UNCHANGED <<landed, frontier, outcome, wrote, base, baseTree, beforeMerge, loopVars, ended>>

\* Mutant: one redo too many.
CappedLate(t) == t \in frontier /\ status[t] = "pending" /\ redos[t] > MaxRedos

\* The batch is over: saved, and a task redone too often is blocked.
Capped(t) == t \in frontier /\ status[t] = "pending" /\ redos[t] >= MaxRedos

EndBatch ==
  /\ pc = "reducing" /\ frontier = reduced
  /\ LET settled == [t \in Tasks |-> IF Capped(t) THEN "blocked" ELSE status[t]]
     IN  /\ Save(settled)
         /\ toConsult' = {t \in frontier : settled[t] = "blocked"}
  /\ pc' = "consulting"
  /\ UNCHANGED <<redos, main, landed, batchVars, mergeVars, failureBaseline,
                 consultedOnEmpty, consultedOnStale, blockedConsults, ended>>

-----------------------------------------------------------------------------
(***************************************************************************)
(* Consults.  Each blocked task of the batch asks the planner, in          *)
(* ascending id, under the run's one bound.                                *)
(***************************************************************************)
ConsultBlocked(t) ==
  /\ pc = "consulting" /\ t \in toConsult /\ \A o \in toConsult : t <= o
  /\ blockedConsults' = blockedConsults + 1
  /\ \/ /\ blockedConsults + 1 > MaxBlockedConsults
        /\ pc' = "closing" /\ UNCHANGED <<toConsult, consultedOnEmpty>>
     \/ /\ blockedConsults + 1 <= MaxBlockedConsults
        /\ consultedOnEmpty' = FALSE
        /\ toConsult' = toConsult \ {t} /\ pc' = "planner"
  /\ UNCHANGED <<ledgerVars, main, landed, batchVars, mergeVars, failureBaseline,
                 consultedOnStale, ended>>

ConsultsDone ==
  /\ pc = "consulting" /\ toConsult = {} /\ pc' = "picking"
  /\ UNCHANGED <<ledgerVars, main, landed, batchVars, mergeVars, loopVars, ended>>

ConsultOnStale ==
  /\ pc = "picking" /\ In("pending") = {}
  /\ failureBaseline # {} /\ ~consultedOnStale
  /\ consultedOnStale' = TRUE /\ pc' = "planner"
  /\ UNCHANGED <<ledgerVars, main, landed, batchVars, mergeVars, toConsult, failureBaseline,
                 consultedOnEmpty, blockedConsults, ended>>

\* Mutant: the planner is asked again whatever it answered.
ConsultOnEmptyAgain ==
  /\ pc = "picking" /\ In("pending") = {}
  /\ failureBaseline = {} \/ consultedOnStale
  /\ pc' = "planner"
  /\ UNCHANGED <<ledgerVars, main, landed, batchVars, mergeVars, toConsult, failureBaseline,
                 consultedOnEmpty, consultedOnStale, blockedConsults, ended>>

ConsultOnEmpty ==
  /\ pc = "picking" /\ In("pending") = {}
  /\ failureBaseline = {} \/ consultedOnStale
  /\ \/ consultedOnEmpty /\ pc' = "closing" /\ UNCHANGED consultedOnEmpty
     \/ ~consultedOnEmpty /\ pc' = "planner" /\ consultedOnEmpty' = TRUE
  /\ UNCHANGED <<ledgerVars, main, landed, batchVars, mergeVars, toConsult, failureBaseline,
                 consultedOnStale, blockedConsults, ended>>

PlannerAdds(t) ==
  /\ pc = "planner" /\ status[t] = "absent"
  /\ Save(Set(t, "pending"))
  /\ UNCHANGED <<redos, main, landed, batchVars, mergeVars, loopVars, pc, ended>>

PlannerDrops(t) ==
  /\ pc = "planner" /\ status[t] = "pending"
  /\ Save(Set(t, "dropped"))
  /\ UNCHANGED <<redos, main, landed, batchVars, mergeVars, loopVars, pc, ended>>

PlannerEnds ==
  /\ pc = "planner" /\ pc' = "consulting"
  /\ UNCHANGED <<ledgerVars, main, landed, batchVars, mergeVars, loopVars, ended>>

-----------------------------------------------------------------------------
End(how) == pc' = "down" /\ ended' = how

Close ==
  /\ pc = "closing" /\ End("closed")
  /\ UNCHANGED <<ledgerVars, main, landed, batchVars, mergeVars, loopVars>>

(***************************************************************************)
(* Ctrl-C while the batch runs: the worktrees are removed, and the tasks   *)
(* that have not settled go back.                                          *)
(***************************************************************************)
Cancel ==
  /\ pc = "batch"
  /\ Save([t \in Tasks |->
             IF t \in frontier /\ status[t] = "in_progress" THEN "pending" ELSE status[t]])
  /\ worktrees' = {} /\ End("cancelled")
  /\ UNCHANGED <<redos, main, landed, frontier, outcome, wrote, base, baseTree, stuck,
                 mergeVars, loopVars>>

\* A provider error to the planner, or a Ctrl-C while it runs.
PlannerFails ==
  /\ pc = "planner" /\ End("planner failed")
  /\ UNCHANGED <<ledgerVars, main, landed, batchVars, mergeVars, loopVars>>

(***************************************************************************)
(* The process is killed.  The ledger is what was last saved; checkouts    *)
(* and a merge nobody has checked stay where they are.                     *)
(***************************************************************************)
Kill ==
  /\ pc # "down" /\ End("killed")
  /\ status' = disk /\ merging' = NoTask
  /\ UNCHANGED <<disk, redos, main, landed, batchVars, beforeMerge, reduced, loopVars>>

RunStep ==
  \/ \E batch \in SUBSET Tasks : \E live \in SUBSET batch : Fork(batch, live)
  \/ \E t \in Tasks :
       \/ TaskStarts(t)
       \/ \E result \in {"done", "blocked", "stop"} : TaskEnds(t, result)
       \/ PassOver(t) \/ NothingToMerge(t) \/ CommitFails(t) \/ MergeFails(t)
       \/ MergeApplies(t) \/ ConsultBlocked(t)
  \/ StopBatch \/ StartReduce \/ MergeKept \/ MergeUndone \/ EndBatch
  \/ ConsultsDone \/ ConsultOnStale \/ ConsultOnEmpty \/ PlannerEnds \/ Close

Next ==
  \/ RunStep
  \/ \E t \in Tasks : PlannerAdds(t) \/ PlannerDrops(t)
  \/ Cancel
  \/ PlannerFails
  \/ Kill

Spec == Init /\ [][Next]_vars /\ WF_vars(RunStep)

-----------------------------------------------------------------------------
TypeOK ==
  /\ status \in [Tasks -> Status] /\ disk \in [Tasks -> Status]
  /\ redos \in [Tasks -> 0..MaxRedos]
  /\ main \in Trees /\ baseTree \in Trees /\ beforeMerge \in Trees /\ stuck \in BOOLEAN
  /\ frontier \subseteq Tasks /\ worktrees \subseteq frontier
  /\ Cardinality(frontier) <= Fanout
  /\ outcome \in [Tasks -> {"none", "done", "blocked", "stop"}]
  /\ wrote \in [Tasks -> BOOLEAN]
  /\ pc \in {"picking", "batch", "reducing", "checking", "consulting", "planner",
             "closing", "down"}
  /\ base \subseteq Files /\ failureBaseline \subseteq Files
  /\ merging \in Tasks \cup {NoTask} /\ (pc = "checking" <=> merging # NoTask)
  /\ reduced \subseteq frontier /\ toConsult \subseteq frontier
  /\ consultedOnEmpty \in BOOLEAN /\ consultedOnStale \in BOOLEAN
  /\ blockedConsults \in 0..MaxBlockedConsults + 1
  /\ ended \in {"running", "closed", "cancelled", "planner failed", "killed"}
  /\ landed \subseteq Tasks

\* Between two batches, and at the end of a run nobody cancelled.
AtRest ==
  \/ pc \in {"picking", "consulting", "planner", "closing"}
  \/ ended \in {"closed", "planner failed"}

(***************************************************************************)
(* A task the ledger shows done, in memory or on disk, has its work on the *)
(* main tree, unless it had none: whatever commits, merges and integration *)
(* gates failed, and whichever sibling stopped the run.                    *)
(***************************************************************************)
DoneIsLanded ==
  AtRest => \A t \in Tasks : "done" \in {status[t], disk[t]} => t \in landed

(***************************************************************************)
(* Merging never leaves the main tree failing where it did not fail when   *)
(* the batch forked, as far as the integration gate can name it: unless    *)
(* the process is killed in between, or git refuses to undo a merge.       *)
(***************************************************************************)
MainKeepsItsBase ==
  pc # "checking" /\ ended # "killed" /\ ~stuck => MainKeys(main) \subseteq base

(***************************************************************************)
(* Every checkout is removed, on every way out of a batch but a kill.      *)
(***************************************************************************)
NoWorktreeIsLeft ==
  pc \notin {"batch", "reducing", "checking"} /\ ended # "killed" => worktrees = {}

(***************************************************************************)
(* Work is on the main tree or nowhere: what is done has landed, and       *)
(* outside a batch no worktree is left to hold anything.                   *)
(***************************************************************************)
WorkIsOnMain == DoneIsLanded /\ NoWorktreeIsLeft

(***************************************************************************)
(* No task is redone for ever: one at the cap never enters another batch.  *)
(***************************************************************************)
RedosAreCapped ==
  pc \in {"picking", "batch"} => \A t \in In("pending") \cup In("in_progress") : redos[t] < MaxRedos

(***************************************************************************)
(* The run ends, whatever conflicts and regresses: redos and consults are  *)
(* both bounded.  Only worktrees that keep failing, which nothing counts,  *)
(* can hold it up.                                                         *)
(***************************************************************************)
WorktreeFailed == pc = "batch" /\ worktrees # frontier

RunEnds == (pc = "picking") ~> (pc = "down")

EndsOnceForked == RunEnds \/ []<>WorktreeFailed

(***************************************************************************)
(* Redone work is capped, and a run whose worktrees can be made ends.      *)
(***************************************************************************)
RedosEnd == []RedosAreCapped /\ EndsOnceForked

-----------------------------------------------------------------------------
(***************************************************************************)
(* What the source says and does not do.                                   *)
(***************************************************************************)
\* "leaving it DONE would mark lost work complete": so do a cancelled batch, whose
\* checkouts are removed, and a killed one, whose checkouts no later run looks at.
InterruptedDoneIsLanded ==
  ended \in {"cancelled", "killed"} => \A t \in Tasks : disk[t] = "done" => t \in landed
=============================================================================
