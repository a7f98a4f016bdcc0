------------------------- MODULE ParallelLoop_proofs -------------------------
(***************************************************************************)
(* ParallelLoop, for any number of tasks, any fan-out and any bounds: what *)
(* is done has landed, no checkout is left, redos are capped, and the main *)
(* tree keeps its base.                                                    *)
(***************************************************************************)
EXTENDS ParallelLoop, FiniteSetTheorems, TLAPS

Busy == pc \in {"batch", "reducing", "checking"}
Merging == pc \in {"reducing", "checking"}

(***************************************************************************)
(* What each phase of the driver may rely on.                              *)
(***************************************************************************)
Phases ==
  /\ ended = "running" <=> pc # "down"
  /\ pc = "batch" => reduced = {}
  /\ pc = "picking" \/ Busy => toConsult = {}
  /\ ~Busy /\ ended # "killed" => worktrees = {}
  /\ Merging => worktrees \cap reduced = {}
  /\ pc = "checking" => merging \in frontier \ reduced
  /\ ~Merging => disk = status
  /\ pc \notin {"closing", "down"} => blockedConsults <= MaxBlockedConsults

(***************************************************************************)
(* A task is in progress only in its checkout, and one that is done and    *)
(* has not landed still has the checkout its work is in.                   *)
(***************************************************************************)
Working ==
  \A t \in Tasks : status[t] = "in_progress" /\ ended # "killed" =>
    pc = "batch" /\ t \in worktrees /\ outcome[t] = "none"

Unlanded ==
  \A t \in Tasks : status[t] = "done" /\ t \notin landed /\ ended \notin {"killed", "cancelled"} =>
    Busy /\ t \in worktrees

(***************************************************************************)
(* A task below the cap may be redone once more; one at the cap waits for  *)
(* the end of its batch to be blocked.                                     *)
(***************************************************************************)
Redos ==
  /\ pc # "down" => \A t \in Tasks : status[t] = "absent" => redos[t] = 0
  /\ Busy => \A t \in frontier \ reduced : redos[t] < MaxRedos
  /\ pc # "down" =>
       \A t \in Tasks : status[t] = "pending" /\ ~(Merging /\ t \in frontier) => redos[t] < MaxRedos

(***************************************************************************)
(* Unless one was not undone, a merge that is being checked can be undone  *)
(* to a tree that kept its base.                                           *)
(***************************************************************************)
Based ==
  /\ MainKeepsItsBase
  /\ pc = "checking" /\ ~stuck => MainKeys(beforeMerge) \subseteq base

(***************************************************************************)
(* TypeOK in four parts, as no step disturbs them all.                     *)
(***************************************************************************)
LedgerTypes ==
  /\ status \in [Tasks -> Status] /\ disk \in [Tasks -> Status]
  /\ redos \in [Tasks -> 0..MaxRedos]

TreeTypes ==
  /\ main \in Trees /\ baseTree \in Trees /\ beforeMerge \in Trees /\ stuck \in BOOLEAN
  /\ base \subseteq Files /\ failureBaseline \subseteq Files
  /\ landed \subseteq Tasks

BatchTypes ==
  /\ frontier \subseteq Tasks /\ worktrees \subseteq frontier
  /\ Cardinality(frontier) <= Fanout
  /\ outcome \in [Tasks -> {"none", "done", "blocked", "stop"}]
  /\ wrote \in [Tasks -> BOOLEAN]
  /\ merging \in Tasks \cup {NoTask} /\ (pc = "checking" <=> merging # NoTask)
  /\ reduced \subseteq frontier /\ toConsult \subseteq frontier

LoopTypes ==
  /\ pc \in {"picking", "batch", "reducing", "checking", "consulting", "planner",
             "closing", "down"}
  /\ consultedOnEmpty \in BOOLEAN /\ consultedOnStale \in BOOLEAN
  /\ blockedConsults \in 0..MaxBlockedConsults + 1
  /\ ended \in {"running", "closed", "cancelled", "planner failed", "killed"}

LEMMA TypeParts == TypeOK <=> LedgerTypes /\ TreeTypes /\ BatchTypes /\ LoopTypes
  BY DEF TypeOK, LedgerTypes, TreeTypes, BatchTypes, LoopTypes

PInv == TypeOK /\ Phases /\ Working /\ Unlanded /\ Redos /\ Based

-----------------------------------------------------------------------------
LEMMA Bounds ==
  /\ MaxTasks \in Nat \ {0} /\ MaxRedos \in Nat \ {0}
  /\ Fanout \in Nat \ {0} /\ MaxBlockedConsults \in Nat
  BY ParallelAssumption

LEMMA KeysAreFiles == ASSUME NEW tree PROVE MainKeys(tree) \subseteq Files
  BY DEF MainKeys, failure_keys, At, Located

LEMMA BatchesFit ==
  ASSUME NEW batch \in Batches
  PROVE  batch \subseteq In("pending") /\ Cardinality(batch) <= Fanout
<1>1. batch \subseteq In("pending")
      /\ Cardinality(batch) =
           IF Cardinality(In("pending")) < Fanout THEN Cardinality(In("pending")) ELSE Fanout
  BY DEF Batches, kSubset
<1>2. IsFiniteSet(Tasks)
  BY Bounds, FS_Interval DEF Tasks
<1>3. In("pending") \subseteq Tasks
  BY DEF In
<1>4. Cardinality(In("pending")) \in Nat
  BY <1>2, <1>3, FS_Subset, FS_CardinalityType
<1> QED
  BY <1>1, <1>4, Bounds

-----------------------------------------------------------------------------
LEMMA PInvInit == Init => PInv
<1> SUFFICES ASSUME Init PROVE PInv
  OBVIOUS
<1>1. LedgerTypes
  BY Bounds DEF Init, LedgerTypes, Status
<1>2. TreeTypes
  BY KeysAreFiles DEF Init, TreeTypes
<1>3. BatchTypes
  BY FS_EmptySet, Bounds DEF Init, BatchTypes
<1>4. LoopTypes
  <2>1. blockedConsults \in 0..MaxBlockedConsults + 1
    BY Bounds DEF Init
  <2>2. consultedOnEmpty \in BOOLEAN /\ consultedOnStale \in BOOLEAN
    BY DEF Init
  <2> QED
    BY <2>1, <2>2 DEF Init, LoopTypes
<1>5. Phases /\ Working /\ Unlanded
  BY Bounds DEF Init, Phases, Working, Unlanded, Busy, Merging
<1>6. Redos /\ Based
  BY Bounds DEF Init, Redos, Based, MainKeepsItsBase, Busy, Merging
<1> QED
  BY <1>1, <1>2, <1>3, <1>4, <1>5, <1>6, TypeParts DEF PInv
LEMMA ForkStep ==
  ASSUME PInv, NEW batch \in SUBSET Tasks, NEW live \in SUBSET batch, Fork(batch, live)
  PROVE  PInv'
<1> USE DEF Fork, ledgerVars
<1>1. LedgerTypes /\ TreeTypes /\ BatchTypes /\ LoopTypes
      /\ Phases /\ Working /\ Unlanded /\ Redos /\ Based
  BY TypeParts DEF PInv
<1>2. LedgerTypes' /\ TreeTypes' /\ LoopTypes'
  BY <1>1, KeysAreFiles DEF LedgerTypes, TreeTypes, LoopTypes
<1>3. BatchTypes'
  BY <1>1, BatchesFit DEF BatchTypes, Phases, In
<1>4. Phases' /\ Working' /\ Unlanded'
  BY <1>1 DEF Phases, Working, Unlanded, Busy, Merging, LedgerTypes, BatchTypes,
    LoopTypes
<1>5. Redos'
  BY <1>1, BatchesFit DEF Redos, Busy, Merging, In, Phases
<1>6. Based'
  BY <1>1 DEF Based, MainKeepsItsBase
<1> QED
  BY <1>2, <1>3, <1>4, <1>5, <1>6, TypeParts DEF PInv, TypeOK, LedgerTypes,
    TreeTypes, BatchTypes, LoopTypes

LEMMA TaskStartsStep == ASSUME PInv, NEW t \in Tasks, TaskStarts(t) PROVE PInv'
<1> USE DEF TaskStarts, Save, Set, batchVars, mergeVars, loopVars
<1>1. LedgerTypes /\ TreeTypes /\ BatchTypes /\ LoopTypes
      /\ Phases /\ Working /\ Unlanded /\ Redos /\ Based
  BY TypeParts DEF PInv
<1>2. LedgerTypes' /\ TreeTypes' /\ BatchTypes' /\ LoopTypes'
  BY <1>1, Bounds DEF LedgerTypes, Status, TreeTypes, BatchTypes, LoopTypes,
    NoTask, Tasks
<1>3. Phases' /\ Working' /\ Unlanded'
  BY <1>1 DEF Phases, Working, Unlanded, Busy, Merging, LedgerTypes, BatchTypes,
    LoopTypes
<1>4. Redos' /\ Based'
  BY <1>1, Bounds DEF Redos, Based, MainKeepsItsBase, Busy, Merging, LedgerTypes,
    BatchTypes, Phases, Working
<1> QED
  BY <1>2, <1>3, <1>4, TypeParts DEF PInv, TypeOK, LedgerTypes, TreeTypes,
    BatchTypes, LoopTypes

LEMMA TaskEndsStep ==
  ASSUME PInv, NEW t \in Tasks, NEW result \in {"done", "blocked", "stop"}, TaskEnds(t, result)
  PROVE  PInv'
<1> USE DEF TaskEnds, Save, Set, mergeVars, loopVars
<1>1. LedgerTypes /\ TreeTypes /\ BatchTypes /\ LoopTypes
      /\ Phases /\ Working /\ Unlanded /\ Redos /\ Based
  BY TypeParts DEF PInv
<1>2. LedgerTypes' /\ TreeTypes' /\ BatchTypes' /\ LoopTypes'
  BY <1>1, Bounds, ZenonT(60) DEF LedgerTypes, Status, TreeTypes, BatchTypes, LoopTypes,
    NoTask, Tasks
<1>3. Phases' /\ Working' /\ Unlanded'
  BY <1>1 DEF Phases, Working, Unlanded, Busy, Merging, LedgerTypes, BatchTypes,
    LoopTypes
<1>4. Redos' /\ Based'
  BY <1>1, Bounds DEF Redos, Based, MainKeepsItsBase, Busy, Merging, LedgerTypes,
    BatchTypes, Phases, Working
<1> QED
  BY <1>2, <1>3, <1>4, TypeParts DEF PInv, TypeOK, LedgerTypes, TreeTypes,
    BatchTypes, LoopTypes

LEMMA StopBatchStep == ASSUME PInv, StopBatch PROVE PInv'
<1> USE DEF StopBatch, Joined, Stopped, Save, mergeVars, loopVars
<1>1. LedgerTypes /\ TreeTypes /\ BatchTypes /\ LoopTypes
      /\ Phases /\ Working /\ Unlanded /\ Redos /\ Based
  BY TypeParts DEF PInv
<1>2. LedgerTypes' /\ TreeTypes' /\ BatchTypes' /\ LoopTypes'
  BY <1>1, Bounds DEF LedgerTypes, Status, TreeTypes, BatchTypes, LoopTypes,
    NoTask, Tasks
<1>3. Phases' /\ Working' /\ Unlanded'
  BY <1>1 DEF Phases, Working, Unlanded, Busy, Merging, LedgerTypes, BatchTypes,
    LoopTypes
<1>4. Redos' /\ Based'
  BY <1>1, Bounds DEF Redos, Based, MainKeepsItsBase, Busy, Merging, LedgerTypes,
    BatchTypes, Phases, Working
<1> QED
  BY <1>2, <1>3, <1>4, TypeParts DEF PInv, TypeOK, LedgerTypes, TreeTypes,
    BatchTypes, LoopTypes

LEMMA StartReduceStep == ASSUME PInv, StartReduce PROVE PInv'
<1> USE DEF StartReduce, Joined, Stopped, ledgerVars, batchVars, mergeVars, loopVars
<1>1. LedgerTypes /\ TreeTypes /\ BatchTypes /\ LoopTypes
      /\ Phases /\ Working /\ Unlanded /\ Redos /\ Based
  BY TypeParts DEF PInv
<1>2. LedgerTypes' /\ TreeTypes' /\ BatchTypes' /\ LoopTypes'
  BY <1>1, Bounds DEF LedgerTypes, Status, TreeTypes, BatchTypes, LoopTypes,
    NoTask, Tasks
<1>3. Phases' /\ Working' /\ Unlanded'
  BY <1>1 DEF Phases, Working, Unlanded, Busy, Merging, LedgerTypes, BatchTypes,
    LoopTypes
<1>4. Redos' /\ Based'
  BY <1>1, Bounds DEF Redos, Based, MainKeepsItsBase, Busy, Merging, LedgerTypes,
    BatchTypes, Phases, Working
<1> QED
  BY <1>2, <1>3, <1>4, TypeParts DEF PInv, TypeOK, LedgerTypes, TreeTypes,
    BatchTypes, LoopTypes

LEMMA PassOverStep == ASSUME PInv, NEW t \in Tasks, PassOver(t) PROVE PInv'
<1> USE DEF PassOver, Turn, Reduced, ledgerVars, loopVars
<1>1. LedgerTypes /\ TreeTypes /\ BatchTypes /\ LoopTypes
      /\ Phases /\ Working /\ Unlanded /\ Redos /\ Based
  BY TypeParts DEF PInv
<1>2. LedgerTypes' /\ TreeTypes' /\ BatchTypes' /\ LoopTypes'
  BY <1>1, Bounds DEF LedgerTypes, Status, TreeTypes, BatchTypes, LoopTypes,
    NoTask, Tasks
<1>3. Phases' /\ Working' /\ Unlanded'
  BY <1>1 DEF Phases, Working, Unlanded, Busy, Merging, LedgerTypes, BatchTypes,
    LoopTypes
<1>4. Redos' /\ Based'
  BY <1>1, Bounds DEF Redos, Based, MainKeepsItsBase, Busy, Merging, LedgerTypes,
    BatchTypes, Phases, Working
<1> QED
  BY <1>2, <1>3, <1>4, TypeParts DEF PInv, TypeOK, LedgerTypes, TreeTypes,
    BatchTypes, LoopTypes

LEMMA NothingToMergeStep ==
  ASSUME PInv, NEW t \in Tasks, NothingToMerge(t)
  PROVE  PInv'
<1> USE DEF NothingToMerge, Turn, Reduced, ledgerVars, loopVars
<1>1. LedgerTypes /\ TreeTypes /\ BatchTypes /\ LoopTypes
      /\ Phases /\ Working /\ Unlanded /\ Redos /\ Based
  BY TypeParts DEF PInv
<1>2. LedgerTypes' /\ TreeTypes' /\ BatchTypes' /\ LoopTypes'
  BY <1>1, Bounds DEF LedgerTypes, Status, TreeTypes, BatchTypes, LoopTypes,
    NoTask, Tasks
<1>3. Phases' /\ Working' /\ Unlanded'
  BY <1>1 DEF Phases, Working, Unlanded, Busy, Merging, LedgerTypes, BatchTypes,
    LoopTypes
<1>4. Redos' /\ Based'
  BY <1>1, Bounds DEF Redos, Based, MainKeepsItsBase, Busy, Merging, LedgerTypes,
    BatchTypes, Phases, Working
<1> QED
  BY <1>2, <1>3, <1>4, TypeParts DEF PInv, TypeOK, LedgerTypes, TreeTypes,
    BatchTypes, LoopTypes

LEMMA CommitFailsStep == ASSUME PInv, NEW t \in Tasks, CommitFails(t) PROVE PInv'
<1> USE DEF CommitFails, Turn, Reduced, Redo, Set, loopVars
<1>1. LedgerTypes /\ TreeTypes /\ BatchTypes /\ LoopTypes
      /\ Phases /\ Working /\ Unlanded /\ Redos /\ Based
  BY TypeParts DEF PInv
<1>2. LedgerTypes'
  BY <1>1, Bounds DEF LedgerTypes, Status, Redos, Busy, BatchTypes
<1>3. TreeTypes' /\ BatchTypes' /\ LoopTypes'
  BY <1>1 DEF TreeTypes, BatchTypes, LoopTypes
<1>4. Phases' /\ Working' /\ Unlanded'
  BY <1>1 DEF Phases, Working, Unlanded, Busy, Merging, LedgerTypes, BatchTypes,
    LoopTypes
<1>5. Redos' /\ Based'
  BY <1>1, Bounds DEF Redos, Based, MainKeepsItsBase, Busy, Merging, LedgerTypes,
    BatchTypes, Phases, Working
<1> QED
  BY <1>2, <1>3, <1>4, <1>5, TypeParts DEF PInv, TypeOK, LedgerTypes, TreeTypes,
    BatchTypes, LoopTypes

LEMMA MergeFailsStep == ASSUME PInv, NEW t \in Tasks, MergeFails(t) PROVE PInv'
<1> USE DEF MergeFails, Turn, Reduced, Redo, Set, loopVars
<1>1. LedgerTypes /\ TreeTypes /\ BatchTypes /\ LoopTypes
      /\ Phases /\ Working /\ Unlanded /\ Redos /\ Based
  BY TypeParts DEF PInv
<1>2. LedgerTypes'
  BY <1>1, Bounds DEF LedgerTypes, Status, Redos, Busy, BatchTypes
<1>3. TreeTypes' /\ BatchTypes' /\ LoopTypes'
  BY <1>1 DEF TreeTypes, BatchTypes, LoopTypes
<1>4. Phases' /\ Working' /\ Unlanded'
  BY <1>1 DEF Phases, Working, Unlanded, Busy, Merging, LedgerTypes, BatchTypes,
    LoopTypes
<1>5. Redos' /\ Based'
  BY <1>1, Bounds DEF Redos, Based, MainKeepsItsBase, Busy, Merging, LedgerTypes,
    BatchTypes, Phases, Working
<1> QED
  BY <1>2, <1>3, <1>4, <1>5, TypeParts DEF PInv, TypeOK, LedgerTypes, TreeTypes,
    BatchTypes, LoopTypes

LEMMA MergeAppliesStep == ASSUME PInv, NEW t \in Tasks, MergeApplies(t) PROVE PInv'
<1> USE DEF MergeApplies, Turn, ledgerVars, batchVars, loopVars
<1>1. LedgerTypes /\ TreeTypes /\ BatchTypes /\ LoopTypes
      /\ Phases /\ Working /\ Unlanded /\ Redos /\ Based
  BY TypeParts DEF PInv
<1>2. LedgerTypes' /\ TreeTypes' /\ LoopTypes'
  BY <1>1 DEF LedgerTypes, TreeTypes, LoopTypes
<1>3. BatchTypes'
  BY <1>1, Bounds DEF BatchTypes, NoTask, Tasks
<1>4. Phases' /\ Working' /\ Unlanded'
  BY <1>1 DEF Phases, Working, Unlanded, Busy, Merging, LedgerTypes, BatchTypes,
    LoopTypes
<1>5. Redos' /\ Based'
  BY <1>1, Bounds DEF Redos, Based, MainKeepsItsBase, Busy, Merging, LedgerTypes,
    BatchTypes, Phases, Working
<1> QED
  BY <1>2, <1>3, <1>4, <1>5, TypeParts DEF PInv, TypeOK, LedgerTypes, TreeTypes,
    BatchTypes, LoopTypes

LEMMA MergeKeptStep == ASSUME PInv, MergeKept PROVE PInv'
<1> USE DEF MergeKept, NoRegression, Reduced, ledgerVars, loopVars
<1>1. LedgerTypes /\ TreeTypes /\ BatchTypes /\ LoopTypes
      /\ Phases /\ Working /\ Unlanded /\ Redos /\ Based
  BY TypeParts DEF PInv
<1>2. LedgerTypes' /\ LoopTypes'
  BY <1>1 DEF LedgerTypes, LoopTypes
<1>3. TreeTypes' /\ BatchTypes'
  BY <1>1 DEF TreeTypes, BatchTypes, Phases, NoTask
<1>4. Phases' /\ Working' /\ Unlanded'
  BY <1>1 DEF Phases, Working, Unlanded, Busy, Merging, LedgerTypes, BatchTypes,
    LoopTypes
<1>5. Redos' /\ Based'
  BY <1>1, Bounds DEF Redos, Based, MainKeepsItsBase, Busy, Merging, LedgerTypes,
    BatchTypes, Phases, Working
<1> QED
  BY <1>2, <1>3, <1>4, <1>5, TypeParts DEF PInv, TypeOK, LedgerTypes, TreeTypes,
    BatchTypes, LoopTypes

LEMMA MergeUndoneStep == ASSUME PInv, MergeUndone PROVE PInv'
<1> USE DEF MergeUndone, NoRegression, Reduced, Redo, Set, AfterReset, loopVars
<1>1. LedgerTypes /\ TreeTypes /\ BatchTypes /\ LoopTypes
      /\ Phases /\ Working /\ Unlanded /\ Redos /\ Based
  BY TypeParts DEF PInv
<1>2. LedgerTypes'
  BY <1>1, Bounds DEF LedgerTypes, Status, Redos, Busy, BatchTypes, Phases
<1>3. TreeTypes' /\ BatchTypes' /\ LoopTypes'
  BY <1>1 DEF TreeTypes, BatchTypes, LoopTypes, Phases, NoTask
<1>4. Phases' /\ Working' /\ Unlanded'
  BY <1>1 DEF Phases, Working, Unlanded, Busy, Merging, LedgerTypes, BatchTypes,
    LoopTypes
<1>5. Redos' /\ Based'
  BY <1>1, Bounds DEF Redos, Based, MainKeepsItsBase, Busy, Merging, LedgerTypes,
    BatchTypes, Phases, Working
<1> QED
  BY <1>2, <1>3, <1>4, <1>5, TypeParts DEF PInv, TypeOK, LedgerTypes, TreeTypes,
    BatchTypes, LoopTypes

LEMMA EndBatchStep == ASSUME PInv, EndBatch PROVE PInv'
<1> USE DEF EndBatch, Capped, Save, batchVars, mergeVars
<1>1. LedgerTypes /\ TreeTypes /\ BatchTypes /\ LoopTypes
      /\ Phases /\ Working /\ Unlanded /\ Redos /\ Based
  BY TypeParts DEF PInv
<1>2. LedgerTypes' /\ TreeTypes' /\ BatchTypes' /\ LoopTypes'
  BY <1>1, Bounds DEF LedgerTypes, Status, TreeTypes, BatchTypes, LoopTypes,
    NoTask, Tasks
<1>3. Phases' /\ Working' /\ Unlanded'
  BY <1>1 DEF Phases, Working, Unlanded, Busy, Merging, LedgerTypes, BatchTypes,
    LoopTypes
<1>4. Redos' /\ Based'
  BY <1>1, Bounds DEF Redos, Based, MainKeepsItsBase, Busy, Merging, LedgerTypes,
    BatchTypes, Phases, Working
<1> QED
  BY <1>2, <1>3, <1>4, TypeParts DEF PInv, TypeOK, LedgerTypes, TreeTypes,
    BatchTypes, LoopTypes

LEMMA ConsultBlockedStep ==
  ASSUME PInv, NEW t \in Tasks, ConsultBlocked(t)
  PROVE  PInv'
<1> USE DEF ConsultBlocked, ledgerVars, batchVars, mergeVars
<1>1. LedgerTypes /\ TreeTypes /\ BatchTypes /\ LoopTypes
      /\ Phases /\ Working /\ Unlanded /\ Redos /\ Based
  BY TypeParts DEF PInv
<1>2. LedgerTypes' /\ TreeTypes' /\ BatchTypes'
  BY <1>1 DEF LedgerTypes, TreeTypes, BatchTypes
<1>3. blockedConsults' \in 0..MaxBlockedConsults + 1
  BY <1>1, Bounds DEF LoopTypes, Phases
<1>4. LoopTypes'
  BY <1>1, <1>3 DEF LoopTypes
<1>5. Phases' /\ Working' /\ Unlanded'
  BY <1>1 DEF Phases, Working, Unlanded, Busy, Merging, LedgerTypes, BatchTypes,
    LoopTypes
<1>6. Redos' /\ Based'
  BY <1>1, Bounds DEF Redos, Based, MainKeepsItsBase, Busy, Merging, LedgerTypes,
    BatchTypes, Phases, Working
<1> QED
  BY <1>2, <1>3, <1>4, <1>5, <1>6, TypeParts DEF PInv, TypeOK, LedgerTypes,
    TreeTypes, BatchTypes, LoopTypes

LEMMA ConsultsDoneStep == ASSUME PInv, ConsultsDone PROVE PInv'
<1> USE DEF ConsultsDone, ledgerVars, batchVars, mergeVars, loopVars
<1>1. LedgerTypes /\ TreeTypes /\ BatchTypes /\ LoopTypes
      /\ Phases /\ Working /\ Unlanded /\ Redos /\ Based
  BY TypeParts DEF PInv
<1>2. LedgerTypes' /\ TreeTypes' /\ BatchTypes' /\ LoopTypes'
  BY <1>1, Bounds DEF LedgerTypes, Status, TreeTypes, BatchTypes, LoopTypes,
    NoTask, Tasks
<1>3. Phases' /\ Working' /\ Unlanded'
  BY <1>1 DEF Phases, Working, Unlanded, Busy, Merging, LedgerTypes, BatchTypes,
    LoopTypes
<1>4. Redos' /\ Based'
  BY <1>1, Bounds DEF Redos, Based, MainKeepsItsBase, Busy, Merging, LedgerTypes,
    BatchTypes, Phases, Working
<1> QED
  BY <1>2, <1>3, <1>4, TypeParts DEF PInv, TypeOK, LedgerTypes, TreeTypes,
    BatchTypes, LoopTypes

LEMMA ConsultOnStaleStep == ASSUME PInv, ConsultOnStale PROVE PInv'
<1> USE DEF ConsultOnStale, In, ledgerVars, batchVars, mergeVars
<1>1. LedgerTypes /\ TreeTypes /\ BatchTypes /\ LoopTypes
      /\ Phases /\ Working /\ Unlanded /\ Redos /\ Based
  BY TypeParts DEF PInv
<1>2. LedgerTypes' /\ TreeTypes' /\ BatchTypes' /\ LoopTypes'
  BY <1>1, Bounds DEF LedgerTypes, Status, TreeTypes, BatchTypes, LoopTypes,
    NoTask, Tasks
<1>3. Phases' /\ Working' /\ Unlanded'
  BY <1>1 DEF Phases, Working, Unlanded, Busy, Merging, LedgerTypes, BatchTypes,
    LoopTypes
<1>4. Redos' /\ Based'
  BY <1>1, Bounds DEF Redos, Based, MainKeepsItsBase, Busy, Merging, LedgerTypes,
    BatchTypes, Phases, Working
<1> QED
  BY <1>2, <1>3, <1>4, TypeParts DEF PInv, TypeOK, LedgerTypes, TreeTypes,
    BatchTypes, LoopTypes

LEMMA ConsultOnEmptyStep == ASSUME PInv, ConsultOnEmpty PROVE PInv'
<1> USE DEF ConsultOnEmpty, In, ledgerVars, batchVars, mergeVars
<1>1. LedgerTypes /\ TreeTypes /\ BatchTypes /\ LoopTypes
      /\ Phases /\ Working /\ Unlanded /\ Redos /\ Based
  BY TypeParts DEF PInv
<1>2. LedgerTypes' /\ TreeTypes' /\ BatchTypes' /\ LoopTypes'
  BY <1>1, Bounds DEF LedgerTypes, Status, TreeTypes, BatchTypes, LoopTypes,
    NoTask, Tasks
<1>3. Phases' /\ Working' /\ Unlanded'
  BY <1>1 DEF Phases, Working, Unlanded, Busy, Merging, LedgerTypes, BatchTypes,
    LoopTypes
<1>4. Redos' /\ Based'
  BY <1>1, Bounds DEF Redos, Based, MainKeepsItsBase, Busy, Merging, LedgerTypes,
    BatchTypes, Phases, Working
<1> QED
  BY <1>2, <1>3, <1>4, TypeParts DEF PInv, TypeOK, LedgerTypes, TreeTypes,
    BatchTypes, LoopTypes

LEMMA PlannerAddsStep == ASSUME PInv, NEW t \in Tasks, PlannerAdds(t) PROVE PInv'
<1> USE DEF PlannerAdds, Save, Set, batchVars, mergeVars, loopVars
<1>1. LedgerTypes /\ TreeTypes /\ BatchTypes /\ LoopTypes
      /\ Phases /\ Working /\ Unlanded /\ Redos /\ Based
  BY TypeParts DEF PInv
<1>2. LedgerTypes' /\ TreeTypes' /\ BatchTypes' /\ LoopTypes'
  BY <1>1, Bounds DEF LedgerTypes, Status, TreeTypes, BatchTypes, LoopTypes,
    NoTask, Tasks
<1>3. Phases' /\ Working' /\ Unlanded'
  BY <1>1 DEF Phases, Working, Unlanded, Busy, Merging, LedgerTypes, BatchTypes,
    LoopTypes
<1>4. Redos' /\ Based'
  BY <1>1, Bounds DEF Redos, Based, MainKeepsItsBase, Busy, Merging, LedgerTypes,
    BatchTypes, Phases, Working
<1> QED
  BY <1>2, <1>3, <1>4, TypeParts DEF PInv, TypeOK, LedgerTypes, TreeTypes,
    BatchTypes, LoopTypes

LEMMA PlannerDropsStep == ASSUME PInv, NEW t \in Tasks, PlannerDrops(t) PROVE PInv'
<1> USE DEF PlannerDrops, Save, Set, batchVars, mergeVars, loopVars
<1>1. LedgerTypes /\ TreeTypes /\ BatchTypes /\ LoopTypes
      /\ Phases /\ Working /\ Unlanded /\ Redos /\ Based
  BY TypeParts DEF PInv
<1>2. LedgerTypes' /\ TreeTypes' /\ BatchTypes' /\ LoopTypes'
  BY <1>1, Bounds DEF LedgerTypes, Status, TreeTypes, BatchTypes, LoopTypes,
    NoTask, Tasks
<1>3. Phases' /\ Working' /\ Unlanded'
  BY <1>1 DEF Phases, Working, Unlanded, Busy, Merging, LedgerTypes, BatchTypes,
    LoopTypes
<1>4. Redos' /\ Based'
  BY <1>1, Bounds DEF Redos, Based, MainKeepsItsBase, Busy, Merging, LedgerTypes,
    BatchTypes, Phases, Working
<1> QED
  BY <1>2, <1>3, <1>4, TypeParts DEF PInv, TypeOK, LedgerTypes, TreeTypes,
    BatchTypes, LoopTypes

LEMMA PlannerEndsStep == ASSUME PInv, PlannerEnds PROVE PInv'
<1> USE DEF PlannerEnds, ledgerVars, batchVars, mergeVars, loopVars
<1>1. LedgerTypes /\ TreeTypes /\ BatchTypes /\ LoopTypes
      /\ Phases /\ Working /\ Unlanded /\ Redos /\ Based
  BY TypeParts DEF PInv
<1>2. LedgerTypes' /\ TreeTypes' /\ BatchTypes' /\ LoopTypes'
  BY <1>1, Bounds DEF LedgerTypes, Status, TreeTypes, BatchTypes, LoopTypes,
    NoTask, Tasks
<1>3. Phases' /\ Working' /\ Unlanded'
  BY <1>1 DEF Phases, Working, Unlanded, Busy, Merging, LedgerTypes, BatchTypes,
    LoopTypes
<1>4. Redos' /\ Based'
  BY <1>1, Bounds DEF Redos, Based, MainKeepsItsBase, Busy, Merging, LedgerTypes,
    BatchTypes, Phases, Working
<1> QED
  BY <1>2, <1>3, <1>4, TypeParts DEF PInv, TypeOK, LedgerTypes, TreeTypes,
    BatchTypes, LoopTypes

LEMMA CloseStep == ASSUME PInv, Close PROVE PInv'
<1> USE DEF Close, End, ledgerVars, batchVars, mergeVars, loopVars
<1>1. LedgerTypes /\ TreeTypes /\ BatchTypes /\ LoopTypes
      /\ Phases /\ Working /\ Unlanded /\ Redos /\ Based
  BY TypeParts DEF PInv
<1>2. LedgerTypes' /\ TreeTypes' /\ BatchTypes' /\ LoopTypes'
  BY <1>1, Bounds DEF LedgerTypes, Status, TreeTypes, BatchTypes, LoopTypes,
    NoTask, Tasks
<1>3. Phases' /\ Working' /\ Unlanded'
  BY <1>1 DEF Phases, Working, Unlanded, Busy, Merging, LedgerTypes, BatchTypes,
    LoopTypes
<1>4. Redos' /\ Based'
  BY <1>1, Bounds DEF Redos, Based, MainKeepsItsBase, Busy, Merging, LedgerTypes,
    BatchTypes, Phases, Working
<1> QED
  BY <1>2, <1>3, <1>4, TypeParts DEF PInv, TypeOK, LedgerTypes, TreeTypes,
    BatchTypes, LoopTypes

LEMMA CancelStep == ASSUME PInv, Cancel PROVE PInv'
<1> USE DEF Cancel, End, Save, mergeVars, loopVars
<1>1. LedgerTypes /\ TreeTypes /\ BatchTypes /\ LoopTypes
      /\ Phases /\ Working /\ Unlanded /\ Redos /\ Based
  BY TypeParts DEF PInv
<1>2. LedgerTypes' /\ TreeTypes' /\ BatchTypes' /\ LoopTypes'
  BY <1>1, Bounds DEF LedgerTypes, Status, TreeTypes, BatchTypes, LoopTypes,
    NoTask, Tasks
<1>3. Phases' /\ Working' /\ Unlanded'
  BY <1>1 DEF Phases, Working, Unlanded, Busy, Merging, LedgerTypes, BatchTypes,
    LoopTypes
<1>4. Redos' /\ Based'
  BY <1>1, Bounds DEF Redos, Based, MainKeepsItsBase, Busy, Merging, LedgerTypes,
    BatchTypes, Phases, Working
<1> QED
  BY <1>2, <1>3, <1>4, TypeParts DEF PInv, TypeOK, LedgerTypes, TreeTypes,
    BatchTypes, LoopTypes

LEMMA PlannerFailsStep == ASSUME PInv, PlannerFails PROVE PInv'
<1> USE DEF PlannerFails, End, ledgerVars, batchVars, mergeVars, loopVars
<1>1. LedgerTypes /\ TreeTypes /\ BatchTypes /\ LoopTypes
      /\ Phases /\ Working /\ Unlanded /\ Redos /\ Based
  BY TypeParts DEF PInv
<1>2. LedgerTypes' /\ TreeTypes' /\ BatchTypes' /\ LoopTypes'
  BY <1>1, Bounds DEF LedgerTypes, Status, TreeTypes, BatchTypes, LoopTypes,
    NoTask, Tasks
<1>3. Phases' /\ Working' /\ Unlanded'
  BY <1>1 DEF Phases, Working, Unlanded, Busy, Merging, LedgerTypes, BatchTypes,
    LoopTypes
<1>4. Redos' /\ Based'
  BY <1>1, Bounds DEF Redos, Based, MainKeepsItsBase, Busy, Merging, LedgerTypes,
    BatchTypes, Phases, Working
<1> QED
  BY <1>2, <1>3, <1>4, TypeParts DEF PInv, TypeOK, LedgerTypes, TreeTypes,
    BatchTypes, LoopTypes

LEMMA KillStep == ASSUME PInv, Kill PROVE PInv'
<1> USE DEF Kill, End, batchVars, loopVars
<1>1. LedgerTypes /\ TreeTypes /\ BatchTypes /\ LoopTypes
      /\ Phases /\ Working /\ Unlanded /\ Redos /\ Based
  BY TypeParts DEF PInv
<1>2. LedgerTypes' /\ TreeTypes' /\ BatchTypes' /\ LoopTypes'
  BY <1>1, Bounds DEF LedgerTypes, Status, TreeTypes, BatchTypes, LoopTypes,
    NoTask, Tasks
<1>3. Phases' /\ Working' /\ Unlanded'
  BY <1>1 DEF Phases, Working, Unlanded, Busy, Merging, LedgerTypes, BatchTypes,
    LoopTypes
<1>4. Redos' /\ Based'
  BY <1>1, Bounds DEF Redos, Based, MainKeepsItsBase, Busy, Merging, LedgerTypes,
    BatchTypes, Phases, Working
<1> QED
  BY <1>2, <1>3, <1>4, TypeParts DEF PInv, TypeOK, LedgerTypes, TreeTypes,
    BatchTypes, LoopTypes

-----------------------------------------------------------------------------
LEMMA PInvStep == PInv /\ [Next]_vars => PInv'
<1> SUFFICES ASSUME PInv, [Next]_vars PROVE PInv'
  OBVIOUS
<1>1. CASE RunStep
  <2>1. ASSUME NEW batch \in SUBSET Tasks, NEW live \in SUBSET batch, Fork(batch, live)
        PROVE  PInv'
    BY <2>1, ForkStep
  <2>2. ASSUME NEW t \in Tasks,
               \/ TaskStarts(t)
               \/ \E result \in {"done", "blocked", "stop"} : TaskEnds(t, result)
               \/ PassOver(t) \/ NothingToMerge(t) \/ CommitFails(t) \/ MergeFails(t)
               \/ MergeApplies(t) \/ ConsultBlocked(t)
        PROVE  PInv'
    BY <2>2, TaskStartsStep, TaskEndsStep, PassOverStep, NothingToMergeStep,
       CommitFailsStep, MergeFailsStep, MergeAppliesStep, ConsultBlockedStep
  <2>3. ASSUME \/ StopBatch \/ StartReduce \/ MergeKept \/ MergeUndone \/ EndBatch
               \/ ConsultsDone \/ ConsultOnStale \/ ConsultOnEmpty \/ PlannerEnds \/ Close
        PROVE  PInv'
    BY <2>3, StopBatchStep, StartReduceStep, MergeKeptStep, MergeUndoneStep, EndBatchStep,
       ConsultsDoneStep, ConsultOnStaleStep, ConsultOnEmptyStep, PlannerEndsStep, CloseStep
  <2> QED
    BY <1>1, <2>1, <2>2, <2>3 DEF RunStep
<1>2. ASSUME NEW t \in Tasks, PlannerAdds(t) \/ PlannerDrops(t)
      PROVE  PInv'
  BY <1>2, PlannerAddsStep, PlannerDropsStep
<1>3. CASE Cancel \/ PlannerFails \/ Kill
  BY <1>3, CancelStep, PlannerFailsStep, KillStep
<1>4. CASE UNCHANGED vars
  BY <1>4, ZenonT(60) DEF vars, ledgerVars, batchVars, mergeVars, loopVars, PInv, TypeOK, Phases,
    Working, Unlanded, Redos, Based, MainKeepsItsBase, Busy, Merging
<1> QED
  BY <1>1, <1>2, <1>3, <1>4 DEF Next

(***************************************************************************)
(* The strengthened invariant holds of every batch, redo and consult.      *)
(***************************************************************************)
THEOREM BatchesInvariance == Spec => []PInv
<1> QED
  BY PInvInit, PInvStep, PTL DEF Spec

(***************************************************************************)
(* Every variable keeps its type.                                          *)
(***************************************************************************)
THEOREM TypeCorrect == Spec => []TypeOK
<1>1. PInv => TypeOK
  BY DEF PInv
<1> QED
  BY <1>1, BatchesInvariance, PTL

(***************************************************************************)
(* Whatever commits, merges and integration gates failed and whoever       *)
(* stopped the run, done work is on the main tree and no checkout is left. *)
(***************************************************************************)
THEOREM LandsWork == Spec => []WorkIsOnMain
<1>1. PInv => WorkIsOnMain
  <2> SUFFICES ASSUME PInv PROVE DoneIsLanded /\ NoWorktreeIsLeft
    BY DEF WorkIsOnMain
  <2>1. NoWorktreeIsLeft
    BY DEF PInv, Phases, Busy, NoWorktreeIsLeft
  <2>2. ASSUME AtRest, NEW t \in Tasks, "done" \in {status[t], disk[t]} PROVE t \in landed
    <3>1. ~Busy /\ ~Merging /\ ended \notin {"killed", "cancelled"}
      BY <2>2 DEF PInv, Phases, TypeOK, AtRest, Busy, Merging
    <3>2. status[t] = "done"
      BY <2>2, <3>1 DEF PInv, Phases
    <3> QED
      BY <3>1, <3>2 DEF PInv, Unlanded
  <2> QED
    BY <2>1, <2>2 DEF DoneIsLanded
<1> QED
  BY <1>1, BatchesInvariance, PTL

(***************************************************************************)
(* As long as git undoes the merges that regress and nobody kills the      *)
(* process, merging never leaves the main tree failing where it did not    *)
(* fail when the batch forked.                                             *)
(***************************************************************************)
THEOREM KeepsBase == Spec => []MainKeepsItsBase
<1>1. PInv => MainKeepsItsBase
  BY DEF PInv, Based
<1> QED
  BY <1>1, BatchesInvariance, PTL

(***************************************************************************)
(* No task that reached the cap is worked again.                           *)
(***************************************************************************)
THEOREM CapsRedos == Spec => []RedosAreCapped
<1>1. PInv => RedosAreCapped
  <2> SUFFICES ASSUME PInv, pc \in {"picking", "batch"},
                      NEW t \in In("pending") \cup In("in_progress")
               PROVE  redos[t] < MaxRedos
    BY DEF RedosAreCapped
  <2>1. CASE status[t] = "pending"
    BY <2>1 DEF PInv, Redos, Merging, In
  <2>2. CASE status[t] = "in_progress"
    BY <2>2 DEF PInv, Working, Phases, Redos, Busy, In, TypeOK
  <2> QED
    BY <2>1, <2>2 DEF In
<1> QED
  BY <1>1, BatchesInvariance, PTL
=============================================================================
