--------------------------------- MODULE Gate ---------------------------------
(***************************************************************************)
(* The verification gate as the loop reads it: src/rudra/verify (pipeline, *)
(* result) gives one report of the tree, and src/rudra/loop (regressions,  *)
(* bounds, dependencies) asks that report four questions.                  *)
(*                                                                         *)
(* A fault is a record [stage, at]: the stage that reports it, and where.  *)
(* `at` is a member of Files when the stage could locate it and a member   *)
(* of Crashes when it could not; a line number is abstracted into the      *)
(* file, as no question asked here tells two lines of a file apart.        *)
(* The lint stage is advisory: it halts nothing, so it has no faults.      *)
(***************************************************************************)
EXTENDS Naturals

CONSTANTS
  Files,          \* project-relative paths
  Crashes,        \* failures a stage reports without a location
  Faults,         \* every fault the tree may hold
  PackageFaults   \* the test failures that only name an undeclared package

Rank == [syntax |-> 1, typecheck |-> 2, test |-> 3, stubs |-> 4]
Stages == {"syntax", "typecheck", "test", "stubs"}

\* The stages that read nothing but the changed files they are handed.
Scoped == {"syntax", "stubs"}

ASSUME GateAssumption ==
  /\ Files \cap Crashes = {}
  /\ Faults \subseteq [stage : Stages, at : Files \cup Crashes]
  /\ \A k \in Faults : k.stage \in Scoped => k.at \in Files
  /\ PackageFaults \subseteq {k \in Faults : k.stage = "test"}

(***************************************************************************)
(* A project with no tests has no failing test; any other combination of   *)
(* faults is a tree some coder could leave.                                *)
(***************************************************************************)
Trees ==
  {tree \in [faults : SUBSET Faults, tests : BOOLEAN] :
     tree.tests \/ \A k \in tree.faults : k.stage # "test"}

\* What the five stages would report if none of them stopped the others.
Visible(tree, changed) ==
  {k \in tree.faults : k.stage \in Scoped => k.at \in changed}

\* The faults of the first stage that halts the pipeline: nothing after it runs.
Blocker(tree, changed) ==
  LET seen == Visible(tree, changed)
  IN  {k \in seen : \A other \in seen : Rank[k.stage] <= Rank[other.stage]}

\* The test stage was reached and collected nothing.
Unjudged(tree, blocker) == ~tree.tests /\ \A k \in blocker : k.stage = "stubs"

VerifyReport == [blocker : SUBSET Faults, escalate : BOOLEAN, unjudged : BOOLEAN]

Verdict(tree, changed) ==
  [blocker  |-> Blocker(tree, changed),
   escalate |-> FALSE,
   unjudged |-> Unjudged(tree, Blocker(tree, changed))]

\* A missing tool, a denied command or an internal error: some stage halts
\* the pipeline with nothing a coder could repair.
Escalation == [blocker |-> {}, escalate |-> TRUE, unjudged |-> FALSE]

Reports(tree, changed) == {Verdict(tree, changed), Escalation}

Passed(report) == report.blocker = {} /\ ~report.escalate

-----------------------------------------------------------------------------
(***************************************************************************)
(* The questions the loop asks of a report.                                *)
(***************************************************************************)
At(faults) == {k.at : k \in faults}

Located(report) == {k \in report.blocker : k.at \in Files}

failure_keys(report) == At(Located(report))

verdict_for(report, inherited) ==
  IF Passed(report) THEN "passed"
  ELSE IF failure_keys(report) # {} /\ failure_keys(report) \subseteq inherited
    THEN "inherited" ELSE "regressed"

NoSignature == {}

\* Located findings sign the failure; without any, the stage and its
\* exception lines do.
failure_signature(report) ==
  IF Located(report) # {} THEN Located(report) ELSE report.blocker

missing_packages(report) ==
  report.blocker # {} /\ report.blocker \subseteq PackageFaults
=============================================================================
