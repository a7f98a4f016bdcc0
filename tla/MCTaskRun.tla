------------------------------ MODULE MCTaskRun ------------------------------
(***************************************************************************)
(* Instances of TaskRun for TLC.                                           *)
(***************************************************************************)
EXTENDS TaskRun, TLC

\* A halting stage before the tests, in one file, and a failing test in another.
SharedFaults ==
  {[stage |-> "typecheck", at |-> "app"], [stage |-> "test", at |-> "tests"]}

\* The same, and a placeholder in the tests.
PlaceholderFaults == SharedFaults \cup {[stage |-> "stubs", at |-> "tests"]}

\* A test that fails, a package nobody declared, a crash that is no package, and
\* a placeholder, which is scanned for after the tests.
CrashFaults ==
  {[stage |-> "test", at |-> "tests"], [stage |-> "test", at |-> "package"],
   [stage |-> "test", at |-> "crash"], [stage |-> "stubs", at |-> "tests"]}

MissingPackage == {[stage |-> "test", at |-> "package"]}

NoFaults == {}

\* No action of TaskRun reads the order of the tasks.
TaskSymmetry == Permutations(Tasks)

\* The locals of run_task are dead outside a call: Begin sets every one of them.
LiveState ==
  <<tree, ledgerVars, runVars, pc,
    IF pc \in {"idle", "stopped"} THEN <<>> ELSE callVars>>
=============================================================================
