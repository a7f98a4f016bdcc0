------------------------------- MODULE Suites --------------------------------
(***************************************************************************)
(* stacks/detect.py and testing: which stack a tree is taken for, which    *)
(* command runs its tests, and what the test stage makes of what the       *)
(* command printed, while the agents write and remove files.  The runners  *)
(* (pytest, unittest, npm, cargo) are external: what each collects is the  *)
(* rule they document, and which of the collected tests fail is free.      *)
(***************************************************************************)
EXTENDS Naturals, FiniteSets

CONSTANTS
  SuiteFiles,      \* the files detect asks for that the tree may have
  SuiteTests,      \* the Python test files it may have: [dir, name, style]
  MaxSuiteFiles    \* bound of the model: files of each at a time

DIRS == {"root", "tests", "tests/unit"}
\* name: test_x.py or x_test.py; style: a TestCase or a bare function.
SuiteTest == [dir : DIRS, name : {"test_x", "x_test"}, style : {"case", "bare"}]
MARKERS == {"pyproject.toml", "package.json", "angular.json", "Cargo.toml"}
OTHERS == {"source.py", "manage.py", "pytest.ini", "react", "scripts.test"}
ASSUME SuitesAssumption ==
  /\ SuiteFiles \subseteq MARKERS \cup OTHERS /\ SuiteTests \subseteq SuiteTest
  /\ MaxSuiteFiles \in Nat

VARIABLES
  suFiles, suTests,       \* the files of the tree
  suPackages,             \* the test directories with an __init__.py
  suVenv,                 \* of the project: the modules its interpreter has, or NOVENV
  suMachine,              \* whether the machine's own python has pytest
  suVerdict               \* of the last test stage: stack, command, collected, outcome

suVars == <<suFiles, suTests, suPackages, suVenv, suMachine, suVerdict>>

NOVENV == "no virtualenv"
NOCOMMAND == "no command"
UNPARSED == 99            \* no number of tests
NoSuiteVerdict == [stack |-> "none", command |-> NOCOMMAND, total |-> UNPARSED, collected |-> {},
                   outcome |-> "none"]

-----------------------------------------------------------------------------
(***************************************************************************)
(* detect.                                                                 *)
(***************************************************************************)
Has(file) == file \in suFiles

\* _matches, by the markers, the requirements and the dependency of a profile.
Marked ==
  {stack \in {"python", "rust", "node", "react", "angular"} :
     CASE stack = "python" -> Has("pyproject.toml")
       [] stack = "rust" -> Has("Cargo.toml")
       [] stack = "node" -> Has("package.json")
       [] stack = "react" -> Has("package.json") /\ Has("react")
       [] stack = "angular" -> Has("angular.json") /\ Has("package.json")}

\* _inferred: any Python file the project has, four directories down.
Inferred == IF Has("source.py") \/ suTests # {} THEN {"python"} ELSE {}

Detected == IF Marked # {} THEN Marked ELSE Inferred

\* The first of the profiles, the most specific, then by name.
Precedence == <<"angular", "react", "node", "python", "rust">>
Stack ==
  IF Detected = {} THEN "none"
  ELSE LET first == CHOOSE i \in DOMAIN Precedence :
                      /\ Precedence[i] \in Detected
                      /\ \A j \in 1..(i - 1) : Precedence[j] \notin Detected
       IN  Precedence[first]

-----------------------------------------------------------------------------
(***************************************************************************)
(* resolve_test_command.                                                   *)
(***************************************************************************)
\* The directories discovery walks from tests/ down to a module in dir.
Chain(dir) ==
  CASE dir = "root" -> {}
    [] dir = "tests" -> {"tests"}
    [] dir = "tests/unit" -> {"tests", "tests/unit"}

\* _is_discoverable: there is an __init__.py in each.
Discoverable(t) == Chain(t.dir) \subseteq suPackages

\* Mutant: the check of the modules directly in tests/ only.
UndiscoverableFlat == \E t \in suTests : t.dir = "tests" /\ t.name = "test_x" /\ ~Discoverable(t)

\* _has_undiscoverable_tests: its pattern is test*.py.
Undiscoverable == \E t \in suTests : t.dir # "root" /\ t.name = "test_x" /\ ~Discoverable(t)

\* Mutant: a module that can be entered is taken for one that can be collected.
UncollectableNever == FALSE

\* _has_uncollectable_tests.
Uncollectable == \E t \in suTests : t.style = "bare"

\* _python_test_command: the evidence of the strongest first.
PythonCommand ==
  CASE suVenv = "pytest" -> "pytest"
    [] suVenv # "pytest" /\ Has("manage.py") -> "manage.py test"
    [] suVenv # "pytest" /\ ~Has("manage.py") ->
         IF Has("pytest.ini") \/ suVenv = "python" \/ Undiscoverable \/ Uncollectable
         THEN "pytest" ELSE "unittest"

Command ==
  CASE Stack = "none" -> NOCOMMAND
    [] Stack = "rust" -> "cargo test"
    [] Stack = "python" -> PythonCommand
    [] Stack \in {"node", "react", "angular"} ->
         IF Has("scripts.test") THEN "npm test" ELSE NOCOMMAND

-----------------------------------------------------------------------------
(***************************************************************************)
(* The runners.                                                            *)
(***************************************************************************)
\* What pytest collects, and what unittest's discovery (manage.py test too).
Collects(command) ==
  CASE command = "pytest" -> suTests
    [] command \in {"unittest", "manage.py test"} ->
         {t \in suTests : t.name = "test_x" /\ t.style = "case" /\ Discoverable(t)}
    [] OTHER -> {}

\* python -m pytest where there is no pytest.
NoRunner(command) ==
  command = "pytest" /\ (IF suVenv = NOVENV THEN ~suMachine ELSE suVenv = "python")

\* How a command ends: denied, over its time limit, not started, or exited with
\* a code, the total if it can be parsed, and what its stderr says there is no
\* module of.
Exits(exits, totals, missing) ==
  [ended : {"exited"}, exit : exits, total : totals, missing : missing]

Endings(command) ==
  LET n == Cardinality(Collects(command))
  IN  [ended : {"denied", "not started"}] \cup
      CASE NoRunner(command) -> Exits({1}, {UNPARSED}, {{"runner"}})
        [] ~NoRunner(command) ->
             [ended : {"timed out"}] \cup
             CASE command = "npm test" -> Exits({0, 1}, {0, 1, UNPARSED}, {{}})
               [] command = "cargo test" -> Exits({0, 1}, {0, 1}, {{}})
               [] command = "pytest" /\ n = 0 -> Exits({5}, {0}, {{}})
               [] command \in {"unittest", "manage.py test"} /\ n = 0 -> Exits({0, 5}, {0}, {{}})
               [] OTHER -> Exits({0}, {n}, {{}}) \cup Exits({1}, {n}, {{}, {"a package"}})

-----------------------------------------------------------------------------
(***************************************************************************)
(* run_tests and test_stage.                                               *)
(***************************************************************************)
\* Mutant: any module there is none of is taken for the runner.
RunnerNotImportableAny(printed) == printed.missing # {}

\* _runner_not_importable: the module it was asked to run, and no other.
RunnerNotImportable(printed) == "runner" \in printed.missing

\* Mutant: a run that collected nothing and exited with 0 has passed.
CollectedNothingFailed(stack, printed) == printed.exit # 0 /\ printed.total \in {0, UNPARSED}

\* _collected_nothing.
CollectedNothing(stack, printed) ==
  \/ stack = "python" /\ printed.exit = 5
  \/ printed.total = UNPARSED /\ printed.exit # 0
  \/ printed.total = 0

\* find_test_files: by name, in any directory.
VisibleTests == suTests

\* A run that collected nothing, with test files there, is a failure.
NothingCollected == IF VisibleTests # {} THEN "failed" ELSE "not_applicable"

\* test_stage.
TestOutcome(stack, printed) ==
  CASE printed.ended = "denied" -> "denied"
    [] printed.ended = "not started" -> "missing_tool"
    [] printed.ended = "timed out" -> "failed"
    [] printed.ended = "exited" ->
         IF RunnerNotImportable(printed) THEN "missing_tool"
         ELSE IF CollectedNothing(stack, printed) THEN NothingCollected
         ELSE IF printed.exit = 0 THEN "passed" ELSE "failed"

-----------------------------------------------------------------------------
SuitesInit ==
  /\ suFiles = {} /\ suTests = {} /\ suPackages = {} /\ suVenv = NOVENV
  /\ suMachine \in BOOLEAN /\ suVerdict = NoSuiteVerdict

\* The agents write and remove files; what the last gate said is of the tree no more.
Toggled(set, x) == IF x \in set THEN set \ {x} ELSE set \cup {x}

WriteFile(file) ==
  /\ suFiles' = Toggled(suFiles, file) /\ Cardinality(suFiles') <= MaxSuiteFiles
  /\ suVerdict' = NoSuiteVerdict /\ UNCHANGED <<suTests, suPackages, suVenv, suMachine>>

\* Mutant: the verdict is kept when a test file is written or removed.
WriteTestKept(t) ==
  /\ suTests' = Toggled(suTests, t) /\ Cardinality(suTests') <= MaxSuiteFiles
  /\ UNCHANGED <<suFiles, suPackages, suVenv, suMachine, suVerdict>>

WriteTest(t) ==
  /\ suTests' = Toggled(suTests, t) /\ Cardinality(suTests') <= MaxSuiteFiles
  /\ suVerdict' = NoSuiteVerdict /\ UNCHANGED <<suFiles, suPackages, suVenv, suMachine>>

WritePackage(dir) ==
  /\ suPackages' = Toggled(suPackages, dir)
  /\ suVerdict' = NoSuiteVerdict /\ UNCHANGED <<suFiles, suTests, suVenv, suMachine>>

\* The project's virtualenv, with pytest or without.
MakeVenv(venv) ==
  /\ venv # suVenv /\ suVenv' = venv
  /\ suVerdict' = NoSuiteVerdict /\ UNCHANGED <<suFiles, suTests, suPackages, suMachine>>

\* run_tests and test_stage of a gate, for the first of the stacks.
RunTests ==
  /\ suVerdict = NoSuiteVerdict
  /\ LET command == Command
         gives(printed) ==
           [stack |-> Stack, command |-> command, outcome |-> TestOutcome(Stack, printed),
            total |-> IF printed.ended = "exited" THEN printed.total ELSE UNPARSED,
            collected |-> IF printed.ended = "exited" /\ ~NoRunner(command)
                          THEN Collects(command) ELSE {}]
     IN  \/ command = NOCOMMAND /\ suVerdict' =
               [NoSuiteVerdict EXCEPT !.stack = Stack, !.outcome = "not_applicable"]
         \/ command # NOCOMMAND /\ \E printed \in Endings(command) : suVerdict' = gives(printed)
  /\ UNCHANGED <<suFiles, suTests, suPackages, suVenv, suMachine>>

SuitesNext ==
  \/ \E file \in SuiteFiles : WriteFile(file)
  \/ \E t \in SuiteTests : WriteTest(t)
  \/ \E dir \in DIRS \ {"root"} : WritePackage(dir)
  \/ \E venv \in {NOVENV, "python", "pytest"} : MakeVenv(venv)
  \/ RunTests

SuitesSpec == SuitesInit /\ [][SuitesNext]_suVars

-----------------------------------------------------------------------------
(***************************************************************************)
(* Every variable has its type, and a verdict is of tests the tree has.    *)
(***************************************************************************)
SuitesTypeOK ==
  /\ suFiles \subseteq SuiteFiles /\ suTests \subseteq SuiteTests
  /\ suPackages \subseteq DIRS \ {"root"} /\ suVenv \in {NOVENV, "python", "pytest"}
  /\ suVerdict.collected \subseteq suTests
  /\ suVerdict.outcome \in {"none", "passed", "failed", "not_applicable", "denied", "missing_tool"}
  /\ suVerdict.outcome = "none" <=> suVerdict = NoSuiteVerdict

(***************************************************************************)
(* A gate that lets a Python tree through has run every test_x.py the      *)
(* project has: no layout, no style of writing tests and no virtualenv     *)
(* makes the command it chose skip one silently; and in no stack is a      *)
(* command that collected nothing believed while there are test files.     *)
(* (Not so, by the order of its evidence, under manage.py; and unittest    *)
(* reads no x_test.py.)                                                    *)
(***************************************************************************)
APassRanTheTests ==
  suVerdict.outcome \in {"passed", "not_applicable"} =>
    /\ suVerdict.stack = "python" /\ suVerdict.command # "manage.py test" =>
         {t \in suTests : t.name = "test_x"} \subseteq suVerdict.collected
    /\ suVerdict.command # NOCOMMAND /\ suTests # {} => suVerdict.total # 0

(***************************************************************************)
(* A pass is over tests that ran: no runner's clean exit over an empty     *)
(* suite is one.                                                           *)
(***************************************************************************)
APassIsNotEmpty ==
  suVerdict.outcome = "passed" =>
    suVerdict.total # 0 /\ (suVerdict.stack = "python" => suVerdict.collected # {})

(***************************************************************************)
(* An interpreter without the runner is the user's to repair and a test    *)
(* without its package is the coder's: neither is taken for the other.     *)
(***************************************************************************)
ToolsAndCodeAreToldApart ==
  /\ suVerdict.outcome \in {"passed", "failed"} => ~NoRunner(suVerdict.command)
  /\ suVerdict.outcome = "missing_tool" => suVerdict.collected = {}

(***************************************************************************)
(* The verdict of a test stage is true: a pass ran the project's tests and *)
(* some there were, a failure is the code's and a missing tool is not.     *)
(***************************************************************************)
VerdictIsTrue == APassIsNotEmpty /\ APassRanTheTests /\ ToolsAndCodeAreToldApart

=============================================================================
