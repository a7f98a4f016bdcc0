-------------------------------- MODULE MCGate --------------------------------
(***************************************************************************)
(* One instance each of TaskRun, ProjectEnv and Suites for TLC: a task     *)
(* stopped and resumed, the environment its gate is run in, and what the   *)
(* gate runs there.  The three share no variable; a behaviour is of the    *)
(* machine `part` names, the others rest.                                  *)
(***************************************************************************)
EXTENDS MCTaskRun, ProjectEnv, Suites

VARIABLE part

\* Suites: test files the runners differ on, by place, name and style.
TestFile(dir, name, style) == [dir |-> dir, name |-> name, style |-> style]
FiveTests ==
  {TestFile("root", "test_x", "case"), TestFile("tests", "test_x", "case"),
   TestFile("tests", "test_x", "bare"), TestFile("tests/unit", "test_x", "case"),
   TestFile("tests/unit", "x_test", "case")}

-----------------------------------------------------------------------------
OfTask == part = "task" /\ UNCHANGED <<part, peVars, suVars>>

TaskRests == tree = [faults |-> {}, tests |-> TRUE]
EnvRests == peDeclared = [t \in {"main"} |-> CHOOSE d \in Declarations : TRUE] /\ peActive = FALSE
SuitesRest == suMachine = TRUE

GateInit ==
  /\ part \in {"task", "env", "suites"}
  /\ part # "task" => TaskRests
  /\ part # "env" => EnvRests
  /\ part # "suites" => SuitesRest
  /\ Init /\ ProjectEnvInit /\ SuitesInit

GateNext ==
  \/ OfTask /\ Next
  \/ part = "env" /\ ProjectEnvNext /\ UNCHANGED <<part, vars, suVars>>
  \/ part = "suites" /\ SuitesNext /\ UNCHANGED <<part, vars, peVars>>

gateVars == <<part, vars, peVars, suVars>>

GateSpec == GateInit /\ [][GateNext]_gateVars /\ WF_gateVars(OfTask /\ CallStep)

\* The variables of the three machines keep their types.
GateTypeOK == TypeOK /\ ProjectEnvTypeOK /\ SuitesTypeOK
=============================================================================
