-------------------------------- MODULE MCModels --------------------------------
(***************************************************************************)
(* One instance each of ModelCalls, PlannerTurn and Facts for TLC: what is *)
(* asked of a model, by a subagent and by the planner, and what the        *)
(* planner's tool calls establish.  The three share no variable; a         *)
(* behaviour is of the machine `part` names, the others rest.              *)
(***************************************************************************)
EXTENDS MCModelCalls, PlannerTurn, Facts

VARIABLE part

\* A message that plans, and one that reads and tries a write it may not do.
TwoMessages == {<<"add_tasks">>, <<"read_file", "write_file">>}

\* One question alone, and two of which the first is the same.
OneOrTwo == {<<"k1">>, <<"k1", "k2">>}

-----------------------------------------------------------------------------
OfCalls == part = "calls" /\ UNCHANGED <<part, plVars, fcVars>>
OfPlanner == part = "planner" /\ UNCHANGED <<part, vars, fcVars>>

ModelsInit ==
  /\ part \in {"calls", "planner", "facts"}
  /\ part # "facts" => fcInteractive = TRUE
  /\ Init /\ PlannerInit /\ FactsInit

ModelsNext ==
  \/ OfCalls /\ Next
  \/ OfPlanner /\ PlannerNext
  \/ part = "facts" /\ FactsNext /\ UNCHANGED <<part, vars, plVars>>

modelsVars == <<part, vars, plVars, fcVars>>

ModelsSpec ==
  /\ ModelsInit /\ [][ModelsNext]_modelsVars
  /\ \A a \in Agents : WF_modelsVars(OfCalls /\ Step(a))
  /\ WF_modelsVars(OfPlanner /\ PlannerStep)

\* The variables of the three machines keep their types.
ModelsTypeOK == TypeOK /\ PlannerTypeOK /\ FactsTypeOK

(***************************************************************************)
(* Whoever asks a model, the asking ends: an invocation that waits for a   *)
(* slot, backs off and restarts, and a consult of a planner that always    *)
(* has another call to make.                                               *)
(***************************************************************************)
EveryTurnEnds == InvocationEnds /\ PlannerTurnEnds
=============================================================================
