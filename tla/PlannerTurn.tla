------------------------------ MODULE PlannerTurn ------------------------------
(***************************************************************************)
(* agent/planner_agent.py: the planner's three stages, each consulted once *)
(* in turn, and the breakdown again whenever the loop needs it.  A consult *)
(* builds an agent with the tools of its stage, says one thing on the      *)
(* stage's thread and reads the graph's chunks, a chunk being the whole    *)
(* thread: what earlier consults left there must not be charged to it.     *)
(***************************************************************************)
EXTENDS Integers, Sequences, SequencesExt, FiniteSets

CONSTANTS
  MaxPlannerCalls,        \* MAX_PLANNER_TOOL_CALLS
  MaxPlanningCalls,       \* MAX_PLANNING_CALLS
  MaxPlannerFailures,     \* the consecutive failures a turn ends at
  PlannerMessages,        \* bound of the model: the calls one message may make
  PlannerConsults,        \* bound of the model: consults after the three stages
  PlannerThread           \* bound of the model: messages of one turn

ASSUME PlannerTurnAssumption ==
  /\ {MaxPlannerCalls, MaxPlanningCalls, MaxPlannerFailures, PlannerThread} \subseteq Nat \ {0}
  /\ PlannerConsults \in Nat /\ PlannerMessages \subseteq Seq(STRING)

VARIABLES
  plStage, plThread,      \* the stage consulted and its thread; no later consult reads another's
  plTools,                \* what the agent was built with
  plPhase, plNext,        \* of the graph: the node that runs next, after the reader
  plSeen, plCount,        \* _stream_planner_turn: the cursor (0: no chunk yet), the counters
  plTripped,              \* SpanDeadline.tripped_at
  plConsult               \* consults so far

plVars == <<plStage, plThread, plTools, plPhase, plNext, plSeen, plCount, plTripped, plConsult>>

STAGES == <<"clarify", "architect", "breakdown">>
LedgerTools == {"add_tasks", "read_ledger", "drop_task"}
PlanningTools == {"add_tasks", "read_ledger"}
ReadTools == {"ls", "read_file", "glob", "grep"}
WriteTools == {"write_file", "edit_file", "delete"}

Human == [kind |-> "human"]
Said(calls) == [kind |-> "ai", calls |-> calls]
Result(result) == [kind |-> "tool", result |-> result]

Fresh == [total |-> 0, planning |-> [n \in PlanningTools |-> 0], failures |-> 0, halt |-> "no"]

PlannerInit ==
  /\ plStage = STAGES[1] /\ plThread = <<>>
  /\ plTools = {} /\ plPhase = "idle" /\ plNext = "model"
  /\ plSeen = 0 /\ plCount = Fresh /\ plTripped = FALSE /\ plConsult = 0

-----------------------------------------------------------------------------
(***************************************************************************)
(* The tools of a stage.  Whether it can read is decided once, from the    *)
(* project as it is when the agent is built.                               *)
(***************************************************************************)
StageTools(stage, canAsk) ==
  IF stage = "breakdown" THEN LedgerTools
  ELSE {"record_fact"} \cup (IF stage = "clarify" /\ canAsk THEN {"ask_user"} ELSE {})

BuildPlanner(stage, canAsk, canRead) ==
  plTools' = StageTools(stage, canAsk) \cup (IF canRead THEN ReadTools ELSE {})

\* What a call comes back with: a write, and a read the stage was built
\* without, are refused by middleware; any other unknown name is an error.
ResultsOf(name) ==
  CASE name \in WriteTools \/ (name \in ReadTools /\ name \notin plTools) -> {"refused"}
    [] name \in plTools -> {"ok", "error", "refused"}
    [] OTHER -> {"error"}

-----------------------------------------------------------------------------
\* The loop consults the stages in order, once each, then only the breakdown:
\* its ledger is empty, a task is blocked, or failures belong to no task.
StageOf(consult) == IF consult < Len(STAGES) THEN STAGES[consult + 1] ELSE "breakdown"

Consult(canAsk, canRead) ==
  /\ plPhase = "idle" /\ plConsult < Len(STAGES) + PlannerConsults
  /\ LET stage == StageOf(plConsult) IN
       /\ BuildPlanner(stage, canAsk, canRead)
       /\ plStage' = stage
       /\ plThread' = Append(IF stage = plStage THEN plThread ELSE <<>>, Human)
  /\ plPhase' = "chunk" /\ plNext' = "model"
  /\ plSeen' = 0 /\ plCount' = Fresh /\ plTripped' = FALSE /\ plConsult' = plConsult + 1

LastHuman(thread) == CHOOSE i \in DOMAIN thread :
  thread[i] = Human /\ \A j \in DOMAIN thread : thread[j] = Human => j <= i

\* The model answers, with calls or without; past the deadline it is not
\* asked and the graph ends.
CallModel ==
  /\ plPhase = "model" /\ Len(plThread) - LastHuman(plThread) + 1 < PlannerThread
  /\ \/ \E calls \in PlannerMessages \cup {<<>>} :
          /\ plThread' = Append(plThread, Said(calls))
          /\ plNext' = IF calls = <<>> THEN "end" ELSE "tools"
          /\ UNCHANGED plTripped
     \/ plTripped' = TRUE /\ plNext' = "end" /\ UNCHANGED plThread
  /\ plPhase' = "chunk"
  /\ UNCHANGED <<plStage, plTools, plSeen, plCount, plConsult>>

RunTools ==
  /\ plPhase = "tools"
  /\ LET calls == Last(plThread).calls IN
     \E results \in [DOMAIN calls -> {"ok", "error", "refused"}] :
       /\ \A i \in DOMAIN calls : results[i] \in ResultsOf(calls[i])
       /\ plThread' = plThread \o [i \in DOMAIN calls |-> Result(results[i])]
  /\ plPhase' = "chunk" /\ plNext' = "model"
  /\ UNCHANGED <<plStage, plTools, plSeen, plCount, plTripped, plConsult>>

-----------------------------------------------------------------------------
(***************************************************************************)
(* Reading a chunk: every message past the cursor, until a bound is hit.   *)
(***************************************************************************)
\* Mutant: only the planning tools are counted.
CountedPlanning(c, name) ==
  IF name \in PlanningTools THEN [c EXCEPT !.total = @ + 1, !.planning[name] = @ + 1] ELSE c

\* Mutant: any other call clears the count of a planning tool.
CountedForgetting(c, name) ==
  IF name \in PlanningTools THEN [c EXCEPT !.total = @ + 1, !.planning[name] = @ + 1]
  ELSE [c EXCEPT !.total = 1, !.planning = Fresh.planning]

Counted(c, name) ==
  LET d == [c EXCEPT !.total = @ + 1] IN
  IF name \in PlanningTools THEN [d EXCEPT !.planning[name] = @ + 1] ELSE d

\* Mutant: the calls of a message are counted on past a bound.
CallReadOn(c, name) ==
  [Counted(c, name) EXCEPT !.halt = IF Counted(c, name).total >= MaxPlannerCalls THEN "calls" ELSE @]

\* The whole loop over one message's calls; the call a bound is hit at is the last counted.
CallRead(c, name) ==
  IF c.halt # "no" THEN c
  ELSE LET d == Counted(c, name) IN
       IF d.total >= MaxPlannerCalls THEN [d EXCEPT !.halt = "calls"]
       ELSE IF name \in PlanningTools /\ d.planning[name] >= MaxPlanningCalls
         THEN [d EXCEPT !.halt = "planning"] ELSE d

\* Mutant: a call Rudra answered itself counts as a failure.
ResultReadFlat(c, result) ==
  IF result = "ok" THEN [c EXCEPT !.failures = 0]
  ELSE [c EXCEPT !.failures = @ + 1,
                 !.halt = IF c.failures + 1 >= MaxPlannerFailures THEN "failures" ELSE @]

ResultRead(c, result) ==
  CASE result = "ok" -> [c EXCEPT !.failures = 0]
    [] result = "error" ->
         [c EXCEPT !.failures = @ + 1,
                   !.halt = IF c.failures + 1 >= MaxPlannerFailures THEN "failures" ELSE @]
    [] OTHER -> c

CallsRead(c, calls) ==
  LET after[i \in 0..Len(calls)] == IF i = 0 THEN c ELSE CallRead(after[i - 1], calls[i])
  IN  after[Len(calls)]

MessageRead(c, msg) ==
  IF c.halt # "no" \/ msg = Human THEN c
  ELSE IF msg.kind = "ai" THEN CallsRead(c, msg.calls) ELSE ResultRead(c, msg.result)

MessagesRead(c, messages) ==
  LET after[i \in 0..Len(messages)] == IF i = 0 THEN c ELSE MessageRead(after[i - 1], messages[i])
  IN  after[Len(messages)]

\* Mutant: a consult reads its thread from the start.
BaselineZero(thread) == 1

\* _history_baseline.
Baseline(thread) == LastHuman(thread)

ReadChunk ==
  /\ plPhase = "chunk" /\ plCount.halt = "no"
  /\ LET from == IF plSeen = 0 THEN Baseline(plThread) ELSE plSeen IN
       plCount' = MessagesRead(plCount, SubSeq(plThread, from, Len(plThread)))
  /\ plSeen' = Len(plThread) + 1
  /\ plPhase' = plNext
  /\ UNCHANGED <<plStage, plThread, plTools, plNext, plTripped, plConsult>>

\* The stream is over, or a chunk comes after the turn was halted: the node
\* that made it has run.  A deadline is told only when nothing else was.
EndTurn ==
  /\ \/ plPhase = "end"
     \/ plPhase = "chunk" /\ plCount.halt # "no"
  /\ plCount' = [plCount EXCEPT !.halt = IF @ = "no" /\ plTripped THEN "time" ELSE @]
  /\ plPhase' = "idle"
  /\ UNCHANGED <<plStage, plThread, plTools, plNext, plSeen, plTripped, plConsult>>

PlannerStep == CallModel \/ RunTools \/ ReadChunk \/ EndTurn

\* A model call, a prompt or Ctrl-C ends the stream with an exception.
StreamRaises ==
  /\ plPhase \in {"model", "tools"} /\ plPhase' = "idle"
  /\ UNCHANGED <<plStage, plThread, plTools, plNext, plSeen, plCount, plTripped, plConsult>>

PlannerNext ==
  \/ \E canAsk, canRead \in BOOLEAN : Consult(canAsk, canRead)
  \/ PlannerStep
  \/ StreamRaises

PlannerSpec == PlannerInit /\ [][PlannerNext]_plVars /\ WF_plVars(PlannerStep)

-----------------------------------------------------------------------------
PlannerTypeOK ==
  /\ plStage \in Range(STAGES) /\ plPhase \in {"idle", "chunk", "model", "tools", "end"}
  /\ plNext \in {"model", "tools", "end"} /\ plTripped \in BOOLEAN
  /\ plCount.total \in 0..MaxPlannerCalls
  /\ plCount.halt \in {"no", "calls", "planning", "failures", "time"}
  /\ plSeen \in Nat /\ plConsult \in 0..(Len(STAGES) + PlannerConsults)

\* What this consult said and did, which is what it may be charged: the places
\* of its messages on the thread, and the calls they made.
Own == LastHuman(plThread)..Len(plThread)
CallsOf(msg, names) ==
  IF msg.kind = "ai" THEN {j \in DOMAIN msg.calls : msg.calls[j] \in names} ELSE {}
CallsIn(thread, places, names) == UNION {{i} \X CallsOf(thread[i], names) : i \in places}
ResultsIn(thread, places, result) ==
  {i \in places : thread[i].kind = "tool" /\ thread[i].result = result}
AllTools == UNION {{m[i] : i \in DOMAIN m} : m \in PlannerMessages}

(***************************************************************************)
(* A turn is halted only for what it did itself: as many calls, as many    *)
(* calls of one planning tool, or as many failures in a row, refusals      *)
(* aside, on the thread since the message it sent.                         *)
(***************************************************************************)
PlannerHaltIsEarned ==
  CASE plCount.halt = "calls" -> Cardinality(CallsIn(plThread, Own, AllTools)) >= MaxPlannerCalls
    [] plCount.halt = "planning" ->
         \E n \in PlanningTools : Cardinality(CallsIn(plThread, Own, {n})) >= MaxPlanningCalls
    [] plCount.halt = "failures" ->
         \E first, last \in Own :
           /\ ResultsIn(plThread, first..last, "ok") = {}
           /\ Cardinality(ResultsIn(plThread, first..last, "error")) >= MaxPlannerFailures
    [] plCount.halt = "time" -> plTripped
    [] OTHER -> TRUE

(***************************************************************************)
(* A turn asks for at most its bound and what one more message holds,      *)
(* whatever tools it calls, and for a planning tool no oftener than its    *)
(* own bound and the same.                                                 *)
(***************************************************************************)
PlannerCallsAreBounded ==
  plThread # <<>> =>
    /\ \E m \in PlannerMessages \cup {<<>>} :
         Cardinality(CallsIn(plThread, Own, AllTools)) < MaxPlannerCalls + Len(m)
    /\ \A n \in PlanningTools :
         \E m \in PlannerMessages \cup {<<>>} :
           Cardinality(CallsIn(plThread, Own, {n})) < MaxPlanningCalls + Len(m)

(***************************************************************************)
(* Every consult ends, though the model always has another call to make    *)
(* and no deadline trips.                                                  *)
(***************************************************************************)
PlannerTurnEnds == (plPhase # "idle") ~> (plPhase = "idle")

(***************************************************************************)
(* The guards of a consult are exact: none stops it for what others did,   *)
(* and none lets it go on past what it is for.                             *)
(***************************************************************************)
PlannerGuardsAreExact == PlannerHaltIsEarned /\ PlannerCallsAreBounded
=============================================================================
