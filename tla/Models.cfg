SPECIFICATION ModelsSpec
CONSTANTS
  Agents = {"a1", "a2", "a3"}
  Roles = {"coder", "tester"}
  RoleOf <- TwoCoders
  Endpoints = {"vaayu"}
  EndpointOf <- OneEndpoint
  Limit <- TwoSlots
  MaxAttempts = 2
  MaxCalls = 2
  MaxInvocations = 1
  MaxPlannerCalls = 3
  MaxPlanningCalls = 2
  MaxPlannerFailures = 2
  PlannerMessages <- TwoMessages
  PlannerConsults = 1
  PlannerThread = 14
  FactKeys = {"k1", "k2"}
  FactValues = {"v", "w"}
  MAX_FACTS = 1
  MaxQuestions = 2
  FactThreads = {"t1", "t2"}
  QuestionLists <- OneOrTwo
  FactCalls = 2
  FactRuns = 2
CHECK_DEADLOCK FALSE
INVARIANTS
  
  SlotsAreConserved
  FactsAreOnDisk
  AnswersAreTheUsers
  PlannerGuardsAreExact
PROPERTIES
  RetriesHaveCause
  EveryTurnEnds
