------------------------------ MODULE ToolChain -------------------------------
(***************************************************************************)
(* subagents/build.py and the middleware it stacks: a tool call goes down  *)
(* the stack, where it may be rewritten or answered, reaches the tool, and *)
(* its result goes back up, where notes may be added.  Calls are taken one *)
(* at a time; what the calls of one message do to each other is in         *)
(* SubagentTurn and GutterEdit.  A path and a text stand for their kind.   *)
(***************************************************************************)
EXTENDS Naturals, Sequences, FiniteSets

CONSTANTS
  ToolRoles,              \* the agents
  Granted,                \* the filesystem and Rudra tools of each
  TmpRequested,           \* task_names_tmp of the task at hand
  ToolCalls               \* bound of the model: the calls an agent may make

ASSUME ToolChainAssumption ==
  ToolCalls \subseteq [tool : STRING, path : STRING, text : STRING,
                       old : {"exact", "guttered", "ambiguous", "absent"},
                       aliased : BOOLEAN, fenced : BOOLEAN]

VARIABLES
  tcRole, tcCall,         \* whose call is in hand, and the call with its arguments as they now are
  tcAt,                   \* where it is: a position of the stack, the tool, or back up
  tcResult,               \* [kind, notes, routes]: routes are the tools an answer names
  tcFiles,                \* the project: what each path written holds
  tcSeen                  \* history: the arguments every judge of the call in hand saw

tcVars == <<tcRole, tcCall, tcAt, tcResult, tcFiles, tcSeen>>

SHELL_NAMES == {"bash", "python", "execute"}
FINISH_NAMES == {"exit", "task_complete"}
Planners == {"planner", "greenfield planner"}
NoResult == [kind |-> "none", notes |-> {}, routes |-> {}]
Answer(kind, routes) == [kind |-> kind, notes |-> {}, routes |-> routes]

\* Mutant: the guard comes before the stage that repairs an edit.
StackGuardFirst(role) ==
  IF role \in Planners THEN <<"fix", "write", "read", "guard", "machine">>
  ELSE <<"fix", "route", "guard", "gutter", "machine", "content", "test", "execute">>

\* build_planner_middleware and _middleware_for, outermost first; the gate, in
\* Permissions, is outside all of it.
Stack(role) ==
  IF role \in Planners THEN <<"fix", "write", "read", "machine", "guard">>
  ELSE <<"fix", "route", "gutter", "machine", "content", "test", "guard", "execute">>

\* Whether a stage is there: the test stage of those who run tests, the read
\* stage of a planner built without file tools.
Stacked(stage, role) ==
  CASE stage = "test" -> "run_tests" \in Granted[role]
    [] stage = "read" -> "read_file" \notin Granted[role]
    [] OTHER -> TRUE

ToolChainInit ==
  /\ tcRole \in ToolRoles /\ tcCall \in ToolCalls /\ tcAt = 1
  /\ tcResult = NoResult /\ tcFiles = [p \in {"module"} |-> "source"] /\ tcSeen = {}

-----------------------------------------------------------------------------
(***************************************************************************)
(* FixWriteParams.                                                         *)
(***************************************************************************)
\* Mutant: the path under its own name only.
FixedName(call) ==
  IF call.tool \notin {"write_file", "edit_file"} THEN call ELSE [call EXCEPT !.aliased = FALSE]

\* _fix_args: the path under its own name, without a blank in it, and the text
\* without the fence around it.
Fixed(call) ==
  IF call.tool \notin {"write_file", "edit_file"} THEN call
  ELSE [call EXCEPT !.aliased = FALSE, !.fenced = FALSE]

DirectoryPlaceholder(call) == call.path = "directory" /\ call.text = "comment"

Prose(call) == call.path \in {"module", "page.html", "test.html"} /\ call.text = "announcement"

\* A write that would make the project a tmp directory it does not have.
Scratch(call) ==
  call.path \in {"tmp/DONE", "tmp/x/notes"} /\ DOMAIN tcFiles \cap {"tmp/DONE", "tmp/x/notes"} = {}

Announcement(call) == call.path \in {"DONE", "tmp/DONE"} /\ call.text = "announcement"

FixAnswer(call) ==
  /\ call.tool = "write_file"
  /\ DirectoryPlaceholder(call) \/ Prose(call) \/ (~TmpRequested /\ Scratch(call))
     \/ Announcement(call)

-----------------------------------------------------------------------------
(***************************************************************************)
(* ToolRoute, PlannerWrite, GreenfieldRead: an answer for a tool the agent *)
(* has not, naming what it can do instead.                                 *)
(***************************************************************************)
\* Mutant: a writer is told to fix the file with its first write tool, held or not.
ShellRouteFree(role) == {"edit_file"}

\* The shell it has; without one, what it reads and writes with.
ShellRoute(role) ==
  IF "execute" \in Granted[role] THEN {"execute"} \cup (Granted[role] \cap {"run_tests"})
  ELSE LET writes == Granted[role] \cap {"edit_file", "write_file"}
           reads == Granted[role] \cap {"read_file", "grep"}
       IN IF writes # {}
            THEN (IF "edit_file" \in writes THEN {"edit_file"} ELSE writes)
                 \cup (IF "read_file" \in reads THEN {"read_file"} ELSE reads)
            ELSE reads

\* What a planner is for: its ledger, or its facts.
PlannerRoute(role) ==
  IF "add_tasks" \in Granted[role] THEN {"add_tasks"} ELSE Granted[role] \cap {"record_fact"}

UncollectableTest(call) ==
  call.tool = "write_file" /\ call.path = "test.html" /\ call.text \in {"source", "literal"}

\* What a stage answers on the way down, if it does.  The repeat guard
\* (RepeatGuard) answers for a write of what the file holds already.
Answers(stage, role, call) ==
  CASE stage = "fix" -> IF FixAnswer(call) THEN {Answer("rejected", {})} ELSE {}
    [] stage = "route" ->
         IF call.tool \in Granted[role] THEN {}
         ELSE IF call.tool \in SHELL_NAMES THEN {Answer("rejected", ShellRoute(role))}
         ELSE IF call.tool \in FINISH_NAMES THEN {Answer("rejected", {})} ELSE {}
    [] stage = "write" ->
         IF call.tool \in {"write_file", "edit_file", "delete"}
           THEN {Answer("rejected", PlannerRoute(role))} ELSE {}
    [] stage = "read" ->
         IF call.tool \in {"ls", "read_file", "glob", "grep"}
           THEN {Answer("rejected", PlannerRoute(role))} ELSE {}
    [] stage = "gutter" -> IF call.old = "ambiguous" THEN {Answer("error", {})} ELSE {}
    [] stage = "test" -> IF UncollectableTest(call) THEN {Answer("rejected", {})} ELSE {}
    [] stage = "guard" ->
         IF call.tool = "write_file" /\ call.path \in DOMAIN tcFiles
            /\ tcFiles[call.path] = call.text THEN {Answer("already", {})} ELSE {}
    [] OTHER -> {}

\* GutterEdit says what the repair does.
Rewritten(stage, call) ==
  CASE stage = "fix" -> Fixed(call)
    [] stage = "gutter" /\ call.old = "guttered" -> [call EXCEPT !.old = "exact"]
    [] OTHER -> call

Judges == {"test", "guard"}

Here == Stack(tcRole)[tcAt]

Down ==
  /\ tcResult = NoResult /\ tcAt <= Len(Stack(tcRole))
  /\ IF ~Stacked(Here, tcRole)
       THEN tcAt' = tcAt + 1 /\ UNCHANGED <<tcCall, tcSeen, tcResult>>
       ELSE /\ tcCall' = Rewritten(Here, tcCall)
            /\ tcSeen' = IF Here \in Judges THEN tcSeen \cup {tcCall'} ELSE tcSeen
            /\ LET answers == Answers(Here, tcRole, tcCall') IN
                 IF answers = {} THEN tcAt' = tcAt + 1 /\ UNCHANGED tcResult
                 ELSE tcResult' \in answers /\ tcAt' = tcAt - 1
  /\ UNCHANGED <<tcRole, tcFiles>>

-----------------------------------------------------------------------------
(***************************************************************************)
(* The tools, from outside.  A tool the agent has not is an error of the   *)
(* tool node's.                                                            *)
(***************************************************************************)
Wrote(path, text) == [p \in DOMAIN tcFiles \cup {path} |-> IF p = path THEN text ELSE tcFiles[p]]

RunTool ==
  /\ tcResult = NoResult /\ tcAt = Len(Stack(tcRole)) + 1
  /\ tcAt' = tcAt - 1
  /\ IF tcCall.tool \notin Granted[tcRole]
       THEN tcResult' = Answer("error", {}) /\ UNCHANGED tcFiles
       ELSE \/ /\ tcResult' = Answer("ok", {})
               /\ tcCall.tool = "edit_file" => tcCall.path \in DOMAIN tcFiles /\ tcCall.old = "exact"
               /\ tcFiles' = IF tcCall.tool \in {"write_file", "edit_file"}
                               THEN Wrote(tcCall.path, tcCall.text) ELSE tcFiles
            \/ tcResult' = Answer("error", {}) /\ UNCHANGED tcFiles
            \/ tcCall.tool \in {"glob", "grep"} /\ tcResult' = Answer("empty", {}) /\ UNCHANGED tcFiles
  /\ UNCHANGED <<tcRole, tcCall, tcSeen>>

-----------------------------------------------------------------------------
(***************************************************************************)
(* On the way up: notes.                                                   *)
(***************************************************************************)
\* Mutant: a note on what a file now contains is added to any answer.
ContentNoteAnyway(call) == call.text = "literal" /\ call.path = "module"

\* A file some process will interpret, and in it a literal "/..." that names
\* a file of the project.
ContentNote(call) ==
  /\ call.tool \in {"write_file", "edit_file"} /\ tcResult.kind # "error"
  /\ call.path = "module" /\ call.text = "literal"

\* A search of the machine's own directories that found nothing.
MachineNote(call) ==
  /\ call.tool \in {"glob", "grep", "ls", "read_file"} /\ tcResult.kind \in {"error", "empty"}
  /\ call.path = "machine"

\* A command that failed and: changes to an absolute directory, names a file
\* of the project as the file tools do, or asks pip for the machine's packages.
ExecuteNotes(call) ==
  IF call.tool = "execute" /\ tcResult.kind = "error"
    THEN {"cd", "path", "pip"} \cap {call.text} ELSE {}

Notes(stage, call) ==
  CASE stage = "content" /\ ContentNote(call) -> {"content"}
    [] stage = "machine" /\ MachineNote(call) -> {"machine"}
    [] stage = "execute" -> ExecuteNotes(call)
    [] OTHER -> {}

\* The tools a note names: the shell that sees the machine, where there is one.
NoteRoutes(stage, call) ==
  IF stage = "machine" /\ MachineNote(call) THEN Granted[tcRole] \cap {"execute"} ELSE {}

Up ==
  /\ tcResult # NoResult /\ tcAt > 0
  /\ tcAt' = tcAt - 1
  /\ tcResult' = IF ~Stacked(Here, tcRole) THEN tcResult
                 ELSE [tcResult EXCEPT !.notes = @ \cup Notes(Here, tcCall),
                                       !.routes = @ \cup NoteRoutes(Here, tcCall)]
  /\ UNCHANGED <<tcRole, tcCall, tcFiles, tcSeen>>

\* The next call, of any agent.
NextCall ==
  /\ tcResult # NoResult /\ tcAt = 0
  /\ tcRole' \in ToolRoles /\ tcCall' \in ToolCalls
  /\ tcAt' = 1 /\ tcResult' = NoResult /\ tcSeen' = {}
  /\ UNCHANGED tcFiles

ToolChainNext == Down \/ RunTool \/ Up \/ NextCall

ToolChainSpec == ToolChainInit /\ [][ToolChainNext]_tcVars

-----------------------------------------------------------------------------
ToolChainTypeOK ==
  /\ tcRole \in ToolRoles /\ tcAt \in 0..(Len(Stack(tcRole)) + 1)
  /\ tcResult.kind \in {"none", "ok", "error", "empty", "rejected", "already"}
  /\ tcResult.notes \subseteq {"content", "machine", "cd", "path", "pip"}
  /\ tcAt = Len(Stack(tcRole)) + 1 /\ tcCall.tool \in {"write_file", "edit_file"} =>
       ~tcCall.aliased /\ ~tcCall.fenced

(***************************************************************************)
(* What a judge saw is what was done: no stage rewrites a call below one   *)
(* that refused, or recorded, what it says.                                *)
(***************************************************************************)
JudgedIsDone == tcResult # NoResult => tcSeen \subseteq {tcCall}

(***************************************************************************)
(* A note is true of the project when the agent reads it: a file said to   *)
(* contain a literal contains it, though the write was never run.          *)
(***************************************************************************)
NotesAreTrue ==
  "content" \in tcResult.notes =>
    tcCall.path \in DOMAIN tcFiles /\ tcFiles[tcCall.path] = "literal"

(***************************************************************************)
(* An answer sends an agent only to tools it has.                          *)
(***************************************************************************)
RoutesAreHeld == tcResult.routes \subseteq Granted[tcRole]

(***************************************************************************)
(* What the stages say is true where it is read: a judgement of the call   *)
(* that runs, a note of the project, a route of the tools the agent has.   *)
(***************************************************************************)
WhatIsSaidIsTrue == JudgedIsDone /\ NotesAreTrue /\ RoutesAreHeld

=============================================================================
