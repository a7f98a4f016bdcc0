--------------------------- MODULE AgentCalls_proofs ----------------------------
(***************************************************************************)
(* What becomes of an agent's calls, for every set of agents, tools, calls *)
(* and files: in the stack (ToolChain), against the file (GutterEdit) and  *)
(* in the turn (SubagentTurn).  The three share no variable.               *)
(***************************************************************************)
EXTENDS MCAgent, RecursiveFunctions, SequenceTheorems, FiniteSetTheorems, TLAPS

-----------------------------------------------------------------------------
(***************************************************************************)
(* ToolChain.                                                              *)
(***************************************************************************)
Kinds == {"none", "ok", "error", "empty", "rejected", "already"}
NoteNames == {"content", "machine", "cd", "path", "pip"}
CallType == [tool : STRING, path : STRING, text : STRING,
             old : {"exact", "guttered", "ambiguous", "absent"},
             aliased : BOOLEAN, fenced : BOOLEAN]

\* Both stacks rewrite a call above the fifth stage, and judge it below the fourth.
ChainTyped ==
  /\ tcRole \in ToolRoles /\ tcCall \in CallType
  /\ tcAt \in 0..(Len(Stack(tcRole)) + 1)
  /\ tcResult \in [kind : Kinds, notes : SUBSET NoteNames, routes : SUBSET Granted[tcRole]]
  /\ tcResult.kind = "none" => tcResult = NoResult
  /\ tcResult = NoResult => tcAt >= 1
  /\ tcResult # NoResult => tcAt <= Len(Stack(tcRole))
  /\ tcAt >= 2 /\ tcCall.tool \in {"write_file", "edit_file"} =>
       ~tcCall.aliased /\ ~tcCall.fenced

ChainJudged ==
  /\ tcSeen \subseteq {tcCall}
  /\ tcResult = NoResult /\ tcAt <= 5 => tcSeen = {}

\* A result that comes up to the content stage of a write that did not fail
\* finds the text in the file: the tool put it there, or the guard saw it there.
ChainLanded ==
  /\ tcResult # NoResult /\ tcAt >= 5 /\ tcRole \notin Planners /\ tcResult.kind # "error"
     /\ tcCall.tool \in {"write_file", "edit_file"} /\ tcCall.path = "module"
       => tcCall.path \in DOMAIN tcFiles /\ tcFiles[tcCall.path] = tcCall.text
  /\ NotesAreTrue

ChainInv == ChainTyped /\ ChainJudged /\ ChainLanded

\* The two stacks, stage by stage.
LEMMA Stacks ==
  ASSUME NEW role
  PROVE  /\ role \in Planners =>
              /\ Len(Stack(role)) = 5
              /\ Stack(role)[1] = "fix" /\ Stack(role)[2] = "write" /\ Stack(role)[3] = "read"
              /\ Stack(role)[4] = "machine" /\ Stack(role)[5] = "guard"
         /\ role \notin Planners =>
              /\ Len(Stack(role)) = 8
              /\ Stack(role)[1] = "fix" /\ Stack(role)[2] = "route" /\ Stack(role)[3] = "gutter"
              /\ Stack(role)[4] = "machine" /\ Stack(role)[5] = "content"
              /\ Stack(role)[6] = "test" /\ Stack(role)[7] = "guard"
              /\ Stack(role)[8] = "execute"
<1>1. CASE role \in Planners
  BY <1>1 DEF Stack
<1>2. CASE role \notin Planners
  BY <1>2 DEF Stack
<1> QED
  BY <1>1, <1>2

\* Which stage is at which place, when a call is at it.
LEMMA StageAt ==
  ASSUME ChainTyped, tcAt >= 1, tcAt <= Len(Stack(tcRole))
  PROVE  /\ Here \in {"fix", "gutter"} => tcAt <= 3
         /\ Here \in Judges => tcAt >= 5
         /\ tcAt = 1 <=> Here = "fix"
         /\ tcRole \notin Planners => /\ Here = "content" <=> tcAt = 5
                                      /\ tcAt >= 6 => Here \in {"test", "guard", "execute"}
                                      /\ tcAt <= 5 => Here \notin Judges
         /\ tcRole \in Planners => Here # "content"
<1>1. tcAt \in Nat
  BY DEF ChainTyped
<1>2. CASE tcRole \in Planners
  <2> Len(Stack(tcRole)) = 5
    BY <1>2, Stacks
  <2>1. tcAt \in {1, 2, 3, 4, 5}
    BY <1>1
  <2> QED
    BY <1>2, <2>1, Stacks DEF Here, Judges
<1>3. CASE tcRole \notin Planners
  <2> Len(Stack(tcRole)) = 8
    BY <1>3, Stacks
  <2>1. tcAt \in {1, 2, 3, 4, 5, 6, 7, 8}
    BY <1>1
  <2> QED
    BY <1>3, <2>1, Stacks DEF Here, Judges
<1> QED
  BY <1>2, <1>3

\* An answer is a result, of the tools the agent has; it is an error, or
\* says that the file holds the text already, only where it is so.
LEMMA AnswersTyped ==
  ASSUME NEW stage, NEW role, NEW call \in CallType, NEW answer \in Answers(stage, role, call)
  PROVE  /\ answer \in [kind : Kinds \ {"none"}, notes : {{}}, routes : SUBSET Granted[role]]
         /\ stage \in {"fix", "route", "write", "read", "gutter", "test", "guard"}
         /\ stage = "guard" => call.path \in DOMAIN tcFiles /\ tcFiles[call.path] = call.text
         /\ stage = "test" => call.path # "module"
<1>1. ShellRoute(role) \subseteq Granted[role]
  BY DEF ShellRoute
<1>2. PlannerRoute(role) \subseteq Granted[role]
  BY DEF PlannerRoute
<1>3. \A kind \in Kinds \ {"none"}, routes \in SUBSET Granted[role] :
        Answer(kind, routes) \in [kind : Kinds \ {"none"}, notes : {{}},
                                  routes : SUBSET Granted[role]]
  BY DEF Answer
<1>4. \/ answer = Answer("rejected", {}) \/ answer = Answer("rejected", ShellRoute(role))
      \/ answer = Answer("rejected", PlannerRoute(role)) \/ answer = Answer("error", {})
      \/ answer = Answer("already", {})
  BY DEF Answers
<1>5. {} \in SUBSET Granted[role] /\ {"rejected", "error", "already"} \subseteq Kinds \ {"none"}
  BY DEF Kinds
<1>6. stage \in {"fix", "route", "write", "read", "gutter", "test", "guard"}
  BY DEF Answers
<1>7. stage = "guard" => call.path \in DOMAIN tcFiles /\ tcFiles[call.path] = call.text
  BY DEF Answers
<1>8. stage = "test" => call.path # "module"
  BY DEF Answers, UncollectableTest
<1> QED
  BY <1>1, <1>2, <1>3, <1>4, <1>5, <1>6, <1>7, <1>8

LEMMA RewrittenTyped ==
  ASSUME NEW stage, NEW call \in CallType
  PROVE  /\ Rewritten(stage, call) \in CallType
         /\ stage \notin {"fix", "gutter"} => Rewritten(stage, call) = call
         /\ Rewritten(stage, call).tool = call.tool
         /\ stage # "fix" => Rewritten(stage, call).aliased = call.aliased
                              /\ Rewritten(stage, call).fenced = call.fenced
         /\ stage = "fix" /\ call.tool \in {"write_file", "edit_file"} =>
              ~Rewritten(stage, call).aliased /\ ~Rewritten(stage, call).fenced
<1>1. CASE stage = "fix" /\ call.tool \in {"write_file", "edit_file"}
  <2>1. Rewritten(stage, call) = [call EXCEPT !.aliased = FALSE, !.fenced = FALSE]
    BY <1>1 DEF Rewritten, Fixed
  <2>2. \A c \in CallType : /\ [c EXCEPT !.aliased = FALSE, !.fenced = FALSE] \in CallType
                           /\ [c EXCEPT !.aliased = FALSE, !.fenced = FALSE].tool = c.tool
                           /\ ~[c EXCEPT !.aliased = FALSE, !.fenced = FALSE].aliased
                           /\ ~[c EXCEPT !.aliased = FALSE, !.fenced = FALSE].fenced
    BY DEF CallType
  <2> QED
    BY <1>1, <2>1, <2>2
<1>2. CASE stage = "gutter" /\ call.old = "guttered"
  <2>1. Rewritten(stage, call) = [call EXCEPT !.old = "exact"]
    BY <1>2 DEF Rewritten
  <2>2. \A c \in CallType : /\ [c EXCEPT !.old = "exact"] \in CallType
                           /\ [c EXCEPT !.old = "exact"].tool = c.tool
                           /\ [c EXCEPT !.old = "exact"].aliased = c.aliased
                           /\ [c EXCEPT !.old = "exact"].fenced = c.fenced
    BY DEF CallType
  <2> QED
    BY <1>2, <2>1, <2>2
<1>3. CASE ~(stage = "fix" /\ call.tool \in {"write_file", "edit_file"})
           /\ ~(stage = "gutter" /\ call.old = "guttered")
  BY <1>3 DEF Rewritten, Fixed
<1> QED
  BY <1>1, <1>2, <1>3

LEMMA ChainStarts == ToolChainInit => ChainInv
<1> SUFFICES ASSUME ToolChainInit PROVE ChainInv
  OBVIOUS
<1>1. tcCall \in CallType
  BY ToolChainAssumption DEF ToolChainInit, CallType
<1>2. Len(Stack(tcRole)) \in {5, 8}
  BY Stacks
<1>3. NoResult \in [kind : Kinds, notes : SUBSET NoteNames, routes : SUBSET Granted[tcRole]]
  BY DEF NoResult, Kinds
<1>4. ChainTyped
  BY <1>1, <1>2, <1>3 DEF ToolChainInit, ChainTyped
<1>5. tcResult.notes = {}
  BY DEF ToolChainInit, NoResult
<1> QED
  BY <1>4, <1>5 DEF ToolChainInit, ChainInv, ChainJudged, ChainLanded, NotesAreTrue

LEMMA DownKeeps == ChainInv /\ Down => ChainInv'
<1> SUFFICES ASSUME ChainInv, Down PROVE ChainInv'
  OBVIOUS
<1> USE DEF ChainInv
<1>1. /\ tcRole \in ToolRoles /\ tcCall \in CallType /\ tcAt \in Nat
      /\ Len(Stack(tcRole)) \in {5, 8} /\ Len(Stack(tcRole')) = Len(Stack(tcRole))
      /\ tcRole' = tcRole /\ tcFiles' = tcFiles
  BY Stacks DEF ChainTyped, Down
<1>2. tcResult = NoResult /\ tcAt >= 1 /\ tcAt <= Len(Stack(tcRole))
  BY DEF Down, ChainTyped
<1>3. /\ tcRole' \in ToolRoles
      /\ tcCall' \in CallType
      /\ tcCall'.tool = tcCall.tool
      /\ tcAt >= 4 => tcCall' = tcCall
      /\ tcAt >= 2 => tcCall'.aliased = tcCall.aliased /\ tcCall'.fenced = tcCall.fenced
      /\ tcAt = 1 /\ tcCall.tool \in {"write_file", "edit_file"} =>
           ~tcCall'.aliased /\ ~tcCall'.fenced
  <2>1. CASE ~Stacked(Here, tcRole)
    <3>1. tcCall' = tcCall
      BY <2>1 DEF Down
    <3>2. Here # "fix"
      BY <2>1 DEF Stacked
    <3>3. tcAt # 1
      BY <3>2, <1>2, StageAt
    <3> QED
      BY <1>1, <3>1, <3>3
  <2>2. CASE Stacked(Here, tcRole)
    <3>1. tcCall' = Rewritten(Here, tcCall)
      BY <2>2 DEF Down
    <3>2. /\ Here \in {"fix", "gutter"} => tcAt <= 3
          /\ tcAt = 1 <=> Here = "fix"
      BY <1>2, StageAt
    <3>3. /\ tcAt >= 4 => Here \notin {"fix", "gutter"}
          /\ tcAt >= 2 => Here # "fix"
      BY <1>1, <3>2
    <3>4. tcRole' \in ToolRoles
      BY <1>1
    <3> QED
      BY <1>1, <3>1, <3>2, <3>3, <3>4, RewrittenTyped
  <2> QED
    BY <2>1, <2>2
<1>4. tcSeen' \subseteq {tcCall'} /\ (tcAt <= 4 => tcSeen' = {})
  <2>1. tcAt <= 4 => tcSeen = {} /\ Here \notin Judges
    BY <1>1, <1>2, StageAt DEF ChainJudged
  <2>2. tcSeen \subseteq {tcCall}
    BY DEF ChainJudged
  <2>3. tcSeen' = tcSeen \/ (tcSeen' = tcSeen \cup {tcCall'} /\ Here \in Judges)
    BY DEF Down
  <2>4. CASE tcAt <= 4
    BY <2>1, <2>3, <2>4
  <2>5. CASE ~(tcAt <= 4)
    BY <1>1, <1>3, <2>2, <2>3, <2>5
  <2> QED
    BY <2>4, <2>5
<1>5. CASE tcAt' = tcAt + 1 /\ tcResult' = tcResult
  <2>1. ChainTyped'
    BY <1>1, <1>2, <1>3, <1>5 DEF ChainTyped
  <2>2. ChainJudged'
    BY <1>1, <1>4, <1>5 DEF ChainJudged
  <2>3. ChainLanded'
    BY <1>2, <1>5 DEF ChainLanded, NotesAreTrue, NoResult
  <2> QED
    BY <2>1, <2>2, <2>3
<1>6. CASE tcResult' \in Answers(Here, tcRole, tcCall') /\ tcAt' = tcAt - 1
  <2>1. /\ tcResult' \in [kind : Kinds \ {"none"}, notes : {{}}, routes : SUBSET Granted[tcRole]]
        /\ Here \in {"fix", "route", "write", "read", "gutter", "test", "guard"}
        /\ Here = "guard" => tcCall'.path \in DOMAIN tcFiles
                              /\ tcFiles[tcCall'.path] = tcCall'.text
        /\ Here = "test" => tcCall'.path # "module"
    BY <1>3, <1>6, AnswersTyped
  <2>2. /\ tcResult'.kind # "none" /\ tcResult' # NoResult /\ tcResult'.notes = {}
        /\ tcResult' \in [kind : Kinds, notes : SUBSET NoteNames, routes : SUBSET Granted[tcRole]]
    BY <2>1 DEF NoResult
  <2>3. ChainTyped'
    <3>1. tcAt' \in 0..(Len(Stack(tcRole')) + 1) /\ (tcAt' >= 2 => tcAt >= 2)
      BY <1>1, <1>2, <1>6
    <3>2. tcAt' >= 2 /\ tcCall'.tool \in {"write_file", "edit_file"} =>
            ~tcCall'.aliased /\ ~tcCall'.fenced
      BY <1>3, <3>1 DEF ChainTyped
    <3>3. (tcResult'.kind = "none" => tcResult' = NoResult)
          /\ (tcResult' = NoResult => tcAt' >= 1)
      BY <2>2
    <3>4. tcAt' <= Len(Stack(tcRole'))
      BY <1>1, <1>2, <1>6
    <3> QED
      BY <1>1, <1>3, <2>2, <3>1, <3>2, <3>3, <3>4 DEF ChainTyped
  <2>4. ChainJudged'
    BY <1>4, <2>2 DEF ChainJudged
  <2>5. ChainLanded'
    <3>1. NotesAreTrue'
      BY <2>2 DEF NotesAreTrue
    <3>2. ASSUME tcAt' >= 5, tcRole' \notin Planners, tcCall'.path = "module"
          PROVE  tcCall'.path \in DOMAIN tcFiles' /\ tcFiles'[tcCall'.path] = tcCall'.text
      <4>1. tcAt >= 6 /\ tcRole \notin Planners
        BY <1>1, <1>6, <3>2
      <4>2. tcRole \notin Planners => /\ Here = "content" <=> tcAt = 5
                                      /\ tcAt >= 6 => Here \in {"test", "guard", "execute"}
                                      /\ tcAt <= 5 => Here \notin Judges
        BY <1>2, StageAt
      <4> QED
        BY <1>1, <2>1, <3>2, <4>1, <4>2
    <3> QED
      BY <3>1, <3>2 DEF ChainLanded
  <2> QED
    BY <2>3, <2>4, <2>5
<1> QED
  <2>1. \/ tcAt' = tcAt + 1 /\ tcResult' = tcResult
        \/ tcResult' \in Answers(Here, tcRole, tcCall') /\ tcAt' = tcAt - 1
    BY <1>5, <1>6 DEF Down
  <2> QED
    BY <1>5, <1>6, <2>1

LEMMA RunKeeps == ChainInv /\ RunTool => ChainInv'
<1> SUFFICES ASSUME ChainInv, RunTool PROVE ChainInv'
  OBVIOUS
<1> USE DEF ChainInv
<1>1. /\ tcRole' = tcRole /\ tcCall' = tcCall /\ tcSeen' = tcSeen
      /\ tcResult = NoResult /\ tcAt = Len(Stack(tcRole)) + 1 /\ tcAt' = tcAt - 1
  BY DEF RunTool
<1>2. /\ Len(Stack(tcRole)) \in {5, 8} /\ tcAt \in Nat /\ tcAt' = Len(Stack(tcRole))
  <2>1. Len(Stack(tcRole)) \in {5, 8}
    BY Stacks
  <2> QED
    BY <1>1, <2>1
<1>3. \E kind \in {"ok", "error", "empty"} : tcResult' = Answer(kind, {})
  BY DEF RunTool
<1>4. /\ tcResult' \in [kind : Kinds, notes : SUBSET NoteNames, routes : SUBSET Granted[tcRole]]
      /\ tcResult'.kind # "none" /\ tcResult' # NoResult /\ tcResult'.notes = {}
  BY <1>3 DEF Answer, NoResult, Kinds
<1>5. ChainTyped'
  <2>1. tcAt' \in 0..(Len(Stack(tcRole')) + 1) /\ tcAt >= 2 /\ tcAt' <= Len(Stack(tcRole'))
    BY <1>1, <1>2
  <2> QED
    BY <1>1, <1>4, <2>1 DEF ChainTyped
<1>6. ChainJudged'
  BY <1>1, <1>4 DEF ChainJudged
<1>7. ASSUME tcResult'.kind # "error", tcCall.tool \in {"write_file", "edit_file"}
      PROVE  tcCall.path \in DOMAIN tcFiles' /\ tcFiles'[tcCall.path] = tcCall.text
  <2>1. tcResult' # Answer("error", {})
    BY <1>7 DEF Answer
  <2>2. tcFiles' = Wrote(tcCall.path, tcCall.text)
    BY <1>7, <2>1 DEF RunTool
  <2> QED
    BY <2>2 DEF Wrote
<1>8. ChainLanded'
  BY <1>1, <1>4, <1>7 DEF ChainLanded, NotesAreTrue
<1> QED
  BY <1>5, <1>6, <1>8

LEMMA UpKeeps == ChainInv /\ Up => ChainInv'
<1> SUFFICES ASSUME ChainInv, Up PROVE ChainInv'
  OBVIOUS
<1> USE DEF ChainInv
<1>1. /\ tcRole' = tcRole /\ tcCall' = tcCall /\ tcSeen' = tcSeen /\ tcFiles' = tcFiles
      /\ tcResult # NoResult /\ tcAt > 0 /\ tcAt' = tcAt - 1
      /\ tcAt \in Nat /\ Len(Stack(tcRole)) \in {5, 8} /\ tcAt <= Len(Stack(tcRole))
  BY Stacks DEF Up, ChainTyped
<1>2. Notes(Here, tcCall) \subseteq NoteNames
  BY DEF Notes, ExecuteNotes, NoteNames
<1>3. NoteRoutes(Here, tcCall) \subseteq Granted[tcRole]
  BY DEF NoteRoutes
<1>4. /\ tcResult \in [kind : Kinds, notes : SUBSET NoteNames, routes : SUBSET Granted[tcRole]]
      /\ tcResult.kind # "none"
  BY <1>1 DEF ChainTyped
<1>5. /\ tcResult' \in [kind : Kinds, notes : SUBSET NoteNames, routes : SUBSET Granted[tcRole]]
      /\ tcResult'.kind = tcResult.kind
      /\ tcResult'.notes \subseteq tcResult.notes \cup Notes(Here, tcCall)
  <2>1. CASE ~Stacked(Here, tcRole)
    <3>1. tcResult' = tcResult
      BY <2>1 DEF Up
    <3> QED
      BY <1>4, <3>1
  <2>2. CASE Stacked(Here, tcRole)
    <3>1. tcResult' = [tcResult EXCEPT !.notes = @ \cup Notes(Here, tcCall),
                                       !.routes = @ \cup NoteRoutes(Here, tcCall)]
      BY <2>2 DEF Up
    <3> QED
      BY <1>2, <1>3, <1>4, <3>1
  <2> QED
    BY <2>1, <2>2
<1>6. tcResult' # NoResult
  BY <1>4, <1>5 DEF NoResult
<1>7. ChainTyped'
  <2>1. /\ tcAt' \in 0..(Len(Stack(tcRole')) + 1) /\ tcAt' <= Len(Stack(tcRole'))
        /\ tcAt' >= 2 => tcAt >= 2
    BY <1>1
  <2>2. tcAt' >= 2 /\ tcCall'.tool \in {"write_file", "edit_file"} =>
          ~tcCall'.aliased /\ ~tcCall'.fenced
    BY <1>1, <2>1 DEF ChainTyped
  <2>3. tcRole' \in ToolRoles /\ tcCall' \in CallType
    BY <1>1 DEF ChainTyped
  <2>4. tcResult' \in [kind : Kinds, notes : SUBSET NoteNames, routes : SUBSET Granted[tcRole']]
    BY <1>1, <1>5
  <2> QED
    BY <1>4, <1>5, <1>6, <2>1, <2>2, <2>3, <2>4 DEF ChainTyped
<1>8. ChainJudged'
  BY <1>1, <1>6 DEF ChainJudged
<1>9. "content" \in Notes(Here, tcCall) =>
        tcCall.path \in DOMAIN tcFiles /\ tcFiles[tcCall.path] = "literal"
  <2> SUFFICES ASSUME "content" \in Notes(Here, tcCall)
               PROVE  tcCall.path \in DOMAIN tcFiles /\ tcFiles[tcCall.path] = "literal"
    OBVIOUS
  <2>1. Here = "content" /\ ContentNote(tcCall)
    BY DEF Notes, ExecuteNotes
  <2>2. tcRole \notin Planners /\ tcAt = 5
    <3>1. /\ tcRole \in Planners => Here # "content"
          /\ tcRole \notin Planners => /\ Here = "content" <=> tcAt = 5
                                       /\ tcAt >= 6 => Here \in {"test", "guard", "execute"}
                                       /\ tcAt <= 5 => Here \notin Judges
      BY <1>1, StageAt
    <3> QED
      BY <2>1, <3>1
  <2>3. tcResult.kind # "error" /\ tcCall.tool \in {"write_file", "edit_file"}
        /\ tcCall.path = "module" /\ tcCall.text = "literal"
    BY <2>1 DEF ContentNote
  <2> QED
    BY <1>1, <2>2, <2>3 DEF ChainLanded
<1>10. NotesAreTrue'
  BY <1>1, <1>5, <1>9 DEF ChainLanded, NotesAreTrue
<1>11. ChainLanded'
  <2>1. tcAt' >= 5 => tcAt >= 5
    BY <1>1
  <2> QED
    BY <1>1, <1>5, <1>10, <2>1 DEF ChainLanded
<1> QED
  BY <1>7, <1>8, <1>11

LEMMA NextCallKeeps == ChainInv /\ NextCall => ChainInv'
<1> SUFFICES ASSUME ChainInv, NextCall PROVE ChainInv'
  OBVIOUS
<1>1. /\ tcRole' \in ToolRoles /\ tcCall' \in CallType
      /\ tcAt' = 1 /\ tcResult' = NoResult /\ tcSeen' = {}
  BY ToolChainAssumption DEF NextCall, CallType
<1>2. Len(Stack(tcRole')) \in {5, 8}
  BY Stacks
<1>3. NoResult \in [kind : Kinds, notes : SUBSET NoteNames, routes : SUBSET Granted[tcRole']]
  BY DEF NoResult, Kinds
<1>4. ChainTyped'
  BY <1>1, <1>2, <1>3 DEF ChainTyped
<1>5. tcResult'.notes = {}
  BY <1>1 DEF NoResult
<1> QED
  BY <1>1, <1>4, <1>5 DEF ChainInv, ChainJudged, ChainLanded, NotesAreTrue

LEMMA ChainStep == ChainInv /\ [ToolChainNext]_tcVars => ChainInv'
<1> SUFFICES ASSUME ChainInv, [ToolChainNext]_tcVars PROVE ChainInv'
  OBVIOUS
<1>1. CASE UNCHANGED tcVars
  <2>1. /\ tcRole' = tcRole /\ tcCall' = tcCall /\ tcAt' = tcAt
        /\ tcResult' = tcResult /\ tcFiles' = tcFiles /\ tcSeen' = tcSeen
    BY <1>1 DEF tcVars
  <2> QED
    BY <2>1 DEF ChainInv, ChainTyped, ChainJudged, ChainLanded, NotesAreTrue
<1> QED
  BY <1>1, DownKeeps, RunKeeps, UpKeeps, NextCallKeeps DEF ToolChainNext

\* What a call on its way through ToolChain's stages keeps of itself and its answer.
THEOREM ChainInvariant == ToolChainSpec => []ChainInv
  BY ChainStep, ChainStarts, PTL DEF ToolChainSpec

(***************************************************************************)
(* What a stage of build.py's stack says is true where it is read: a judge *)
(* below the stages that rewrite saw the call that ran, a file said to     *)
(* contain a literal contains it, and an answer names only tools the agent *)
(* has, whatever agents, tools and calls there are.                        *)
(***************************************************************************)
THEOREM StagesAreTrue == ToolChainSpec => []WhatIsSaidIsTrue
<1>1. ChainInv => WhatIsSaidIsTrue
  BY DEF ChainInv, ChainTyped, ChainJudged, ChainLanded, WhatIsSaidIsTrue, JudgedIsDone,
         RoutesAreHeld
<1> QED
  BY <1>1, ChainInvariant, PTL

LEMMA ChainTypes == ChainInv => ToolChainTypeOK
<1> SUFFICES ASSUME ChainInv PROVE ToolChainTypeOK
  OBVIOUS
<1>1. Len(Stack(tcRole)) \in {5, 8}
  BY Stacks
<1>2. /\ tcRole \in ToolRoles /\ tcAt \in 0..(Len(Stack(tcRole)) + 1)
      /\ tcResult.kind \in Kinds /\ tcResult.notes \subseteq NoteNames
  BY DEF ChainInv, ChainTyped
<1>3. tcAt = Len(Stack(tcRole)) + 1 => tcAt >= 2
  BY <1>1
<1>4. tcAt = Len(Stack(tcRole)) + 1 /\ tcCall.tool \in {"write_file", "edit_file"} =>
        ~tcCall.aliased /\ ~tcCall.fenced
  BY <1>3 DEF ChainInv, ChainTyped
<1> QED
  BY <1>2, <1>4 DEF ToolChainTypeOK, Kinds, NoteNames

(***************************************************************************)
(* The variables of the chain keep their types, and a write reaches its    *)
(* tool under its own argument's name and without the fence around it.     *)
(***************************************************************************)
THEOREM ChainTypeCorrect == ToolChainSpec => []ToolChainTypeOK
  BY ChainTypes, ChainInvariant, PTL

-----------------------------------------------------------------------------
(***************************************************************************)
(* GutterEdit.                                                             *)
(***************************************************************************)
EditType ==
  [pc : {"sent", "repaired", "passed", "refused", "landed", "failed"}, unread : BOOLEAN,
   meantOld : Seq(Lines), meantNew : Seq(Lines), old : Seq(Lines), new : Seq(Lines)]

EditsTyped ==
  /\ geFile \in Seq(Lines) /\ geRead \in Seq(Lines)
  /\ geEdit \in [EditThreads -> EditType]
  /\ \A t \in EditThreads : Len(geEdit[t].old) >= 1 /\ Len(geEdit[t].new) >= 1

\* An edit that has not been looked at names lines of the file that was read
\* as they were shown, and gives what it means with the same gutter.
ShownAs(e) ==
  \E n \in Nat \ {0}, gutter \in Nat : \E at \in 1..(Len(geRead) - n + 1) :
    /\ e.meantOld = Window(geRead, at, n) /\ e.meantNew # <<>>
    /\ e.old = Copied(e.meantOld, gutter) /\ e.new = Copied(e.meantNew, gutter)

EditInv ==
  /\ EditsTyped
  /\ \A t \in EditThreads : geEdit[t].pc = "sent" => ShownAs(geEdit[t])
  /\ RepairedAsMeant

LEMMA WindowIs ==
  ASSUME NEW file \in Seq(Lines), NEW n \in Nat \ {0}, NEW at \in 1..(Len(file) - n + 1)
  PROVE  /\ Window(file, at, n) \in Seq(Lines) /\ Len(Window(file, at, n)) = n
         /\ \A k \in 1..n : Window(file, at, n)[k] = file[at + k - 1]
<1> DEFINE last == at + n - 1
<1>1. Len(file) \in Nat /\ at \in Int /\ last \in Int /\ at <= last /\ last <= Len(file)
      /\ last - at + 1 = n /\ 1 <= at
  OBVIOUS
<1>2. \A i \in at..last : file[i] \in Lines
  <2> SUFFICES ASSUME NEW i \in at..last PROVE file[i] \in Lines
    OBVIOUS
  <2>1. i \in 1..Len(file)
    BY <1>1
  <2> QED
    BY <2>1, ElementOfSeq
<1>3. Window(file, at, n) = SubSeq(file, at, last)
  BY DEF Window
<1> HIDE DEF last
<1>4. /\ SubSeq(file, at, last) \in Seq(Lines)
      /\ Len(SubSeq(file, at, last)) = IF at <= last THEN last - at + 1 ELSE 0
      /\ \A i \in 1..(last - at + 1) : SubSeq(file, at, last)[i] = file[at + i - 1]
  BY <1>1, <1>2, SubSeqProperties
<1> QED
  BY <1>1, <1>3, <1>4

LEMMA CopiedIs ==
  ASSUME NEW lines \in Seq(Lines), NEW gutter \in Nat
  PROVE  /\ Copied(lines, gutter) \in Seq(Lines) /\ Len(Copied(lines, gutter)) = Len(lines)
         /\ \A k \in 1..Len(lines) : Copied(lines, gutter)[k].text = lines[k].text
         /\ \A k \in 2..Len(lines) : Copied(lines, gutter)[k] =
              IF IsBlank(lines[k]) THEN lines[k]
              ELSE Line(lines[k].text, lines[k].indent + gutter)
         /\ Len(lines) >= 1 => Copied(lines, gutter)[1] = Line(lines[1].text, 0)
<1>1. Len(lines) \in Nat /\ DOMAIN lines = 1..Len(lines)
  BY LenProperties
<1>2. \A k \in 1..Len(lines) : /\ lines[k] \in Lines
                                /\ lines[k].text \in STRING /\ lines[k].indent \in Nat
  <2> SUFFICES ASSUME NEW k \in 1..Len(lines)
               PROVE  lines[k] \in Lines /\ lines[k].text \in STRING /\ lines[k].indent \in Nat
    OBVIOUS
  <2>1. lines[k] \in Lines
    BY ElementOfSeq
  <2> QED
    BY <2>1 DEF Lines
<1>3. \A k \in 1..Len(lines) : Copied(lines, gutter)[k] =
        IF k = 1 THEN Line(lines[1].text, 0)
        ELSE IF IsBlank(lines[k]) THEN lines[k]
        ELSE Line(lines[k].text, lines[k].indent + gutter)
  BY <1>1 DEF Copied
<1>4. ASSUME NEW k \in 1..Len(lines)
      PROVE  Copied(lines, gutter)[k] \in Lines /\ Copied(lines, gutter)[k].text = lines[k].text
  <2>1. \A text \in STRING, indent \in Nat : Line(text, indent) \in Lines
                                           /\ Line(text, indent).text = text
    BY DEF Line, Lines
  <2>2. lines[k].indent + gutter \in Nat /\ 0 \in Nat /\ lines[k].text \in STRING
        /\ lines[k] \in Lines
    BY <1>2
  <2>3. CASE k = 1
    <3>1. Copied(lines, gutter)[k] = Line(lines[k].text, 0)
      BY <1>3, <2>3
    <3> QED
      BY <2>1, <2>2, <3>1
  <2>4. CASE k # 1 /\ IsBlank(lines[k])
    BY <1>3, <2>2, <2>4
  <2>5. CASE k # 1 /\ ~IsBlank(lines[k])
    <3>1. Copied(lines, gutter)[k] = Line(lines[k].text, lines[k].indent + gutter)
      BY <1>3, <2>5
    <3> QED
      BY <2>1, <2>2, <3>1
  <2> QED
    BY <2>3, <2>4, <2>5
<1>5. Copied(lines, gutter) \in [1..Len(lines) -> Lines]
  <2>1. Copied(lines, gutter) = [k \in 1..Len(lines) |-> Copied(lines, gutter)[k]]
    BY <1>1 DEF Copied
  <2> QED
    BY <1>4, <2>1
<1>6. Copied(lines, gutter) \in Seq(Lines) /\ Len(Copied(lines, gutter)) = Len(lines)
  BY <1>1, <1>5
<1>7. \A k \in 2..Len(lines) : k \in 1..Len(lines) /\ k # 1
  BY <1>1
<1>8. Len(lines) >= 1 => 1 \in 1..Len(lines)
  BY <1>1
<1> QED
  BY <1>3, <1>4, <1>6, <1>7, <1>8

\* What repair_indent puts in: lines again, where it does not go below the margin.
LEMMA MovedBackIs ==
  ASSUME NEW new \in Seq(Lines), Len(new) >= 1, NEW base \in Nat,
         NEW delta \in Nat, ~Outdents(new, delta)
  PROVE  /\ MovedBack(new, base, delta) \in Seq(Lines)
         /\ Len(MovedBack(new, base, delta)) = Len(new)
         /\ MovedBack(new, base, delta)[1] = Line(new[1].text, base)
         /\ \A k \in 2..Len(new) : MovedBack(new, base, delta)[k] =
              IF IsBlank(new[k]) THEN new[k] ELSE Line(new[k].text, new[k].indent - delta)
<1>1. Len(new) \in Nat /\ DOMAIN new = 1..Len(new)
  BY LenProperties
<1>2. \A k \in 1..Len(new) : MovedBack(new, base, delta)[k] =
        IF k = 1 THEN Line(new[1].text, base)
        ELSE IF IsBlank(new[k]) THEN new[k]
        ELSE Line(new[k].text, new[k].indent - delta)
  BY <1>1 DEF MovedBack
<1>3. ASSUME NEW k \in 1..Len(new) PROVE MovedBack(new, base, delta)[k] \in Lines
  <2>1. new[k] \in Lines
    BY ElementOfSeq
  <2>2. new[k].text \in STRING /\ new[k].indent \in Nat
    BY <2>1 DEF Lines
  <2>3. \A text \in STRING, indent \in Nat : Line(text, indent) \in Lines
    BY DEF Line, Lines
  <2>4. CASE k = 1
    <3>1. MovedBack(new, base, delta)[k] = Line(new[k].text, base)
      BY <1>2, <2>4
    <3> QED
      BY <2>2, <2>3, <3>1
  <2>5. CASE k # 1 /\ IsBlank(new[k])
    BY <1>2, <2>1, <2>5
  <2>6. CASE k # 1 /\ ~IsBlank(new[k])
    <3>1. MovedBack(new, base, delta)[k] = Line(new[k].text, new[k].indent - delta)
      BY <1>2, <2>6
    <3>2. k \in 2..Len(new)
      BY <1>1, <2>6
    <3>3. ~(new[k].indent < delta)
      BY <2>6, <3>2 DEF Outdents
    <3>4. new[k].indent - delta \in Nat
      BY <2>2, <3>3
    <3> QED
      BY <2>2, <2>3, <3>1, <3>4
  <2> QED
    BY <2>4, <2>5, <2>6
<1>4. MovedBack(new, base, delta) = [k \in 1..Len(new) |-> MovedBack(new, base, delta)[k]]
  BY <1>1 DEF MovedBack
<1>5. MovedBack(new, base, delta) \in [1..Len(new) -> Lines]
  BY <1>3, <1>4
<1>6. MovedBack(new, base, delta) \in Seq(Lines) /\ Len(MovedBack(new, base, delta)) = Len(new)
  BY <1>1, <1>5
<1>7. 1 \in 1..Len(new) /\ \A k \in 2..Len(new) : k \in 1..Len(new) /\ k # 1
  BY <1>1
<1> QED
  BY <1>2, <1>6, <1>7

LEMMA LeastPlace ==
  ASSUME NEW places \in SUBSET Int, Cardinality(places) = 1, IsFiniteSet(places)
  PROVE  \E p \in places : /\ places = {p}
                           /\ (CHOOSE q \in places : \A r \in places : q <= r) = p
<1>1. PICK p : places = {p}
  BY FS_Singleton
<1>2. p \in Int /\ p <= p
  BY <1>1
<1>3. \E q \in places : \A r \in places : q <= r
  BY <1>1, <1>2
<1> QED
  BY <1>1, <1>3

LEMMA PlacesFinite ==
  ASSUME NEW file \in Seq(Lines), NEW lines \in Seq(Lines)
  PROVE  /\ IsFiniteSet(LocateByContent(file, lines)) /\ LocateByContent(file, lines) \in SUBSET Int
         /\ LocateByContent(file, lines) \subseteq Places(file, lines)
<1>1. Len(file) - Len(lines) + 1 \in Int
  BY LenProperties
<1>2. IsFiniteSet(Places(file, lines))
  BY <1>1, FS_Interval DEF Places
<1>3. LocateByContent(file, lines) \in SUBSET Places(file, lines)
  BY DEF LocateByContent
<1>4. Places(file, lines) \subseteq Int
  BY <1>1 DEF Places
<1> QED
  BY <1>2, <1>3, <1>4, FS_Subset

\* A repaired edit is of one place and one gutter.
LEMMA RepairIs ==
  ASSUME NEW file \in Seq(Lines), NEW old \in Seq(Lines), NEW new \in Seq(Lines),
         Len(old) >= 1, Len(new) >= 1, NEW r \in RepairIndent(file, old, new)
  PROVE  \E at \in Places(file, old) : \E delta \in Nat :
           /\ LocateByContent(file, old) = {at} /\ Deltas(file, old, at) # {}
           /\ delta \in Deltas(file, old, at) /\ ~Outdents(new, delta)
           /\ r = [old |-> Window(file, at, Len(old)), new |-> MovedBack(new, file[at].indent, delta)]
<1> DEFINE places == LocateByContent(file, old)
           least == CHOOSE p \in places : \A q \in places : p <= q
           delta == CHOOSE d \in Deltas(file, old, least) : TRUE
<1>1. /\ Cardinality(places) = 1 /\ Cardinality(Deltas(file, old, least)) = 1
      /\ ~(delta < 0) /\ ~Outdents(new, delta)
      /\ r = [old |-> Window(file, least, Len(old)), new |-> MovedBack(new, file[least].indent, delta)]
  BY DEF RepairIndent, UniquePlace
<1>2. places = {least} /\ least \in places
  <2>1. IsFiniteSet(places) /\ places \in SUBSET Int
    BY PlacesFinite
  <2> HIDE DEF places
  <2> QED
    BY <1>1, <2>1, LeastPlace
<1>3. least \in Places(file, old)
  BY <1>2, PlacesFinite
<1>4. Deltas(file, old, least) # {}
  <2>1. Cardinality({}) = 0
    BY FS_EmptySet
  <2>2. Cardinality(Deltas(file, old, least)) = 1
    BY <1>1
  <2>3. Cardinality(Deltas(file, old, least)) # Cardinality({})
    BY <2>1, <2>2
  <2> HIDE DEF least, delta
  <2> QED
    BY <2>3, Zenon
<1>5. delta \in Deltas(file, old, least)
  BY <1>4
<1> HIDE DEF delta
<1>6. delta \in Int
  <2>1. PICK k \in 2..Len(old) : delta = old[k].indent - file[least + k - 1].indent
    BY <1>5 DEF Deltas
  <2>2. least \in 1..(Len(file) - Len(old) + 1) /\ Len(file) \in Nat /\ Len(old) \in Nat
    BY <1>3, LenProperties DEF Places
  <2> HIDE DEF least
  <2>3. k \in 1..Len(old) /\ least + k - 1 \in 1..Len(file)
    BY <2>2
  <2>4. old[k] \in Lines /\ file[least + k - 1] \in Lines
    BY <2>3, ElementOfSeq
  <2>5. old[k].indent \in Nat /\ file[least + k - 1].indent \in Nat
    BY <2>4 DEF Lines
  <2> QED
    BY <2>1, <2>5
<1>7. delta \in Nat
  BY <1>1, <1>6
<1> QED
  BY <1>1, <1>2, <1>3, <1>4, <1>5, <1>7

\* An edit shown with a gutter, and repaired against the file it was read in,
\* is the edit that was meant.
LEMMA RepairMeans ==
  ASSUME NEW file \in Seq(Lines), NEW n \in Nat \ {0}, NEW gutter \in Nat,
         NEW meant \in 1..(Len(file) - n + 1), NEW put \in Seq(Lines), put # <<>>,
         NEW r \in RepairIndent(file, Copied(Window(file, meant, n), gutter), Copied(put, gutter))
  PROVE  /\ r.old = Window(file, meant, n) /\ Len(r.new) = Len(put) /\ Tail(r.new) = Tail(put)
         /\ r.new[1] = Line(put[1].text, Window(file, meant, n)[1].indent)
<1> DEFINE window == Window(file, meant, n)
           old == Copied(window, gutter)
           new == Copied(put, gutter)
<1>1. /\ window \in Seq(Lines) /\ Len(window) = n
      /\ \A k \in 1..n : window[k] = file[meant + k - 1]
  BY WindowIs
<1> HIDE DEF window
<1>2. /\ old \in Seq(Lines) /\ Len(old) = n
      /\ \A k \in 1..n : old[k].text = window[k].text
      /\ \A k \in 2..n : old[k] = IF IsBlank(window[k]) THEN window[k]
                                 ELSE Line(window[k].text, window[k].indent + gutter)
  BY <1>1, CopiedIs
<1>3. Len(put) \in Nat /\ Len(put) >= 1
  BY LenProperties
<1>4. /\ new \in Seq(Lines) /\ Len(new) = Len(put)
      /\ \A k \in 2..Len(put) : new[k] = IF IsBlank(put[k]) THEN put[k]
                                        ELSE Line(put[k].text, put[k].indent + gutter)
      /\ new[1] = Line(put[1].text, 0)
  BY <1>3, CopiedIs
<1> HIDE DEF old, new
<1>5. r \in RepairIndent(file, old, new)
  BY DEF old, new, window
<1>6. PICK at \in Places(file, old), delta \in Nat :
        /\ LocateByContent(file, old) = {at} /\ Deltas(file, old, at) # {}
        /\ delta \in Deltas(file, old, at) /\ ~Outdents(new, delta)
        /\ r = [old |-> Window(file, at, Len(old)), new |-> MovedBack(new, file[at].indent, delta)]
  <2>1. old \in Seq(Lines) /\ new \in Seq(Lines) /\ Len(old) >= 1 /\ Len(new) >= 1
    BY <1>2, <1>3, <1>4
  <2>2. \E at \in Places(file, old) : \E delta \in Nat :
           /\ LocateByContent(file, old) = {at} /\ Deltas(file, old, at) # {}
           /\ delta \in Deltas(file, old, at) /\ ~Outdents(new, delta)
           /\ r = [old |-> Window(file, at, Len(old)), new |-> MovedBack(new, file[at].indent, delta)]
    BY <1>5, <2>1, RepairIs, ZenonT(60)
  <2> QED
    BY <2>2
\* The lines are long enough to be looked for, and they are where they were read.
<1>7. at = meant
  <2>1. Len(old) > 1
    BY <1>6 DEF LocateByContent
  <2>2. meant \in Places(file, old)
    BY <1>2 DEF Places
  <2>3. \A k \in DOMAIN old : file[meant + k - 1].text = old[k].text
    <3>1. DOMAIN old = 1..n
      BY <1>2, LenProperties
    <3> QED
      BY <1>1, <1>2, <3>1
  <2>4. meant \in LocateByContent(file, old)
    BY <2>1, <2>2, <2>3 DEF LocateByContent
  <2> QED
    BY <1>6, <2>4
<1>8. delta = gutter
  <2>1. PICK k \in 2..Len(old) : ~IsBlank(old[k]) /\ delta = old[k].indent - file[at + k - 1].indent
    BY <1>6 DEF Deltas
  <2>2. k \in 2..n /\ k \in 1..n
    BY <1>2
  <2>3. ~IsBlank(window[k])
    BY <1>2, <2>1, <2>2 DEF IsBlank
  <2>4. old[k].indent = window[k].indent + gutter
    <3>1. old[k] = Line(window[k].text, window[k].indent + gutter)
      BY <1>2, <2>2, <2>3
    <3> QED
      BY <3>1 DEF Line
  <2>5. window[k] \in Lines
    BY <1>1, <2>2, ElementOfSeq
  <2>6. window[k].indent \in Nat /\ file[at + k - 1] = window[k]
    BY <1>1, <1>7, <2>2, <2>5 DEF Lines
  <2> DEFINE shown == file[at + k - 1].indent
  <2>7. shown \in Nat /\ delta = (shown + gutter) - shown
    BY <2>1, <2>4, <2>6
  <2> HIDE DEF shown
  <2> QED
    BY <2>7
<1>9. 1 \in 1..n /\ meant + 1 - 1 = meant /\ meant \in 1..Len(file)
  BY LenProperties
<1>10. file[meant] \in Lines
  BY <1>9, ElementOfSeq
<1>11. window[1].indent = file[meant].indent /\ file[meant].indent \in Nat
  BY <1>1, <1>9, <1>10 DEF Lines
<1> DEFINE moved == MovedBack(new, file[at].indent, delta)
<1>12. /\ moved \in Seq(Lines) /\ Len(moved) = Len(new)
       /\ moved[1] = Line(new[1].text, file[at].indent)
       /\ \A k \in 2..Len(new) : moved[k] =
            IF IsBlank(new[k]) THEN new[k] ELSE Line(new[k].text, new[k].indent - delta)
  <2>1. Len(new) >= 1 /\ file[at].indent \in Nat /\ ~Outdents(new, delta)
    BY <1>3, <1>4, <1>6, <1>7, <1>11
  <2> QED
    BY <1>4, <1>6, <2>1, MovedBackIs, SMTT(60)
<1>13. r.old = window /\ r.new = moved
  BY <1>2, <1>6, <1>7 DEF window
<1> HIDE DEF moved
<1>14. ASSUME NEW k \in 2..Len(put) PROVE moved[k] = put[k]
  <2>1. put[k] \in Lines
    BY <1>3, ElementOfSeq
  <2>2. put[k].text \in STRING /\ put[k].indent \in Nat /\ put[k] = Line(put[k].text, put[k].indent)
    BY <2>1 DEF Lines, Line
  <2>3. CASE IsBlank(put[k])
    <3>1. new[k] = put[k]
      BY <1>4, <2>3
    <3> QED
      BY <1>4, <1>12, <2>3, <3>1
  <2>4. CASE ~IsBlank(put[k])
    <3>1. new[k] = Line(put[k].text, put[k].indent + gutter)
      BY <1>4, <2>4
    <3>2. /\ new[k].text = put[k].text /\ new[k].indent = put[k].indent + gutter
          /\ ~IsBlank(new[k])
      <4>1. new[k].text = put[k].text /\ new[k].indent = put[k].indent + gutter
        BY <3>1 DEF Line
      <4> QED
        BY <2>4, <4>1 DEF IsBlank
    <3>3. moved[k] = Line(new[k].text, new[k].indent - delta)
      BY <1>4, <1>12, <3>2
    <3>4. new[k].indent - delta = put[k].indent
      BY <1>8, <2>2, <3>2
    <3> QED
      BY <2>2, <3>2, <3>3, <3>4
  <2> QED
    BY <2>3, <2>4
<1>15. Tail(moved) = Tail(put)
  <2>1. moved # <<>> /\ put # <<>> /\ Len(moved) = Len(put)
    BY <1>3, <1>4, <1>12
  <2>2. /\ Tail(moved) \in Seq(Lines) /\ Len(Tail(moved)) = Len(put) - 1
        /\ \A i \in 1..Len(Tail(moved)) : Tail(moved)[i] = moved[i + 1]
    BY <1>12, <2>1, HeadTailProperties
  <2>3. /\ Tail(put) \in Seq(Lines) /\ Len(Tail(put)) = Len(put) - 1
        /\ \A i \in 1..Len(Tail(put)) : Tail(put)[i] = put[i + 1]
    BY <2>1, HeadTailProperties
  <2>4. \A i \in 1..(Len(put) - 1) : i + 1 \in 2..Len(put)
    BY <1>3
  <2>5. \A i \in 1..(Len(put) - 1) : Tail(moved)[i] = Tail(put)[i]
    BY <1>14, <2>2, <2>3, <2>4
  <2> QED
    BY <2>2, <2>3, <2>5, SeqEqual
<1>16. moved[1] = Line(put[1].text, window[1].indent)
  <2>1. new[1].text = put[1].text
    BY <1>4 DEF Line
  <2> QED
    BY <1>7, <1>11, <1>12, <2>1
<1> QED
  BY <1>4, <1>12, <1>13, <1>15, <1>16 DEF window

LEMMA EditsStart == GutterEditInit => EditInv
<1> SUFFICES ASSUME GutterEditInit PROVE EditInv
  OBVIOUS
<1>1. geFile \in Seq(Lines) /\ geRead = geFile
  BY GutterEditAssumption DEF GutterEditInit
<1>2. ASSUME NEW t \in EditThreads
      PROVE  /\ geEdit[t] \in EditType /\ Len(geEdit[t].old) >= 1 /\ Len(geEdit[t].new) >= 1
             /\ geEdit[t].pc = "sent" /\ ShownAs(geEdit[t])
  <2>1. PICK length \in EditLengths :
          geEdit[t] \in {EditOf(at, length, put, gutter) :
                           at \in 1..(Len(geFile) - length + 1), put \in EditReplacements,
                           gutter \in Gutters}
    BY DEF GutterEditInit
  <2>2. PICK at \in 1..(Len(geFile) - length + 1), put \in EditReplacements, gutter \in Gutters :
          geEdit[t] = EditOf(at, length, put, gutter)
    BY <2>1
  <2>3. /\ length \in Nat \ {0} /\ gutter \in Nat /\ put \in Seq(Lines) /\ put # <<>>
    BY GutterEditAssumption
  <2> DEFINE window == Window(geFile, at, length)
  <2>4. window \in Seq(Lines) /\ Len(window) = length
    BY <1>1, <2>3, WindowIs
  <2>5. geEdit[t] = [pc |-> "sent", unread |-> FALSE, meantOld |-> window, meantNew |-> put,
                     old |-> Copied(window, gutter), new |-> Copied(put, gutter)]
    BY <2>2 DEF EditOf
  <2> HIDE DEF window
  <2>6. /\ Copied(window, gutter) \in Seq(Lines) /\ Len(Copied(window, gutter)) = length
    BY <2>3, <2>4, CopiedIs
  <2>7. Copied(put, gutter) \in Seq(Lines) /\ Len(Copied(put, gutter)) = Len(put)
    BY <2>3, CopiedIs
  <2>8. Len(put) >= 1
    BY <2>3, LenProperties
  <2>9. geEdit[t] \in EditType
    BY <2>3, <2>4, <2>5, <2>6, <2>7 DEF EditType
  <2>10. /\ geEdit[t].meantOld = Window(geRead, at, length) /\ geEdit[t].meantNew # <<>>
         /\ geEdit[t].old = Copied(geEdit[t].meantOld, gutter)
         /\ geEdit[t].new = Copied(geEdit[t].meantNew, gutter)
    BY <1>1, <2>3, <2>5 DEF window
  <2>11. ShownAs(geEdit[t])
    <3>1. at \in 1..(Len(geRead) - length + 1)
      BY <1>1
    <3> QED
      BY <2>3, <2>10, <3>1 DEF ShownAs
  <2>12. Len(geEdit[t].old) >= 1 /\ Len(geEdit[t].new) >= 1
    BY <2>3, <2>5, <2>6, <2>7, <2>8
  <2> QED
    BY <2>5, <2>9, <2>11, <2>12
<1>3. geEdit \in [EditThreads -> EditType]
  <2>1. geEdit = [t \in EditThreads |-> geEdit[t]]
    BY DEF GutterEditInit
  <2> QED
    BY <1>2, <2>1
<1> QED
  BY <1>1, <1>2, <1>3 DEF EditInv, EditsTyped, RepairedAsMeant

\* What an action on one edit leaves of the others.
LEMMA OtherEditsKeep ==
  ASSUME EditInv, NEW t \in EditThreads, NEW e \in EditType, geEdit' = [geEdit EXCEPT ![t] = e],
         Len(e.old) >= 1, Len(e.new) >= 1, e.pc # "sent", geRead' = geRead,
         geFile' \in Seq(Lines),
         e.pc = "repaired" /\ ~e.unread =>
           /\ e.old = e.meantOld /\ Len(e.new) = Len(e.meantNew) /\ Tail(e.new) = Tail(e.meantNew)
           /\ e.new[1] = Line(e.meantNew[1].text, e.meantOld[1].indent)
  PROVE  EditInv'
<1>1. geEdit \in [EditThreads -> EditType] /\ geRead' \in Seq(Lines)
  BY DEF EditInv, EditsTyped
<1>2. /\ geEdit' \in [EditThreads -> EditType] /\ geEdit'[t] = e
      /\ \A u \in EditThreads : u # t => geEdit'[u] = geEdit[u]
  BY <1>1
<1>3. EditsTyped'
  BY <1>1, <1>2 DEF EditInv, EditsTyped
<1>4. ASSUME NEW u \in EditThreads, geEdit'[u].pc = "sent" PROVE ShownAs(geEdit[u]) /\ u # t
  BY <1>2, <1>4 DEF EditInv
<1>5. \A u \in EditThreads : geEdit'[u].pc = "sent" => ShownAs(geEdit[u])'
  <2> SUFFICES ASSUME NEW u \in EditThreads, geEdit'[u].pc = "sent" PROVE ShownAs(geEdit[u])'
    OBVIOUS
  <2>1. geEdit'[u] = geEdit[u] /\ ShownAs(geEdit[u])
    BY <1>2, <1>4
  <2> QED
    BY <2>1 DEF ShownAs
<1>6. RepairedAsMeant'
  <2> SUFFICES ASSUME NEW u \in EditThreads, geEdit'[u].pc = "repaired", ~geEdit'[u].unread
               PROVE  /\ geEdit'[u].old = geEdit'[u].meantOld
                      /\ Len(geEdit'[u].new) = Len(geEdit'[u].meantNew)
                      /\ Tail(geEdit'[u].new) = Tail(geEdit'[u].meantNew)
                      /\ geEdit'[u].new[1] =
                           Line(geEdit'[u].meantNew[1].text, geEdit'[u].meantOld[1].indent)
    BY DEF RepairedAsMeant
  <2>1. CASE u = t
    BY <1>2, <2>1
  <2>2. CASE u # t
    BY <1>2, <2>2 DEF EditInv, RepairedAsMeant
  <2> QED
    BY <2>1, <2>2
<1> QED
  BY <1>3, <1>5, <1>6 DEF EditInv

LEMMA ApplyKeeps ==
  ASSUME EditInv, NEW t \in EditThreads, Apply(t)
  PROVE  EditInv'
<1> DEFINE e == geEdit[t]
           repaired == RepairIndent(geFile, e.old, e.new)
<1>1. /\ e \in EditType /\ Len(e.old) >= 1 /\ Len(e.new) >= 1 /\ e.pc = "sent" /\ ShownAs(e)
      /\ geFile \in Seq(Lines) /\ geRead \in Seq(Lines) /\ geEdit \in [EditThreads -> EditType]
      /\ geFile' = geFile /\ geRead' = geRead
  BY DEF EditInv, EditsTyped, Apply
<1>2. /\ e.old \in Seq(Lines) /\ e.new \in Seq(Lines)
      /\ e.meantOld \in Seq(Lines) /\ e.meantNew \in Seq(Lines) /\ e.unread \in BOOLEAN
  BY <1>1 DEF EditType
<1>3. CASE \E r \in repaired :
             geEdit' = [geEdit EXCEPT ![t].pc = "repaired", ![t].old = r.old, ![t].new = r.new,
                                      ![t].unread = geFile # geRead]
  <2>1. PICK r \in repaired :
          geEdit' = [geEdit EXCEPT ![t].pc = "repaired", ![t].old = r.old, ![t].new = r.new,
                                   ![t].unread = geFile # geRead]
    BY <1>3
  <2> DEFINE after == [e EXCEPT !.pc = "repaired", !.old = r.old, !.new = r.new,
                                !.unread = geFile # geRead]
  <2>2. /\ r.old \in Seq(Lines) /\ r.new \in Seq(Lines) /\ Len(r.old) >= 1 /\ Len(r.new) >= 1
    <3> DEFINE old == e.old
               new == e.new
    <3>1. /\ old \in Seq(Lines) /\ new \in Seq(Lines) /\ Len(old) >= 1 /\ Len(new) >= 1
          /\ r \in RepairIndent(geFile, old, new)
      BY <1>1, <1>2, <2>1
    <3> HIDE DEF old, new, e, repaired
    <3>2. \E at \in Places(geFile, old) : \E delta \in Nat :
           /\ LocateByContent(geFile, old) = {at} /\ Deltas(geFile, old, at) # {}
           /\ delta \in Deltas(geFile, old, at) /\ ~Outdents(new, delta)
           /\ r = [old |-> Window(geFile, at, Len(old)),
                   new |-> MovedBack(new, geFile[at].indent, delta)]
      BY <1>1, <3>1, RepairIs, ZenonT(60)
    <3>3. PICK at \in Places(geFile, old), delta \in Nat :
           /\ ~Outdents(new, delta)
           /\ r = [old |-> Window(geFile, at, Len(old)),
                   new |-> MovedBack(new, geFile[at].indent, delta)]
      BY <3>2
    <3>4. Len(old) \in Nat \ {0} /\ Len(new) \in Nat
      BY <3>1, LenProperties
    <3>5. at \in 1..(Len(geFile) - Len(old) + 1) /\ at \in 1..Len(geFile)
      BY <1>1, <3>4, LenProperties DEF Places
    <3>6. geFile[at] \in Lines
      BY <1>1, <3>5, ElementOfSeq
    <3>7. geFile[at].indent \in Nat
      BY <3>6 DEF Lines
    <3>8. Window(geFile, at, Len(old)) \in Seq(Lines) /\ Len(Window(geFile, at, Len(old))) = Len(old)
      BY <1>1, <3>4, <3>5, WindowIs
    <3>9. /\ MovedBack(new, geFile[at].indent, delta) \in Seq(Lines)
          /\ Len(MovedBack(new, geFile[at].indent, delta)) = Len(new)
      BY <3>1, <3>3, <3>7, MovedBackIs
    <3> QED
      BY <3>1, <3>3, <3>8, <3>9
  <2>3. /\ after \in EditType /\ after.pc = "repaired" /\ after.old = r.old /\ after.new = r.new
        /\ after.meantOld = e.meantOld /\ after.meantNew = e.meantNew
        /\ after.unread = (geFile # geRead)
    BY <1>1, <2>2 DEF EditType
  <2>4. geEdit' = [geEdit EXCEPT ![t] = after]
    BY <2>1
  <2> HIDE DEF after
  <2>5. ASSUME geFile = geRead
        PROVE  /\ r.old = e.meantOld /\ Len(r.new) = Len(e.meantNew)
               /\ Tail(r.new) = Tail(e.meantNew)
               /\ r.new[1] = Line(e.meantNew[1].text, e.meantOld[1].indent)
    <3>1. PICK n \in Nat \ {0}, gutter \in Nat : \E at \in 1..(Len(geRead) - n + 1) :
            /\ e.meantOld = Window(geRead, at, n) /\ e.meantNew # <<>>
            /\ e.old = Copied(e.meantOld, gutter) /\ e.new = Copied(e.meantNew, gutter)
      BY <1>1 DEF ShownAs
    <3>2. PICK at \in 1..(Len(geFile) - n + 1) :
            /\ e.meantOld = Window(geFile, at, n) /\ e.meantNew # <<>>
            /\ e.old = Copied(e.meantOld, gutter) /\ e.new = Copied(e.meantNew, gutter)
      BY <2>5, <3>1
    <3> DEFINE put == e.meantNew
    <3>3. /\ put \in Seq(Lines) /\ put # <<>>
          /\ r \in RepairIndent(geFile, Copied(Window(geFile, at, n), gutter), Copied(put, gutter))
      BY <1>2, <2>1, <3>2
    <3> HIDE DEF put, e, repaired
    <3>4. /\ r.old = Window(geFile, at, n) /\ Len(r.new) = Len(put) /\ Tail(r.new) = Tail(put)
          /\ r.new[1] = Line(put[1].text, Window(geFile, at, n)[1].indent)
      <4>1. geFile \in Seq(Lines) /\ n \in Nat \ {0} /\ gutter \in Nat
            /\ at \in 1..(Len(geFile) - n + 1)
        BY <1>1
      <4> QED
        BY <3>3, <4>1, RepairMeans, ZenonT(60)
    <3> QED
      BY <3>2, <3>4 DEF put
  <2>6. after.pc = "repaired" /\ ~after.unread =>
          /\ after.old = after.meantOld /\ Len(after.new) = Len(after.meantNew)
          /\ Tail(after.new) = Tail(after.meantNew)
          /\ after.new[1] = Line(after.meantNew[1].text, after.meantOld[1].indent)
    BY <2>3, <2>5
  <2> HIDE DEF e, repaired
  <2> QED
    BY <1>1, <2>2, <2>3, <2>4, <2>6, OtherEditsKeep
<1>4. CASE \E pc \in {"refused", "passed"} : geEdit' = [geEdit EXCEPT ![t].pc = pc]
  <2>1. PICK pc \in {"refused", "passed"} : geEdit' = [geEdit EXCEPT ![t].pc = pc]
    BY <1>4
  <2> DEFINE after == [e EXCEPT !.pc = pc]
  <2>2. /\ after \in EditType /\ after.pc = pc /\ after.old = e.old /\ after.new = e.new
    BY <1>1 DEF EditType
  <2>3. geEdit' = [geEdit EXCEPT ![t] = after]
    BY <2>1
  <2>4. after.pc # "repaired" /\ after.pc # "sent"
    BY <2>2
  <2> HIDE DEF after, e, repaired
  <2> QED
    BY <1>1, <2>2, <2>3, <2>4, OtherEditsKeep
<1> QED
  <2>1. \/ \E r \in repaired :
             geEdit' = [geEdit EXCEPT ![t].pc = "repaired", ![t].old = r.old, ![t].new = r.new,
                                      ![t].unread = geFile # geRead]
        \/ \E pc \in {"refused", "passed"} : geEdit' = [geEdit EXCEPT ![t].pc = pc]
    BY DEF Apply
  <2> QED
    BY <1>3, <1>4, <2>1

\* The file after the tool made an edit at a place it found.
LEMMA ReplacedTyped ==
  ASSUME NEW file \in Seq(Lines), NEW old \in Seq(Lines), NEW new \in Seq(Lines),
         Len(old) >= 1, Len(new) >= 1, NEW at \in ExactAt(file, old)
  PROVE  Replaced(file, at, old, new) \in Seq(Lines)
<1>1. Len(file) \in Nat /\ Len(old) \in Nat /\ Len(new) \in Nat
  BY LenProperties
<1>2. at \in 1..(Len(file) - Len(old) + 1) /\ old[1].indent <= file[at].indent
  BY DEF ExactAt, Places
<1>3. at \in 1..Len(file) /\ 1 \in 1..Len(old) /\ 1 \in 1..Len(new)
  BY <1>1, <1>2
<1>4. file[at] \in Lines /\ old[1] \in Lines /\ new[1] \in Lines
  BY <1>3, ElementOfSeq
<1>5. /\ file[at].indent \in Nat /\ old[1].indent \in Nat /\ new[1].indent \in Nat
      /\ new[1].text \in STRING
  BY <1>4 DEF Lines
<1> DEFINE line == Line(new[1].text, file[at].indent - old[1].indent + new[1].indent)
           before == SubSeq(file, 1, at - 1)
           after == SubSeq(file, at + Len(old), Len(file))
<1>6. line \in Lines
  <2>1. file[at].indent - old[1].indent + new[1].indent \in Nat
    BY <1>2, <1>5
  <2> QED
    BY <1>5, <2>1 DEF Line, Lines
<1>7. before \in Seq(Lines)
  <2>1. \A i \in 1..(at - 1) : file[i] \in Lines
    BY <1>1, <1>2, ElementOfSeq
  <2>2. 1 \in Int /\ at - 1 \in Int
    BY <1>2
  <2> QED
    BY <2>1, <2>2, SubSeqProperties
<1>8. after \in Seq(Lines)
  <2>1. \A i \in (at + Len(old))..Len(file) : file[i] \in Lines
    BY <1>1, <1>2, ElementOfSeq
  <2>2. at + Len(old) \in Int /\ Len(file) \in Int
    BY <1>1, <1>2
  <2> QED
    BY <2>1, <2>2, SubSeqProperties
<1>9. Tail(new) \in Seq(Lines)
  BY <1>1, HeadTailProperties, EmptySeq
<1>10. Replaced(file, at, old, new) = before \o <<line>> \o Tail(new) \o after
  BY DEF Replaced
<1> HIDE DEF line, before, after
<1>11. <<line>> \in Seq(Lines)
  BY <1>6
<1>12. before \o <<line>> \in Seq(Lines)
  BY <1>7, <1>11, ConcatProperties
<1>13. before \o <<line>> \o Tail(new) \in Seq(Lines)
  BY <1>9, <1>12, ConcatProperties
<1> QED
  BY <1>8, <1>10, <1>13, ConcatProperties

LEMMA EditFileKeeps ==
  ASSUME EditInv, NEW t \in EditThreads, EditFile(t)
  PROVE  EditInv'
<1> DEFINE e == geEdit[t]
<1>1. /\ e \in EditType /\ Len(e.old) >= 1 /\ Len(e.new) >= 1
      /\ geFile \in Seq(Lines) /\ geEdit \in [EditThreads -> EditType] /\ geRead' = geRead
  BY DEF EditInv, EditsTyped, EditFile
<1>2. e.old \in Seq(Lines) /\ e.new \in Seq(Lines)
  BY <1>1 DEF EditType
<1>3. PICK pc \in {"landed", "failed"} : geEdit' = [geEdit EXCEPT ![t].pc = pc]
  BY DEF EditFile
<1> DEFINE after == [e EXCEPT !.pc = pc]
<1>4. after \in EditType /\ after.pc = pc /\ after.old = e.old /\ after.new = e.new
  BY <1>1 DEF EditType
<1>5. geEdit' = [geEdit EXCEPT ![t] = after]
  BY <1>3
<1>6. geFile' \in Seq(Lines)
  <2>1. CASE \E at \in ExactAt(geFile, e.old) : geFile' = Replaced(geFile, at, e.old, e.new)
    BY <1>1, <1>2, <2>1, ReplacedTyped
  <2>2. CASE geFile' = geFile
    BY <1>1, <2>2
  <2> QED
    BY <2>1, <2>2 DEF EditFile
<1>7. after.pc # "repaired" /\ after.pc # "sent"
  BY <1>4
<1> HIDE DEF after, e
<1> QED
  BY <1>1, <1>4, <1>5, <1>6, <1>7, OtherEditsKeep

LEMMA EditStep == EditInv /\ [GutterEditNext]_geVars => EditInv'
<1> SUFFICES ASSUME EditInv, [GutterEditNext]_geVars PROVE EditInv'
  OBVIOUS
<1>1. CASE UNCHANGED geVars
  <2>1. geFile' = geFile /\ geRead' = geRead /\ geEdit' = geEdit
    BY <1>1 DEF geVars
  <2> QED
    BY <2>1 DEF EditInv, EditsTyped, ShownAs, RepairedAsMeant
<1>2. ASSUME NEW t \in EditThreads, Apply(t) \/ EditFile(t) PROVE EditInv'
  BY <1>2, ApplyKeeps, EditFileKeeps
<1> QED
  BY <1>1, <1>2 DEF GutterEditNext

\* What GutterEdit's edits keep of the file they were copied from.
THEOREM EditInvariant == GutterEditSpec => []EditInv
  BY EditStep, EditsStart, PTL DEF GutterEditSpec

(***************************************************************************)
(* gutter_indent.py repairs an edit into the one that was meant, or leaves *)
(* it: of every file, every edit of it and every gutter, unless another    *)
(* edit of the message landed before.                                      *)
(***************************************************************************)
THEOREM RepairIsFaithful == GutterEditSpec => []RepairedAsMeant
<1>1. EditInv => RepairedAsMeant
  BY DEF EditInv
<1> QED
  BY <1>1, EditInvariant, PTL

LEMMA EditTypes == EditInv => GutterEditTypeOK
<1> SUFFICES ASSUME EditInv, NEW t \in EditThreads
             PROVE  /\ geEdit[t].pc \in {"sent", "repaired", "passed", "refused", "landed", "failed"}
                    /\ \A line \in {geEdit[t].new[k] : k \in DOMAIN geEdit[t].new} :
                         line.indent \in Nat
  BY DEF GutterEditTypeOK
<1>1. geEdit[t] \in EditType
  BY DEF EditInv, EditsTyped
<1>2. geEdit[t].new \in Seq(Lines)
  BY <1>1 DEF EditType
<1>3. \A k \in DOMAIN geEdit[t].new : geEdit[t].new[k] \in Lines
  BY <1>2, LenProperties, ElementOfSeq
<1>4. \A k \in DOMAIN geEdit[t].new : geEdit[t].new[k].indent \in Nat
  BY <1>3 DEF Lines
<1> QED
  BY <1>1, <1>4 DEF EditType

(***************************************************************************)
(* No repair takes a line out of the margin.                               *)
(***************************************************************************)
THEOREM EditTypeCorrect == GutterEditSpec => []GutterEditTypeOK
  BY EditTypes, EditInvariant, PTL

-----------------------------------------------------------------------------
(***************************************************************************)
(* SubagentTurn: what the repeat guard believes.                           *)
(***************************************************************************)
GuardTyped ==
  /\ disk \in Disks /\ shared \in Disks
  /\ guard \in [failures : Counts, answered : Counts, written : Disks]
  /\ \A i \in DOMAIN calls :
       calls[i] \in [call : Calls, at : {"asked", "running", "ran", "answered"}, result : Results]
  /\ phase # "tools" => calls = <<>>
  /\ DOMAIN told = Reads
  /\ overlapped \in BOOLEAN /\ subtree \in BOOLEAN

HasRun(i) == calls[i].at = "ran"

\* A call that changes something is in flight alone.
ChangesAlone ==
  \A i, j \in DOMAIN calls : i # j /\ InFlight(i) /\ InFlight(j) => calls[i].call \in Reads

\* What each read would find now.
Finds == [c \in Reads |-> Found(c, disk)]

ReadsKnown ==
  \A c \in Reads : /\ guard.answered[c] > 0 => Finds[c] = told[c]
                   /\ guard.failures[c] > 0 => Finds[c] = {}

\* What is known of the reads holds, unless a change has run and is not recorded yet.
ReadsHold == (\A i \in DOMAIN calls : HasRun(i) => calls[i].call \in Reads) => ReadsKnown

Touches(c, f) == c \notin Reads /\ (c \in Commands \/ c.path = f)

\* So does what is known of the files, but of those such a change is about.
WritesHold ==
  \A f \in Files : \/ guard.written[f] = Nothing \/ disk[f] = guard.written[f]
                   \/ \E i \in DOMAIN calls : HasRun(i) /\ Touches(calls[i].call, f)

\* A call that has run found, or left, what its result says.
RanHold ==
  \A i \in DOMAIN calls : HasRun(i) =>
    LET c == calls[i].call IN
      /\ c \in Reads => /\ told[c] = Finds[c]
                        /\ calls[i].result # "ok" => Finds[c] = {}
      /\ c \in Writes /\ calls[i].result = "ok" => disk[c.path] = c.body

BeliefsHold == ~overlapped /\ ~subtree => ChangesAlone /\ ReadsHold /\ WritesHold /\ RanHold

GuardInv == GuardTyped /\ BeliefsHold

LEMMA CallKinds ==
  ASSUME NEW c \in Calls
  PROVE  /\ c \in Writes => c \notin Reads /\ c.path \in Files /\ c.body \in Contents
         /\ c \in PathScoped => c \notin Reads /\ c \notin Writes
         /\ c \in Commands => c \notin Reads /\ c \notin Writes /\ c \notin PathScoped
         /\ c.tool = "edit_file" => c \in PathScoped /\ c.path \in Files /\ c.body \in Contents
         /\ c.tool = "delete" => c \in PathScoped /\ c.path \in Files \cup Folders
         /\ c \in Reads => c.path \in Files \cup Folders
         /\ c \in Reads \cup Writes \cup PathScoped \cup Commands
<1>1. c \in Reads \cup Writes \cup PathScoped \cup Commands
  BY DEF Calls
<1>2. CASE c \in Reads
  <2>1. c.tool \in {"read_file", "ls"} /\ c.path \in Files \cup Folders
    BY <1>2 DEF Reads, CallsOf
  <2>2. c \notin Writes /\ c \notin PathScoped /\ c \notin Commands
    BY <2>1 DEF Writes, PathScoped, Commands, CallsOf
  <2> QED
    BY <1>2, <2>1, <2>2
<1>3. CASE c \in Writes
  <2>1. c.tool = "write_file" /\ c.path \in Files /\ c.body \in Contents
    BY <1>3 DEF Writes, CallsOf
  <2>2. c \notin Reads /\ c \notin PathScoped /\ c \notin Commands
    BY <2>1 DEF Reads, PathScoped, Commands, CallsOf
  <2> QED
    BY <1>3, <2>1, <2>2
<1>4. CASE c \in PathScoped
  <2>1. \/ c.tool = "edit_file" /\ c.path \in Files /\ c.body \in Contents
        \/ c.tool = "delete" /\ c.path \in Files \cup Folders
    BY <1>4 DEF PathScoped, CallsOf
  <2>2. c \notin Reads /\ c \notin Writes /\ c \notin Commands
    BY <2>1 DEF Reads, Writes, Commands, CallsOf
  <2> QED
    BY <1>4, <2>1, <2>2
<1>5. CASE c \in Commands
  <2>1. c.tool = "execute"
    BY <1>5 DEF Commands, CallsOf
  <2>2. c \notin Reads /\ c \notin PathScoped /\ c \notin Writes
    BY <2>1 DEF Reads, PathScoped, Writes, CallsOf
  <2> QED
    BY <1>5, <2>1, <2>2
<1> QED
  BY <1>1, <1>2, <1>3, <1>4, <1>5

\* An action that leaves the guard, the files and what was told, of calls none
\* of which had run and not been recorded, and begins none.
LEMMA QuietKeeps ==
  ASSUME GuardInv, UNCHANGED <<disk, shared, guard, seenVars>>,
         \A i \in DOMAIN calls : ~HasRun(i),
         \A i \in DOMAIN calls' :
           /\ calls'[i].at = "asked"
           /\ calls'[i] \in [call : Calls, at : {"asked", "running", "ran", "answered"}, result : Results],
         phase' # "tools" => calls' = <<>>
  PROVE  GuardInv'
<1>1. /\ disk' = disk /\ shared' = shared /\ guard' = guard /\ told' = told
      /\ overlapped' = overlapped /\ subtree' = subtree
  BY DEF seenVars
<1>2. GuardTyped'
  BY <1>1 DEF GuardInv, GuardTyped
<1>3. ASSUME ~overlapped, ~subtree
      PROVE  ChangesAlone' /\ ReadsHold' /\ WritesHold' /\ RanHold'
  <2>1. ReadsHold /\ WritesHold
    BY <1>3 DEF GuardInv, BeliefsHold
  <2>2. \A i \in DOMAIN calls' : ~(calls'[i].at = "ran") /\ calls'[i].at \notin {"running", "ran"}
    OBVIOUS
  <2>3. ReadsHold'
    <3>1. ReadsKnown
      BY <2>1 DEF ReadsHold
    <3>2. Finds' = Finds
      BY <1>1 DEF Finds, Found
    <3> QED
      BY <1>1, <3>1, <3>2 DEF ReadsHold, ReadsKnown
  <2>4. WritesHold'
    BY <1>1, <2>1 DEF WritesHold
  <2>5. RanHold'
    BY <2>2 DEF RanHold, HasRun
  <2>6. ChangesAlone'
    BY <2>2 DEF ChangesAlone, InFlight
  <2> QED
    BY <2>3, <2>4, <2>5, <2>6
<1> QED
  BY <1>1, <1>2, <1>3 DEF GuardInv, BeliefsHold

LEMMA TurnStarts == Init => GuardInv
<1> SUFFICES ASSUME Init PROVE GuardInv
  OBVIOUS
<1>1. /\ disk \in Disks /\ guard = NewGuard /\ shared = NoBeliefs /\ calls = <<>>
      /\ phase = "idle" /\ DOMAIN told = Reads /\ overlapped = FALSE /\ subtree = FALSE
  BY DEF Init
<1>2. /\ NoBeliefs \in Disks /\ NewGuard \in [failures : Counts, answered : Counts, written : Disks]
      /\ \A f \in Files : NewGuard.written[f] = Nothing
      /\ \A c \in Reads : NewGuard.answered[c] = 0 /\ NewGuard.failures[c] = 0
  BY DEF NewGuard, NoBeliefs, NoCounts, Counts, Disks
<1>3. DOMAIN calls = {}
  BY <1>1
<1>4. GuardTyped
  BY <1>1, <1>2, <1>3 DEF GuardTyped
<1>5. ReadsHold /\ WritesHold
  BY <1>1, <1>2 DEF ReadsHold, ReadsKnown, WritesHold
<1> QED
  BY <1>3, <1>4, <1>5 DEF GuardInv, BeliefsHold, ChangesAlone, RanHold

LEMMA InvokeKeeps == GuardInv /\ Invoke => GuardInv'
<1> SUFFICES ASSUME GuardInv, Invoke PROVE GuardInv'
  OBVIOUS
<1>1. /\ disk' \in Disks /\ guard' = NewGuard /\ shared' = shared /\ calls' = <<>>
      /\ phase' # "tools" /\ DOMAIN told' = Reads /\ overlapped' = FALSE /\ subtree' = FALSE
  BY DEF Invoke
<1>2. /\ shared \in Disks /\ NewGuard \in [failures : Counts, answered : Counts, written : Disks]
      /\ \A f \in Files : NewGuard.written[f] = Nothing
      /\ \A c \in Reads : NewGuard.answered[c] = 0 /\ NewGuard.failures[c] = 0
  BY DEF GuardInv, GuardTyped, NewGuard, NoBeliefs, NoCounts, Counts, Disks
<1>3. DOMAIN calls' = {}
  BY <1>1
<1>4. GuardTyped'
  BY <1>1, <1>2, <1>3 DEF GuardTyped
<1>5. ReadsHold' /\ WritesHold'
  BY <1>1, <1>2 DEF ReadsHold, ReadsKnown, WritesHold
<1> QED
  BY <1>3, <1>4, <1>5 DEF GuardInv, BeliefsHold, ChangesAlone, RanHold

LEMMA AsksKeeps ==
  ASSUME GuardInv, NEW message \in Messages, Asks(message)
  PROVE  GuardInv'
<1>1. message \in Seq(Calls)
  BY SubagentTurnAssumption
<1>2. /\ calls = <<>> /\ UNCHANGED <<disk, shared, guard, seenVars>> /\ phase' = "tools"
      /\ calls' = [i \in DOMAIN message |-> [call |-> message[i], at |-> "asked", result |-> "none"]]
  BY DEF Asks, GuardInv, GuardTyped
<1>3. \A i \in DOMAIN message : message[i] \in Calls
  BY <1>1, LenProperties, ElementOfSeq
<1>4. \A i \in DOMAIN calls' :
        /\ calls'[i].at = "asked"
        /\ calls'[i] \in [call : Calls, at : {"asked", "running", "ran", "answered"}, result : Results]
  BY <1>2, <1>3 DEF Results
<1>5. DOMAIN calls = {}
  BY <1>2
<1> QED
  BY <1>2, <1>4, <1>5, QuietKeeps

\* The steps of the graph and of the reader, between the tool calls.
LEMMA TurnKeeps ==
  ASSUME GuardInv, Finishes \/ OutOfTime \/ Raises \/ ReaderStep
  PROVE  GuardInv'
<1>1. UNCHANGED <<disk, shared, guard, seenVars>>
  BY DEF Finishes, OutOfTime, Raises, ReaderStep, Breaks, ReadResults, LeaveResults, Nudge, End
<1>2. (calls' = <<>> \/ (calls' = calls /\ phase # "tools"))
  BY DEF Finishes, OutOfTime, Raises, ReaderStep, Breaks, ReadResults, LeaveResults, Nudge, End,
         Drains
<1>3. phase # "tools" => calls = <<>>
  BY DEF GuardInv, GuardTyped
<1>4. calls' = <<>>
  BY <1>2, <1>3
<1>5. \A i \in DOMAIN calls : ~HasRun(i)
  <2>1. CASE phase # "tools"
    BY <1>3, <2>1
  <2>2. CASE phase = "tools"
    <3>1. \/ \A i \in DOMAIN calls : calls[i].at = "asked"
          \/ \A i \in DOMAIN calls : calls[i].at = "answered"
      BY <2>2 DEF Finishes, OutOfTime, Raises, ReaderStep, Breaks, ReadResults, LeaveResults,
                  Nudge, End, Gathered
    <3> QED
      BY <3>1 DEF HasRun
  <2> QED
    BY <2>1, <2>2
<1>6. DOMAIN calls' = {}
  BY <1>4
<1> QED
  BY <1>1, <1>4, <1>5, <1>6, QuietKeeps

ToolCall == [call : Calls, at : {"asked", "running", "ran", "answered"}, result : Results]

\* One call moves, the others stay.
LEMMA OneCallMoves ==
  ASSUME GuardTyped, NEW i \in DOMAIN calls,
         NEW after \in ToolCall, after.call = calls[i].call, calls' = [calls EXCEPT ![i] = after]
  PROVE  /\ DOMAIN calls' = DOMAIN calls /\ calls'[i] = after
         /\ \A j \in DOMAIN calls : j # i => calls'[j] = calls[j]
         /\ \A j \in DOMAIN calls : calls'[j] \in ToolCall /\ calls'[j].call = calls[j].call
<1>1. \A j \in DOMAIN calls : calls[j] \in ToolCall
  BY DEF GuardTyped, ToolCall
<1>2. /\ DOMAIN calls' = DOMAIN calls /\ calls'[i] = after
      /\ \A j \in DOMAIN calls : j # i => calls'[j] = calls[j]
  OBVIOUS
<1> QED
  BY <1>1, <1>2

\* A call that is answered without being run, or goes on to be run.
LEMMA MoveKeeps ==
  ASSUME GuardInv, NEW i \in DOMAIN calls, phase = "tools", calls[i].at = "asked",
         NEW after \in ToolCall, after.call = calls[i].call, calls' = [calls EXCEPT ![i] = after],
         after.at \in {"running", "answered"},
         UNCHANGED <<disk, shared, guard, phase, told, subtree>>,
         overlapped' \in BOOLEAN, overlapped => overlapped',
         after.at = "running" /\ Overlaps(i) => overlapped'
  PROVE  GuardInv'
<1>1. /\ DOMAIN calls' = DOMAIN calls /\ calls'[i] = after
      /\ \A j \in DOMAIN calls : j # i => calls'[j] = calls[j]
      /\ \A j \in DOMAIN calls : calls'[j] \in ToolCall /\ calls'[j].call = calls[j].call
  BY OneCallMoves DEF GuardInv
<1>2. GuardTyped'
  BY <1>1 DEF GuardInv, GuardTyped, ToolCall
<1>3. SUFFICES ASSUME ~overlapped', ~subtree'
               PROVE  ChangesAlone' /\ ReadsHold' /\ WritesHold' /\ RanHold'
  BY <1>2 DEF GuardInv, BeliefsHold
<1>4. ChangesAlone /\ ReadsHold /\ WritesHold /\ RanHold /\ ~overlapped
  BY <1>3 DEF GuardInv, BeliefsHold
<1>5. \A j \in DOMAIN calls : HasRun(j)' <=> HasRun(j)
  BY <1>1 DEF HasRun
<1>6. \A j \in DOMAIN calls : HasRun(j) => calls'[j] = calls[j]
  BY <1>1 DEF HasRun
<1>7. Finds' = Finds
  BY DEF Finds, Found
<1>8. ReadsHold'
  BY <1>1, <1>4, <1>5, <1>7 DEF ReadsHold, ReadsKnown
<1>9. WritesHold'
  <2> SUFFICES ASSUME NEW f \in Files
               PROVE  \/ guard'.written[f] = Nothing \/ disk'[f] = guard'.written[f]
                      \/ \E j \in DOMAIN calls' : HasRun(j)' /\ Touches(calls'[j].call, f)
    BY DEF WritesHold
  <2>1. \/ guard.written[f] = Nothing \/ disk[f] = guard.written[f]
        \/ \E j \in DOMAIN calls : HasRun(j) /\ Touches(calls[j].call, f)
    BY <1>4 DEF WritesHold
  <2> QED
    BY <1>1, <1>5, <2>1
<1>10. RanHold'
  <2> SUFFICES ASSUME NEW j \in DOMAIN calls, HasRun(j)
               PROVE  LET c == calls'[j].call IN
                        /\ c \in Reads => /\ told'[c] = Finds'[c]
                                          /\ calls'[j].result # "ok" => Finds'[c] = {}
                        /\ c \in Writes /\ calls'[j].result = "ok" => disk'[c.path] = c.body
    BY <1>1, <1>5 DEF RanHold
  <2> QED
    BY <1>4, <1>6, <1>7 DEF RanHold
<1>11. ChangesAlone'
  <2>1. \A j \in DOMAIN calls : j # i => (InFlight(j)' <=> InFlight(j))
    BY <1>1 DEF InFlight
  <2>2. ASSUME after.at = "running", NEW j \in DOMAIN calls, j # i, InFlight(j)
        PROVE  calls[i].call \in Reads /\ calls[j].call \in Reads
    BY <1>3, <2>2 DEF Overlaps, Changes
  <2>3. InFlight(i)' => after.at = "running"
    BY <1>1 DEF InFlight
  <2> SUFFICES ASSUME NEW j \in DOMAIN calls, NEW k \in DOMAIN calls, j # k,
                      InFlight(j)', InFlight(k)'
               PROVE  calls[j].call \in Reads
    BY <1>1 DEF ChangesAlone
  <2>4. CASE j = i
    BY <2>1, <2>2, <2>3, <2>4
  <2>5. CASE k = i
    BY <2>1, <2>2, <2>3, <2>5
  <2>6. CASE j # i /\ k # i
    BY <1>4, <2>1, <2>6 DEF ChangesAlone
  <2> QED
    BY <2>4, <2>5, <2>6
<1> QED
  BY <1>8, <1>9, <1>10, <1>11

LEMMA DeniedKeeps ==
  ASSUME GuardInv, NEW i \in DOMAIN calls, Denied(i)
  PROVE  GuardInv'
<1> DEFINE after == [calls[i] EXCEPT !.at = "answered", !.result = "fail"]
<1>1. /\ UNCHANGED <<disk, shared, guard, phase, told, subtree>> /\ overlapped' = overlapped
      /\ phase = "tools" /\ calls[i].at = "asked" /\ calls' = [calls EXCEPT ![i] = after]
  BY DEF Denied, Answered, seenVars
<1>2. calls[i] \in ToolCall /\ overlapped \in BOOLEAN
  BY DEF GuardInv, GuardTyped, ToolCall
<1>3. after \in ToolCall /\ after.call = calls[i].call /\ after.at = "answered"
  BY <1>2 DEF ToolCall, Results
<1> HIDE DEF after
<1> QED
  BY <1>1, <1>2, <1>3, MoveKeeps

LEMMA CheckKeeps ==
  ASSUME GuardInv, NEW i \in DOMAIN calls, Check(i)
  PROVE  GuardInv'
<1>1. /\ UNCHANGED <<disk, shared, guard, phase, told, subtree>>
      /\ overlapped' = (overlapped \/ Overlaps(i))
      /\ phase = "tools" /\ calls[i].at = "asked"
  BY DEF Check
<1>2. calls[i] \in ToolCall /\ overlapped \in BOOLEAN
  BY DEF GuardInv, GuardTyped, ToolCall
<1>3. \E after \in ToolCall : /\ after.call = calls[i].call /\ calls' = [calls EXCEPT ![i] = after]
                              /\ after.at \in {"running", "answered"}
  <2>1. CASE Refusal(calls[i].call) = "none"
    <3> DEFINE after == [calls[i] EXCEPT !.at = "running"]
    <3>1. calls' = [calls EXCEPT ![i] = after]
      BY <2>1 DEF Check
    <3>2. after \in ToolCall /\ after.call = calls[i].call /\ after.at = "running"
      BY <1>2 DEF ToolCall
    <3> QED
      BY <3>1, <3>2
  <2>2. CASE Refusal(calls[i].call) # "none"
    <3> DEFINE result == Refusal(calls[i].call)
               after == [calls[i] EXCEPT !.at = "answered", !.result = result]
    <3>1. calls' = [calls EXCEPT ![i] = after]
      BY <2>2 DEF Check, Answered
    <3>2. result \in Results
      BY DEF Refusal, Results
    <3> HIDE DEF result
    <3>3. after \in ToolCall /\ after.call = calls[i].call /\ after.at = "answered"
      BY <1>2, <3>2 DEF ToolCall
    <3> QED
      BY <3>1, <3>3
  <2> QED
    BY <2>1, <2>2
<1>4. overlapped' \in BOOLEAN /\ (overlapped => overlapped') /\ (Overlaps(i) => overlapped')
  BY <1>1, <1>2
<1> QED
  BY <1>1, <1>3, <1>4, MoveKeeps

\* What running a call does to the files, and its result says of them.
LEMMA RunDoes ==
  ASSUME GuardInv, NEW i \in DOMAIN calls, Run(i)
  PROVE  LET c == calls[i].call IN
         \E result \in {"ok", "fail"} :
           /\ calls' = [calls EXCEPT ![i] = [calls[i] EXCEPT !.at = "ran", !.result = result]]
           /\ disk' \in Disks /\ (subtree => subtree') /\ subtree' \in BOOLEAN
           /\ c \in Reads => /\ disk' = disk /\ told' = [told EXCEPT ![c] = Found(c, disk)]
                             /\ result # "ok" => Found(c, disk) = {}
           /\ c \notin Reads => told' = told
           /\ ~subtree' => \A f \in Files : disk'[f] = disk[f] \/ Touches(c, f)
           /\ c \in Writes /\ result = "ok" => disk'[c.path] = c.body
<1> DEFINE c == calls[i].call
           Done(result) == calls' = [calls EXCEPT ![i] = [calls[i] EXCEPT !.at = "ran", !.result = result]]
<1>1. c \in Calls /\ disk \in Disks /\ subtree \in BOOLEAN
  BY DEF GuardInv, GuardTyped
<1>2. /\ c \in Writes => c \notin Reads /\ c.path \in Files /\ c.body \in Contents
      /\ c \in PathScoped => c \notin Reads /\ c \notin Writes
      /\ c \in Commands => c \notin Reads /\ c \notin Writes /\ c \notin PathScoped
      /\ c.tool = "edit_file" => c \in PathScoped /\ c.path \in Files /\ c.body \in Contents
      /\ c.tool = "delete" => c \in PathScoped /\ c.path \in Files \cup Folders
  BY <1>1, CallKinds
<1> HIDE DEF c
<1>3. CASE /\ c \in Reads
           /\ Ran(i, c.tool = "ls" \/ Found(c, disk) # {}, disk)
           /\ told' = [told EXCEPT ![c] = Found(c, disk)] /\ UNCHANGED subtree
  <2>1. PICK result \in {"ok", "fail"} : Done(result) /\ (result # "ok" => Found(c, disk) = {})
    <3>1. CASE c.tool = "ls" \/ Found(c, disk) # {}
      <4>1. Done("ok")
        BY <1>3, <3>1 DEF Ran
      <4> QED
        BY <4>1
    <3>2. CASE ~(c.tool = "ls" \/ Found(c, disk) # {})
      <4>1. Done("fail")
        BY <1>3, <3>2 DEF Ran
      <4> QED
        BY <3>2, <4>1
    <3> QED
      BY <3>1, <3>2
  <2>2. disk' = disk
    BY <1>3 DEF Ran
  <2> HIDE DEF Done
  <2>3. /\ disk' \in Disks /\ (subtree => subtree') /\ subtree' \in BOOLEAN
        /\ \A f \in Files : disk'[f] = disk[f]
        /\ c \notin Writes
    BY <1>1, <1>2, <1>3, <2>2
  <2> QED
    BY <1>3, <2>1, <2>2, <2>3 DEF c, Done
<1>4. CASE /\ Applies(c)
           /\ Ran(i, TRUE, [disk EXCEPT ![c.path] = c.body])
           /\ UNCHANGED <<told, subtree>>
  <2>1. Done("ok") /\ disk' = [disk EXCEPT ![c.path] = c.body]
    BY <1>4 DEF Ran
  <2>2. c \notin Reads /\ c.path \in Files /\ c.body \in Contents
    BY <1>2, <1>4 DEF Applies
  <2>3. /\ disk' \in Disks /\ disk'[c.path] = c.body
        /\ \A f \in Files : f # c.path => disk'[f] = disk[f]
    BY <1>1, <2>1, <2>2 DEF Disks
  <2>4. \A f \in Files : disk'[f] = disk[f] \/ Touches(c, f)
    BY <2>2, <2>3 DEF Touches
  <2> HIDE DEF Done
  <2> QED
    BY <1>1, <1>4, <2>1, <2>2, <2>3, <2>4 DEF c, Done
<1>5. CASE /\ c.tool = "delete" /\ \E f \in Below(c.path) : disk[f] # Nothing
           /\ Ran(i, TRUE, [f \in Files |-> IF f \in Below(c.path) THEN Nothing ELSE disk[f]])
           /\ subtree' = (subtree \/ c.path \in Folders) /\ UNCHANGED told
  <2>1. Done("ok") /\ disk' = [f \in Files |-> IF f \in Below(c.path) THEN Nothing ELSE disk[f]]
    BY <1>5 DEF Ran
  <2>2. c \notin Reads /\ c \notin Writes
    BY <1>2, <1>5
  <2>3. disk' \in Disks
    BY <1>1, <2>1 DEF Disks
  <2>4. ~subtree' => \A f \in Files : disk'[f] = disk[f] \/ Touches(c, f)
    <3> SUFFICES ASSUME ~subtree', NEW f \in Files PROVE disk'[f] = disk[f] \/ Touches(c, f)
      OBVIOUS
    <3>1. Below(c.path) = {c.path}
      BY <1>5 DEF Below
    <3> QED
      BY <2>1, <2>2, <3>1 DEF Touches
  <2>5. (subtree => subtree') /\ subtree' \in BOOLEAN
    BY <1>1, <1>5
  <2> HIDE DEF Done
  <2> QED
    BY <1>5, <2>1, <2>2, <2>3, <2>4, <2>5 DEF c, Done
<1>6. CASE /\ c \in Commands
           /\ \E ok \in BOOLEAN, tree \in Disks : Ran(i, ok, tree)
           /\ UNCHANGED <<told, subtree>>
  <2>1. PICK ok \in BOOLEAN, tree \in Disks : Ran(i, ok, tree)
    BY <1>6
  <2>2. PICK result \in {"ok", "fail"} : Done(result)
    BY <2>1 DEF Ran
  <2>3. disk' \in Disks
    BY <2>1 DEF Ran
  <2>4. c \notin Reads /\ c \notin Writes /\ \A f \in Files : Touches(c, f)
    BY <1>2, <1>6 DEF Touches
  <2> HIDE DEF Done
  <2> QED
    BY <1>1, <1>6, <2>2, <2>3, <2>4 DEF c, Done
<1>7. CASE /\ c \in Writes \cup PathScoped
           /\ Ran(i, FALSE, disk) /\ UNCHANGED <<told, subtree>>
  <2>1. Done("fail") /\ disk' = disk
    BY <1>7 DEF Ran
  <2>2. c \notin Reads
    BY <1>2, <1>7
  <2> HIDE DEF Done
  <2>3. disk' \in Disks /\ \A f \in Files : disk'[f] = disk[f]
    BY <1>1, <2>1
  <2> QED
    BY <1>1, <1>7, <2>1, <2>2, <2>3 DEF c, Done
<1> QED
  BY <1>3, <1>4, <1>5, <1>6, <1>7 DEF Run, c

LEMMA RunCallKeeps ==
  ASSUME GuardInv, NEW i \in DOMAIN calls, Run(i)
  PROVE  GuardInv'
<1> DEFINE c == calls[i].call
<1>1. /\ UNCHANGED <<shared, guard, phase, overlapped>>
      /\ phase = "tools" /\ calls[i].at = "running" /\ calls[i] \in ToolCall /\ c \in Calls
  BY DEF Run, GuardInv, GuardTyped, ToolCall
<1>2. PICK result \in {"ok", "fail"} :
        /\ calls' = [calls EXCEPT ![i] = [calls[i] EXCEPT !.at = "ran", !.result = result]]
        /\ disk' \in Disks /\ (subtree => subtree') /\ subtree' \in BOOLEAN
        /\ c \in Reads => /\ disk' = disk /\ told' = [told EXCEPT ![c] = Found(c, disk)]
                          /\ result # "ok" => Found(c, disk) = {}
        /\ c \notin Reads => told' = told
        /\ ~subtree' => \A f \in Files : disk'[f] = disk[f] \/ Touches(c, f)
        /\ c \in Writes /\ result = "ok" => disk'[c.path] = c.body
  BY RunDoes
<1> DEFINE after == [calls[i] EXCEPT !.at = "ran", !.result = result]
<1>3. after \in ToolCall /\ after.call = c /\ after.at = "ran" /\ after.result = result
  BY <1>1 DEF ToolCall, Results
<1>4. calls' = [calls EXCEPT ![i] = after]
  BY <1>2
<1> HIDE DEF after
<1>5. /\ DOMAIN calls' = DOMAIN calls /\ calls'[i] = after
      /\ \A j \in DOMAIN calls : j # i => calls'[j] = calls[j]
      /\ \A j \in DOMAIN calls : calls'[j] \in ToolCall /\ calls'[j].call = calls[j].call
  BY <1>3, <1>4, OneCallMoves DEF GuardInv
<1>6. GuardTyped'
  <2>1. DOMAIN told' = Reads
    BY <1>2 DEF GuardInv, GuardTyped
  <2> QED
    BY <1>1, <1>2, <1>5, <2>1 DEF GuardInv, GuardTyped, ToolCall
<1>7. SUFFICES ASSUME ~overlapped', ~subtree'
               PROVE  ChangesAlone' /\ ReadsHold' /\ WritesHold' /\ RanHold'
  BY <1>6 DEF GuardInv, BeliefsHold
<1>8. ChangesAlone /\ ReadsHold /\ WritesHold /\ RanHold
  BY <1>1, <1>2, <1>7 DEF GuardInv, BeliefsHold
<1>9. /\ \A j \in DOMAIN calls : InFlight(j)' <=> InFlight(j)
      /\ InFlight(i) /\ HasRun(i)' /\ ~HasRun(i)
      /\ \A j \in DOMAIN calls : j # i => (HasRun(j)' <=> HasRun(j))
      /\ \A j \in DOMAIN calls : HasRun(j) => InFlight(j)
  BY <1>1, <1>3, <1>5 DEF InFlight, HasRun
<1>10. ChangesAlone'
  BY <1>5, <1>8, <1>9 DEF ChangesAlone
<1>11. CASE c \in Reads
  <2>1. disk' = disk /\ Finds' = Finds /\ Finds[c] = Found(c, disk)
    BY <1>2, <1>11, ZenonT(60) DEF Finds, Found
  <2>2. told' = [told EXCEPT ![c] = Finds[c]] /\ DOMAIN told = Reads
        /\ (result # "ok" => Finds[c] = {})
    BY <1>2, <1>11, <2>1 DEF GuardInv, GuardTyped
  <2> HIDE DEF c
  <2>3. told'[c] = Finds[c] /\ \A d \in Reads : told'[d] = told[d] \/ told'[d] = Finds[d]
    BY <1>11, <2>2
  <2>4. ReadsHold'
    <3> SUFFICES ASSUME \A j \in DOMAIN calls : HasRun(j)' => calls[j].call \in Reads
                 PROVE  ReadsKnown'
      BY <1>5 DEF ReadsHold
    <3>1. ReadsKnown
      BY <1>8, <1>9 DEF ReadsHold
    <3> QED
      BY <1>1, <2>1, <2>3, <3>1 DEF ReadsKnown
  <2>5. WritesHold'
    <3> SUFFICES ASSUME NEW f \in Files
                 PROVE  \/ guard'.written[f] = Nothing \/ disk'[f] = guard'.written[f]
                        \/ \E j \in DOMAIN calls' : HasRun(j)' /\ Touches(calls'[j].call, f)
      BY DEF WritesHold
    <3>1. \/ guard.written[f] = Nothing \/ disk[f] = guard.written[f]
          \/ \E j \in DOMAIN calls : HasRun(j) /\ Touches(calls[j].call, f)
      BY <1>8 DEF WritesHold
    <3> QED
      BY <1>1, <1>5, <1>9, <2>1, <3>1
  <2>6. RanHold'
    <3> SUFFICES ASSUME NEW j \in DOMAIN calls, HasRun(j)'
                 PROVE  LET d == calls'[j].call IN
                          /\ d \in Reads => /\ told'[d] = Finds'[d]
                                            /\ calls'[j].result # "ok" => Finds'[d] = {}
                          /\ d \in Writes /\ calls'[j].result = "ok" => disk'[d.path] = d.body
      BY <1>5 DEF RanHold
    <3>1. CASE j = i
      <4>1. c \notin Writes
        BY <1>1, <1>11, CallKinds DEF c
      <4> QED
        BY <1>3, <1>5, <2>1, <2>2, <2>3, <3>1, <4>1
    <3>2. CASE j # i
      <4>1. HasRun(j) /\ calls'[j] = calls[j]
        BY <1>5, <1>9, <3>2
      <4> QED
        BY <1>8, <2>1, <2>3, <4>1 DEF RanHold
    <3> QED
      BY <3>1, <3>2
  <2> QED
    BY <1>10, <2>4, <2>5, <2>6
<1>12. CASE c \notin Reads
  <2>1. \A j \in DOMAIN calls : ~HasRun(j) /\ (j # i => ~HasRun(j)')
    BY <1>8, <1>9, <1>12 DEF ChangesAlone
  <2> HIDE DEF c
  <2>2. calls'[i].call = c /\ calls'[i].result = result
    BY <1>3, <1>5
  <2>3. ReadsHold'
    BY <1>5, <1>9, <1>12, <2>2 DEF ReadsHold
  <2>4. WritesHold'
    <3> SUFFICES ASSUME NEW f \in Files
                 PROVE  \/ guard'.written[f] = Nothing \/ disk'[f] = guard'.written[f]
                        \/ \E j \in DOMAIN calls' : HasRun(j)' /\ Touches(calls'[j].call, f)
      BY DEF WritesHold
    <3>1. guard.written[f] = Nothing \/ disk[f] = guard.written[f]
      BY <1>8, <2>1 DEF WritesHold
    <3>2. disk'[f] = disk[f] \/ Touches(c, f)
      BY <1>2, <1>7
    <3> QED
      BY <1>1, <1>5, <1>9, <2>2, <3>1, <3>2
  <2>5. RanHold'
    <3> SUFFICES ASSUME NEW j \in DOMAIN calls, HasRun(j)'
                 PROVE  LET d == calls'[j].call IN
                          /\ d \in Reads => /\ told'[d] = Finds'[d]
                                            /\ calls'[j].result # "ok" => Finds'[d] = {}
                          /\ d \in Writes /\ calls'[j].result = "ok" => disk'[d.path] = d.body
      BY <1>5 DEF RanHold
    <3>1. j = i
      BY <2>1
    <3>2. c \in Writes /\ result = "ok" => disk'[c.path] = c.body
      BY <1>2
    <3> QED
      BY <1>12, <2>2, <3>1, <3>2
  <2> QED
    BY <1>10, <2>3, <2>4, <2>5
<1> QED
  BY <1>11, <1>12

\* What the guard makes of a call that ran.
LEMMA RecordedIs ==
  ASSUME GuardTyped, NEW c \in Calls, NEW ok \in BOOLEAN
  PROVE  /\ Recorded(guard, c, ok) \in [failures : Counts, answered : Counts, written : Disks]
         /\ c \in Reads =>
              /\ Recorded(guard, c, ok).written = guard.written
              /\ ok => Recorded(guard, c, ok).failures[c] = 0
              /\ ~ok => Recorded(guard, c, ok).answered[c] = 0
              /\ \A d \in Reads : d # c =>
                   /\ Recorded(guard, c, ok).failures[d] = guard.failures[d]
                   /\ Recorded(guard, c, ok).answered[d] = guard.answered[d]
         /\ c \notin Reads =>
              /\ \A d \in Reads : /\ Recorded(guard, c, ok).failures[d] = 0
                                 /\ Recorded(guard, c, ok).answered[d] = 0
              /\ \A f \in Files :
                   \/ Recorded(guard, c, ok).written[f] = Nothing
                   \/ ~Touches(c, f) /\ Recorded(guard, c, ok).written[f] = guard.written[f]
                   \/ c \in Writes /\ ok /\ f = c.path /\ Recorded(guard, c, ok).written[f] = c.body
<1>1. /\ guard \in [failures : Counts, answered : Counts, written : Disks]
      /\ guard.failures \in Counts /\ guard.answered \in Counts /\ guard.written \in Disks
  BY DEF GuardTyped
<1>2. /\ c \in Writes => c \notin Reads /\ c.path \in Files /\ c.body \in Contents
      /\ c \in PathScoped => c \notin Reads /\ c \notin Writes
      /\ c \in Commands => c \notin Reads /\ c \notin Writes /\ c \notin PathScoped
      /\ c \in Reads \cup Writes \cup PathScoped \cup Commands
  BY CallKinds
<1>3. CASE c \in Reads
  <2> DEFINE failures == [guard.failures EXCEPT ![c] = IF ok THEN 0 ELSE @ + 1]
             answered == [guard.answered EXCEPT ![c] = IF ok THEN @ + 1 ELSE 0]
  <2>1. Recorded(guard, c, ok) = [guard EXCEPT !.failures = failures, !.answered = answered]
    BY <1>3 DEF Recorded
  <2>2. /\ failures \in Counts /\ (ok => failures[c] = 0)
        /\ \A d \in Reads : d # c => failures[d] = guard.failures[d]
    BY <1>1, <1>3 DEF Counts
  <2>3. /\ answered \in Counts /\ (~ok => answered[c] = 0)
        /\ \A d \in Reads : d # c => answered[d] = guard.answered[d]
    BY <1>1, <1>3 DEF Counts
  <2> HIDE DEF failures, answered
  <2>4. /\ Recorded(guard, c, ok) \in [failures : Counts, answered : Counts, written : Disks]
        /\ Recorded(guard, c, ok).failures = failures /\ Recorded(guard, c, ok).answered = answered
        /\ Recorded(guard, c, ok).written = guard.written
    BY <1>1, <2>1, <2>2, <2>3
  <2> QED
    BY <1>3, <2>2, <2>3, <2>4
<1>4. CASE c \notin Reads
  <2> DEFINE beliefs == Beliefs(guard, c, ok)
  <2>1. Recorded(guard, c, ok) = [NewGuard EXCEPT !.written = beliefs]
    BY <1>4 DEF Recorded
  <2>2. beliefs \in Disks /\ \A f \in Files :
          \/ beliefs[f] = Nothing
          \/ ~Touches(c, f) /\ beliefs[f] = guard.written[f]
          \/ c \in Writes /\ ok /\ f = c.path /\ beliefs[f] = c.body
    <3>1. CASE c \in Writes /\ ok
      <4>1. beliefs = [guard.written EXCEPT ![c.path] = c.body]
        BY <1>2, <3>1 DEF Beliefs
      <4> QED
        BY <1>1, <1>2, <1>4, <3>1, <4>1 DEF Disks, Touches
    <3>2. CASE (c \in Writes /\ ~ok) \/ c \in PathScoped
      <4>1. beliefs = Forget(guard.written, c.path)
        BY <1>2, <3>2 DEF Beliefs
      <4> QED
        BY <1>1, <1>2, <1>4, <3>2, <4>1 DEF Disks, Touches, Forget
    <3>3. CASE c \in Commands
      <4>1. beliefs = NoBeliefs
        BY <1>2, <3>3 DEF Beliefs
      <4> QED
        BY <4>1 DEF Disks, NoBeliefs
    <3> QED
      BY <1>2, <1>4, <3>1, <3>2, <3>3
  <2> HIDE DEF beliefs
  <2>3. /\ NewGuard = [failures |-> NoCounts, answered |-> NoCounts, written |-> NoBeliefs]
        /\ NoCounts \in Counts /\ \A d \in Reads : NoCounts[d] = 0
    BY DEF NewGuard, NoCounts, Counts
  <2>4. Recorded(guard, c, ok) = [failures |-> NoCounts, answered |-> NoCounts, written |-> beliefs]
    BY <2>1, <2>3
  <2> QED
    BY <1>4, <2>2, <2>3, <2>4
<1> QED
  BY <1>3, <1>4

LEMMA RecordKeeps ==
  ASSUME GuardInv, NEW i \in DOMAIN calls, Record(i)
  PROVE  GuardInv'
<1> DEFINE c == calls[i].call
           ok == calls[i].result = "ok"
           after == [calls[i] EXCEPT !.at = "answered"]
<1>1. /\ UNCHANGED <<disk, phase, told, overlapped, subtree>>
      /\ phase = "tools" /\ calls[i].at = "ran" /\ calls[i] \in ToolCall /\ c \in Calls
      /\ guard' = Recorded(guard, c, ok) /\ shared' = Shared(shared, c, ok)
      /\ calls' = [calls EXCEPT ![i] = after]
  BY DEF Record, seenVars, GuardInv, GuardTyped, ToolCall
<1>2. after \in ToolCall /\ after.call = c /\ after.at = "answered"
  BY <1>1 DEF ToolCall
<1> HIDE DEF after
<1>3. /\ DOMAIN calls' = DOMAIN calls /\ calls'[i] = after
      /\ \A j \in DOMAIN calls : j # i => calls'[j] = calls[j]
      /\ \A j \in DOMAIN calls : calls'[j] \in ToolCall /\ calls'[j].call = calls[j].call
  BY <1>1, <1>2, OneCallMoves DEF GuardInv
<1>4. shared' \in Disks
  BY <1>1, CallKinds DEF Shared, GuardInv, GuardTyped, Disks
<1>5. /\ guard' \in [failures : Counts, answered : Counts, written : Disks]
      /\ c \in Reads =>
           /\ guard'.written = guard.written
           /\ ok => guard'.failures[c] = 0
           /\ ~ok => guard'.answered[c] = 0
           /\ \A d \in Reads : d # c => /\ guard'.failures[d] = guard.failures[d]
                                       /\ guard'.answered[d] = guard.answered[d]
      /\ c \notin Reads =>
           /\ \A d \in Reads : guard'.failures[d] = 0 /\ guard'.answered[d] = 0
           /\ \A f \in Files :
                \/ guard'.written[f] = Nothing
                \/ ~Touches(c, f) /\ guard'.written[f] = guard.written[f]
                \/ c \in Writes /\ ok /\ f = c.path /\ guard'.written[f] = c.body
  <2> DEFINE new == Recorded(guard, c, ok)
  <2>1. /\ new \in [failures : Counts, answered : Counts, written : Disks]
        /\ c \in Reads =>
             /\ new.written = guard.written
             /\ ok => new.failures[c] = 0
             /\ ~ok => new.answered[c] = 0
             /\ \A d \in Reads : d # c => /\ new.failures[d] = guard.failures[d]
                                         /\ new.answered[d] = guard.answered[d]
        /\ c \notin Reads =>
             /\ \A d \in Reads : new.failures[d] = 0 /\ new.answered[d] = 0
             /\ \A f \in Files :
                  \/ new.written[f] = Nothing
                  \/ ~Touches(c, f) /\ new.written[f] = guard.written[f]
                  \/ c \in Writes /\ ok /\ f = c.path /\ new.written[f] = c.body
    BY <1>1, RecordedIs, ZenonT(60) DEF GuardInv
  <2>2. guard' = new
    BY <1>1
  <2> HIDE DEF new, c, ok
  <2> QED
    BY <2>1, <2>2
<1>6. GuardTyped'
  BY <1>1, <1>3, <1>4, <1>5 DEF GuardInv, GuardTyped, ToolCall
<1>7. SUFFICES ASSUME ~overlapped', ~subtree'
               PROVE  ChangesAlone' /\ ReadsHold' /\ WritesHold' /\ RanHold'
  BY <1>6 DEF GuardInv, BeliefsHold
<1>8. ChangesAlone /\ ReadsHold /\ WritesHold /\ RanHold
  BY <1>1, <1>7 DEF GuardInv, BeliefsHold
<1>9. /\ HasRun(i) /\ InFlight(i) /\ ~HasRun(i)' /\ ~InFlight(i)'
      /\ \A j \in DOMAIN calls : j # i => (HasRun(j)' <=> HasRun(j)) /\ (InFlight(j)' <=> InFlight(j))
      /\ \A j \in DOMAIN calls : HasRun(j) => InFlight(j)
  BY <1>1, <1>2, <1>3 DEF InFlight, HasRun
<1>10. ChangesAlone'
  BY <1>3, <1>8, <1>9 DEF ChangesAlone
<1>11. Finds' = Finds
  BY <1>1 DEF Finds, Found
<1>12. RanHold'
  <2> SUFFICES ASSUME NEW j \in DOMAIN calls, HasRun(j)'
               PROVE  LET d == calls'[j].call IN
                        /\ d \in Reads => /\ told'[d] = Finds'[d]
                                          /\ calls'[j].result # "ok" => Finds'[d] = {}
                        /\ d \in Writes /\ calls'[j].result = "ok" => disk'[d.path] = d.body
    BY <1>3 DEF RanHold
  <2>1. HasRun(j) /\ calls'[j] = calls[j]
    BY <1>3, <1>9
  <2> QED
    BY <1>1, <1>8, <1>11, <2>1 DEF RanHold
<1>13. /\ c \in Reads => told[c] = Finds[c] /\ (~ok => Finds[c] = {})
       /\ c \in Writes /\ ok => disk[c.path] = c.body
  BY <1>8, <1>9 DEF RanHold
<1>14. ReadsHold'
  <2> SUFFICES ASSUME \A j \in DOMAIN calls : HasRun(j)' => calls[j].call \in Reads
               PROVE  ReadsKnown'
    BY <1>3 DEF ReadsHold
  <2>1. CASE c \in Reads
    <3>1. ReadsKnown
      BY <1>8, <1>9, <2>1 DEF ReadsHold
    <3> HIDE DEF c, ok
    <3> SUFFICES ASSUME NEW d \in Reads
                 PROVE  /\ guard'.answered[d] > 0 => Finds'[d] = told'[d]
                        /\ guard'.failures[d] > 0 => Finds'[d] = {}
      BY DEF ReadsKnown
    <3>2. /\ guard.answered[d] > 0 => Finds[d] = told[d]
          /\ guard.failures[d] > 0 => Finds[d] = {}
      BY <3>1 DEF ReadsKnown
    <3>3. CASE d = c
      BY <1>1, <1>5, <1>11, <1>13, <2>1, <3>3
    <3>4. CASE d # c
      BY <1>1, <1>5, <1>11, <2>1, <3>2, <3>4
    <3> QED
      BY <3>3, <3>4
  <2>2. CASE c \notin Reads
    <3> HIDE DEF c, ok
    <3>1. \A d \in Reads : guard'.failures[d] = 0 /\ guard'.answered[d] = 0
      BY <1>5, <2>2
    <3> QED
      BY <3>1 DEF ReadsKnown
  <2> QED
    BY <2>1, <2>2
<1>15. WritesHold'
  <2> SUFFICES ASSUME NEW f \in Files
               PROVE  \/ guard'.written[f] = Nothing \/ disk'[f] = guard'.written[f]
                      \/ \E j \in DOMAIN calls' : HasRun(j)' /\ Touches(calls'[j].call, f)
    BY DEF WritesHold
  <2>1. \/ guard.written[f] = Nothing \/ disk[f] = guard.written[f]
        \/ \E j \in DOMAIN calls : HasRun(j) /\ Touches(calls[j].call, f)
    BY <1>8 DEF WritesHold
  <2>2. ASSUME NEW j \in DOMAIN calls, HasRun(j), Touches(calls[j].call, f), j # i
        PROVE  \E k \in DOMAIN calls' : HasRun(k)' /\ Touches(calls'[k].call, f)
    BY <1>3, <1>9, <2>2
  <2>3. \/ guard.written[f] = Nothing \/ disk[f] = guard.written[f] \/ Touches(c, f)
        \/ \E k \in DOMAIN calls' : HasRun(k)' /\ Touches(calls'[k].call, f)
    BY <2>1, <2>2
  <2> HIDE DEF c, ok
  <2>4. CASE c \in Reads
    <3>1. ~Touches(c, f)
      BY <2>4 DEF Touches
    <3> QED
      BY <1>1, <1>5, <2>3, <2>4, <3>1
  <2>5. CASE c \notin Reads
    BY <1>1, <1>5, <1>13, <2>3, <2>5
  <2> QED
    BY <2>4, <2>5
<1> QED
  BY <1>10, <1>12, <1>14, <1>15

LEMMA GuardStep == GuardInv /\ [Next]_vars => GuardInv'
<1> SUFFICES ASSUME GuardInv, [Next]_vars PROVE GuardInv'
  OBVIOUS
<1>1. CASE UNCHANGED vars
  <2>1. /\ disk' = disk /\ shared' = shared /\ guard' = guard /\ phase' = phase
        /\ calls' = calls /\ told' = told /\ overlapped' = overlapped /\ subtree' = subtree
    BY <1>1 DEF vars, seenVars
  <2>2. GuardTyped'
    BY <2>1 DEF GuardInv, GuardTyped
  <2>3. Finds' = Finds
    BY <2>1 DEF Finds, Found
  <2>4. ChangesAlone => ChangesAlone'
    BY <2>1 DEF ChangesAlone, InFlight
  <2>5. ReadsHold => ReadsHold'
    BY <2>1, <2>3 DEF ReadsHold, ReadsKnown, HasRun
  <2>6. WritesHold => WritesHold'
    BY <2>1 DEF WritesHold, HasRun
  <2>7. RanHold => RanHold'
    BY <2>1, <2>3 DEF RanHold, HasRun
  <2> QED
    BY <2>1, <2>2, <2>4, <2>5, <2>6, <2>7 DEF GuardInv, BeliefsHold
<1>2. ASSUME NEW i \in DOMAIN calls, Denied(i) \/ Check(i) \/ Run(i) \/ Record(i) PROVE GuardInv'
  BY <1>2, DeniedKeeps, CheckKeeps, RunCallKeeps, RecordKeeps
<1>3. ASSUME NEW message \in Messages, Asks(message) PROVE GuardInv'
  BY <1>3, AsksKeeps
<1> QED
  BY <1>1, <1>2, <1>3, InvokeKeeps, TurnKeeps DEF Next, Step, ModelStep, ToolStep

\* What the repeat guard believes of the disk, in every state of an invocation.
THEOREM GuardInvariant == Spec => []GuardInv
  BY GuardStep, TurnStarts, PTL DEF Spec

\* A call is refused in a step only by _blocked.
LEMMA RefusedByCheck ==
  ASSUME GuardInv, Next, NEW i \in DOMAIN calls, NEW result \in {"refused", "dedupe"},
         Refused(i, result)
  PROVE  Check(i) /\ Refusal(calls[i].call) = result
<1>1. /\ phase = "tools" /\ phase' = "tools" /\ calls[i].at = "asked"
      /\ calls'[i].at = "answered" /\ calls'[i].result = result
  BY DEF Refused
<1>2. \A j \in DOMAIN calls : calls[j] \in ToolCall
  BY DEF GuardInv, GuardTyped, ToolCall
<1>3. ~Invoke /\ ~ModelStep /\ ~ReaderStep
  BY <1>1 DEF Invoke, ModelStep, Asks, Finishes, OutOfTime, Raises, Drains, ReaderStep, Breaks,
              ReadResults, LeaveResults, Nudge, End
<1>4. PICK j \in DOMAIN calls : Denied(j) \/ Check(j) \/ Run(j) \/ Record(j)
  BY <1>3 DEF Next, Step, ToolStep
<1>5. CASE Denied(j)
  <2>1. calls' = [calls EXCEPT ![j].at = "answered", ![j].result = "fail"]
    BY <1>5 DEF Denied, Answered
  <2>2. calls'[i] = calls[i] \/ calls'[i].result = "fail"
    BY <1>2, <2>1 DEF ToolCall
  <2> QED
    BY <1>1, <2>2
<1>6. CASE Run(j)
  <2>1. calls[j].at = "running" /\ \E r \in {"ok", "fail"} :
          calls' = [calls EXCEPT ![j].at = "ran", ![j].result = r]
    BY <1>6 DEF Run, Ran
  <2>2. j # i
    BY <1>1, <2>1
  <2> QED
    BY <1>1, <2>1, <2>2
<1>7. CASE Record(j)
  <2>1. calls[j].at = "ran" /\ calls' = [calls EXCEPT ![j].at = "answered"]
    BY <1>7 DEF Record
  <2>2. j # i
    BY <1>1, <2>1
  <2> QED
    BY <1>1, <2>1, <2>2
<1>8. CASE Check(j)
  <2>1. CASE Refusal(calls[j].call) = "none"
    <3>1. calls' = [calls EXCEPT ![j].at = "running"]
      BY <1>8, <2>1 DEF Check
    <3>2. calls'[i].at \in {calls[i].at, "running"}
      BY <1>2, <3>1 DEF ToolCall
    <3> QED
      BY <1>1, <3>2
  <2>2. CASE Refusal(calls[j].call) # "none"
    <3>1. calls' = [calls EXCEPT ![j].at = "answered", ![j].result = Refusal(calls[j].call)]
      BY <1>8, <2>2 DEF Check, Answered
    <3>2. j = i
      BY <1>1, <3>1
    <3>3. calls'[i].result = Refusal(calls[i].call)
      BY <1>2, <3>1, <3>2 DEF ToolCall
    <3> QED
      BY <1>1, <1>8, <3>2, <3>3
  <2> QED
    BY <2>1, <2>2
<1> QED
  BY <1>4, <1>5, <1>6, <1>7, <1>8

\* What _blocked says where nothing that changes a file is in flight.
LEMMA RefusalIsTrue ==
  ASSUME GuardInv, NEW i \in DOMAIN calls, NEW result \in {"refused", "dedupe"},
         ~overlapped, ~subtree, ~Overlaps(i), calls[i].at = "asked",
         Refusal(calls[i].call) = result
  PROVE  TruthOf(calls[i].call, result)
<1> DEFINE c == calls[i].call
<1>1. /\ c \in Calls /\ ReadsHold /\ WritesHold
      /\ guard \in [failures : Counts, answered : Counts, written : Disks]
  BY DEF GuardInv, GuardTyped, BeliefsHold
<1>2. c \in Writes => c \notin Reads /\ c.path \in Files /\ c.body \in Contents
  BY <1>1, CallKinds
<1>3. \A j \in DOMAIN calls : HasRun(j) => j # i /\ c \in Reads /\ calls[j].call \in Reads
  BY DEF Overlaps, Changes, InFlight, HasRun
<1>4. ReadsKnown
  BY <1>1, <1>3 DEF ReadsHold
<1>5. c \in Reads => Finds[c] = Found(c, disk)
  BY DEF Finds
<1>6. MaxIdenticalFailures \in Nat \ {0} /\ MaxIdenticalReads \in Nat \ {0} /\ Nothing \notin Contents
  BY RepeatGuardAssumption
<1>7. c \in Reads => guard.answered[c] \in Nat /\ guard.failures[c] \in Nat
  BY <1>1 DEF Counts
<1> HIDE DEF c
<1>8. CASE result = "dedupe"
  <2>1. c \in Reads /\ guard.answered[c] >= MaxIdenticalReads
    BY <1>8 DEF Refusal, WasAnswered, c
  <2>2. Found(c, disk) = told[c]
    <3>1. guard.answered[c] > 0
      BY <1>6, <1>7, <2>1
    <3> QED
      BY <1>4, <1>5, <2>1, <3>1 DEF ReadsKnown
  <2> QED
    BY <1>2, <1>8, <2>1, <2>2 DEF TruthOf, c
<1>9. CASE result = "refused" /\ HasFailed(guard, c)
  <2>1. c \in Reads /\ guard.failures[c] >= MaxIdenticalFailures
    BY <1>9 DEF HasFailed
  <2>2. Found(c, disk) = {}
    <3>1. guard.failures[c] > 0
      BY <1>6, <1>7, <2>1
    <3> QED
      BY <1>4, <1>5, <2>1, <3>1 DEF ReadsKnown
  <2> QED
    BY <1>2, <1>9, <2>1, <2>2 DEF TruthOf, c
<1>10. CASE result = "refused" /\ WasWritten(guard, shared, disk, c)
  <2>1. c \in Writes /\ (guard.written[c.path] = c.body \/ disk[c.path] = c.body)
    BY <1>10 DEF WasWritten
  <2>2. \A j \in DOMAIN calls : ~HasRun(j)
    BY <1>2, <1>3, <2>1
  <2>3. guard.written[c.path] = Nothing \/ disk[c.path] = guard.written[c.path]
    BY <1>1, <1>2, <2>1, <2>2 DEF WritesHold
  <2>4. disk[c.path] = c.body
    BY <1>2, <1>6, <2>1, <2>3
  <2> QED
    BY <1>10, <2>1, <2>4 DEF TruthOf, c
<1> QED
  BY <1>8, <1>9, <1>10 DEF Refusal, c

(***************************************************************************)
(* What the repeat guard says in refusing a call is true when it says it:  *)
(* of any files, folders, contents and messages, however the calls of a    *)
(* message interleave, but for a change that overlapped another call and   *)
(* for a deleted folder.                                                   *)
(***************************************************************************)
THEOREM RefusalsHold == Spec => RefusalsAreTrue
<1>1. GuardInv /\ [Next]_vars =>
        [\A i \in DOMAIN calls, result \in {"refused", "dedupe"} :
           Refused(i, result) /\ ~overlapped' /\ ~subtree => TruthOf(calls[i].call, result)]_vars
  <2> SUFFICES ASSUME GuardInv, Next, NEW i \in DOMAIN calls, NEW result \in {"refused", "dedupe"},
                      Refused(i, result), ~overlapped', ~subtree
               PROVE  TruthOf(calls[i].call, result)
    OBVIOUS
  <2>1. Check(i) /\ Refusal(calls[i].call) = result
    BY RefusedByCheck
  <2>2. ~overlapped /\ ~Overlaps(i) /\ calls[i].at = "asked"
    BY <2>1 DEF Check
  <2> QED
    BY <2>1, <2>2, RefusalIsTrue
<1>2. Spec => [][Next]_vars
  BY PTL DEF Spec
<1> QED
  BY <1>1, <1>2, GuardInvariant, PTL DEF RefusalsAreTrue

\* A tripped deadline has ended the stream, and an invocation begins with no guard fired.
HaltInv ==
  /\ phase \in {"idle", "model", "tools", "drained", "ended"}
  /\ tripped \in BOOLEAN /\ (tripped => phase \in {"drained", "ended"})
  /\ phase = "idle" => halted = "none"

(***************************************************************************)
(* Once run_subagent's guards or its deadline have fired, no call reaches  *)
(* the tools and no second turn is given, whatever the bounds.             *)
(***************************************************************************)
THEOREM HaltsHold == Spec => HaltIsFinal
<1>1. Init => HaltInv
  BY DEF Init, HaltInv
<1>2. HaltInv /\ [Next]_vars => HaltInv'
  <2> SUFFICES ASSUME HaltInv, [Next]_vars PROVE HaltInv'
    OBVIOUS
  <2>1. CASE UNCHANGED vars
    BY <2>1 DEF vars, HaltInv
  <2>2. CASE Invoke
    BY <2>2 DEF Invoke, HaltInv
  <2>3. CASE ModelStep
    <3>1. /\ phase = "model" /\ phase' \in {"tools", "drained", "ended"}
          /\ tripped' = tripped \/ (tripped' = TRUE /\ phase' = "drained")
      BY <2>3 DEF ModelStep, Asks, Finishes, OutOfTime, Raises, Drains
    <3>2. tripped \in BOOLEAN /\ ~tripped
      BY <3>1 DEF HaltInv
    <3>3. tripped' \in BOOLEAN
      BY <3>1, <3>2
    <3>4. tripped' => phase' = "drained"
      BY <3>1, <3>2
    <3> QED
      BY <3>1, <3>3, <3>4 DEF HaltInv
  <2>4. CASE ToolStep
    <3>1. phase' = phase /\ tripped' = tripped /\ halted' = halted
      BY <2>4 DEF ToolStep, Denied, Check, Run, Record
    <3> QED
      BY <3>1 DEF HaltInv
  <2>5. CASE ReaderStep
    <3>1. CASE Breaks \/ LeaveResults \/ End
      <4>1. phase' \in {"drained", "ended"} /\ tripped' = tripped
        BY <3>1 DEF Breaks, LeaveResults, End, Drains
      <4> QED
        BY <4>1 DEF HaltInv
    <3>2. CASE ReadResults
      <4>1. phase = "tools" /\ phase' = "model" /\ tripped' = tripped
        BY <3>2 DEF ReadResults, Gathered
      <4> QED
        BY <4>1 DEF HaltInv
    <3>3. CASE Nudge
      <4>1. phase' = "model" /\ tripped' = tripped /\ ~tripped
        BY <3>3 DEF Nudge, Nudgeable, Verdict
      <4> QED
        BY <4>1 DEF HaltInv
    <3> QED
      BY <2>5, <3>1, <3>2, <3>3 DEF ReaderStep
  <2> QED
    BY <2>1, <2>2, <2>3, <2>4, <2>5 DEF Next, Step
<1>3. HaltInv /\ [Next]_vars =>
        [(halted # "none" \/ tripped) /\ phase # "ended" => asked' = asked /\ nudged' = nudged]_vars
  <2> SUFFICES ASSUME HaltInv, Next, halted # "none" \/ tripped, phase # "ended"
               PROVE  asked' = asked /\ nudged' = nudged
    OBVIOUS
  <2>1. ~Invoke
    BY DEF Invoke, HaltInv
  <2>2. CASE ModelStep
    BY <2>2 DEF ModelStep, Asks, Finishes, OutOfTime, Raises, Drains, HaltInv
  <2>3. CASE ToolStep
    BY <2>3 DEF ToolStep, Denied, Check, Run, Record
  <2>4. CASE ReaderStep
    BY <2>4 DEF ReaderStep, Breaks, ReadResults, LeaveResults, Nudge, End, Nudgeable, Verdict
  <2> QED
    BY <2>1, <2>2, <2>3, <2>4 DEF Next, Step
<1>4. Spec => [][Next]_vars
  BY PTL DEF Spec
<1> QED
  BY <1>1, <1>2, <1>3, <1>4, PTL DEF HaltIsFinal, Spec


-----------------------------------------------------------------------------
(***************************************************************************)
(* SubagentTurn: what run_subagent counts.                                 *)
(***************************************************************************)
\* The last n of the results, the newest first, are failures, and the one before is not.
EndsInFailures(n, results) ==
  /\ Len(results) <= MaxConsecutiveFailures /\ n <= Len(results)
  /\ \A k \in 1..n : results[k] = "fail"
  /\ n < Len(results) => results[n + 1] = "ok"

CallTally ==
  {s \in [total : 0..MaxTotalCalls, repeated : [Watched -> 0..MaxRepeatedCalls],
          halted : {"none", "calls", "repeated"}] :
     s.halted = "none" => /\ s.total < MaxTotalCalls
                          /\ \A k \in Watched : s.repeated[k] < MaxRepeatedCalls}

ResultTally ==
  {s \in [failures : 0..MaxConsecutiveFailures, streak : 0..MaxDedupesAfterWrite,
          wrote : BOOLEAN, halted : {"none", "failures", "dedupes"}, lately : Seq({"ok", "fail"})] :
     /\ s.halted = "none" => s.streak < MaxDedupesAfterWrite
     /\ s.halted = "failures" <=> s.failures = MaxConsecutiveFailures
     /\ EndsInFailures(s.failures, s.lately)}

LEMMA BoundsAreNat ==
  /\ MaxTotalCalls \in Nat \ {0} /\ MaxRepeatedCalls \in Nat \ {0}
  /\ MaxConsecutiveFailures \in Nat \ {0} /\ MaxDedupesAfterWrite \in Nat \ {0}
  /\ MaxParallel \in Nat \ {0} /\ MaxInvocations \in Nat \ {0}
  BY SubagentTurnAssumption

(***************************************************************************)
(* One call is counted, unless a guard has fired on the ones before it.    *)
(***************************************************************************)
LEMMA OneCallCounts ==
  ASSUME NEW s \in CallTally, NEW c \in Calls
  PROVE  /\ CountCall(s, c) \in CallTally
         /\ CountCall(s, c).halted = "none" =>
              s.halted = "none" /\ CountCall(s, c).total = s.total + 1
<1> DEFINE fresh == [k \in Watched |->
                       IF c \notin Reads /\ k.tool = "read_file" THEN 0 ELSE s.repeated[k]]
           times == IF c \in Watched THEN fresh[c] + 1 ELSE 0
<1>1. /\ s.total \in 0..MaxTotalCalls /\ s.repeated \in [Watched -> 0..MaxRepeatedCalls]
      /\ s.halted \in {"none", "calls", "repeated"}
      /\ s = [total |-> s.total, repeated |-> s.repeated, halted |-> s.halted]
  BY DEF CallTally
<1>2. CASE s.halted # "none"
  BY <1>2 DEF CountCall
<1>3. CASE s.halted = "none" /\ s.total + 1 >= MaxTotalCalls
  <2> DEFINE t == [total |-> s.total + 1, repeated |-> s.repeated, halted |-> "calls"]
  <2> DEFINE p == s.halted # "none"
             q == s.halted = "none" /\ s.total + 1 >= MaxTotalCalls
             r == s.halted = "none" /\ s.total + 1 < MaxTotalCalls
             full == [s EXCEPT !.total = @ + 1, !.halted = "calls"]
             counted == [total |-> s.total + 1,
                         repeated |-> [k \in Watched |-> IF k = c THEN times ELSE fresh[k]],
                         halted |-> IF times >= MaxRepeatedCalls THEN "repeated" ELSE "none"]
  <2>1. CountCall(s, c) = CASE p -> s [] q -> full [] r -> counted
    BY DEF CountCall
  <2>2. CountCall(s, c) = t
    <3>1. q /\ ~p /\ ~r
      BY <1>1, <1>3, BoundsAreNat
    <3>2. full = t
      <4>1. s \in [total : 0..MaxTotalCalls, repeated : [Watched -> 0..MaxRepeatedCalls],
                   halted : {"none", "calls", "repeated"}]
        BY DEF CallTally
      <4> HIDE DEF p, q, r, counted
      <4>2. full = [s EXCEPT !.total = s.total + 1, !.halted = "calls"]
        OBVIOUS
      <4> HIDE DEF full
      <4> QED
        BY <4>1, <4>2
    <3> HIDE DEF p, q, r, full, counted
    <3> QED
      BY <2>1, <3>1, <3>2
  <2>3. s.total < MaxTotalCalls
    BY <1>3 DEF CallTally
  <2>4. s.total + 1 \in 0..MaxTotalCalls
    BY <1>1, <2>3, BoundsAreNat
  <2>5. t \in CallTally /\ t.halted # "none"
    BY <1>1, <2>4 DEF CallTally
  <2> QED
    BY <2>2, <2>5
<1>4. CASE s.halted = "none" /\ s.total + 1 < MaxTotalCalls
  <2> DEFINE t == [total |-> s.total + 1,
                   repeated |-> [k \in Watched |-> IF k = c THEN times ELSE fresh[k]],
                   halted |-> IF times >= MaxRepeatedCalls THEN "repeated" ELSE "none"]
  <2>1. CountCall(s, c) = t
    BY <1>4 DEF CountCall
  <2>2. \A k \in Watched : fresh[k] \in 0..(MaxRepeatedCalls - 1)
    <3> SUFFICES ASSUME NEW k \in Watched PROVE fresh[k] \in 0..(MaxRepeatedCalls - 1)
      OBVIOUS
    <3>1. fresh[k] \in {0, s.repeated[k]}
      OBVIOUS
    <3>2. s.repeated[k] \in 0..MaxRepeatedCalls /\ s.repeated[k] < MaxRepeatedCalls
      BY <1>1, <1>4 DEF CallTally
    <3> QED
      BY <3>1, <3>2, BoundsAreNat
  <2> HIDE DEF fresh
  <2>3. times \in 0..MaxRepeatedCalls
    BY <2>2, BoundsAreNat
  <2>4. c \notin Watched => times = 0
    OBVIOUS
  <2> HIDE DEF times
  <2> DEFINE after == [k \in Watched |-> IF k = c THEN times ELSE fresh[k]]
  <2>5. after \in [Watched -> 0..MaxRepeatedCalls]
    BY <2>2, <2>3, BoundsAreNat
  <2>6. times < MaxRepeatedCalls => \A k \in Watched : after[k] < MaxRepeatedCalls
    BY <2>2, BoundsAreNat
  <2>7. t.repeated = after /\ t.total = s.total + 1 /\ t.total \in 0..MaxTotalCalls /\ t.total < MaxTotalCalls
    BY <1>1, <1>4, BoundsAreNat
  <2>8. t.halted \in {"none", "repeated"} /\ (t.halted = "none" => times < MaxRepeatedCalls)
    BY <2>3, BoundsAreNat
  <2>9. t \in CallTally
    <3>1. t \in [total : 0..MaxTotalCalls, repeated : [Watched -> 0..MaxRepeatedCalls],
                 halted : {"none", "calls", "repeated"}]
      BY <2>5, <2>7
    <3> HIDE DEF t, after
    <3> QED
      BY <3>1, <2>6, <2>7, <2>8 DEF CallTally
  <2> QED
    BY <1>4, <2>1, <2>7, <2>9
<1>5. s.total + 1 >= MaxTotalCalls \/ s.total + 1 < MaxTotalCalls
  BY <1>1, BoundsAreNat
<1> QED
  BY <1>2, <1>3, <1>4, <1>5

(***************************************************************************)
(* Another result in front of the ones before it.                          *)
(***************************************************************************)
LEMMA LatestIs ==
  ASSUME NEW x \in {"ok", "fail"}, NEW before \in Seq({"ok", "fail"}),
         Len(before) <= MaxConsecutiveFailures
  PROVE  LET l == Latest(<<x>> \o before) IN
         /\ l \in Seq({"ok", "fail"}) /\ l[1] = x
         /\ Len(l) <= MaxConsecutiveFailures
         /\ Len(l) = IF Len(before) < MaxConsecutiveFailures THEN Len(before) + 1
                     ELSE MaxConsecutiveFailures
         /\ \A k \in 2..Len(l) : l[k] = before[k - 1]
<1> DEFINE all == <<x>> \o before
<1>1. Len(before) \in Nat
  BY LenProperties
<1>2. /\ all \in Seq({"ok", "fail"}) /\ Len(all) = Len(before) + 1 /\ all[1] = x
      /\ \A k \in 2..Len(all) : all[k] = before[k - 1]
  <2>1. <<x>> \in Seq({"ok", "fail"}) /\ Len(<<x>>) = 1 /\ <<x>>[1] = x
    OBVIOUS
  <2>2. all \in Seq({"ok", "fail"}) /\ Len(all) = 1 + Len(before)
    BY <2>1, ConcatProperties
  <2>3. \A k \in 1..(1 + Len(before)) : all[k] = IF k <= 1 THEN <<x>>[k] ELSE before[k - 1]
    BY <2>1, ConcatProperties
  <2> QED
    BY <1>1, <2>1, <2>2, <2>3
<1> HIDE DEF all
<1> SUFFICES /\ Latest(all) \in Seq({"ok", "fail"}) /\ Latest(all)[1] = x
             /\ Len(Latest(all)) <= MaxConsecutiveFailures
             /\ Len(Latest(all)) = IF Len(before) < MaxConsecutiveFailures THEN Len(before) + 1
                                   ELSE MaxConsecutiveFailures
             /\ \A k \in 2..Len(Latest(all)) : Latest(all)[k] = before[k - 1]
  BY DEF all
<1>3. CASE Len(all) <= MaxConsecutiveFailures
  <2>1. Latest(all) = all
    BY <1>3 DEF Latest
  <2> QED
    BY <1>1, <1>2, <1>3, <2>1, BoundsAreNat
<1>4. CASE Len(all) > MaxConsecutiveFailures
  <2>1. Len(before) = MaxConsecutiveFailures /\ Len(all) = MaxConsecutiveFailures + 1
    BY <1>1, <1>2, <1>4, BoundsAreNat
  <2>2. Latest(all) = SubSeq(all, 1, MaxConsecutiveFailures)
    BY <1>4, <2>1, BoundsAreNat DEF Latest, Front
  <2>3. /\ SubSeq(all, 1, MaxConsecutiveFailures) \in Seq({"ok", "fail"})
        /\ Len(SubSeq(all, 1, MaxConsecutiveFailures)) = MaxConsecutiveFailures
        /\ \A k \in 1..MaxConsecutiveFailures : SubSeq(all, 1, MaxConsecutiveFailures)[k] = all[k]
    BY <1>2, <2>1, BoundsAreNat, SubSeqProperties
  <2> QED
    BY <1>2, <2>1, <2>2, <2>3, BoundsAreNat
<1> QED
  BY <1>1, <1>2, <1>3, <1>4, BoundsAreNat

(***************************************************************************)
(* One result is counted, unless a guard has fired on the ones before it.  *)
(***************************************************************************)
LEMMA OneResultCounts ==
  ASSUME NEW s \in ResultTally, NEW r \in ToolCall, r.result # "none"
  PROVE  CountResult(s, r) \in ResultTally
<1> DEFINE D == MaxDedupesAfterWrite
           M == MaxConsecutiveFailures
<1>1. /\ s.failures \in 0..M /\ s.streak \in 0..D /\ s.wrote \in BOOLEAN
      /\ s.halted \in {"none", "failures", "dedupes"} /\ s.lately \in Seq({"ok", "fail"})
      /\ s.halted = "none" => s.streak < D
      /\ s.halted = "failures" <=> s.failures = M
      /\ EndsInFailures(s.failures, s.lately)
  BY DEF ResultTally
<1>2. CASE s.halted # "none"
  BY <1>2 DEF CountResult
<1>3. CASE s.halted = "none"
  <2> DEFINE n == Failures(s, r)
             d == Streak(s, r)
             w == s.wrote \/ (r.result = "ok" /\ r.call.tool \in {"write_file", "edit_file"})
             l == IF r.result \in {"ok", "fail"} THEN Latest(<<r.result>> \o s.lately)
                  ELSE s.lately
             h == CASE n >= M -> "failures" [] d >= D -> "dedupes" [] OTHER -> "none"
             t == [failures |-> n, streak |-> d, wrote |-> w, halted |-> h, lately |-> l]
  <2>1. CountResult(s, r) = t
    BY <1>3 DEF CountResult, Counted
  <2>2. r.result \in {"ok", "fail", "refused", "dedupe"}
    BY DEF ToolCall, Results
  <2>3. /\ r.result = "fail" => n = s.failures + 1
        /\ r.result = "ok" => n = 0
        /\ r.result \in {"refused", "dedupe"} => n = s.failures
    BY DEF Failures
  <2>4. d \in {0, s.streak + 1} /\ (r.result # "dedupe" => d = 0)
    BY DEF Streak
  <2> HIDE DEF n, d
  <2>5. n \in 0..M
    BY <1>1, <1>3, <2>2, <2>3, BoundsAreNat
  <2>6. d \in 0..D
    BY <1>1, <1>3, <2>4, BoundsAreNat
  <2>7. /\ h \in {"none", "failures", "dedupes"}
        /\ h = "failures" <=> n = M
        /\ h = "none" => d < D
    <3>1. M \in Nat /\ D \in Nat /\ n \in Nat /\ d \in Nat /\ (n >= M <=> n = M)
      BY <2>5, <2>6, BoundsAreNat
    <3>3. ~(n >= M /\ d >= D)
      BY <1>1, <1>3, <2>3, <2>4, <3>1, BoundsAreNat
    <3>2. /\ n >= M => h = "failures"
          /\ ~(n >= M) /\ d >= D => h = "dedupes"
          /\ ~(n >= M) /\ ~(d >= D) => h = "none"
      <4>1. ASSUME n >= M PROVE h = "failures"
        BY <3>1, <3>3, <4>1
      <4>2. ASSUME ~(n >= M), d >= D PROVE h = "dedupes"
        BY <3>1, <4>2
      <4>3. ASSUME ~(n >= M), ~(d >= D) PROVE h = "none"
        BY <3>1, <4>3
      <4> HIDE DEF h
      <4> QED
        BY <4>1, <4>2, <4>3
    <3> HIDE DEF h
    <3> QED
      BY <3>1, <3>2
  <2>8. w \in BOOLEAN
    BY <1>1
  <2> HIDE DEF w, h
  <2>9. l \in Seq({"ok", "fail"}) /\ EndsInFailures(n, l)
    <3>1. Len(s.lately) \in Nat /\ Len(s.lately) <= M /\ s.failures <= Len(s.lately)
      BY <1>1, LenProperties DEF EndsInFailures
    <3>2. CASE r.result \in {"refused", "dedupe"}
      BY <1>1, <2>3, <3>2
    <3>3. ASSUME r.result \in {"ok", "fail"}
          PROVE  /\ l \in Seq({"ok", "fail"}) /\ l[1] = r.result /\ Len(l) <= M
                 /\ Len(l) = IF Len(s.lately) < M THEN Len(s.lately) + 1 ELSE M
                 /\ \A k \in 2..Len(l) : l[k] = s.lately[k - 1]
      BY <1>1, <3>1, <3>3, LatestIs
    <3>4. CASE r.result = "ok"
      <4> HIDE DEF l
      <4>1. Len(l) > 0 /\ n = 0
        BY <2>3, <3>1, <3>3, <3>4, BoundsAreNat
      <4> QED
        BY <3>3, <3>4, <4>1 DEF EndsInFailures
    <3>5. CASE r.result = "fail"
      <4> HIDE DEF l
      <4>1. /\ n = s.failures + 1 /\ s.failures \in Nat /\ s.failures < M /\ M \in Nat
            /\ Len(l) = IF Len(s.lately) < M THEN Len(s.lately) + 1 ELSE M
        BY <1>1, <1>3, <2>3, <3>3, <3>5, BoundsAreNat
      <4>2. n <= Len(l)
        BY <3>1, <4>1
      <4>3. ASSUME NEW k \in 1..n PROVE l[k] = "fail"
        <5>1. CASE k = 1
          BY <3>3, <3>5, <5>1
        <5>2. CASE k # 1
          <6>1. k \in 2..Len(l) /\ k - 1 \in 1..s.failures
            BY <3>1, <4>1, <4>2, <5>2
          <6> QED
            BY <1>1, <3>3, <3>5, <6>1 DEF EndsInFailures
        <5> QED
          BY <5>1, <5>2
      <4>4. ASSUME n < Len(l) PROVE l[n + 1] = "ok"
        <5>1. n + 1 \in 2..Len(l) /\ n + 1 - 1 = n /\ s.failures < Len(s.lately)
          BY <3>1, <4>1, <4>4
        <5>2. l[n + 1] = s.lately[n]
          <6>1. \A k \in 2..Len(l) : l[k] = s.lately[k - 1]
            BY <3>3, <3>5
          <6> DEFINE k == n + 1
          <6>3. k \in 2..Len(l) /\ k - 1 = n
            BY <5>1, <4>1
          <6> HIDE DEF k
          <6>2. l[k] = s.lately[k - 1]
            BY <6>1, <6>3
          <6> QED
            BY <6>2, <6>3 DEF k
        <5> QED
          BY <1>1, <4>1, <5>1, <5>2 DEF EndsInFailures
      <4> QED
        BY <3>3, <3>5, <4>2, <4>3, <4>4 DEF EndsInFailures
    <3> QED
      BY <2>2, <3>2, <3>4, <3>5
  <2> HIDE DEF l
  <2>10. t \in ResultTally
    BY <2>5, <2>6, <2>7, <2>8, <2>9 DEF ResultTally
  <2> QED
    BY <2>1, <2>10
<1> QED
  BY <1>2, <1>3

TurnTyped ==
  /\ phase \in {"idle", "model", "tools", "drained", "ended"}
  /\ calls \in Seq(ToolCall) /\ Len(calls) <= MaxParallel
  /\ \A i \in DOMAIN calls : calls[i].at \in {"ran", "answered"} => calls[i].result # "none"
  /\ totalCalls \in 0..MaxTotalCalls /\ repeated \in [Watched -> 0..MaxRepeatedCalls]
  /\ consecutiveFailures \in 0..MaxConsecutiveFailures
  /\ dedupeStreak \in 0..MaxDedupesAfterWrite
  /\ wrote \in BOOLEAN /\ tripped \in BOOLEAN /\ announced \in BOOLEAN /\ nudged \in BOOLEAN
  /\ halted \in Halts /\ invocation \in 0..MaxInvocations /\ asked \in Nat
  /\ lately \in Seq({"ok", "fail"})
  /\ told \in [Reads -> SUBSET (Files \cup Contents)]

\* No bound is passed before its guard has fired, and flailing fires its own.
Budget ==
  /\ halted = "none" => /\ totalCalls < MaxTotalCalls /\ asked = totalCalls
                        /\ \A k \in Watched : repeated[k] < MaxRepeatedCalls
                        /\ dedupeStreak < MaxDedupesAfterWrite
  /\ CallsAreBounded
  /\ halted = "failures" <=> consecutiveFailures = MaxConsecutiveFailures
  /\ EndsInFailures(consecutiveFailures, lately)

TurnInv == TurnTyped /\ Budget

(***************************************************************************)
(* So the calls of a message are, by induction over them.                  *)
(***************************************************************************)
LEMMA MessageCounts ==
  ASSUME NEW message \in Messages, TurnInv, halted = "none"
  PROVE  /\ CallsCounted(message) \in CallTally
         /\ CallsCounted(message).halted = "none" =>
              CallsCounted(message).total = totalCalls + Len(message)
<1> DEFINE N == Len(message)
           V == CallTally
           start == [total |-> totalCalls, repeated |-> repeated, halted |-> halted]
           F(f) == [i \in 0..N |-> IF i = 0 THEN start ELSE CountCall(f[i - 1], message[i])]
           one(i, p) == CountCall(p, message[i])
           step == [i \in 1..N |-> [p \in V |-> one(i, p)]]
           h == CHOOSE f : f = F(f)
<1>1. /\ N \in Nat /\ \A i \in 1..N : message[i] \in Calls
      /\ totalCalls \in Nat
  BY SubagentTurnAssumption, LenProperties, ElementOfSeq DEF TurnInv, TurnTyped
<1>2. start \in V
  BY DEF CallTally, TurnInv, TurnTyped, Budget
<1>3. \A i \in 1..N, p \in V :
        one(i, p) \in V /\ (one(i, p).halted = "none" => p.halted = "none" /\ one(i, p).total = p.total + 1)
  BY <1>1, OneCallCounts
<1>4. \A f : \A i \in 0..N : F(f)[i] = IF i = 0 THEN start ELSE one(i, f[i - 1])
  OBVIOUS
<1>5. CallsCounted(message) = h[N]
  BY DEF CallsCounted
<1> HIDE DEF V, start, one, N
<1>6. step \in [1..N -> [V -> V]]
  BY <1>3
<1>7. \A i \in 1..N, p \in V : step[i][p] = one(i, p)
  OBVIOUS
<1> HIDE DEF step
<1>8. PICK g \in [0..N -> V] : g[0] = start /\ \A i \in 1..N : g[i] = step[i][g[i - 1]]
  <2>1. step \in Steps(N, V)
    BY <1>6 DEF Steps
  <2>2. Computed(N, V, start, step)
    BY <1>1, <1>2, <2>1, RecursionExists
  <2> QED
    BY <2>2 DEF Computed
<1>9. \A i \in 1..N : i - 1 \in 0..N /\ g[i] = one(i, g[i - 1])
  <2> SUFFICES ASSUME NEW i \in 1..N PROVE i - 1 \in 0..N /\ g[i] = one(i, g[i - 1])
    OBVIOUS
  <2>1. i - 1 \in 0..N
    BY <1>1
  <2>2. g[i - 1] \in V
    BY <2>1
  <2> QED
    BY <2>1, <2>2, <1>7, <1>8
<1>10. g = F(g)
  <2>1. DOMAIN F(g) = 0..N /\ DOMAIN g = 0..N
    OBVIOUS
  <2>2. \A i \in 0..N : F(g)[i] = g[i]
    <3> SUFFICES ASSUME NEW i \in 0..N PROVE F(g)[i] = g[i]
      OBVIOUS
    <3>1. F(g)[i] = IF i = 0 THEN start ELSE one(i, g[i - 1])
      BY <1>4
    <3>2. i # 0 => i \in 1..N
      BY <1>1
    <3> QED
      BY <3>1, <3>2, <1>8, <1>9
  <2>3. F(g) = [i \in 0..N |-> F(g)[i]] /\ g = [i \in 0..N |-> g[i]]
    OBVIOUS
  <2> HIDE DEF F
  <2> QED
    BY <2>2, <2>3
<1>11. h = F(h)
  <2> HIDE DEF F
  <2> QED
    BY <1>10, Zenon
<1> HIDE DEF h, F
<1>12. h[0] = start /\ \A i \in 1..N : h[i] = one(i, h[i - 1])
  <2>1. \A i \in 0..N : h[i] = IF i = 0 THEN start ELSE one(i, h[i - 1])
    BY <1>4, <1>11
  <2>2. 0 \in 0..N /\ \A i \in 1..N : i \in 0..N /\ i # 0
    BY <1>1
  <2> QED
    BY <2>1, <2>2
<1>13. \A i \in 0..N : h[i] \in V
  <2>1. \A i \in 1..N : h[i - 1] \in V => h[i] \in V
    BY <1>3, <1>12
  <2> QED
    BY <1>1, <1>2, <1>12, <2>1, StaysIn
<1> DEFINE T == {n \in 0..N : h[n].halted = "none" => h[n].total = totalCalls + n}
<1>14. 0 \in T
  BY <1>1, <1>12 DEF start
<1>15. ASSUME NEW n \in 0..N, n < N, n \in T
       PROVE  n + 1 \in T
  <2>1. n + 1 \in 0..N /\ n + 1 \in 1..N /\ n + 1 - 1 = n
    BY <1>1, <1>15
  <2>2. h[n + 1] = one(n + 1, h[n]) /\ h[n] \in V
    BY <2>1, <1>12, <1>13
  <2>3. h[n + 1].halted = "none" => h[n].halted = "none" /\ h[n + 1].total = h[n].total + 1
    BY <2>1, <2>2, <1>3
  <2>4. h[n + 1].halted = "none" => h[n + 1].total = totalCalls + (n + 1)
    BY <1>1, <1>15, <2>3
  <2> QED
    BY <2>1, <2>4
<1> HIDE DEF T
<1>16. N \in T
  <2>1. N \in 0..N
    BY <1>1
  <2> QED
    BY <2>1, <1>1, <1>14, <1>15, Inductive
<1>17. h[N] \in V
  BY <1>1, <1>13
<1> QED
  BY <1>5, <1>16, <1>17 DEF T, V, N

(***************************************************************************)
(* And the results of a message are.                                       *)
(***************************************************************************)
LEMMA ResultsCount ==
  ASSUME TurnInv, Gathered, halted = "none"
  PROVE  ResultsCounted \in ResultTally
<1> DEFINE N == Len(calls)
           V == ResultTally
           start == [failures |-> consecutiveFailures, streak |-> dedupeStreak, wrote |-> wrote,
                     halted |-> halted, lately |-> lately]
           F(f) == [i \in 0..N |-> IF i = 0 THEN start ELSE CountResult(f[i - 1], calls[i])]
           one(i, p) == CountResult(p, calls[i])
           step == [i \in 1..N |-> [p \in V |-> one(i, p)]]
           h == CHOOSE f : f = F(f)
<1>1. N \in Nat /\ \A i \in 1..N : calls[i] \in ToolCall /\ calls[i].result # "none"
  <2>1. calls \in Seq(ToolCall) /\ N \in Nat /\ DOMAIN calls = 1..N
    BY LenProperties DEF TurnInv, TurnTyped
  <2>2. \A i \in DOMAIN calls : calls[i].at = "answered" => calls[i].result # "none"
    BY DEF TurnInv, TurnTyped
  <2> QED
    BY <2>1, <2>2 DEF Gathered
<1>2. start \in V
  BY BoundsAreNat DEF ResultTally, TurnInv, TurnTyped, Budget
<1>3. \A i \in 1..N, p \in V : one(i, p) \in V
  BY <1>1, OneResultCounts
<1>4. \A f : \A i \in 0..N : F(f)[i] = IF i = 0 THEN start ELSE one(i, f[i - 1])
  OBVIOUS
<1>5. ResultsCounted = h[N]
  BY DEF ResultsCounted
<1> HIDE DEF V, start, one, N
<1>6. step \in [1..N -> [V -> V]]
  BY <1>3
<1>7. \A i \in 1..N, p \in V : step[i][p] = one(i, p)
  OBVIOUS
<1> HIDE DEF step
<1>8. PICK g \in [0..N -> V] : g[0] = start /\ \A i \in 1..N : g[i] = step[i][g[i - 1]]
  <2>1. step \in Steps(N, V)
    BY <1>6 DEF Steps
  <2>2. Computed(N, V, start, step)
    BY <1>1, <1>2, <2>1, RecursionExists
  <2> QED
    BY <2>2 DEF Computed
<1>9. \A i \in 1..N : i - 1 \in 0..N /\ g[i] = one(i, g[i - 1])
  <2> SUFFICES ASSUME NEW i \in 1..N PROVE i - 1 \in 0..N /\ g[i] = one(i, g[i - 1])
    OBVIOUS
  <2>1. i - 1 \in 0..N
    BY <1>1
  <2>2. g[i - 1] \in V
    BY <2>1
  <2> QED
    BY <2>1, <2>2, <1>7, <1>8
<1>10. g = F(g)
  <2>1. DOMAIN F(g) = 0..N /\ DOMAIN g = 0..N
    OBVIOUS
  <2>2. \A i \in 0..N : F(g)[i] = g[i]
    <3> SUFFICES ASSUME NEW i \in 0..N PROVE F(g)[i] = g[i]
      OBVIOUS
    <3>1. F(g)[i] = IF i = 0 THEN start ELSE one(i, g[i - 1])
      BY <1>4
    <3>2. i # 0 => i \in 1..N
      BY <1>1
    <3> QED
      BY <3>1, <3>2, <1>8, <1>9
  <2>3. F(g) = [i \in 0..N |-> F(g)[i]] /\ g = [i \in 0..N |-> g[i]]
    OBVIOUS
  <2> HIDE DEF F
  <2> QED
    BY <2>2, <2>3
<1>11. h = F(h)
  <2> HIDE DEF F
  <2> QED
    BY <1>10, Zenon
<1> HIDE DEF h, F
<1>12. h[0] = start /\ \A i \in 1..N : h[i] = one(i, h[i - 1])
  <2>1. \A i \in 0..N : h[i] = IF i = 0 THEN start ELSE one(i, h[i - 1])
    BY <1>4, <1>11
  <2>2. 0 \in 0..N /\ \A i \in 1..N : i \in 0..N /\ i # 0
    BY <1>1
  <2> QED
    BY <2>1, <2>2
<1>13. \A i \in 0..N : h[i] \in V
  <2>1. \A i \in 1..N : h[i - 1] \in V => h[i] \in V
    BY <1>3, <1>12
  <2> QED
    BY <1>1, <1>2, <1>12, <2>1, StaysIn
<1> QED
  BY <1>1, <1>5, <1>13 DEF V

LEMMA FoundIs ==
  ASSUME NEW c \in Reads, disk \in Disks
  PROVE  Found(c, disk) \in SUBSET (Files \cup Contents)
<1>1. c \in Calls
  BY DEF Calls
<1>2. c.path \in Files \cup Folders
  BY <1>1, CallKinds
<1>3. CASE c.path \in Folders
  BY <1>3, RepeatGuardAssumption DEF Found
<1>4. CASE c.path \notin Folders
  <2>1. disk[c.path] \in Contents \cup {Nothing}
    BY <1>2, <1>4 DEF Disks
  <2> QED
    BY <1>4, <2>1 DEF Found
<1> QED
  BY <1>3, <1>4

LEMMA CountsStart == Init => TurnInv
<1> SUFFICES ASSUME Init PROVE TurnInv
  OBVIOUS
<1>1. /\ NoRepeats \in [Watched -> 0..MaxRepeatedCalls]
      /\ \A k \in Watched : NoRepeats[k] < MaxRepeatedCalls
  BY BoundsAreNat DEF NoRepeats
<1>2. EndsInFailures(0, <<>>)
  BY BoundsAreNat DEF EndsInFailures
<1>3. <<>> \in Seq(ToolCall) /\ <<>> \in Seq({"ok", "fail"}) /\ Len(<<>>) = 0 /\ DOMAIN <<>> = {}
  OBVIOUS
<1>4. TurnTyped
  <2>1. /\ phase = "idle" /\ calls = <<>> /\ totalCalls = 0 /\ repeated = NoRepeats
        /\ consecutiveFailures = 0 /\ dedupeStreak = 0 /\ wrote = FALSE
        /\ halted = "none" /\ tripped = FALSE /\ announced = FALSE /\ nudged = FALSE
        /\ invocation = 0 /\ asked = 0 /\ lately = <<>> /\ told = [c \in Reads |-> {}]
    BY DEF Init
  <2>2. told \in [Reads -> SUBSET (Files \cup Contents)]
    BY <2>1
  <2>3. /\ 0 \in 0..MaxTotalCalls /\ 0 \in 0..MaxConsecutiveFailures /\ 0 \in 0..MaxDedupesAfterWrite
        /\ 0 \in 0..MaxInvocations /\ 0 <= MaxParallel
    BY BoundsAreNat
  <2> QED
    BY <1>1, <1>3, <2>1, <2>2, <2>3 DEF TurnTyped, Halts
<1>5. Budget
  BY <1>1, <1>2, BoundsAreNat DEF Init, Budget, CallsAreBounded
<1> QED
  BY <1>4, <1>5 DEF TurnInv

LEMMA InvokeCounts == TurnInv /\ Invoke => TurnInv'
<1> SUFFICES ASSUME TurnInv, Invoke PROVE TurnInv'
  OBVIOUS
<1>1. /\ NoRepeats \in [Watched -> 0..MaxRepeatedCalls]
      /\ \A k \in Watched : NoRepeats[k] < MaxRepeatedCalls
  BY BoundsAreNat DEF NoRepeats
<1>2. EndsInFailures(0, <<>>)
  BY BoundsAreNat DEF EndsInFailures
<1>3. <<>> \in Seq(ToolCall) /\ <<>> \in Seq({"ok", "fail"}) /\ Len(<<>>) = 0 /\ DOMAIN <<>> = {}
  OBVIOUS
<1>4. invocation' \in 0..MaxInvocations
  BY BoundsAreNat DEF Invoke, TurnInv, TurnTyped
<1>5. TurnTyped'
  <2>1. /\ phase' \in {"model", "ended"} /\ calls' = <<>> /\ totalCalls' = 0 /\ repeated' = NoRepeats
        /\ consecutiveFailures' = 0 /\ dedupeStreak' = 0 /\ wrote' = FALSE
        /\ halted' = "none" /\ tripped' = FALSE /\ announced' = FALSE /\ nudged' = FALSE
        /\ asked' = 0 /\ lately' = <<>> /\ told' = [c \in Reads |-> {}]
    BY DEF Invoke
  <2>2. told' \in [Reads -> SUBSET (Files \cup Contents)]
    BY <2>1
  <2>3. /\ 0 \in 0..MaxTotalCalls /\ 0 \in 0..MaxConsecutiveFailures /\ 0 \in 0..MaxDedupesAfterWrite
        /\ 0 <= MaxParallel
    BY BoundsAreNat
  <2> QED
    BY <1>1, <1>3, <1>4, <2>1, <2>2, <2>3 DEF TurnTyped, Halts
<1>6. Budget'
  BY <1>1, <1>2, BoundsAreNat DEF Invoke, Budget, CallsAreBounded, EndsInFailures
<1> QED
  BY <1>5, <1>6 DEF TurnInv

LEMMA AsksCounts ==
  ASSUME TurnInv, NEW message \in Messages, Asks(message)
  PROVE  TurnInv'
<1> DEFINE s == CallsCounted(message)
<1>1. /\ message \in Seq(Calls) /\ Len(message) \in 1..MaxParallel /\ DOMAIN message = 1..Len(message)
      /\ \A i \in DOMAIN message : message[i] \in Calls
  BY SubagentTurnAssumption, LenProperties, ElementOfSeq
<1>2. /\ phase' = "tools" /\ halted = "none"
      /\ totalCalls' = s.total /\ repeated' = s.repeated /\ halted' = s.halted
      /\ calls' = [i \in DOMAIN message |-> [call |-> message[i], at |-> "asked", result |-> "none"]]
      /\ asked' = asked + Len(message)
      /\ UNCHANGED <<consecutiveFailures, dedupeStreak, wrote, tripped, announced, nudged,
                     invocation, lately, told>>
  BY DEF Asks, seenVars
<1>3. s \in CallTally /\ (s.halted = "none" => s.total = totalCalls + Len(message))
  BY <1>2, MessageCounts
<1> HIDE DEF s
<1>4. /\ calls' \in Seq(ToolCall) /\ Len(calls') = Len(message)
      /\ \A i \in DOMAIN calls' : calls'[i].at = "asked"
  <2> DEFINE n == Len(message)
             made(i) == [call |-> message[i], at |-> "asked", result |-> "none"]
  <2>1. n \in Nat /\ calls' = [i \in 1..n |-> made(i)] /\ \A i \in 1..n : made(i) \in ToolCall
    BY <1>1, <1>2, BoundsAreNat DEF ToolCall, Results
  <2> HIDE DEF made, n
  <2>2. calls' \in Seq(ToolCall) /\ Len(calls') = n /\ DOMAIN calls' = 1..n
    BY <2>1
  <2>3. \A i \in 1..n : made(i).at = "asked"
    BY DEF made
  <2> QED
    BY <2>1, <2>2, <2>3 DEF n
<1>5. /\ totalCalls' \in 0..MaxTotalCalls /\ repeated' \in [Watched -> 0..MaxRepeatedCalls]
      /\ halted' \in {"none", "calls", "repeated"}
      /\ halted' = "none" => totalCalls' < MaxTotalCalls
                             /\ \A k \in Watched : repeated'[k] < MaxRepeatedCalls
  BY <1>2, <1>3 DEF CallTally
<1>6. TurnTyped'
  <2>1. asked' \in Nat /\ Len(calls') <= MaxParallel
    BY <1>1, <1>2, <1>4, BoundsAreNat DEF TurnInv, TurnTyped
  <2> QED
    BY <1>2, <1>4, <1>5, <2>1 DEF TurnInv, TurnTyped, Halts
<1>7. asked = totalCalls /\ totalCalls < MaxTotalCalls /\ totalCalls \in Nat /\ dedupeStreak < MaxDedupesAfterWrite
  BY <1>2 DEF TurnInv, Budget, TurnTyped
<1>8. asked' <= MaxTotalCalls - 1 + MaxParallel
  BY <1>1, <1>2, <1>7, BoundsAreNat
<1>9. halted' = "none" => asked' = totalCalls'
  BY <1>2, <1>3, <1>7
<1>10. consecutiveFailures # MaxConsecutiveFailures /\ EndsInFailures(consecutiveFailures, lately)
  BY <1>2 DEF TurnInv, Budget
<1>11. Budget'
  BY <1>2, <1>5, <1>7, <1>8, <1>9, <1>10 DEF Budget, CallsAreBounded
<1> QED
  BY <1>6, <1>11 DEF TurnInv

\* A step that counts nothing, and leaves the calls as they are or none.
LEMMA CountsStay ==
  ASSUME TurnInv, UNCHANGED <<countVars, invocation, asked, lately, told>>,
         calls' \in {<<>>, calls},
         phase' \in {"idle", "model", "tools", "drained", "ended"},
         tripped' \in BOOLEAN, announced' \in BOOLEAN, nudged' \in BOOLEAN,
         halted' = halted \/ (halted = "none" /\ halted' = "seconds")
  PROVE  TurnInv'
<1>1. <<>> \in Seq(ToolCall) /\ Len(<<>>) = 0 /\ DOMAIN <<>> = {}
  OBVIOUS
<1>2. /\ calls' \in Seq(ToolCall) /\ Len(calls') <= MaxParallel
      /\ \A i \in DOMAIN calls' : calls'[i].at \in {"ran", "answered"} => calls'[i].result # "none"
  <2>1. CASE calls' = <<>>
    BY <1>1, <2>1, BoundsAreNat
  <2>2. CASE calls' = calls
    BY <2>2 DEF TurnInv, TurnTyped
  <2> QED
    BY <2>1, <2>2
<1>3. halted' \in Halts
  BY DEF TurnInv, TurnTyped, Halts
<1>4. TurnTyped'
  BY <1>2, <1>3 DEF TurnInv, TurnTyped, countVars
<1>5. Budget'
  BY DEF TurnInv, Budget, CallsAreBounded, countVars
<1> QED
  BY <1>4, <1>5 DEF TurnInv

LEMMA TurnCounts ==
  ASSUME TurnInv, Finishes \/ OutOfTime \/ Raises \/ Breaks \/ LeaveResults \/ Nudge \/ End
  PROVE  TurnInv'
<1>1. tripped \in BOOLEAN /\ announced \in BOOLEAN /\ nudged \in BOOLEAN
  BY DEF TurnInv, TurnTyped
<1>2. /\ UNCHANGED <<countVars, invocation, asked, lately, told>>
      /\ phase' \in {"drained", "ended", "model"}
  BY DEF Finishes, OutOfTime, Raises, Breaks, LeaveResults, Nudge, End, Drains, seenVars
<1>3. calls' \in {<<>>, calls}
  BY DEF Finishes, OutOfTime, Raises, Breaks, LeaveResults, Nudge, End, Drains
<1>4. halted' = halted \/ (halted = "none" /\ halted' = "seconds")
  BY DEF Finishes, OutOfTime, Raises, Breaks, LeaveResults, Nudge, End, Verdict
<1>5. tripped' \in BOOLEAN /\ announced' \in BOOLEAN /\ nudged' \in BOOLEAN
  BY <1>1 DEF Finishes, OutOfTime, Raises, Breaks, LeaveResults, Nudge, End, Drains
<1> QED
  BY <1>2, <1>3, <1>4, <1>5, CountsStay

LEMMA ReadCounts == TurnInv /\ ReadResults => TurnInv'
<1> SUFFICES ASSUME TurnInv, ReadResults PROVE TurnInv'
  OBVIOUS
<1> DEFINE s == ResultsCounted
<1>1. /\ halted = "none" /\ Gathered /\ phase' = "model" /\ calls' = <<>>
      /\ consecutiveFailures' = s.failures /\ dedupeStreak' = s.streak
      /\ wrote' = s.wrote /\ halted' = s.halted /\ lately' = s.lately
      /\ UNCHANGED <<totalCalls, repeated, tripped, announced, nudged, invocation, asked, told>>
  BY DEF ReadResults, seenVars
<1>2. s \in ResultTally
  BY <1>1, ResultsCount
<1> HIDE DEF s
<1>3. <<>> \in Seq(ToolCall) /\ Len(<<>>) = 0 /\ DOMAIN <<>> = {}
  OBVIOUS
<1>4. TurnTyped'
  BY <1>1, <1>2, <1>3, BoundsAreNat DEF ResultTally, TurnInv, TurnTyped, Halts
<1>5. Budget'
  BY <1>1, <1>2 DEF ResultTally, TurnInv, Budget, CallsAreBounded
<1> QED
  BY <1>4, <1>5 DEF TurnInv

\* One call moves.
LEMMA MoveCounts ==
  ASSUME TurnInv, NEW i \in DOMAIN calls,
         NEW after \in ToolCall, calls' = [calls EXCEPT ![i] = after],
         after.at \in {"ran", "answered"} => after.result # "none",
         UNCHANGED <<phase, countVars, halted, tripped, announced, nudged, invocation, asked, lately>>,
         told' \in [Reads -> SUBSET (Files \cup Contents)]
  PROVE  TurnInv'
<1>1. calls \in Seq(ToolCall) /\ Len(calls) <= MaxParallel /\ DOMAIN calls = 1..Len(calls)
  BY LenProperties DEF TurnInv, TurnTyped
<1>2. /\ calls' \in Seq(ToolCall) /\ Len(calls') = Len(calls)
      /\ \A j \in 1..Len(calls) : calls'[j] = IF j = i THEN after ELSE calls[j]
  BY <1>1, ExceptSeq
<1>3. \A j \in DOMAIN calls' : calls'[j].at \in {"ran", "answered"} => calls'[j].result # "none"
  BY <1>1, <1>2, LenProperties DEF TurnInv, TurnTyped
<1>4. TurnTyped'
  BY <1>1, <1>2, <1>3 DEF TurnInv, TurnTyped, countVars
<1>5. Budget'
  BY DEF TurnInv, Budget, CallsAreBounded, countVars
<1> QED
  BY <1>4, <1>5 DEF TurnInv

LEMMA ToolCounts ==
  ASSUME TurnInv, GuardInv, NEW i \in DOMAIN calls, Denied(i) \/ Check(i) \/ Run(i) \/ Record(i)
  PROVE  TurnInv'
<1>1. calls[i] \in ToolCall /\ calls[i].call \in Calls /\ disk \in Disks
  BY DEF GuardInv, GuardTyped, ToolCall
<1>2. told \in [Reads -> SUBSET (Files \cup Contents)]
  BY DEF TurnInv, TurnTyped
<1>3. UNCHANGED <<phase, countVars, halted, tripped, announced, nudged, invocation, asked, lately>>
  BY DEF Denied, Check, Run, Record
<1>4. CASE Denied(i)
  <2> DEFINE after == [calls[i] EXCEPT !.at = "answered", !.result = "fail"]
  <2>1. calls' = [calls EXCEPT ![i] = after] /\ told' = told
    BY <1>4 DEF Denied, Answered, seenVars
  <2>2. after \in ToolCall /\ after.result = "fail"
    BY <1>1 DEF ToolCall, Results
  <2> HIDE DEF after
  <2> QED
    BY <1>2, <1>3, <2>1, <2>2, MoveCounts
<1>5. CASE Check(i)
  <2> DEFINE result == Refusal(calls[i].call)
  <2>1. result \in {"none", "refused", "dedupe"} /\ told' = told
    BY <1>5 DEF Refusal, Check
  <2>2. CASE result = "none"
    <3> DEFINE after == [calls[i] EXCEPT !.at = "running"]
    <3>1. calls' = [calls EXCEPT ![i] = after]
      BY <1>5, <2>2 DEF Check
    <3>2. after \in ToolCall /\ after.at = "running"
      BY <1>1 DEF ToolCall
    <3> HIDE DEF after
    <3> QED
      BY <1>2, <1>3, <2>1, <3>1, <3>2, MoveCounts
  <2>3. CASE result # "none"
    <3> DEFINE after == [calls[i] EXCEPT !.at = "answered", !.result = result]
    <3>1. calls' = [calls EXCEPT ![i] = after]
      BY <1>5, <2>3 DEF Check, Answered
    <3> HIDE DEF result
    <3>2. after \in ToolCall /\ after.result # "none"
      BY <1>1, <2>1, <2>3 DEF ToolCall, Results
    <3> HIDE DEF after
    <3> QED
      BY <1>2, <1>3, <2>1, <3>1, <3>2, MoveCounts
  <2> QED
    BY <2>2, <2>3
<1>6. CASE Run(i)
  <2> DEFINE c == calls[i].call
  <2>1. PICK result \in {"ok", "fail"} :
          /\ calls' = [calls EXCEPT ![i] = [calls[i] EXCEPT !.at = "ran", !.result = result]]
          /\ c \in Reads => told' = [told EXCEPT ![c] = Found(c, disk)]
          /\ c \notin Reads => told' = told
    BY <1>6, RunDoes
  <2> DEFINE after == [calls[i] EXCEPT !.at = "ran", !.result = result]
  <2>2. calls' = [calls EXCEPT ![i] = after]
    BY <2>1
  <2>3. after \in ToolCall /\ after.result # "none"
    BY <1>1 DEF ToolCall, Results
  <2> HIDE DEF after, c
  <2>4. told' \in [Reads -> SUBSET (Files \cup Contents)]
    <3>1. CASE c \in Reads
      <4>1. Found(c, disk) \in SUBSET (Files \cup Contents)
        BY <1>1, <3>1, FoundIs
      <4> QED
        BY <1>2, <2>1, <3>1, <4>1
    <3> QED
      BY <1>2, <2>1, <3>1
  <2> QED
    BY <1>3, <2>2, <2>3, <2>4, MoveCounts
<1>7. CASE Record(i)
  <2> DEFINE after == [calls[i] EXCEPT !.at = "answered"]
  <2>1. calls' = [calls EXCEPT ![i] = after] /\ told' = told /\ calls[i].at = "ran"
    BY <1>7 DEF Record, seenVars
  <2>2. calls[i].result # "none"
    BY <2>1 DEF TurnInv, TurnTyped
  <2>3. after \in ToolCall /\ after.result # "none"
    BY <1>1, <2>2 DEF ToolCall
  <2> HIDE DEF after
  <2> QED
    BY <1>2, <1>3, <2>1, <2>3, MoveCounts
<1> QED
  BY <1>4, <1>5, <1>6, <1>7

LEMMA TurnStep == TurnInv /\ GuardInv /\ [Next]_vars => TurnInv'
<1> SUFFICES ASSUME TurnInv, GuardInv, [Next]_vars PROVE TurnInv'
  OBVIOUS
<1>1. CASE UNCHANGED vars
  BY <1>1 DEF vars, countVars, seenVars, TurnInv, TurnTyped, Budget, CallsAreBounded
<1>2. CASE Invoke
  BY <1>2, InvokeCounts
<1>3. CASE \E message \in Messages : Asks(message)
  BY <1>3, AsksCounts
<1>4. CASE Finishes \/ OutOfTime \/ Raises \/ Breaks \/ LeaveResults \/ Nudge \/ End
  BY <1>4, TurnCounts
<1>5. CASE ReadResults
  BY <1>5, ReadCounts
<1>6. CASE ToolStep
  BY <1>6, ToolCounts DEF ToolStep
<1> QED
  BY <1>1, <1>2, <1>3, <1>4, <1>5, <1>6 DEF Next, Step, ModelStep, ReaderStep

\* The counters of run_subagent, against the calls and results they count.
THEOREM TurnInvariant == Spec => []TurnInv
  BY CountsStart, TurnStep, GuardInvariant, PTL DEF Spec

(***************************************************************************)
(* run_subagent halts an agent for its failures exactly when the last      *)
(* calls that ran or were denied all failed, for any bound and any         *)
(* interleaving of refusals with them.                                     *)
(***************************************************************************)
LEMMA FlailingCounted == TurnInv => FlailingIsStopped
<1> SUFFICES ASSUME TurnInv PROVE FlailingIsStopped
  OBVIOUS
<1> DEFINE n == consecutiveFailures
           M == MaxConsecutiveFailures
<1>1. /\ n \in 0..M /\ lately \in Seq({"ok", "fail"}) /\ Len(lately) \in Nat
      /\ halted = "failures" <=> n = M
      /\ Len(lately) <= M /\ n <= Len(lately)
      /\ \A k \in 1..n : lately[k] = "fail"
      /\ n < Len(lately) => lately[n + 1] = "ok"
  BY LenProperties DEF TurnInv, TurnTyped, Budget, EndsInFailures
<1> HIDE DEF n
<1>2. ASSUME n = M PROVE Flailing
  <2>1. Len(lately) = M /\ \A k \in 1..M : lately[k] = "fail"
    BY <1>1, <1>2, BoundsAreNat
  <2>2. lately = [k \in 1..M |-> lately[k]]
    BY <1>1, <2>1, LenProperties
  <2> QED
    BY <2>1, <2>2 DEF Flailing
<1>3. ASSUME Flailing, n # M PROVE FALSE
  <2>1. DOMAIN lately = 1..M /\ \A k \in 1..M : lately[k] = "fail"
    BY <1>3 DEF Flailing
  <2>2. Len(lately) = M
    BY <1>1, <2>1, LenProperties, BoundsAreNat
  <2>3. n + 1 \in 1..M /\ n < Len(lately)
    BY <1>1, <1>3, <2>2, BoundsAreNat
  <2>4. lately[n + 1] = "ok" /\ lately[n + 1] = "fail"
    BY <1>1, <2>1, <2>3
  <2> QED
    BY <2>4
<1> QED
  BY <1>1, <1>2, <1>3 DEF FlailingIsStopped

\* MAX_CONSECUTIVE_FAILURES stops an agent whose last calls all failed, and no other.
THEOREM FlailingStops == Spec => []FlailingIsStopped
  BY TurnInvariant, FlailingCounted, PTL

(***************************************************************************)
(* MAX_TOTAL_CALLS bounds an invocation, its second turn included, up to   *)
(* the siblings of the call that reached it.                               *)
(***************************************************************************)
THEOREM CallsStayBounded == Spec => []CallsAreBounded
<1>1. TurnInv => CallsAreBounded
  BY DEF TurnInv, Budget
<1> QED
  BY <1>1, TurnInvariant, PTL

LEMMA TurnTypes == TurnInv /\ GuardInv => TypeOK
<1> SUFFICES ASSUME TurnInv, GuardInv PROVE TypeOK
  OBVIOUS
<1>1. {wrote, tripped, announced, nudged, overlapped, subtree} \subseteq BOOLEAN
  BY DEF TurnInv, TurnTyped, GuardInv, GuardTyped
<1> QED
  BY <1>1 DEF TurnInv, TurnTyped, GuardInv, GuardTyped, TypeOK

\* Every variable of an invocation keeps its type, each counter within its bound.
THEOREM TurnTypeCorrect == Spec => []TypeOK
  BY TurnInvariant, GuardInvariant, TurnTypes, PTL

-----------------------------------------------------------------------------
(***************************************************************************)
(* The three side by side: each of them takes its own steps or stands      *)
(* still, so what is invariant of it alone is invariant of the whole.      *)
(***************************************************************************)
LEMMA AgentParts ==
  /\ AgentInit => Init /\ ToolChainInit /\ GutterEditInit
  /\ [AgentNext]_agentVars => [Next]_vars /\ [ToolChainNext]_tcVars /\ [GutterEditNext]_geVars
<1>1. AgentInit => Init /\ ToolChainInit /\ GutterEditInit
  BY DEF AgentInit
<1>2. UNCHANGED agentVars => UNCHANGED vars /\ UNCHANGED tcVars /\ UNCHANGED geVars
  BY DEF agentVars
<1>3. AgentNext => [Next]_vars /\ [ToolChainNext]_tcVars /\ [GutterEditNext]_geVars
  BY DEF AgentNext, OfTurn
<1> QED
  BY <1>1, <1>2, <1>3

(***************************************************************************)
(* The variables of an agent's turn, stack and edits keep their types in   *)
(* the machine TLC runs, for every value of its constants.                 *)
(***************************************************************************)
THEOREM AgentTypeCorrect == AgentSpec => []AgentTypeOK
<1> DEFINE AgentInv == TurnInv /\ GuardInv /\ ChainInv /\ EditInv
<1>1. AgentInit => AgentInv
  BY AgentParts, CountsStart, TurnStarts, ChainStarts, EditsStart
<1>2. AgentInv /\ [AgentNext]_agentVars => AgentInv'
  BY AgentParts, TurnStep, GuardStep, ChainStep, EditStep
<1>3. AgentInv => AgentTypeOK
  BY TurnTypes, ChainTypes, EditTypes DEF AgentTypeOK
<1> QED
  BY <1>1, <1>2, <1>3, PTL DEF AgentSpec

=============================================================================
