-------------------------------- MODULE MCAgent --------------------------------
(***************************************************************************)
(* One instance each of SubagentTurn, ToolChain and GutterEdit for TLC:    *)
(* what becomes of an agent's calls in its turn, in its stack and against  *)
(* the file.  The three share no variable; a behaviour is of the machine   *)
(* `part` names, the others rest.                                          *)
(***************************************************************************)
EXTENDS MCSubagentTurn, ToolChain, GutterEdit

VARIABLE part

-----------------------------------------------------------------------------
\* ToolChain: the agents as they are built, and calls each stage has a word on.
ChainRoles == {"coder", "tester", "reviewer", "planner", "greenfield planner"}
ChainGranted == [r \in ChainRoles |->
  CASE r = "coder" -> {"ls", "read_file", "glob", "grep", "write_file", "edit_file", "execute"}
    [] r = "tester" -> {"ls", "read_file", "glob", "grep", "write_file", "run_tests"}
    [] r = "reviewer" -> {"read_file", "grep"}
    [] r = "planner" -> {"read_file", "glob", "grep", "add_tasks"}
    [] r = "greenfield planner" -> {"record_fact"}]

Plain(tool, path, text) ==
  [tool |-> tool, path |-> path, text |-> text, old |-> "exact", aliased |-> FALSE, fenced |-> FALSE]

ChainCalls ==
  {Plain("write_file", p, "source") : p \in {"module", "test.html", "tmp/DONE", "tmp/x/notes"}}
  \cup {[Plain("write_file", "module", "literal") EXCEPT !.fenced = TRUE],
        [Plain("write_file", "directory", "comment") EXCEPT !.aliased = TRUE],
        Plain("write_file", "DONE", "announcement"), Plain("bash", "module", "source"),
        Plain("exit", "module", "source"), Plain("grep", "machine", "source"),
        Plain("execute", "module", "cd")}
  \cup {[Plain("edit_file", "module", "literal") EXCEPT !.old = o] :
          o \in {"exact", "guttered", "ambiguous", "absent"}}

-----------------------------------------------------------------------------
\* GutterEdit: files in which the lines an edit names occur once or twice.
ChainFiles ==
  {<<Line("a", i), Line("b", 2), Line("", 0), Line("a", k), Line("b", 4)>> :
     i \in {0, 2}, k \in {0, 2}}
  \cup {<<Line("a", 2), Line("b", 2), Line("c", 4)>>}
ChainReplacements ==
  {<<Line("c", 0)>>, <<Line("a", 0), Line("b", 0)>>, <<Line("c", 2), Line("", 0), Line("b", 4)>>}

-----------------------------------------------------------------------------
OfTurn == part = "turn" /\ UNCHANGED <<part, tcVars, geVars>>

\* Where a machine rests: one of its own initial states.
TurnRests == disk = CHOOSE d \in Disks : TRUE
ChainRests == tcRole = "coder" /\ tcCall = Plain("execute", "module", "cd")
EditRests ==
  /\ geFile = <<Line("a", 2), Line("b", 2), Line("c", 4)>>
  /\ geRead = geFile /\ geEdit = [t \in EditThreads |-> EditOf(1, 1, <<Line("c", 0)>>, 0)]

AgentInit ==
  /\ part \in {"turn", "chain", "edit"}
  /\ part # "turn" => TurnRests
  /\ part # "chain" => ChainRests
  /\ part # "edit" => EditRests
  /\ Init /\ ToolChainInit /\ GutterEditInit

AgentNext ==
  \/ OfTurn /\ Next
  \/ part = "chain" /\ ToolChainNext /\ UNCHANGED <<part, vars, geVars>>
  \/ part = "edit" /\ GutterEditNext /\ UNCHANGED <<part, vars, tcVars>>

agentVars == <<part, vars, tcVars, geVars>>

AgentSpec == AgentInit /\ [][AgentNext]_agentVars /\ WF_agentVars(OfTurn /\ Step)

\* The variables of the three machines keep their types.
AgentTypeOK == TypeOK /\ ToolChainTypeOK /\ GutterEditTypeOK
=============================================================================
