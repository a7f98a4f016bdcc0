--------------------------------- MODULE MCRun ---------------------------------
(***************************************************************************)
(* One instance each of WorkLoop, Memory and Permissions for TLC: a run's  *)
(* tasks, what it remembers of them, and what its agents may do.  The      *)
(* three share no variable; a behaviour is of the machine `part` names,    *)
(* the others rest.                                                        *)
(***************************************************************************)
EXTENDS WorkLoop, Memory, Permissions

VARIABLE part

-----------------------------------------------------------------------------
\* Memory: a task's memory that fits one drawer, a preference that needs two.
TwoMemories == {[room |-> "tasks", text |-> "short"], [room |-> "preferences", text |-> "long"]}

-----------------------------------------------------------------------------
\* Permissions: an agent of the main tree and one of a worktree that may delete.
Program(written, meant) == [written |-> written, meant |-> meant]
Shell(segments) == [tool |-> "execute", arg |->
  [segments |-> segments, substitutes |-> FALSE, catastrophic |-> FALSE]]
Change(tool, path) == [tool |-> tool, arg |-> path]

Pytest == Program("pytest", "pytest")
HiddenNpm == Program("sh", "npm")
Curl == Program("curl", "curl")
GateBatches ==
  {<<Change("write_file", "src")>>, <<Change("write_file", "git")>>,
   <<Change("write_file", "src"), Change("delete", "src")>>,
   <<Shell(<<Pytest>>)>>, <<Shell(<<Pytest>>), Shell(<<Pytest, HiddenNpm>>)>>,
   <<Shell(<<Pytest, Curl>>)>>}
GateHeld == [a \in PermAgents |->
  {"write_file", "execute"} \cup (IF a \in MainAgents THEN {} ELSE {"delete"})]
GateDeny == {Rule("execute", "npm")}
GateAllow == {Rule("execute", "ruff")}

-----------------------------------------------------------------------------
OfWork == part = "work" /\ UNCHANGED <<part, meVars, pmVars>>

RunInit ==
  /\ part \in {"work", "memory", "gate"}
  /\ part # "gate" => pmMode = "ask"
  /\ Init /\ MemoryInit /\ PermissionsInit

RunNext ==
  \/ OfWork /\ Next
  \/ part = "memory" /\ MemoryNext /\ UNCHANGED <<part, vars, pmVars>>
  \/ part = "gate" /\ PermissionsNext /\ UNCHANGED <<part, vars, meVars>>

runVars == <<part, vars, meVars, pmVars>>

RunSpec == RunInit /\ [][RunNext]_runVars /\ WF_runVars(OfWork /\ WorkStep)

\* The variables of the three machines keep their types.
RunTypeOK == TypeOK /\ MemoryTypeOK /\ PermissionsTypeOK
=============================================================================
