----------------------------- MODULE RepeatGuard ------------------------------
(***************************************************************************)
(* middleware/repeat_guard.py: the calls of one agent that are answered    *)
(* without being run, because an earlier call of the same agent settled    *)
(* them.  A guard is a record of what was learnt from the calls that ran;  *)
(* SubagentTurn makes the calls.                                           *)
(***************************************************************************)
EXTENDS Integers, FiniteSets

CONSTANTS
  Files,                  \* project files, by resolved path
  Folders, Inside,        \* directories, and the files below each
  Contents,               \* what a file may hold
  MaxIdenticalFailures,   \* MAX_IDENTICAL_FAILURES
  MaxIdenticalReads       \* MAX_IDENTICAL_READS

Nothing == "nothing"      \* no file, or no belief about one
Anywhere == "."           \* the target of a command

ASSUME RepeatGuardAssumption ==
  /\ Files \cap Folders = {} /\ Inside \in [Folders -> SUBSET Files]
  /\ Nothing \notin Contents
  /\ {MaxIdenticalFailures, MaxIdenticalReads} \subseteq Nat \ {0}

Disks == [Files -> Contents \cup {Nothing}]

\* A call is its tool, the file it resolves to and what it would put there.
CallsOf(tool, paths, bodies) == [tool : {tool}, path : paths, body : bodies]

Reads == CallsOf("read_file", Files, {Nothing}) \cup CallsOf("ls", Folders, {Nothing})
Writes == CallsOf("write_file", Files, Contents)
PathScoped ==
  CallsOf("edit_file", Files, Contents) \cup CallsOf("delete", Files \cup Folders, {Nothing})
Commands == CallsOf("execute", {Anywhere}, {Nothing})
Calls == Reads \cup Writes \cup PathScoped \cup Commands

Counts == [Reads -> Nat]

NoCounts == [c \in Reads |-> 0]
NoBeliefs == [f \in Files |-> Nothing]
NewGuard == [failures |-> NoCounts, answered |-> NoCounts, written |-> NoBeliefs]

-----------------------------------------------------------------------------
(***************************************************************************)
(* _blocked: what is refused.                                              *)
(***************************************************************************)
HasFailed(g, c) == c \in Reads /\ g.failures[c] >= MaxIdenticalFailures

WasAnswered(g, c) ==
  c \in Reads /\ ~HasFailed(g, c) /\ g.answered[c] >= MaxIdenticalReads

\* Mutant: the run's belief is trusted without reading the file.
WasWrittenEver(g, shared, disk, c) ==
  c \in Writes /\ c.body \in {g.written[c.path], shared[c.path]}

\* This agent's own write, or an earlier agent's that the file still bears out.
WasWritten(g, shared, disk, c) ==
  /\ c \in Writes
  /\ \/ g.written[c.path] = c.body
     \/ shared[c.path] = c.body /\ disk[c.path] = c.body

-----------------------------------------------------------------------------
(***************************************************************************)
(* _record: what is learnt from a call that ran.                           *)
(***************************************************************************)
Forget(written, path) == [f \in Files |-> IF f = path THEN Nothing ELSE written[f]]

Beliefs(g, c, ok) ==
  CASE c \in Writes /\ ok -> [g.written EXCEPT ![c.path] = c.body]
    [] c \in Writes /\ ~ok -> Forget(g.written, c.path)
    [] c \in PathScoped -> Forget(g.written, c.path)
    [] c \in Commands -> NoBeliefs

Recorded(g, c, ok) ==
  IF c \in Reads
    THEN [g EXCEPT !.failures[c] = IF ok THEN 0 ELSE @ + 1,
                   !.answered[c] = IF ok THEN @ + 1 ELSE 0]
    ELSE [NewGuard EXCEPT !.written = Beliefs(g, c, ok)]

\* The run's own map, which nothing invalidates.
Shared(shared, c, ok) ==
  IF c \in Writes /\ ok THEN [shared EXCEPT ![c.path] = c.body] ELSE shared
=============================================================================
