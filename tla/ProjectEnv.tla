----------------------------- MODULE ProjectEnv ------------------------------
(***************************************************************************)
(* testing/project_env.py: the virtualenv Rudra builds for a Python        *)
(* project and brings up to date before every gate.  The main tree and the *)
(* worktrees of a batch each sync in a thread of their own, a worktree     *)
(* through a link to the main tree's .venv; any command may be denied,     *)
(* fail or run out of time, and the process may be killed in any of them.  *)
(***************************************************************************)
EXTENDS Naturals, FiniteSets

CONSTANTS
  EnvWorktrees,           \* the worktrees a batch may have
  Declarations,           \* what a tree may declare: what its dependency files say
  EnvKills,               \* bound of the model: processes killed
  EnvEdits                \* bound of the model: changes of dependency files

NOTHING == "nothing"      \* no dependency is declared
ASSUME ProjectEnvAssumption ==
  /\ NOTHING \in Declarations /\ "main" \notin EnvWorktrees
  /\ {EnvKills, EnvEdits} \subseteq Nat

VARIABLES
  peDeclared,             \* of each tree there is: what it declares
  peLink,                 \* the worktrees whose .venv is a link to the main tree's
  peVenv,                 \* of each tree: its own .venv
  peActive,               \* a virtualenv is active in the shell
  peState,                \* ProjectEnvState, one for all the trees of a run
  peSync,                 \* of each tree: where its sync is, what it read, how it ended
  peKilled, peEdits,
  peShared                \* history: two trees were at one .venv at a time

peVars == <<peDeclared, peLink, peVenv, peActive, peState, peSync, peKilled, peEdits, peShared>>

EnvTrees == {"main"} \cup EnvWorktrees
LiveTrees == DOMAIN peDeclared
NoVenv == [there |-> FALSE]
CUT == "cut short"        \* what an install left that was ended before its end
NoPrint == <<>>

\* python -m venv.  half: an install wrote in it and no fingerprint was written
\* after it.
NewVenv(marked, users) ==
  [there |-> TRUE, marked |-> marked, print |-> NoPrint, pytest |-> FALSE,
   installed |-> NOTHING, half |-> FALSE, users |-> users]

FreshState == [failed |-> {}, denied |-> FALSE, createFailed |-> FALSE]
Idle == [pc |-> "rest", print |-> NoPrint, outcome |-> "none"]

ProjectEnvInit ==
  /\ peDeclared \in [{"main"} -> Declarations] /\ peLink = {}
  /\ peVenv = [t \in EnvTrees |-> NoVenv] /\ peActive \in BOOLEAN
  /\ peState = FreshState /\ peSync = [t \in EnvTrees |-> Idle]
  /\ peKilled = 0 /\ peEdits = 0 /\ peShared = FALSE

\* The tree whose .venv the tree's paths lead to.
Home(t) == IF t \in peLink THEN "main" ELSE t
Venv(t) == peVenv[Home(t)]

-----------------------------------------------------------------------------
(***************************************************************************)
(* ensure_project_env.                                                     *)
(***************************************************************************)
\* Mutant: a .venv that is there is taken for Rudra's.
SkipReasonNoMarker(t) == peState.denied \/ peState.createFailed \/ peActive

\* _skip_reason: what was denied or could not be built in this run, and what
\* is the user's.
SkipReason(t) ==
  \/ peState.denied \/ peState.createFailed \/ peActive
  \/ Venv(t).there /\ ~Venv(t).marked

\* From its sync to the end of its tests a tree is at the .venv.
AtVenv(u) == peSync[u].pc # "rest"

Moves(t, pc) == peSync' = [peSync EXCEPT ![t].pc = pc]
EndsAs(t, outcome) == peSync' = [peSync EXCEPT ![t].pc = "gate", ![t].outcome = outcome]
Changes(t, venv) == peVenv' = [peVenv EXCEPT ![Home(t)] = venv]

\* _sync_project_env, before a gate: in a thread, with the state of the run.
StartSync(t) ==
  /\ t \in LiveTrees /\ peSync[t].pc = "rest"
  /\ peShared' = (peShared \/ \E u \in LiveTrees \ {t} : AtVenv(u) /\ Home(u) = Home(t))
  /\ IF SkipReason(t) THEN EndsAs(t, "skipped")
     ELSE Moves(t, IF Venv(t).there THEN "pytest" ELSE "create")
  /\ UNCHANGED <<peDeclared, peLink, peVenv, peActive, peState, peKilled, peEdits>>

\* Mutant: what a failed build left is not removed.
AfterCreateLeft(t, outcome) == NewVenv(FALSE, FALSE)

\* What is at .venv after the command: a failed or denied build is removed.
AfterCreate(t, outcome) == IF outcome = "ok" THEN NewVenv(FALSE, FALSE) ELSE NoVenv

\* _create, to the end of its command.
Create(t, outcome) ==
  /\ peSync[t].pc = "create"
  /\ Changes(t, AfterCreate(t, outcome))
  /\ peState' = [peState EXCEPT !.denied = @ \/ outcome = "denied",
                                !.createFailed = @ \/ outcome = "failed"]
  /\ IF outcome = "ok" THEN Moves(t, "mark") ELSE EndsAs(t, outcome)
  /\ UNCHANGED <<peDeclared, peLink, peActive, peKilled, peEdits, peShared>>

\* The marker, that makes it Rudra's.
MarkOwn(t) ==
  /\ peSync[t].pc = "mark"
  /\ Changes(t, [Venv(t) EXCEPT !.marked = TRUE]) /\ Moves(t, "pytest")
  /\ UNCHANGED <<peDeclared, peLink, peActive, peState, peKilled, peEdits, peShared>>

\* pytest is a step of its own.
InstallPytest(t, outcome) ==
  /\ peSync[t].pc = "pytest"
  /\ IF Venv(t).pytest THEN outcome = "ok" /\ UNCHANGED peVenv
     ELSE Changes(t, [Venv(t) EXCEPT !.pytest = outcome = "ok"])
  /\ peState' = [peState EXCEPT !.denied = @ \/ outcome = "denied"]
  /\ IF outcome = "ok" THEN Moves(t, "read") ELSE EndsAs(t, outcome)
  /\ UNCHANGED <<peDeclared, peLink, peActive, peKilled, peEdits, peShared>>

\* declared_dependencies: the path of the interpreter, which is the tree's, is
\* part of the fingerprint.
Fingerprint(t) == <<t, peDeclared[t]>>

\* Mutant: a tree whose install failed once in this run is not installed for again.
KnownBadTree(t) == \E d \in Declarations : <<t, d>> \in peState.failed

\* An install that failed in this run is not repeated for the same files.
KnownBad(t) == Fingerprint(t) \in peState.failed

ReadDeclared(t) ==
  /\ peSync[t].pc = "read"
  /\ LET print == Fingerprint(t)
         at == CASE Venv(t).print = print -> <<"gate", "unchanged">>
                 [] Venv(t).print # print /\ KnownBad(t) -> <<"gate", "failed">>
                 [] Venv(t).print # print /\ ~KnownBad(t) ->
                      <<IF peDeclared[t] = NOTHING THEN "stamp" ELSE "deps", "none">>
     IN  peSync' = [peSync EXCEPT ![t] = [pc |-> at[1], print |-> print, outcome |-> at[2]]]
  /\ UNCHANGED <<peDeclared, peLink, peVenv, peActive, peState, peKilled, peEdits, peShared>>

\* Mutant: the fingerprint is written before the install it is of.
InstallDepsStamped(t, outcome, left) ==
  /\ peSync[t].pc = "deps"
  /\ Changes(t, [Venv(t) EXCEPT !.print = peSync[t].print,
                   !.installed = IF outcome = "ok" THEN peDeclared[t] ELSE left,
                   !.half = FALSE])
  /\ peState' = [peState EXCEPT !.denied = @ \/ outcome = "denied",
                   !.failed = IF outcome = "failed" THEN @ \cup {peSync[t].print} ELSE @]
  /\ IF outcome = "ok" THEN Moves(t, "stamp") ELSE EndsAs(t, outcome)
  /\ UNCHANGED <<peDeclared, peLink, peActive, peKilled, peEdits, peShared>>

\* pip resolves everything before it writes, so a failure leaves what was
\* there; one ended by its time limit may have written a part.
InstallDeps(t, outcome, left) ==
  /\ peSync[t].pc = "deps"
  /\ left \in {Venv(t).installed} \cup (IF outcome = "failed" THEN {CUT} ELSE {})
  /\ Changes(t, [Venv(t) EXCEPT !.installed = IF outcome = "ok" THEN peDeclared[t] ELSE left,
                   !.half = @ \/ outcome = "ok" \/ left = CUT])
  /\ peState' = [peState EXCEPT !.denied = @ \/ outcome = "denied",
                   !.failed = IF outcome = "failed" THEN @ \cup {peSync[t].print} ELSE @]
  /\ IF outcome = "ok" THEN Moves(t, "stamp") ELSE EndsAs(t, outcome)
  /\ UNCHANGED <<peDeclared, peLink, peActive, peKilled, peEdits, peShared>>

\* _write_marker.
Stamp(t) ==
  /\ peSync[t].pc = "stamp"
  /\ Changes(t, [Venv(t) EXCEPT !.print = peSync[t].print, !.half = FALSE])
  /\ EndsAs(t, "ok")
  /\ UNCHANGED <<peDeclared, peLink, peActive, peState, peKilled, peEdits, peShared>>

\* run_tests, under the .venv if there is one; the agents go on.
TestsRun(t) ==
  /\ peSync[t].pc = "gate" /\ peSync' = [peSync EXCEPT ![t] = Idle]
  /\ UNCHANGED <<peDeclared, peLink, peVenv, peActive, peState, peKilled, peEdits, peShared>>

-----------------------------------------------------------------------------
(***************************************************************************)
(* Around it.                                                              *)
(***************************************************************************)
\* A worktree is made, with a link where one can be made, and _share_main_venv
\* makes none when the main tree has no .venv yet.
MakeWorktree(t, linked) ==
  /\ t \notin LiveTrees /\ peSync["main"].pc = "rest"
  /\ linked => peVenv["main"].there
  /\ peDeclared' = [u \in LiveTrees \cup {t} |-> IF u = t THEN peDeclared["main"] ELSE peDeclared[u]]
  /\ peLink' = IF linked THEN peLink \cup {t} ELSE peLink
  /\ UNCHANGED <<peVenv, peActive, peState, peSync, peKilled, peEdits, peShared>>

\* Mutant: the worktree is forgotten and its directory stays.
RemovedNot(t) == peVenv

\* git worktree remove: with all that is in it.
Removed(t) == [peVenv EXCEPT ![t] = NoVenv]

\* The batch is over, its work merged or not: worktrees go, and what is in them.
Join(t, merged) ==
  /\ t \in LiveTrees /\ t # "main" /\ \A u \in LiveTrees : peSync[u].pc = "rest"
  /\ peDeclared' = [u \in LiveTrees \ {t} |->
                      IF u = "main" /\ merged THEN peDeclared[t] ELSE peDeclared[u]]
  /\ peLink' = peLink \ {t} /\ peVenv' = Removed(t)
  /\ UNCHANGED <<peActive, peState, peSync, peKilled, peEdits, peShared>>

\* The agents of a tree write its files while no sync of it runs.
EditDeclared(t, given) ==
  /\ t \in LiveTrees /\ peSync[t].pc = "rest" /\ given # peDeclared[t]
  /\ peEdits < EnvEdits /\ peEdits' = peEdits + 1
  /\ peDeclared' = [peDeclared EXCEPT ![t] = given]
  /\ UNCHANGED <<peLink, peVenv, peActive, peState, peSync, peKilled, peShared>>

\* Between runs the user may delete .venv, or make one; another run begins.
NextEnvRun ==
  /\ LiveTrees = {"main"} /\ peSync["main"].pc = "rest"
  /\ peState' = FreshState
  /\ \/ UNCHANGED peVenv
     \/ peVenv' = [peVenv EXCEPT !["main"] = NoVenv]
     \/ ~peVenv["main"].there /\ peVenv' = [peVenv EXCEPT !["main"] = NewVenv(FALSE, TRUE)]
  /\ UNCHANGED <<peDeclared, peLink, peActive, peSync, peKilled, peEdits, peShared>>

\* Killed anywhere: a build may have left a directory, an install a part.
EnvKill(left) ==
  /\ peKilled < EnvKills /\ peKilled' = peKilled + 1
  /\ LET building == peSync["main"].pc = "create"
         writing == \E t \in LiveTrees : peSync[t].pc = "deps" /\ Home(t) = "main"
     IN  CASE left = "half" -> building /\ peVenv' = [t \in EnvTrees |-> IF t = "main"
                                  THEN NewVenv(FALSE, FALSE) ELSE NoVenv]
           [] left = "part" -> writing /\ peVenv' = [t \in EnvTrees |-> IF t = "main"
                                  THEN [peVenv[t] EXCEPT !.installed = CUT, !.half = TRUE] ELSE NoVenv]
           [] left = "as it was" -> peVenv' = [t \in EnvTrees |-> IF t = "main"
                                  THEN peVenv[t] ELSE NoVenv]
  /\ peDeclared' = [t \in {"main"} |-> peDeclared["main"]] /\ peLink' = {}
  /\ peState' = FreshState /\ peSync' = [t \in EnvTrees |-> Idle]
  /\ UNCHANGED <<peActive, peEdits, peShared>>

Outcomes == {"ok", "failed", "denied"}
Left(t) == IF Venv(t).there THEN {Venv(t).installed, CUT} ELSE {}

ProjectEnvNext ==
  \/ \E t \in LiveTrees :
       \/ StartSync(t) \/ MarkOwn(t) \/ ReadDeclared(t) \/ Stamp(t) \/ TestsRun(t)
       \/ \E outcome \in Outcomes : Create(t, outcome) \/ InstallPytest(t, outcome)
       \/ \E outcome \in Outcomes, left \in Left(t) : InstallDeps(t, outcome, left)
       \/ \E given \in Declarations : EditDeclared(t, given)
       \/ \E merged \in BOOLEAN : Join(t, merged)
  \/ \E t \in EnvWorktrees, linked \in BOOLEAN : MakeWorktree(t, linked)
  \/ NextEnvRun
  \/ \E left \in {"half", "part", "as it was"} : EnvKill(left)

ProjectEnvSpec == ProjectEnvInit /\ [][ProjectEnvNext]_peVars

-----------------------------------------------------------------------------
(***************************************************************************)
(* Every variable has its type, and a worktree there is not has nothing.   *)
(***************************************************************************)
ProjectEnvTypeOK ==
  /\ "main" \in LiveTrees /\ LiveTrees \subseteq EnvTrees /\ peLink \subseteq LiveTrees \ {"main"}
  /\ \A t \in LiveTrees : peDeclared[t] \in Declarations
  /\ \A t \in EnvTrees \ LiveTrees : ~peVenv[t].there /\ peSync[t] = Idle
  /\ peKilled \in 0..EnvKills /\ peEdits \in 0..EnvEdits

(***************************************************************************)
(* A gate whose sync said the virtualenv is in order runs under pytest and *)
(* what its tree declares at that moment, whatever was denied, failed,     *)
(* edited, deleted or killed before; unless two trees were at one .venv at *)
(* a time, or the last install into it never came to write its fingerprint *)
(* (then the files an earlier one wrote may be taken for unchanged).       *)
(***************************************************************************)
GateRunsOnWhatItDeclares ==
  \A t \in LiveTrees :
    peSync[t].pc = "gate" /\ peSync[t].outcome \in {"ok", "unchanged"} /\ ~peShared =>
      /\ Venv(t).there /\ Venv(t).pytest
      /\ peDeclared[t] # NOTHING /\ ~Venv(t).half => Venv(t).installed = peDeclared[t]

(***************************************************************************)
(* What the user made is the user's: no build, install or removal of       *)
(* Rudra's touches a virtualenv it did not make.                           *)
(***************************************************************************)
ForeignIsUntouched ==
  [][(\E u \in LiveTrees : AtVenv(u)) =>
       \A t \in EnvTrees : peVenv[t].there /\ peVenv[t].users => peVenv'[t] = peVenv[t]]_peVars

(***************************************************************************)
(* A virtualenv is Rudra's or the user's: none is left unmarked, which     *)
(* every later run would leave alone and every gate run under, unless the  *)
(* process was killed while it built it.                                   *)
(***************************************************************************)
NoneIsLeftHalfBuilt ==
  peKilled = 0 =>
    \A t \in LiveTrees : peVenv[t].there /\ ~peVenv[t].users /\ ~peVenv[t].marked => peSync[t].pc = "mark"

(***************************************************************************)
(* A virtualenv has one owner: it is the user's and untouched, or Rudra's  *)
(* and marked so.                                                          *)
(***************************************************************************)
VenvsHaveOneOwner == []NoneIsLeftHalfBuilt /\ ForeignIsUntouched

(***************************************************************************)
(* A changed declaration is always tried: a sync that fails without a      *)
(* command of its own had these very files fail before in this run.        *)
(***************************************************************************)
AFixIsTried ==
  [][\A t \in LiveTrees :
       peSync[t].pc = "read" /\ peSync'[t].outcome = "failed" => Fingerprint(t) \in peState.failed]_peVars

(***************************************************************************)
(* A gate is up to date: it runs on what its tree declares, and what was   *)
(* changed since an install failed is tried.                               *)
(***************************************************************************)
GateIsUpToDate == []GateRunsOnWhatItDeclares /\ AFixIsTried
=============================================================================
