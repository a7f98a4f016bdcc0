---------------------------- MODULE SubagentTurn ------------------------------
(***************************************************************************)
(* subagents/runner.py: one agent invoked through run_subagent, several    *)
(* times in a run.  The agent graph alternates a model call with the tool  *)
(* calls it asked for, which run concurrently, each through the repeat     *)
(* guard; run_subagent reads the graph's messages as chunks and holds the  *)
(* bounds that stop it.  The model may ask for anything.                   *)
(***************************************************************************)
EXTENDS RepeatGuard, Sequences, SequencesExt

CONSTANTS
  MaxTotalCalls,            \* MAX_TOTAL_CALLS
  MaxRepeatedCalls,         \* MAX_REPEATED_CALLS
  MaxConsecutiveFailures,   \* MAX_CONSECUTIVE_FAILURES
  MaxDedupesAfterWrite,     \* MAX_DEDUPES_AFTER_WRITE
  MaxParallel,              \* bound of the model: tool calls in one message
  Messages,                 \* bound of the model: the tool calls a message may make
  MaxInvocations            \* bound of the model: invocations in one run

ASSUME SubagentTurnAssumption ==
  /\ {MaxTotalCalls, MaxRepeatedCalls, MaxConsecutiveFailures, MaxDedupesAfterWrite,
      MaxParallel, MaxInvocations} \subseteq Nat \ {0}
  /\ \A m \in Messages : m \in Seq(Calls) /\ Len(m) \in 1..MaxParallel

VARIABLES
  disk, shared,           \* the project, and RunUsage.write_beliefs of the role
  guard,                  \* this invocation's RepeatGuardMiddleware
  phase,
  calls,                  \* the tool calls of the last message: [call, at, result]
  totalCalls, repeated,
  consecutiveFailures, dedupeStreak, wrote,
  halted, tripped,        \* tripped: the deadline ended the stream
  announced, nudged,
  invocation,
  asked,                  \* history: tool calls handed to the graph's tools
  lately,                 \* history: the last results read that Rudra did not invent
  told,                   \* history: the last answer each read gave the model
  overlapped, subtree     \* history: a change overlapped another call; a folder was deleted

countVars == <<totalCalls, repeated, consecutiveFailures, dedupeStreak, wrote>>
seenVars  == <<told, overlapped, subtree>>
vars == <<disk, shared, guard, phase, calls, countVars, halted, tripped, announced,
          nudged, invocation, asked, lately, seenVars>>

Watched == {c \in Calls : c.tool \in {"write_file", "edit_file", "read_file"}}
NoRepeats == [c \in Watched |-> 0]

Results == {"none", "ok", "fail", "refused", "dedupe"}
Halts == {"none", "calls", "repeated", "failures", "dedupes", "seconds"}

Init ==
  /\ disk \in Disks /\ shared = NoBeliefs /\ guard = NewGuard
  /\ phase = "idle" /\ calls = <<>>
  /\ totalCalls = 0 /\ repeated = NoRepeats
  /\ consecutiveFailures = 0 /\ dedupeStreak = 0 /\ wrote = FALSE
  /\ halted = "none" /\ tripped = FALSE /\ announced = FALSE /\ nudged = FALSE
  /\ invocation = 0 /\ asked = 0 /\ lately = <<>>
  /\ told = [c \in Reads |-> {}] /\ overlapped = FALSE /\ subtree = FALSE

-----------------------------------------------------------------------------
(***************************************************************************)
(* The invocation.  Between two of them the gate, git and other roles may  *)
(* have changed any file; only `shared` is carried over.                   *)
(***************************************************************************)
Invoke ==
  /\ phase \in {"idle", "ended"} /\ invocation < MaxInvocations
  /\ invocation' = invocation + 1
  /\ disk' \in Disks /\ guard' = NewGuard /\ UNCHANGED shared
  /\ phase' \in {"model", "ended"}    \* build_agent may raise
  /\ calls' = <<>>
  /\ totalCalls' = 0 /\ repeated' = NoRepeats
  /\ consecutiveFailures' = 0 /\ dedupeStreak' = 0 /\ wrote' = FALSE
  /\ halted' = "none" /\ tripped' = FALSE /\ announced' = FALSE /\ nudged' = FALSE
  /\ asked' = 0 /\ lately' = <<>>
  /\ told' = [c \in Reads |-> {}] /\ overlapped' = FALSE /\ subtree' = FALSE

-----------------------------------------------------------------------------
(***************************************************************************)
(* The model's step: the deadline is read before it, a message with tool   *)
(* calls is counted as it arrives, and the graph goes on to run them.      *)
(***************************************************************************)
CountCall(s, c) ==
  LET fresh == [k \in Watched |->
                  IF c \notin Reads /\ k.tool = "read_file" THEN 0 ELSE s.repeated[k]]
      times == IF c \in Watched THEN fresh[c] + 1 ELSE 0
  IN CASE s.halted # "none" -> s
       [] s.halted = "none" /\ s.total + 1 >= MaxTotalCalls ->
            [s EXCEPT !.total = @ + 1, !.halted = "calls"]
       [] s.halted = "none" /\ s.total + 1 < MaxTotalCalls ->
            [total |-> s.total + 1,
             repeated |-> [k \in Watched |-> IF k = c THEN times ELSE fresh[k]],
             halted |-> IF times >= MaxRepeatedCalls THEN "repeated" ELSE "none"]

\* The calls of one message, in its order.
CallsCounted(message) ==
  LET after[i \in 0..Len(message)] ==
        IF i = 0 THEN [total |-> totalCalls, repeated |-> repeated, halted |-> halted]
        ELSE CountCall(after[i - 1], message[i])
  IN  after[Len(message)]

Asks(message) ==
  /\ phase = "model" /\ halted = "none"
  /\ LET s == CallsCounted(message)
     IN totalCalls' = s.total /\ repeated' = s.repeated /\ halted' = s.halted
  /\ calls' = [i \in DOMAIN message |->
                 [call |-> message[i], at |-> "asked", result |-> "none"]]
  /\ asked' = asked + Len(message)
  /\ phase' = "tools"
  /\ UNCHANGED <<disk, shared, guard, consecutiveFailures, dedupeStreak, wrote, tripped,
                 announced, nudged, invocation, lately, seenVars>>

\* However the stream ends, the last thing said may announce more work.
Drains == phase' = "drained" /\ calls' = <<>> /\ announced' \in BOOLEAN

\* No tool calls.
Finishes ==
  /\ phase = "model" /\ halted = "none"
  /\ Drains
  /\ UNCHANGED <<disk, shared, guard, countVars, halted, tripped, nudged, invocation,
                 asked, lately, seenVars>>

\* SpanDeadlineMiddleware.before_model.
OutOfTime ==
  /\ phase = "model"
  /\ tripped' = TRUE /\ Drains
  /\ UNCHANGED <<disk, shared, guard, countVars, halted, nudged, invocation, asked,
                 lately, seenVars>>

\* The provider fails for good, or an approval loop is exceeded.
Raises ==
  /\ phase = "model" /\ phase' = "ended"
  /\ UNCHANGED <<disk, shared, guard, calls, countVars, halted, tripped, announced,
                 nudged, invocation, asked, lately, seenVars>>

\* A guard that fired breaks the loop at the next chunk: one of a hook before
\* the tools start, one of a hook before the model, or the model's answer,
\* whose calls then never run.
Breaks ==
  /\ halted # "none"
  /\ \/ phase = "model"
     \/ phase = "tools" /\ \A i \in DOMAIN calls : calls[i].at = "asked"
  /\ Drains
  /\ UNCHANGED <<disk, shared, guard, countVars, halted, tripped, nudged, invocation,
                 asked, lately, seenVars>>

-----------------------------------------------------------------------------
(***************************************************************************)
(* The tool calls of one message, concurrently: checked, run, recorded.    *)
(***************************************************************************)
InFlight(i) == calls[i].at \in {"running", "ran"}

Changes(c) == c \notin Reads

Overlaps(i) ==
  \E j \in DOMAIN calls \ {i} : InFlight(j) /\ (Changes(calls[i].call) \/ Changes(calls[j].call))

Answered(i, result) == calls' = [calls EXCEPT ![i].at = "answered", ![i].result = result]

Refusal(c) ==
  IF WasAnswered(guard, c) THEN "dedupe"
  ELSE IF HasFailed(guard, c) \/ WasWritten(guard, shared, disk, c) THEN "refused"
  ELSE "none"

\* The permission gate is outside the guard: what it denies is a failure the guard never sees.
Denied(i) ==
  /\ phase = "tools" /\ calls[i].at = "asked"
  /\ Answered(i, "fail")
  /\ UNCHANGED <<disk, shared, guard, phase, countVars, halted, tripped, announced,
                 nudged, invocation, asked, lately, seenVars>>

Check(i) ==
  /\ phase = "tools" /\ calls[i].at = "asked"
  /\ overlapped' = (overlapped \/ Overlaps(i))
  /\ IF Refusal(calls[i].call) = "none"
       THEN calls' = [calls EXCEPT ![i].at = "running"]
       ELSE Answered(i, Refusal(calls[i].call))
  /\ UNCHANGED <<disk, shared, guard, phase, countVars, halted, tripped, announced,
                 nudged, invocation, asked, lately, told, subtree>>

Below(path) == IF path \in Folders THEN Inside[path] ELSE {path}

\* What a read finds: nothing is an error for a file, and an answer for a folder.
Found(c, tree) ==
  IF c.path \in Folders THEN {f \in Inside[c.path] : tree[f] # Nothing}
  ELSE {tree[c.path]} \ {Nothing}

\* An edit is refused where its old text is not.
Applies(c) ==
  \/ c \in Writes
  \/ c.tool = "edit_file" /\ disk[c.path] \notin {c.body, Nothing}

Ran(i, ok, tree) ==
  /\ calls' = [calls EXCEPT ![i].at = "ran", ![i].result = IF ok THEN "ok" ELSE "fail"]
  /\ disk' = tree

\* What the backend and the shell do: external, as the runner and the guard read it.
Run(i) ==
  LET c == calls[i].call IN
  /\ phase = "tools" /\ calls[i].at = "running"
  /\ \/ /\ c \in Reads
        /\ Ran(i, c.tool = "ls" \/ Found(c, disk) # {}, disk)
        /\ told' = [told EXCEPT ![c] = Found(c, disk)] /\ UNCHANGED subtree
     \/ /\ Applies(c)
        /\ Ran(i, TRUE, [disk EXCEPT ![c.path] = c.body])
        /\ UNCHANGED <<told, subtree>>
     \/ /\ c.tool = "delete" /\ \E f \in Below(c.path) : disk[f] # Nothing
        /\ Ran(i, TRUE, [f \in Files |-> IF f \in Below(c.path) THEN Nothing ELSE disk[f]])
        /\ subtree' = (subtree \/ c.path \in Folders) /\ UNCHANGED told
     \/ /\ c \in Commands
        /\ \E ok \in BOOLEAN, tree \in Disks : Ran(i, ok, tree)
        /\ UNCHANGED <<told, subtree>>
     \/ /\ c \in Writes \cup PathScoped
        /\ Ran(i, FALSE, disk) /\ UNCHANGED <<told, subtree>>
  /\ UNCHANGED <<shared, guard, phase, countVars, halted, tripped, announced, nudged,
                 invocation, asked, lately, overlapped>>

Record(i) ==
  LET c == calls[i].call  ok == calls[i].result = "ok" IN
  /\ phase = "tools" /\ calls[i].at = "ran"
  /\ guard' = Recorded(guard, c, ok) /\ shared' = Shared(shared, c, ok)
  /\ calls' = [calls EXCEPT ![i].at = "answered"]
  /\ UNCHANGED <<disk, phase, countVars, halted, tripped, announced, nudged, invocation,
                 asked, lately, seenVars>>

-----------------------------------------------------------------------------
(***************************************************************************)
(* The chunk with their results, in the order they were asked.             *)
(***************************************************************************)
\* Mutant: a refusal is counted as the failure its text leads with.
FailuresByText(s, r) ==
  CASE r.result \in {"fail", "refused"} -> s.failures + 1
    [] r.result = "ok" -> 0
    [] OTHER -> s.failures

\* A refusal is no event: it neither counts as a failure nor clears one.
Failures(s, r) ==
  CASE r.result = "fail" -> s.failures + 1
    [] r.result = "ok" -> 0
    [] r.result \in {"refused", "dedupe"} -> s.failures

Streak(s, r) == IF r.result = "dedupe" /\ s.wrote THEN s.streak + 1 ELSE 0

Latest(results) == IF Len(results) <= MaxConsecutiveFailures THEN results ELSE Front(results)

Counted(s, r) ==
  [failures |-> Failures(s, r), streak |-> Streak(s, r),
   wrote |-> s.wrote \/ (r.result = "ok" /\ r.call.tool \in {"write_file", "edit_file"}),
   halted |-> CASE Failures(s, r) >= MaxConsecutiveFailures -> "failures"
                [] Streak(s, r) >= MaxDedupesAfterWrite -> "dedupes"
                [] OTHER -> "none",
   lately |-> IF r.result \in {"ok", "fail"} THEN Latest(<<r.result>> \o s.lately)
              ELSE s.lately]

\* Mutant: the rest of the chunk is counted after a guard has fired.
CountResultOn(s, r) == Counted(s, r)

CountResult(s, r) == IF s.halted # "none" THEN s ELSE Counted(s, r)

\* The results of one message, in the order they were asked for.
ResultsCounted ==
  LET after[i \in 0..Len(calls)] ==
        IF i = 0
          THEN [failures |-> consecutiveFailures, streak |-> dedupeStreak, wrote |-> wrote,
                halted |-> halted, lately |-> lately]
          ELSE CountResult(after[i - 1], calls[i])
  IN  after[Len(calls)]

Gathered == phase = "tools" /\ \A i \in DOMAIN calls : calls[i].at = "answered"

ReadResults ==
  /\ Gathered /\ halted = "none"
  /\ LET s == ResultsCounted
     IN /\ consecutiveFailures' = s.failures /\ dedupeStreak' = s.streak
        /\ wrote' = s.wrote /\ halted' = s.halted /\ lately' = s.lately
  /\ phase' = "model" /\ calls' = <<>>
  /\ UNCHANGED <<disk, shared, guard, totalCalls, repeated, tripped, announced, nudged,
                 invocation, asked, seenVars>>

\* A guard had fired on the message that asked for them: its calls ran, and no more do.
LeaveResults ==
  /\ Gathered /\ halted # "none"
  /\ Drains
  /\ UNCHANGED <<disk, shared, guard, countVars, halted, tripped, nudged, invocation,
                 asked, lately, seenVars>>

-----------------------------------------------------------------------------
(***************************************************************************)
(* The stream has drained.  The deadline is announced now, and one more    *)
(* turn is given to an agent whose last words were a plan.                 *)
(***************************************************************************)
Verdict == IF halted = "none" /\ tripped THEN "seconds" ELSE halted

\* Mutant: a halted invocation is handed another turn.
NudgeableAnyway == announced /\ ~nudged

Nudgeable == Verdict = "none" /\ announced /\ ~nudged

\* Mutant: every announcement is answered.
NudgeAgain ==
  /\ phase = "drained" /\ Verdict = "none" /\ announced
  /\ nudged' = TRUE /\ phase' = "model"
  /\ UNCHANGED <<disk, shared, guard, calls, countVars, halted, tripped, announced,
                 invocation, asked, lately, seenVars>>

\* Mutant: the second turn has an allowance of its own.
NudgeAfresh ==
  /\ phase = "drained" /\ Nudgeable
  /\ nudged' = TRUE /\ phase' = "model" /\ totalCalls' = 0
  /\ UNCHANGED <<disk, shared, guard, calls, repeated, consecutiveFailures, dedupeStreak,
                 wrote, halted, tripped, announced, invocation, asked, lately, seenVars>>

Nudge ==
  /\ phase = "drained" /\ Nudgeable
  /\ nudged' = TRUE /\ phase' = "model"
  /\ UNCHANGED <<disk, shared, guard, calls, countVars, halted, tripped, announced,
                 invocation, asked, lately, seenVars>>

End ==
  /\ phase = "drained" /\ ~Nudgeable
  /\ halted' = Verdict /\ phase' = "ended"
  /\ UNCHANGED <<disk, shared, guard, calls, countVars, tripped, announced, nudged,
                 invocation, asked, lately, seenVars>>

-----------------------------------------------------------------------------
ModelStep == (\E message \in Messages : Asks(message)) \/ Finishes \/ OutOfTime \/ Raises

ToolStep == \E i \in DOMAIN calls : Denied(i) \/ Check(i) \/ Run(i) \/ Record(i)

ReaderStep == Breaks \/ ReadResults \/ LeaveResults \/ Nudge \/ End

Step == ModelStep \/ ToolStep \/ ReaderStep

Next == Invoke \/ Step

Spec == Init /\ [][Next]_vars /\ WF_vars(Step)

-----------------------------------------------------------------------------
TypeOK ==
  /\ disk \in Disks /\ shared \in Disks
  /\ guard \in [failures : Counts, answered : Counts, written : Disks]
  /\ phase \in {"idle", "model", "tools", "drained", "ended"}
  /\ Len(calls) <= MaxParallel
  /\ \A i \in DOMAIN calls :
       calls[i] \in [call : Calls, at : {"asked", "running", "ran", "answered"}, result : Results]
  /\ totalCalls \in 0..MaxTotalCalls /\ repeated \in [Watched -> 0..MaxRepeatedCalls]
  /\ consecutiveFailures \in 0..MaxConsecutiveFailures
  /\ dedupeStreak \in 0..MaxDedupesAfterWrite
  /\ {wrote, tripped, announced, nudged, overlapped, subtree} \subseteq BOOLEAN
  /\ halted \in Halts /\ invocation \in 0..MaxInvocations /\ asked \in Nat
  /\ lately \in Seq({"ok", "fail"})
  /\ told \in [Reads -> SUBSET (Files \cup Contents)]

(***************************************************************************)
(* What a refusal says is true when it says it: a read called already      *)
(* answered would find what the model was last told, one called already    *)
(* failed would fail, and a file called already written holds those bytes, *)
(* whatever ran, failed or changed in between, in this invocation or since *)
(* an earlier one.  Two things can make it false, and only they: a change  *)
(* that overlapped another call of its message, and a deleted folder.      *)
(***************************************************************************)
Refused(i, result) ==
  /\ phase = "tools" /\ phase' = "tools" /\ i \in DOMAIN calls
  /\ calls[i].at = "asked" /\ calls'[i].at = "answered" /\ calls'[i].result = result

TruthOf(c, result) ==
  CASE result = "dedupe" -> Found(c, disk) = told[c]
    [] c \in Writes -> disk[c.path] = c.body
    [] OTHER -> Found(c, disk) = {}

RefusalsAreTrue ==
  [][\A i \in DOMAIN calls, result \in {"refused", "dedupe"} :
       Refused(i, result) /\ ~overlapped' /\ ~subtree => TruthOf(calls[i].call, result)]_vars

(***************************************************************************)
(* The bound on calls is one on an invocation, its second turn included:   *)
(* only the siblings of the call that reached it, in one message, pass it. *)
(***************************************************************************)
CallsAreBounded == asked <= MaxTotalCalls - 1 + MaxParallel

(***************************************************************************)
(* An agent is stopped for flailing when, and only when, the last calls    *)
(* that ran or were denied all failed, whatever Rudra refused in between.  *)
(***************************************************************************)
Flailing == lately = [k \in 1..MaxConsecutiveFailures |-> "fail"]

FlailingIsStopped == halted = "failures" <=> Flailing

(***************************************************************************)
(* Once a guard has fired, no call of a later message reaches the tools    *)
(* and no second turn is given.                                            *)
(***************************************************************************)
HaltIsFinal ==
  [][(halted # "none" \/ tripped) /\ phase # "ended"
       => asked' = asked /\ nudged' = nudged]_vars

(***************************************************************************)
(* Every invocation returns, whatever the model asks for, without counting *)
(* on the clock.                                                           *)
(***************************************************************************)
TurnEnds == (phase = "model") ~> (phase = "ended")

(***************************************************************************)
(* A turn is bounded: in its calls, by a halt that nothing takes back, and *)
(* in the end, whatever the model asks for.                                *)
(***************************************************************************)
TurnIsBounded == []CallsAreBounded /\ HaltIsFinal /\ TurnEnds

-----------------------------------------------------------------------------
(***************************************************************************)
(* What the source says and does not do.                                   *)
(***************************************************************************)
\* "a no-op write is refused because the POST-CONDITION is already satisfied -- the
\* bytes requested are the bytes present": not after the folder above was deleted.
WrittenIsOnDisk ==
  [][\A i \in DOMAIN calls :
       Refused(i, "refused") /\ calls[i].call \in Writes
         => disk[calls[i].call.path] = calls[i].call.body]_vars
=============================================================================
