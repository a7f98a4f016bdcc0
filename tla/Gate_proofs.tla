------------------------------ MODULE Gate_proofs ------------------------------
(*****************************************************************************)
(* What is proved of the verification gate: of one task under its questions  *)
(* (TaskRun), for every set of tasks, files and faults, of the environment   *)
(* its tests run in (ProjectEnv) and of the suite it believes (Suites).      *)
(*****************************************************************************)
EXTENDS MCGate, FiniteSetTheorems, TLAPS

(***************************************************************************)
(* A report names faults the tree holds; one that is not an escalation is  *)
(* the verdict on that tree.                                               *)
(***************************************************************************)
LEMMA ReportOfTree ==
  ASSUME NEW tr \in Trees, NEW changed, NEW report \in Reports(tr, changed)
  PROVE  /\ report \in VerifyReport
         /\ report.blocker \subseteq tr.faults
         /\ ~report.escalate => report = Verdict(tr, changed)
<1>1. tr.faults \in SUBSET Faults
  BY DEF Trees
<1>2. Blocker(tr, changed) \subseteq tr.faults
  BY DEF Blocker, Visible
<1>3. Unjudged(tr, Blocker(tr, changed)) \in BOOLEAN
  BY DEF Unjudged
<1>4. CASE report = Verdict(tr, changed)
  BY <1>1, <1>2, <1>3, <1>4 DEF Verdict, VerifyReport
<1>5. CASE report = Escalation
  BY <1>5 DEF Escalation, VerifyReport
<1> QED
  BY <1>4, <1>5 DEF Reports

(***************************************************************************)
(* The keys that become the next task's baseline, and the signature that   *)
(* decides on no progress, come from the tree.                             *)
(***************************************************************************)
LEMMA KeysOfTree ==
  ASSUME NEW tr \in Trees, NEW changed, NEW report \in Reports(tr, changed)
  PROVE  /\ failure_keys(report) \subseteq Files
         /\ failure_keys(report) \subseteq At(tr.faults)
         /\ failure_signature(report) \subseteq tr.faults
         /\ failure_signature(report) \subseteq Faults
<1>1. report.blocker \subseteq tr.faults /\ tr.faults \subseteq Faults
  BY ReportOfTree DEF Trees
<1>2. Located(report) \subseteq report.blocker
  BY DEF Located
<1>3. \A key \in failure_keys(report) : key \in Files /\ key \in At(tr.faults)
  BY <1>1 DEF failure_keys, At, Located
<1>4. failure_signature(report) \subseteq report.blocker
  BY <1>2 DEF failure_signature
<1> QED
  BY <1>1, <1>3, <1>4

(***************************************************************************)
(* verdict_for answers one of three words; "passed" means the report is,   *)
(* and "inherited" that it names failures and all of them were inherited.  *)
(***************************************************************************)
LEMMA VerdictCases ==
  ASSUME NEW report, NEW inh
  PROVE  /\ verdict_for(report, inh) \in {"passed", "inherited", "regressed"}
         /\ verdict_for(report, inh) = "passed" => Passed(report)
         /\ verdict_for(report, inh) = "inherited" =>
              failure_keys(report) # {} /\ failure_keys(report) \subseteq inh
<1>1. CASE Passed(report)
  BY <1>1 DEF verdict_for
<1>2. CASE ~Passed(report) /\ failure_keys(report) # {} /\ failure_keys(report) \subseteq inh
  BY <1>2 DEF verdict_for
<1>3. CASE ~Passed(report) /\ ~(failure_keys(report) # {} /\ failure_keys(report) \subseteq inh)
  BY <1>3 DEF verdict_for
<1> QED
  BY <1>1, <1>2, <1>3

(***************************************************************************)
(* A failure with inherited keys is signed by them; a pass signs nothing.  *)
(***************************************************************************)
LEMMA SignedByKeys ==
  ASSUME NEW report
  PROVE  /\ failure_keys(report) # {} => At(failure_signature(report)) = failure_keys(report)
         /\ Passed(report) => failure_signature(report) = {}
<1>1. failure_keys(report) # {} => Located(report) # {}
  BY DEF failure_keys, At
<1>2. failure_keys(report) # {} => At(failure_signature(report)) = failure_keys(report)
  BY <1>1 DEF failure_keys, failure_signature
<1>3. Passed(report) => failure_signature(report) = {}
  BY DEF Passed, failure_signature, Located
<1> QED
  BY <1>2, <1>3

-----------------------------------------------------------------------------
Judging == {"gate", "tester", "regate"}

(***************************************************************************)
(* What the attempts of this call cost.  A refund follows an attempt that  *)
(* was served, so giving one back never takes what an earlier run charged. *)
(***************************************************************************)
Accounts ==
  InCall =>
    /\ attempts[task] + MaxFixAttempts + refunds = budget + served + Charged
    /\ attempts[task] <= budget /\ budget >= MaxFixAttempts
    /\ refunds <= MaxRefunds /\ refunds <= served
    /\ pc \in Judging => refunds < served

(***************************************************************************)
(* Only the task of the call is in progress, and it is from its first      *)
(* dispatch on.                                                            *)
(***************************************************************************)
Marks ==
  /\ \A t \in Tasks : status[t] = "in_progress" => InCall /\ t = task
  /\ InCall => status[task] \in {"pending", "in_progress"}
  /\ InCall /\ served > 0 => status[task] = "in_progress"
  /\ pc \in Judging \cup {"coder"} => status[task] = "in_progress"

(***************************************************************************)
(* What the attempt under judgement changed is in the task's record, and a *)
(* tester is sent only to a task that has one.                             *)
(***************************************************************************)
Records ==
  /\ pc \in Judging => diff \subseteq touched[task]
  /\ pc \in {"tester", "regate"} => touched[task] # {}

(***************************************************************************)
(* The baseline describes the tree whenever a task may inherit it, and a   *)
(* task with an empty record left the tree as it found it.                 *)
(***************************************************************************)
Origins ==
  /\ pc = "idle" \/ (pc = "head" /\ attempts[task] >= budget) => baseline \subseteq At(tree.faults)
  /\ InCall => inherited \subseteq At(startTree.faults)
  /\ InCall /\ touched[task] = {} => tree = startTree

\* TypeOK in two parts: the provers take flags and numbers separately.
FlagsOK ==
  /\ baselineFailed \in BOOLEAN /\ inheritedFailing \in BOOLEAN
  /\ rejected \in BOOLEAN /\ tested \in BOOLEAN

ValuesOK ==
  /\ tree \in Trees /\ startTree \in Trees
  /\ status \in [Tasks -> Status] /\ attempts \in [Tasks -> Nat]
  /\ touched \in [Tasks -> SUBSET Files]
  /\ lastSignature \in [Tasks -> SUBSET Faults]
  /\ baseline \subseteq Files /\ inherited \subseteq Files
  /\ carried \subseteq Files /\ diff \subseteq Files
  /\ runErrors \in Nat /\ runs \in Nat /\ budget \in Nat
  /\ refunds \in Nat /\ served \in Nat
  /\ pc \in {"idle", "head", "coder", "gate", "tester", "regate", "stopped"}
  /\ task \in Tasks \cup {NoTask}
  /\ InCall => task \in Tasks

LEMMA TypeParts ==
  /\ TypeOK <=> FlagsOK /\ ValuesOK
  /\ TypeOK' <=> FlagsOK' /\ ValuesOK'
  BY DEF TypeOK, FlagsOK, ValuesOK

IInv == TypeOK /\ Accounts /\ Marks /\ Records /\ Origins

-----------------------------------------------------------------------------
LEMMA InitInv == Init => IInv
<1> SUFFICES ASSUME Init PROVE IInv
  OBVIOUS
<1> USE DEF Init
<1>1. TypeOK
  BY DEF TypeOK, Status, InCall, NoSignature
<1>2. Accounts /\ Marks /\ Records
  BY DEF Accounts, Marks, Records, InCall, Judging
<1>3. Origins
  BY DEF Origins, InCall
<1> QED
  BY <1>1, <1>2, <1>3 DEF IInv

LEMMA BeginStep ==
  ASSUME IInv, NEW t \in Tasks, Begin(t)
  PROVE  IInv'
<1> USE TaskRunAssumption DEF Begin, Workable, Budget, ledgerVars, runVars
<1>0. TypeOK /\ attempts[t] \in Nat
  BY DEF IInv, TypeOK
<1>1. TypeOK'
  <2>1. FlagsOK'
    BY <1>0, TypeParts DEF FlagsOK
  <2>2. ValuesOK'
    BY <1>0, TypeParts DEF ValuesOK, InCall
  <2> QED
    BY <2>1, <2>2, TypeParts
<1>2. Accounts'
  BY <1>0 DEF Accounts, InCall, Charged, Judging
<1>3. Marks'
  BY <1>0 DEF IInv, Marks, InCall, Judging, TypeOK
<1>4. Records'
  BY DEF Records, Judging
<1>5. Origins'
  BY <1>0 DEF IInv, Origins, InCall
<1> QED
  BY <1>1, <1>2, <1>3, <1>4, <1>5 DEF IInv

LEMMA DispatchStep ==
  ASSUME IInv, Dispatch
  PROVE  IInv'
<1> USE TaskRunAssumption DEF Dispatch, SetStatus, runVars, callVars
<1>0. TypeOK /\ task \in Tasks /\ attempts[task] \in Nat
  BY DEF IInv, TypeOK, InCall
<1>1. TypeOK'
  BY <1>0 DEF TypeOK, InCall, Status
<1>2. Accounts'
  BY <1>0 DEF IInv, Accounts, InCall, Charged, Judging, TypeOK
<1>3. Marks'
  BY <1>0 DEF IInv, Marks, InCall, Judging, TypeOK
<1>4. Records'
  BY DEF Records, Judging
<1>5. Origins'
  BY <1>0 DEF IInv, Origins, InCall
<1> QED
  BY <1>1, <1>2, <1>3, <1>4, <1>5 DEF IInv

LEMMA ExhaustStep ==
  ASSUME IInv, Exhaust
  PROVE  IInv'
<1> USE DEF Exhaust, Settle, SetStatus, runVars, callVars
<1>0. TypeOK /\ task \in Tasks
  BY DEF IInv, TypeOK, InCall
<1>1. TypeOK'
  BY <1>0 DEF TypeOK, InCall, Status
<1>2. Accounts' /\ Records'
  BY DEF Accounts, Records, InCall, Judging
<1>3. Marks'
  BY <1>0 DEF IInv, Marks, InCall, Judging, TypeOK
<1>4. Origins'
  BY <1>0 DEF IInv, Origins, InCall
<1> QED
  BY <1>1, <1>2, <1>3, <1>4 DEF IInv

LEMMA CoderFailsStep ==
  ASSUME IInv, NEW written \in SUBSET Files, CoderFails(written)
  PROVE  IInv'
<1> USE TaskRunAssumption DEF CoderFails, ErrorCount
<1>0. /\ TypeOK /\ task \in Tasks /\ pc = "coder" /\ InCall
      /\ attempts[task] \in Nat /\ touched[task] \in SUBSET Files
  BY DEF IInv, TypeOK, InCall
<1>1. attempts[task] - 1 \in Nat
  BY <1>0 DEF IInv, Accounts, Charged, TypeOK
<1>2. /\ tree' \in Trees /\ (written = {} => tree' = tree)
      /\ touched' = [touched EXCEPT ![task] = @ \cup written]
  BY DEF Rewrite, RecordTouched
<1>3. /\ pc' \in {"head", "stopped"}
      /\ pc' = "head" => status' = status
      /\ pc' = "stopped" => status' = [status EXCEPT ![task] = "pending"]
  BY DEF StopRun, SetStatus
<1>4. TypeOK'
  BY <1>0, <1>1, <1>2, <1>3 DEF TypeOK, InCall, Status
<1>5. Accounts'
  BY <1>0, <1>1, <1>3 DEF IInv, Accounts, InCall, Charged, Judging, TypeOK
<1>6. Marks'
  BY <1>0, <1>3 DEF IInv, Marks, InCall, Judging, TypeOK
<1>7. Records'
  BY <1>3 DEF Records, Judging
<1>8. Origins'
  <2>1. attempts'[task] < budget /\ budget' = budget /\ task' = task
    BY <1>0 DEF IInv, Accounts, TypeOK
  <2>2. touched'[task] = {} => tree' = startTree
    BY <1>0, <1>2 DEF IInv, Origins, TypeOK
  <2> QED
    BY <1>0, <1>3, <2>1, <2>2 DEF IInv, Origins, InCall, TypeOK
<1> QED
  BY <1>4, <1>5, <1>6, <1>7, <1>8 DEF IInv

LEMMA CoderServesStep ==
  ASSUME IInv, NEW written \in SUBSET Files, CoderServes(written)
  PROVE  IInv'
<1> USE DEF CoderServes
<1>0. /\ TypeOK /\ task \in Tasks /\ pc = "coder" /\ InCall
      /\ touched[task] \in SUBSET Files /\ carried \in SUBSET Files
  BY DEF IInv, TypeOK, InCall
<1>1. /\ tree' \in Trees /\ (written = {} => tree' = tree)
      /\ touched' = [touched EXCEPT ![task] = @ \cup (carried \cup written)]
  BY DEF Rewrite, RecordTouched
<1>2. TypeOK'
  BY <1>0, <1>1 DEF TypeOK, InCall
<1>3. Accounts'
  BY <1>0 DEF IInv, Accounts, InCall, Charged, Judging, TypeOK
<1>4. Marks'
  BY <1>0 DEF IInv, Marks, InCall, Judging, TypeOK
<1>5. Records'
  BY <1>0, <1>1 DEF Records, Judging, TypeOK
<1>6. Origins'
  <2>1. touched'[task] = {} => tree' = startTree
    BY <1>0, <1>1 DEF IInv, Origins, TypeOK
  <2> QED
    BY <1>0, <2>1 DEF IInv, Origins, InCall
<1> QED
  BY <1>2, <1>3, <1>4, <1>5, <1>6 DEF IInv

LEMMA TesterEndsStep ==
  ASSUME IInv, NEW written \in SUBSET Files, TesterEnds(written)
  PROVE  IInv'
<1> USE DEF TesterEnds, runVars, callVars
<1>0. /\ TypeOK /\ task \in Tasks /\ pc = "tester" /\ InCall
      /\ touched[task] \in SUBSET Files /\ diff \in SUBSET Files
  BY DEF IInv, TypeOK, InCall
<1>1. /\ tree' \in Trees
      /\ touched' = [touched EXCEPT ![task] = @ \cup (diff \cup written)]
  BY DEF Rewrite, RecordTouched
<1>2. TypeOK'
  BY <1>0, <1>1 DEF TypeOK, InCall
<1>3. Accounts'
  BY <1>0 DEF IInv, Accounts, InCall, Charged, Judging, TypeOK
<1>4. Marks'
  BY <1>0 DEF IInv, Marks, InCall, Judging, TypeOK
<1>5. Records' /\ touched'[task] # {}
  BY <1>0, <1>1 DEF IInv, Records, Judging, TypeOK
<1>6. Origins'
  BY <1>0, <1>5 DEF IInv, Origins, InCall
<1> QED
  BY <1>2, <1>3, <1>4, <1>5, <1>6 DEF IInv

LEMMA CancelStep ==
  ASSUME IInv, NEW written \in SUBSET Files, Cancel(written)
  PROVE  IInv'
<1> USE DEF Cancel, StopRun, SetStatus, runVars, callVars
<1>0. TypeOK /\ task \in Tasks
  BY DEF IInv, TypeOK, InCall
<1>1. TypeOK'
  BY <1>0 DEF TypeOK, InCall, Status, Rewrite
<1>2. Accounts' /\ Records' /\ Origins'
  BY DEF Accounts, Records, Origins, InCall, Judging
<1>3. Marks'
  BY <1>0 DEF IInv, Marks, InCall, Judging, TypeOK
<1> QED
  BY <1>1, <1>2, <1>3 DEF IInv

LEMMA EndRunStep ==
  ASSUME IInv, EndRun
  PROVE  IInv'
<1> USE DEF EndRun, ledgerVars, runVars, callVars
<1>1. TypeOK'
  BY DEF IInv, TypeOK, InCall
<1>2. Accounts' /\ Records' /\ Origins'
  BY DEF Accounts, Records, Origins, InCall, Judging
<1>3. Marks'
  BY DEF IInv, Marks, InCall, Judging
<1> QED
  BY <1>1, <1>2, <1>3 DEF IInv

LEMMA ResumeStep ==
  ASSUME IInv, Resume
  PROVE  IInv'
<1> USE DEF Resume, ledgerVars, callVars
<1>0. TypeOK
  BY DEF IInv
<1>1. TypeOK'
  <2>1. FlagsOK'
    BY <1>0, TypeParts DEF FlagsOK
  <2>2. ValuesOK'
    BY <1>0, TypeParts DEF ValuesOK, InCall
  <2> QED
    BY <2>1, <2>2, TypeParts
<1>2. Accounts' /\ Records' /\ Origins'
  BY DEF Accounts, Records, Origins, InCall, Judging
<1>3. Marks'
  BY DEF IInv, Marks, InCall, Judging
<1> QED
  BY <1>1, <1>2, <1>3 DEF IInv

-----------------------------------------------------------------------------
(***************************************************************************)
(* The two gates.  However the report is read, the call stops, settles its *)
(* task, or goes round again, with the baseline of the tree it judged.     *)
(***************************************************************************)
Settled == {"done", "blocked"}

GateFrame ==
  UNCHANGED <<tree, touched, runErrors, runs, task, budget, inherited,
              inheritedFailing, carried, diff, served, startTree>>

Outcome ==
  /\ lastSignature' \in [Tasks -> SUBSET Faults]
  /\ baseline' \subseteq Files /\ baselineFailed' \in BOOLEAN /\ rejected' \in BOOLEAN
  /\ \/ /\ pc' = "stopped" /\ status' = [status EXCEPT ![task] = "pending"]
        /\ UNCHANGED <<attempts, refunds>>
     \/ /\ pc' = "idle" /\ baseline' \subseteq At(tree.faults)
        /\ \E st \in Settled : status' = [status EXCEPT ![task] = st]
        /\ UNCHANGED <<attempts, refunds>>
     \/ /\ pc' = "head" /\ baseline' \subseteq At(tree.faults)
        /\ UNCHANGED <<status, attempts, refunds>>
     \/ /\ pc' = "head" /\ baseline' \subseteq At(tree.faults)
        /\ UNCHANGED status
        /\ refunds < MaxRefunds /\ refunds' = refunds + 1
        /\ attempts' = [attempts EXCEPT ![task] = @ - 1]

LEMMA EscalationOutcome ==
  ASSUME IInv, NEW report \in Reports(tree, touched[task]), Escalates(report)
  PROVE  Outcome
<1>1. TypeOK
  BY DEF IInv
<1>2. baselineFailed' \in BOOLEAN /\ rejected' \in BOOLEAN
  BY <1>1 DEF TypeOK, Escalates
<1>3. lastSignature' \in [Tasks -> SUBSET Faults] /\ baseline' \subseteq Files
  BY <1>1 DEF TypeOK, Escalates
<1> QED
  BY <1>2, <1>3 DEF Outcome, Escalates, StopRun, SetStatus

LEMMA EmptyDiffOutcome ==
  ASSUME IInv, NEW report \in Reports(tree, touched[task]), JudgeEmptyDiff(report)
  PROVE  Outcome
<1>1. CASE Escalates(report)
  BY <1>1, EscalationOutcome
<1>2. CASE ~Escalates(report)
  <2>1. TypeOK
    BY DEF IInv
  <2>2. baseline' \subseteq Files /\ baseline' \subseteq At(tree.faults)
    BY <1>2, <2>1, KeysOfTree DEF JudgeEmptyDiff, SetBaseline, TypeOK
  <2>3. baselineFailed' \in BOOLEAN /\ rejected' \in BOOLEAN
    BY <1>2, <2>1 DEF JudgeEmptyDiff, SetBaseline, Passed, TypeOK
  <2>4. lastSignature' \in [Tasks -> SUBSET Faults]
    BY <1>2, <2>1 DEF JudgeEmptyDiff, TypeOK
  <2> QED
    BY <1>2, <2>2, <2>3, <2>4 DEF Outcome, JudgeEmptyDiff, Settle, SetStatus, Settled
<1> QED
  BY <1>1, <1>2

LEMMA WorkOutcome ==
  ASSUME IInv, task \in Tasks, NEW report \in Reports(tree, touched[task]), JudgeWork(report)
  PROVE  Outcome
<1>1. CASE Escalates(report)
  BY <1>1, EscalationOutcome
<1>2. CASE ~Escalates(report)
  <2>1. TypeOK
    BY DEF IInv
  <2>2. baseline' \subseteq Files /\ baseline' \subseteq At(tree.faults)
    BY <1>2, <2>1, KeysOfTree DEF JudgeWork, SetBaseline, TypeOK
  <2>3. baselineFailed' \in BOOLEAN
    BY <1>2 DEF JudgeWork, SetBaseline, Passed
  <2>4. CASE UNCHANGED <<lastSignature, rejected, attempts, refunds>> /\ Settle("done")
    <3>1. rejected' \in BOOLEAN
      BY <2>1, <2>4 DEF TypeOK
    <3> QED
      BY <2>1, <2>2, <2>3, <2>4, <3>1 DEF Outcome, Settle, SetStatus, Settled, TypeOK
  <2>5. CASE UNCHANGED <<lastSignature, rejected, attempts, refunds>> /\ Settle("blocked")
    <3>1. rejected' \in BOOLEAN
      BY <2>1, <2>5 DEF TypeOK
    <3> QED
      BY <2>1, <2>2, <2>3, <2>5, <3>1 DEF Outcome, Settle, SetStatus, Settled, TypeOK
  <2>6. CASE Reject(report)
    <3>1. failure_signature(report) \in SUBSET Faults
      BY <2>1, KeysOfTree DEF TypeOK
    <3>2. lastSignature' \in [Tasks -> SUBSET Faults]
      BY <2>1, <2>6, <3>1 DEF Reject, TypeOK
    <3>3. rejected' \in BOOLEAN
      BY <2>6 DEF Reject
    <3> QED
      BY <2>2, <2>3, <2>6, <3>2, <3>3 DEF Outcome, Reject, Refundable
  <2> QED
    BY <1>2, <2>4, <2>5, <2>6 DEF JudgeWork
<1> QED
  BY <1>1, <1>2

LEMMA OutcomeStep ==
  ASSUME IInv, pc \in {"gate", "regate"}, GateFrame, tested' \in BOOLEAN, Outcome
  PROVE  IInv'
<1> USE TaskRunAssumption DEF GateFrame
<1>0. /\ TypeOK /\ task \in Tasks /\ InCall
      /\ attempts[task] \in Nat /\ refunds \in Nat
  BY DEF IInv, TypeOK, InCall
<1>1. attempts[task] - 1 \in Nat
  BY <1>0 DEF IInv, Accounts, Charged, Judging, TypeOK
<1>2. TypeOK'
  <2>1. FlagsOK'
    BY <1>0, TypeParts DEF FlagsOK, Outcome
  <2>2. ValuesOK'
    BY <1>0, <1>1, TypeParts DEF ValuesOK, InCall, Outcome, Status, Settled
  <2> QED
    BY <2>1, <2>2, TypeParts
<1>3. Accounts'
  BY <1>0, <1>1 DEF IInv, Accounts, InCall, Charged, Judging, TypeOK, Outcome
<1>4. Marks'
  BY <1>0 DEF IInv, Marks, InCall, Judging, TypeOK, Outcome, Settled
<1>5. Records'
  BY DEF Records, Judging, Outcome
<1>6. Origins'
  BY <1>0 DEF IInv, Origins, InCall, Outcome
<1> QED
  BY <1>2, <1>3, <1>4, <1>5, <1>6 DEF IInv

LEMMA VerifyAttemptStep ==
  ASSUME IInv, VerifyAttempt
  PROVE  IInv'
<1>0. /\ TypeOK /\ task \in Tasks /\ pc = "gate" /\ GateFrame
      /\ tested \in BOOLEAN
  BY DEF IInv, TypeOK, InCall, VerifyAttempt, GateFrame
<1>1. PICK report \in Reports(tree, touched[task]) :
        \/ WroteNothing(report) /\ JudgeEmptyDiff(report) /\ UNCHANGED tested
        \/ SendsTester(report) /\ SendTester
        \/ /\ ~WroteNothing(report) /\ ~SendsTester(report)
           /\ JudgeWork(report) /\ UNCHANGED tested
  BY DEF VerifyAttempt
<1>2. CASE JudgeEmptyDiff(report) /\ UNCHANGED tested
  BY <1>0, <1>2, EmptyDiffOutcome, OutcomeStep
<1>3. CASE JudgeWork(report) /\ UNCHANGED tested
  BY <1>0, <1>3, WorkOutcome, OutcomeStep
<1>4. CASE SendsTester(report) /\ SendTester
  <2> USE <1>0, <1>4 DEF SendTester, GateFrame
  <2>1. TypeOK'
    <3>1. FlagsOK'
      BY TypeParts DEF FlagsOK
    <3>2. ValuesOK'
      BY TypeParts DEF ValuesOK, InCall
    <3> QED
      BY <3>1, <3>2, TypeParts
  <2>2. Accounts'
    BY DEF IInv, Accounts, InCall, Charged, Judging
  <2>3. Marks'
    BY DEF IInv, Marks, InCall, Judging
  <2>4. Records'
    <3>1. touched[task] # {}
      BY DEF IInv, Records, Judging, SendsTester, WroteNothing, OwnWorkUntested
    <3> QED
      BY <3>1 DEF IInv, Records, Judging
  <2>5. Origins'
    BY DEF IInv, Origins, InCall
  <2> QED
    BY <2>1, <2>2, <2>3, <2>4, <2>5 DEF IInv
<1> QED
  BY <1>1, <1>2, <1>3, <1>4

LEMMA VerifyTestsStep ==
  ASSUME IInv, VerifyTests
  PROVE  IInv'
<1>0. task \in Tasks /\ tested \in BOOLEAN
  BY DEF IInv, TypeOK, InCall, VerifyTests
<1>1. /\ pc = "regate" /\ GateFrame /\ tested' = tested
      /\ \E report \in Reports(tree, touched[task]) : JudgeWork(report)
  BY DEF VerifyTests, GateFrame
<1> QED
  BY <1>0, <1>1, WorkOutcome, OutcomeStep

-----------------------------------------------------------------------------
LEMMA NextInv ==
  ASSUME IInv, [Next]_vars
  PROVE  IInv'
<1>1. CASE UNCHANGED vars
  BY <1>1 DEF vars, ledgerVars, runVars, callVars, IInv, TypeOK, Accounts, Marks,
              Records, Origins, InCall, Charged, Judging
<1>2. CASE Next
  BY <1>2, BeginStep, DispatchStep, ExhaustStep, CoderFailsStep, CoderServesStep,
     TesterEndsStep, VerifyAttemptStep, VerifyTestsStep, CancelStep, EndRunStep, ResumeStep
     DEF Next, CallStep
<1> QED
  BY <1>1, <1>2

(***************************************************************************)
(* The inductive invariant holds in every reachable state.                 *)
(***************************************************************************)
THEOREM Invariance == Spec => []IInv
  BY InitInv, NextInv, PTL DEF Spec

LEMMA TaskTypes == IInv => TypeOK
  BY DEF IInv

(***************************************************************************)
(* TypeOK for every instance: among others an attempt given back never     *)
(* takes the count below zero.                                             *)
(***************************************************************************)
THEOREM TypeCorrect == Spec => []TypeOK
  BY TaskTypes, Invariance, PTL

(***************************************************************************)
(* The fix budget is kept: run_task serves at most max_fix_attempts        *)
(* attempts and one per refunded gate, whatever fails in between.          *)
(***************************************************************************)
THEOREM BudgetKept == Spec => []AttemptsAddUp
<1>1. IInv => AttemptsAddUp
  BY TaskRunAssumption DEF IInv, Accounts, AttemptsAddUp, Charged, TypeOK, InCall
<1> QED
  BY <1>1, Invariance, PTL

(***************************************************************************)
(* No task is left in progress when no call is: --continue finds the one   *)
(* the run stopped on.                                                     *)
(***************************************************************************)
THEOREM StopIsResumable == Spec => []StoppedIsResumable
<1>1. IInv => StoppedIsResumable
  BY DEF IInv, Marks, StoppedIsResumable
<1> QED
  BY <1>1, Invariance, PTL

-----------------------------------------------------------------------------
(***************************************************************************)
(* A task settles in three places only: an exhausted budget, an empty diff *)
(* the gate confirms, and a judged attempt.                                *)
(***************************************************************************)
SettledBy(st, report) ==
  /\ report = Verdict(tree, touched[task])
  /\ \/ /\ st = "done" /\ pc = "gate"
        /\ WroteNothing(report) /\ ConfirmsNothingToDo(report)
     \/ /\ st = "done" /\ (pc = "gate" => ~WroteNothing(report))
        /\ verdict_for(report, inherited) # "regressed"
     \/ st = "blocked" /\ NoProgress(report)

LEMMA SettlesAtGate ==
  ASSUME IInv, [Next]_vars, NEW t \in Tasks, NEW st \in Settled, Becomes(t, st)
  PROVE  /\ t = task
         /\ \/ Exhaust /\ st = "blocked"
            \/ /\ pc \in {"gate", "regate"} /\ GateFrame
               /\ \E report \in Reports(tree, touched[task]) : SettledBy(st, report)
<1> USE DEF Becomes, Settled
<1>0. TypeOK /\ status \in [Tasks -> Status]
  BY DEF IInv, TypeOK
<1>1. status' # status
  OBVIOUS
<1>2. CASE Exhaust
  BY <1>0, <1>2 DEF Exhaust, Settle, SetStatus
<1>3. CASE VerifyAttempt
  <2>1. PICK report \in Reports(tree, touched[task]) :
          \/ WroteNothing(report) /\ JudgeEmptyDiff(report)
          \/ SendsTester(report) /\ SendTester
          \/ ~WroteNothing(report) /\ JudgeWork(report)
    BY <1>3 DEF VerifyAttempt
  <2>2. GateFrame /\ pc = "gate" /\ task \in Tasks
    BY <1>0, <1>3 DEF VerifyAttempt, GateFrame, TypeOK, InCall
  <2>3. ~Escalates(report)
    BY <1>0, <2>2 DEF Escalates, StopRun, SetStatus
  <2>4. ~report.escalate /\ ~SendTester
    BY <1>1, <2>1, <2>3 DEF JudgeEmptyDiff, JudgeWork, SendTester, Escalates
  <2>5. report = Verdict(tree, touched[task])
    BY <1>0, <2>4, ReportOfTree DEF TypeOK
  <2>6. CASE WroteNothing(report) /\ JudgeEmptyDiff(report)
    BY <1>0, <1>1, <2>2, <2>3, <2>5, <2>6 DEF JudgeEmptyDiff, Settle, SetStatus, SettledBy
  <2>7. CASE ~WroteNothing(report) /\ JudgeWork(report)
    BY <1>0, <1>1, <2>2, <2>3, <2>5, <2>7
       DEF JudgeWork, Settle, SetStatus, SettledBy, Reject
  <2> QED
    BY <2>1, <2>4, <2>6, <2>7
<1>4. CASE VerifyTests
  <2>1. PICK report \in Reports(tree, touched[task]) : JudgeWork(report)
    BY <1>4 DEF VerifyTests
  <2>2. GateFrame /\ pc = "regate" /\ task \in Tasks
    BY <1>0, <1>4 DEF VerifyTests, GateFrame, TypeOK, InCall
  <2>3. ~Escalates(report)
    BY <1>0, <2>2 DEF Escalates, StopRun, SetStatus
  <2>4. ~report.escalate
    BY <2>1, <2>3 DEF JudgeWork
  <2>5. report = Verdict(tree, touched[task])
    BY <1>0, <2>4, ReportOfTree DEF TypeOK
  <2> QED
    BY <1>0, <1>1, <2>1, <2>2, <2>3, <2>5 DEF JudgeWork, Settle, SetStatus, SettledBy, Reject
<1>5. CASE UNCHANGED vars
  BY <1>1, <1>5 DEF vars, ledgerVars
<1>6. CASE \E u \in Tasks : Begin(u)
  BY <1>1, <1>6 DEF Begin, Workable, ledgerVars
<1>7. CASE Dispatch
  BY <1>0, <1>7 DEF Dispatch, SetStatus
<1>8. CASE \E written \in SUBSET Files :
             CoderFails(written) \/ CoderServes(written) \/ TesterEnds(written)
  BY <1>0, <1>1, <1>8 DEF CoderFails, CoderServes, TesterEnds, StopRun, SetStatus
<1>9. CASE \E written \in SUBSET Files : Cancel(written)
  BY <1>0, <1>9 DEF Cancel, StopRun, SetStatus
<1>10. CASE EndRun \/ Resume
  BY <1>1, <1>10 DEF EndRun, Resume, ledgerVars
<1> QED
  BY <1>2, <1>3, <1>4, <1>5, <1>6, <1>7, <1>8, <1>9, <1>10 DEF Next, CallStep

(***************************************************************************)
(* A task is done only over failures that were in the tree when it was     *)
(* picked up.                                                              *)
(***************************************************************************)
LEMMA DoneOwnStep ==
  ASSUME IInv, [Next]_vars, NEW t \in Tasks, Becomes(t, "done")
  PROVE  At(failure_signature(Verdict(tree', touched'[t]))) \subseteq At(startTree.faults)
<1>1. /\ t = task /\ pc \in {"gate", "regate"} /\ InCall
      /\ tree' = tree /\ touched' = touched
  BY SettlesAtGate DEF Settled, GateFrame, InCall
<1>2. PICK report \in Reports(tree, touched[task]) : SettledBy("done", report)
  BY SettlesAtGate DEF Settled
<1>3. report = Verdict(tree', touched'[t])
  BY <1>1, <1>2 DEF SettledBy
<1>4. tree \in Trees /\ inherited \subseteq At(startTree.faults)
  BY <1>1 DEF IInv, TypeOK, Origins
<1>5. CASE Passed(report)
  BY <1>3, <1>5, SignedByKeys DEF At
<1>6. CASE verdict_for(report, inherited) = "inherited"
  <2>1. failure_keys(report) # {} /\ failure_keys(report) \subseteq inherited
    BY <1>6, VerdictCases
  <2> QED
    BY <1>3, <1>4, <2>1, SignedByKeys
<1>7. CASE touched[task] = {}
  <2>1. tree = startTree
    BY <1>1, <1>7 DEF IInv, Origins
  <2>2. failure_signature(report) \subseteq tree.faults
    BY <1>4, KeysOfTree
  <2> QED
    BY <1>3, <2>1, <2>2 DEF At
<1> QED
  BY <1>2, <1>5, <1>6, <1>7, VerdictCases DEF SettledBy, ConfirmsNothingToDo, EmptyDiffVerdict

\* A done task answers for no failure it did not inherit.
THEOREM DoneOwn == Spec => DoneAnswersForItsOwn
<1>1. ASSUME IInv, [Next]_vars
      PROVE  [\A t \in Tasks : Becomes(t, "done") =>
                At(failure_signature(Verdict(tree', touched'[t]))) \subseteq At(startTree.faults)]_vars
  BY <1>1, DoneOwnStep
<1> QED
  BY <1>1, Invariance, PTL DEF Spec, DoneAnswersForItsOwn

(***************************************************************************)
(* A task with an empty record is done only over tests that ran: the       *)
(* writing branch never sees it, for what it judged is in the record.      *)
(***************************************************************************)
LEMMA NotVacuousStep ==
  ASSUME IInv, [Next]_vars, NEW t \in Tasks, Becomes(t, "done"), touched'[t] = {}
  PROVE  ~Verdict(tree', {}).unjudged
<1>1. /\ t = task /\ pc \in {"gate", "regate"}
      /\ tree' = tree /\ touched' = touched
  BY SettlesAtGate DEF Settled, GateFrame
<1>2. PICK report \in Reports(tree, touched[task]) : SettledBy("done", report)
  BY SettlesAtGate DEF Settled
<1>3. pc = "gate" /\ diff = {}
  BY <1>1 DEF IInv, Records, Judging
<1>4. WroteNothing(report)
  BY <1>1, <1>3 DEF WroteNothing, OwnWorkUntested
<1> QED
  BY <1>1, <1>2, <1>3, <1>4 DEF SettledBy, ConfirmsNothingToDo

\* A task that wrote nothing is done only over tests that ran.
THEOREM NotVacuous == Spec => DoneIsNotVacuous
<1>1. ASSUME IInv, [Next]_vars
      PROVE  [\A t \in Tasks : Becomes(t, "done") /\ touched'[t] = {} =>
                ~Verdict(tree', {}).unjudged]_vars
  BY <1>1, NotVacuousStep
<1> QED
  BY <1>1, Invariance, PTL DEF Spec, DoneIsNotVacuous

(***************************************************************************)
(* A task is blocked only on a repeated failure or a budget that was       *)
(* really served: failed dispatches never use it up.                       *)
(***************************************************************************)
LEMMA EvidenceStep ==
  ASSUME IInv, [Next]_vars, NEW t \in Tasks, Becomes(t, "blocked")
  PROVE  SameFailureTwice(t) \/ served = MaxFixAttempts + refunds
<1>1. t = task
  BY SettlesAtGate DEF Settled
<1>2. CASE Exhaust
  BY <1>2, TaskRunAssumption DEF Exhaust, IInv, TypeOK, Accounts, InCall, Charged
<1>3. CASE pc \in {"gate", "regate"} /\ \E report \in Reports(tree, touched[task]) :
                                             SettledBy("blocked", report)
  <2>1. served > 0
    BY <1>3 DEF IInv, TypeOK, Accounts, InCall, Judging
  <2> QED
    BY <1>1, <1>3, <2>1 DEF SettledBy, NoProgress, SameFailureTwice
<1> QED
  BY <1>2, <1>3, SettlesAtGate DEF Settled

\* A task is blocked on the same failure twice or on a spent budget.
THEOREM Evidence == Spec => BlockedOnEvidence
<1>1. ASSUME IInv, [Next]_vars
      PROVE  [\A t \in Tasks : Becomes(t, "blocked") =>
                SameFailureTwice(t) \/ served = MaxFixAttempts + refunds]_vars
  BY <1>1, EvidenceStep
<1> QED
  BY <1>1, Invariance, PTL DEF Spec, BlockedOnEvidence

-----------------------------------------------------------------------------
(***************************************************************************)
(* TaskRun implements TaskLifecycle: a dispatch picks a task up, a verdict *)
(* settles it, a stop or a cancel puts it back, and every other step       *)
(* changes nothing the ledger shows.                                       *)
(***************************************************************************)
LEMMA LifecycleInit == Init => Lifecycle!Init
  BY DEF Init, Lifecycle!Init, Live, InCall

LEMMA LiveValue ==
  ASSUME IInv
  PROVE  /\ Live = (IF InCall /\ status[task] = "in_progress" THEN task ELSE NoTask)
         /\ NoTask \notin Tasks
         /\ status \in [Tasks -> Status] /\ (InCall => task \in Tasks)
  BY TaskRunAssumption DEF Live, IInv, TypeOK

LEMMA LifecycleStep ==
  ASSUME IInv, IInv', [Next]_vars
  PROVE  [Lifecycle!Next]_<<status, Live>>
<1> USE LiveValue
<1>1. CASE UNCHANGED vars \/ EndRun \/ Resume \/ \E t \in Tasks : Begin(t)
  BY <1>1 DEF vars, ledgerVars, callVars, runVars, EndRun, Resume, Begin, Live, InCall, IInv, Marks
<1>2. CASE Dispatch
  <2>1. CASE status[task] = "in_progress"
    BY <1>2, <2>1 DEF Dispatch, SetStatus, Live, InCall, callVars
  <2>2. CASE status[task] = "pending"
    <3>1. Lifecycle!PickUp(task)
      BY <1>2, <2>2 DEF Dispatch, SetStatus, Lifecycle!PickUp, Live, InCall, callVars
    <3> QED
      BY <1>2, <3>1 DEF Dispatch, InCall, Lifecycle!Next
  <2> QED
    BY <1>2, <2>1, <2>2 DEF Dispatch, IInv, Marks, InCall
<1>3. CASE Exhaust
  <2>1. served > 0
    BY <1>3, TaskRunAssumption DEF Exhaust, IInv, TypeOK, Accounts, InCall, Charged
  <2>2. status[task] = "in_progress"
    BY <1>3, <2>1 DEF Exhaust, IInv, Marks, InCall
  <2>3. Lifecycle!Settle(task)
    BY <1>3, <2>2 DEF Exhaust, Settle, SetStatus, Lifecycle!Settle, Live, InCall
  <2> QED
    BY <1>3, <2>3 DEF Exhaust, InCall, Lifecycle!Next
<1>4. CASE \E written \in SUBSET Files : CoderServes(written) \/ TesterEnds(written)
  BY <1>4 DEF CoderServes, TesterEnds, Live, InCall, callVars
<1>5. CASE \E written \in SUBSET Files : CoderFails(written) \/ Cancel(written)
  <2>1. InCall /\ task' = task /\ status[task] = "in_progress"
    BY <1>5 DEF CoderFails, Cancel, InCall, callVars, IInv, Marks, Judging
  <2>2. CASE pc' = "head" /\ status' = status
    BY <2>1, <2>2 DEF Live, InCall
  <2>3. CASE StopRun
    BY <2>1, <2>3 DEF StopRun, SetStatus, Live, InCall, Lifecycle!Next, Lifecycle!PutBack
  <2> QED
    BY <1>5, <2>2, <2>3 DEF CoderFails, Cancel
<1>6. CASE VerifyAttempt \/ VerifyTests
  <2>1. InCall /\ task' = task /\ status[task] = "in_progress"
    BY <1>6 DEF VerifyAttempt, VerifyTests, InCall, IInv, Marks, Judging
  <2>2. CASE Outcome
    <3>1. CASE pc' = "stopped" /\ status' = [status EXCEPT ![task] = "pending"]
      BY <2>1, <3>1 DEF Live, InCall, Lifecycle!Next, Lifecycle!PutBack
    <3>2. CASE pc' = "idle" /\ \E st \in Settled : status' = [status EXCEPT ![task] = st]
      BY <2>1, <3>2 DEF Live, InCall, Settled, Lifecycle!Next, Lifecycle!Settle
    <3>3. CASE pc' = "head" /\ status' = status
      BY <2>1, <3>3 DEF Live, InCall
    <3> QED
      BY <2>2, <3>1, <3>2, <3>3 DEF Outcome
  <2>3. CASE SendTester
    BY <2>1, <2>3 DEF SendTester, Live, InCall
  <2> QED
    BY <1>6, <2>1, <2>2, <2>3, EmptyDiffOutcome, WorkOutcome DEF VerifyAttempt, VerifyTests
<1> QED
  BY <1>1, <1>2, <1>3, <1>4, <1>5, <1>6 DEF Next, CallStep

\* run_task moves a task's status only as the abstract TaskLifecycle does.
THEOREM FollowsLifecycle == Spec => TasksFollowLifecycle
<1>1. IInv /\ IInv' /\ [Next]_vars => [Lifecycle!Next]_<<status, Live>>
  BY LifecycleStep
<1> QED
  BY <1>1, LifecycleInit, Invariance, PTL DEF Spec, TasksFollowLifecycle, Lifecycle!Spec

(***************************************************************************)
(* A task is settled on evidence only: done for work that answers for its  *)
(* own failures and over tests that ran, blocked on a failure met twice or *)
(* a budget served in full.                                                *)
(***************************************************************************)
THEOREM SettlesOnEvidence == Spec => SettledOnEvidence
BY DoneOwn, NotVacuous, Evidence DEF SettledOnEvidence

-----------------------------------------------------------------------------
Prints == {NoPrint} \cup (EnvTrees \X Declarations)
Built == [there : {TRUE}, marked : BOOLEAN, print : Prints, pytest : BOOLEAN,
          installed : Declarations \cup {CUT}, half : BOOLEAN, users : BOOLEAN]
Venvs == {NoVenv} \cup Built
Phases == {"rest", "create", "mark", "pytest", "read", "deps", "stamp", "gate"}
Syncs == [pc : Phases, print : Prints,
          outcome : {"none", "ok", "failed", "denied", "skipped", "unchanged"}]

Shape ==
  /\ "main" \in LiveTrees /\ LiveTrees \subseteq EnvTrees /\ peLink \subseteq LiveTrees \ {"main"}
  /\ peDeclared \in [LiveTrees -> Declarations]
  /\ peVenv \in [EnvTrees -> Venvs] /\ peSync \in [EnvTrees -> Syncs]
  /\ peKilled \in 0..EnvKills /\ peEdits \in 0..EnvEdits

(***************************************************************************)
(* What a virtualenv says of itself, and what a sync may rely on of the    *)
(* one it is at, whoever else is at it.                                    *)
(***************************************************************************)
OwnedOnce(v) == v.there /\ v.users => ~v.marked

Standing(s, v) ==
  /\ s.pc = "rest" => s = Idle
  /\ s.pc # "gate" => s.outcome = "none"
  /\ s.pc \in {"mark", "pytest", "read", "deps", "stamp"} => v.there /\ ~v.users
  /\ s.pc = "create" => ~v.there

(***************************************************************************)
(* A worktree is linked to a virtualenv that is there and will stay: then  *)
(* nobody builds one at its place.                                         *)
(***************************************************************************)
Linked ==
  peLink # {} =>
    /\ peVenv["main"].there
    /\ \A t \in peLink \cup {"main"} : peSync[t].pc \notin {"create", "mark"}

Ownership ==
  /\ \A t \in EnvTrees : OwnedOnce(peVenv[t])
  /\ \A t \in EnvTrees \ {"main"} : peVenv[t].there => ~peVenv[t].users
  /\ \A t \in EnvTrees \ LiveTrees : peVenv[t] = NoVenv /\ peSync[t] = Idle
  /\ \A t \in LiveTrees : Standing(peSync[t], Venv(t))
  /\ Linked
  /\ NoneIsLeftHalfBuilt

(***************************************************************************)
(* A fingerprint names what is installed, unless an install came between;  *)
(* what a sync has done so far, while no other is at its virtualenv.       *)
(***************************************************************************)
Truthful(v) ==
  v.there => \A u \in EnvTrees, d \in Declarations \ {NOTHING} :
    v.print = <<u, d>> /\ ~v.half => v.installed = d

SoFar(s, v, t) ==
  /\ s.pc \in {"read", "deps", "stamp"} => v.pytest
  /\ s.pc \in {"deps", "stamp"} => s.print = Fingerprint(t)
  /\ s.pc = "deps" => peDeclared[t] # NOTHING
  /\ s.pc = "stamp" => peDeclared[t] = NOTHING \/ v.installed = peDeclared[t]
  /\ s.pc = "gate" /\ s.outcome \in {"ok", "unchanged"} =>
       /\ v.there /\ v.pytest
       /\ peDeclared[t] # NOTHING /\ ~v.half => v.installed = peDeclared[t]

Alone ==
  \A t, u \in LiveTrees : t # u /\ AtVenv(t) /\ AtVenv(u) => Home(t) # Home(u)

Freshness ==
  ~peShared =>
    /\ \A t \in EnvTrees : Truthful(peVenv[t])
    /\ \A t \in LiveTrees : SoFar(peSync[t], Venv(t), t)
    /\ Alone

EInv == Shape /\ Ownership /\ Freshness

-----------------------------------------------------------------------------
LEMMA Fields ==
  /\ \A v \in Built : v.there /\ v # NoVenv
  /\ ~NoVenv.there
  /\ \A m, u \in BOOLEAN : NewVenv(m, u) \in Built
  /\ Idle \in Syncs
<1>1. NOTHING \in Declarations
  BY ProjectEnvAssumption
<1>2. \A v \in Built : v.there
  BY DEF Built
<1>3. ~NoVenv.there
  BY DEF NoVenv
<1>4. ASSUME NEW m \in BOOLEAN, NEW u \in BOOLEAN PROVE NewVenv(m, u) \in Built
  BY <1>1 DEF NewVenv, Built, Prints
<1>5. Idle \in Syncs
  BY DEF Idle, Syncs, Prints, Phases
<1> QED
  BY <1>2, <1>3, <1>4, <1>5

LEMMA NewIsUnprinted == ASSUME NEW u, NEW d PROVE NoPrint # <<u, d>>
  BY DEF NoPrint

LEMMA HomeIsThere ==
  ASSUME Shape, NEW t \in LiveTrees
  PROVE  Home(t) \in LiveTrees /\ Venv(t) \in Venvs
  BY DEF Shape, Home, Venv

(***************************************************************************)
(* A tree whose virtualenv is not there has it to itself.                  *)
(***************************************************************************)
LEMMA OthersKeepTheirs ==
  ASSUME Shape, Linked, NEW t \in LiveTrees, NEW u \in LiveTrees, u # t, Home(u) = Home(t)
  PROVE  Venv(t).there
  BY DEF Shape, Linked, Home, Venv

(***************************************************************************)
(* One step of the sync of one tree, which is at its virtualenv: v is what *)
(* it leaves there and s where it is then.                                 *)
(***************************************************************************)
LEMMA SyncStep ==
  ASSUME EInv, NEW t \in LiveTrees, NEW v \in Venvs, NEW s \in Syncs, AtVenv(t),
         peVenv' = [peVenv EXCEPT ![Home(t)] = v], peSync' = [peSync EXCEPT ![t] = s],
         UNCHANGED <<peDeclared, peLink, peKilled, peEdits, peShared>>,
         Venv(t).there => v.there /\ (v.users => Venv(t).users),
         ~Venv(t).there /\ v.there => ~v.users,
         OwnedOnce(v), Standing(s, v), s.pc # "create",
         s.pc = "mark" => peSync[t].pc = "create",
         peKilled = 0 /\ v.there /\ ~v.users /\ ~v.marked => s.pc = "mark",
         ~peShared => Truthful(v) /\ SoFar(s, v, t)
  PROVE  EInv'
<1> DEFINE home == Home(t)
<1>1. Shape /\ Ownership /\ Freshness /\ Linked /\ home \in LiveTrees /\ Venv(t) = peVenv[home]
  BY HomeIsThere DEF EInv, Ownership, Venv
<1>2. /\ peVenv' \in [EnvTrees -> Venvs] /\ peSync' \in [EnvTrees -> Syncs]
      /\ peVenv'[home] = v /\ \A u \in EnvTrees \ {home} : peVenv'[u] = peVenv[u]
      /\ peSync'[t] = s /\ \A u \in EnvTrees \ {t} : peSync'[u] = peSync[u]
      /\ LiveTrees' = LiveTrees /\ \A u : Home(u)' = Home(u)
  BY <1>1 DEF Shape, LiveTrees, Home
<1>3. Shape'
  BY <1>1, <1>2 DEF Shape, LiveTrees
<1>4. /\ Venv(t)' = v
      /\ \A u \in LiveTrees \ {t} : Home(u) = home => Venv(u)' = v /\ Venv(u) = Venv(t) /\ Venv(t).there
      /\ \A u \in LiveTrees \ {t} : Home(u) # home => Venv(u)' = Venv(u)
  <2>1. \A u \in LiveTrees : Home(u) \in EnvTrees
    BY <1>1, HomeIsThere DEF Shape
  <2>2. \A u \in LiveTrees : Venv(u)' = peVenv'[Home(u)] /\ Venv(u) = peVenv[Home(u)]
    BY <1>2 DEF Venv
  <2>3. \A u \in LiveTrees \ {t} : Home(u) = home => Venv(t).there
    BY <1>1, OthersKeepTheirs
  <2> QED
    BY <1>2, <2>1, <2>2, <2>3
<1>5. \A u \in EnvTrees : OwnedOnce(peVenv[u])'
  BY <1>1, <1>2 DEF Ownership, OwnedOnce
<1>6. \A u \in EnvTrees \ {"main"} : peVenv'[u].there => ~peVenv'[u].users
  BY <1>1, <1>2 DEF Ownership
<1>7. \A u \in EnvTrees \ LiveTrees : peVenv'[u] = NoVenv /\ peSync'[u] = Idle
  BY <1>1, <1>2 DEF Ownership
<1>8. \A u \in LiveTrees : Standing(peSync[u], Venv(u))'
  <2> SUFFICES ASSUME NEW u \in LiveTrees PROVE Standing(peSync'[u], Venv(u)')
    BY <1>2 DEF Standing, Idle
  <2>1. CASE u = t
    BY <2>1, <1>2, <1>4
  <2>2. CASE u # t /\ Home(u) # home
    BY <2>2, <1>1, <1>2, <1>4 DEF Ownership, Shape
  <2>3. CASE u # t /\ Home(u) = home
    BY <2>3, <1>1, <1>2, <1>4 DEF Ownership, Standing, Shape
  <2> QED
    BY <2>1, <2>2, <2>3
<1>9. Linked'
  BY <1>1, <1>2 DEF Linked, Home, Shape
<1>10. NoneIsLeftHalfBuilt'
  <2> SUFFICES ASSUME peKilled = 0, NEW u \in LiveTrees,
                      peVenv'[u].there, ~peVenv'[u].users, ~peVenv'[u].marked
               PROVE  peSync'[u].pc = "mark"
    BY <1>2 DEF NoneIsLeftHalfBuilt
  <2>1. CASE u # home
    BY <2>1, <1>1, <1>2 DEF Ownership, NoneIsLeftHalfBuilt, Home, Shape, Linked, Standing
  <2>2. CASE u = home
    BY <2>2, <1>1, <1>2 DEF Home, Linked, Shape
  <2> QED
    BY <2>1, <2>2
<1>11. Freshness'
  <2> SUFFICES ASSUME ~peShared
               PROVE  /\ \A u \in EnvTrees : Truthful(peVenv'[u])
                      /\ \A u \in LiveTrees : SoFar(peSync'[u], Venv(u)', u)
                      /\ Alone'
    BY <1>2 DEF Freshness, Truthful, SoFar, Fingerprint
  <2>1. \A u \in EnvTrees : Truthful(peVenv'[u])
    BY <1>1, <1>2 DEF Freshness
  <2>2. ASSUME NEW u \in LiveTrees \ {t}, Home(u) = home
        PROVE  peSync[u].pc = "rest"
    BY <2>2, <1>1 DEF Freshness, Alone, AtVenv
  <2>3. \A u \in LiveTrees : SoFar(peSync'[u], Venv(u)', u)
    <3> SUFFICES ASSUME NEW u \in LiveTrees PROVE SoFar(peSync'[u], Venv(u)', u)
      OBVIOUS
    <3>1. CASE u = t
      BY <3>1, <1>2, <1>4
    <3>2. CASE u # t /\ Home(u) # home
      BY <3>2, <1>1, <1>2, <1>4 DEF Freshness, Shape
    <3>3. CASE u # t /\ Home(u) = home
      BY <3>3, <1>1, <1>2, <2>2 DEF SoFar, Shape
    <3> QED
      BY <3>1, <3>2, <3>3
  <2>4. Alone'
    BY <1>1, <1>2 DEF Freshness, Alone, AtVenv, Shape
  <2> QED
    BY <2>1, <2>3, <2>4
<1> QED
  BY <1>2, <1>3, <1>5, <1>6, <1>7, <1>8, <1>9, <1>10, <1>11 DEF EInv, Ownership

-----------------------------------------------------------------------------
LEMMA EInvInit == ProjectEnvInit => EInv
<1> SUFFICES ASSUME ProjectEnvInit PROVE EInv
  OBVIOUS
<1>1. LiveTrees = {"main"} /\ peLink = {} /\ peKilled = 0 /\ peEdits = 0
      /\ peDeclared \in [LiveTrees -> Declarations]
  BY DEF ProjectEnvInit, LiveTrees
<1>2. /\ \A t \in EnvTrees : peVenv[t] = NoVenv /\ peSync[t] = Idle
      /\ peVenv \in [EnvTrees -> Venvs] /\ peSync \in [EnvTrees -> Syncs]
  BY Fields DEF ProjectEnvInit, Venvs
<1>3. Shape
  BY <1>1, <1>2, ProjectEnvAssumption DEF Shape, EnvTrees
<1>4. Ownership
  BY <1>1, <1>2, Fields DEF Ownership, OwnedOnce, Standing, Linked, NoneIsLeftHalfBuilt, Idle, EnvTrees
<1>5. Freshness
  <2>1. Idle.pc = "rest" /\ "main" \in EnvTrees
    BY DEF Idle, EnvTrees
  <2>2. \A t \in LiveTrees : SoFar(peSync[t], Venv(t), t)
    BY <1>1, <1>2, <2>1 DEF SoFar
  <2>3. \A t \in EnvTrees : Truthful(peVenv[t])
    BY <1>2, Fields DEF Truthful
  <2>4. Alone
    BY <1>1 DEF Alone
  <2> QED
    BY <2>2, <2>3, <2>4 DEF Freshness
<1> QED
  BY <1>3, <1>4, <1>5 DEF EInv

LEMMA StartSyncStep ==
  ASSUME EInv, NEW t \in LiveTrees, StartSync(t)
  PROVE  EInv'
<1> USE DEF StartSync
<1>1. Shape /\ Ownership /\ Freshness /\ Linked /\ Venv(t) \in Venvs /\ t \in EnvTrees
      /\ \A u \in LiveTrees : Home(u) \in LiveTrees
  BY HomeIsThere DEF EInv, Ownership, Shape
<1>2. /\ LiveTrees' = LiveTrees /\ \A u : Home(u)' = Home(u) /\ Venv(u)' = Venv(u)
      /\ \A u : Fingerprint(u)' = Fingerprint(u)
  BY DEF LiveTrees, Home, Venv, Fingerprint
<1>3. PICK s \in Syncs :
        /\ peSync' = [peSync EXCEPT ![t] = s]
        /\ s.pc \in {"gate", "create", "pytest"}
        /\ s.pc # "gate" => s.outcome = "none"
        /\ s.pc = "gate" => s.outcome = "skipped"
        /\ s.pc = "create" => ~Venv(t).there
        /\ s.pc = "pytest" => Venv(t).there /\ Venv(t).marked
  <2>1. peSync[t] = Idle /\ Idle.outcome = "none"
    BY <1>1 DEF Ownership, Standing, Idle
  <2>2. CASE SkipReason(t)
    <3>1. /\ [Idle EXCEPT !.pc = "gate", !.outcome = "skipped"] \in Syncs
          /\ peSync' = [peSync EXCEPT ![t] = [Idle EXCEPT !.pc = "gate", !.outcome = "skipped"]]
      BY <2>1, <2>2, Fields, <1>1 DEF EndsAs, Syncs, Phases, Shape
    <3> QED
      BY <3>1 DEF Idle
  <2>3. CASE ~SkipReason(t)
    <3> DEFINE at == IF Venv(t).there THEN "pytest" ELSE "create"
    <3>1. /\ [Idle EXCEPT !.pc = at] \in Syncs
          /\ peSync' = [peSync EXCEPT ![t] = [Idle EXCEPT !.pc = at]]
      BY <2>1, <2>3, Fields, <1>1 DEF Moves, Syncs, Phases, Shape
    <3> QED
      BY <3>1, <2>3 DEF Idle, SkipReason
  <2> QED
    BY <2>2, <2>3
<1>4. peSync' \in [EnvTrees -> Syncs] /\ peSync'[t] = s
      /\ \A u \in EnvTrees \ {t} : peSync'[u] = peSync[u]
  BY <1>1, <1>3 DEF Shape
<1>5. Shape'
  BY <1>1, <1>2, <1>4 DEF Shape
<1>6. Linked'
  <2>1. t \in peLink \cup {"main"} /\ peLink # {} => Venv(t).there
    BY <1>1 DEF Linked, Venv, Home
  <2> QED
    BY <2>1, <1>1, <1>3, <1>4 DEF Linked, Shape
<1>7. Ownership'
  <2>1. OwnedOnce(Venv(t))
    BY <1>1 DEF Ownership, Shape, Venv
  <2>2. Standing(s, Venv(t))
    BY <2>1, <1>3 DEF Standing, OwnedOnce
  <2>3. NoneIsLeftHalfBuilt'
    BY <1>1, <1>2, <1>3, <1>4 DEF Ownership, Shape, NoneIsLeftHalfBuilt, Standing, Idle
  <2>4. \A u \in LiveTrees : Standing(peSync'[u], Venv(u))
    BY <2>2, <1>1, <1>4 DEF Ownership, Shape
  <2> QED
    BY <2>3, <2>4, <1>1, <1>2, <1>4, <1>6 DEF Ownership, Shape, OwnedOnce, Standing, Idle
<1>8. Freshness'
  <2> SUFFICES ASSUME ~peShared' PROVE Freshness'
    BY DEF Freshness
  <2>1. ~peShared /\ \A u \in LiveTrees \ {t} : ~(AtVenv(u) /\ Home(u) = Home(t))
    OBVIOUS
  <2>2. SoFar(s, Venv(t), t)
    BY <1>3 DEF SoFar
  <2>3. \A u \in LiveTrees : SoFar(peSync'[u], Venv(u), u)
    BY <2>1, <2>2, <1>1, <1>4 DEF Freshness, Shape
  <2>4. Alone'
    BY <2>1, <1>1, <1>2, <1>4 DEF Freshness, Alone, AtVenv, Shape
  <2> QED
    BY <2>1, <2>3, <2>4, <1>1, <1>2 DEF Freshness, SoFar, Truthful
<1> QED
  BY <1>5, <1>7, <1>8 DEF EInv

LEMMA CreateStep ==
  ASSUME EInv, NEW t \in LiveTrees, NEW outcome \in Outcomes, Create(t, outcome)
  PROVE  EInv'
<1> USE DEF Create
<1> DEFINE v == AfterCreate(t, outcome)
           s == IF outcome = "ok" THEN [peSync[t] EXCEPT !.pc = "mark"]
                ELSE [peSync[t] EXCEPT !.pc = "gate", !.outcome = outcome]
<1>1. Standing(peSync[t], Venv(t)) /\ peSync[t] \in Syncs
  BY DEF EInv, Shape, Ownership
<1>2. v \in Venvs /\ (v.there <=> outcome = "ok")
      /\ (v.there => ~v.users /\ ~v.marked /\ v.print = NoPrint)
  BY Fields DEF AfterCreate, NewVenv, Venvs
<1>3. s \in Syncs /\ s.pc = (IF outcome = "ok" THEN "mark" ELSE "gate")
      /\ s.outcome = (IF outcome = "ok" THEN "none" ELSE outcome)
  BY <1>1 DEF Syncs, Phases, Outcomes, Standing
<1>4. peVenv' = [peVenv EXCEPT ![Home(t)] = v] /\ peSync' = [peSync EXCEPT ![t] = s]
  BY DEF Changes, Moves, EndsAs
<1>5. AtVenv(t) /\ ~Venv(t).there
  BY <1>1 DEF AtVenv, Standing
<1>6. OwnedOnce(v) /\ Standing(s, v)
  BY <1>2, <1>3 DEF OwnedOnce, Standing
<1>7. Truthful(v) /\ SoFar(s, v, t)
  BY <1>2, <1>3, NewIsUnprinted DEF Truthful, SoFar, Outcomes
<1> HIDE DEF v, s
<1> QED
  BY <1>2, <1>3, <1>4, <1>5, <1>6, <1>7, SyncStep

LEMMA MarkOwnStep ==
  ASSUME EInv, NEW t \in LiveTrees, MarkOwn(t)
  PROVE  EInv'
<1> USE DEF MarkOwn
<1> DEFINE v == [Venv(t) EXCEPT !.marked = TRUE]
           s == [peSync[t] EXCEPT !.pc = "pytest"]
<1>1. Standing(peSync[t], Venv(t)) /\ peSync[t] \in Syncs /\ Venv(t) \in Venvs
  BY HomeIsThere DEF EInv, Shape, Ownership
<1>2. Venv(t) \in Built /\ ~Venv(t).users
  BY <1>1, Fields DEF Standing, Venvs
<1>3. v \in Built /\ v.there /\ ~v.users /\ v.marked
      /\ v.print = Venv(t).print /\ v.half = Venv(t).half /\ v.installed = Venv(t).installed
  BY <1>2 DEF Built
<1>4. s \in Syncs /\ s.pc = "pytest" /\ s.outcome = "none"
  BY <1>1 DEF Syncs, Phases, Standing
<1>5. peVenv' = [peVenv EXCEPT ![Home(t)] = v] /\ peSync' = [peSync EXCEPT ![t] = s]
  BY DEF Changes, Moves
<1>6. OwnedOnce(v) /\ Standing(s, v) /\ AtVenv(t)
  BY <1>3, <1>4 DEF OwnedOnce, Standing, AtVenv
<1>7. ~peShared => Truthful(v) /\ SoFar(s, v, t)
  <2>1. ~peShared => Truthful(Venv(t))
    BY HomeIsThere DEF EInv, Freshness, Venv, Shape
  <2> QED
    BY <2>1, <1>2, <1>3, <1>4, Fields DEF Truthful, SoFar
<1> HIDE DEF v, s
<1> QED
  BY <1>2, <1>3, <1>4, <1>5, <1>6, <1>7, Fields, SyncStep DEF Venvs

(***************************************************************************)
(* What pip leaves: a virtualenv that is there stays there, and whose.     *)
(***************************************************************************)
LEMMA InstallPytestStep ==
  ASSUME EInv, NEW t \in LiveTrees, NEW outcome \in Outcomes, InstallPytest(t, outcome)
  PROVE  EInv'
<1> USE DEF InstallPytest
<1> DEFINE v == IF Venv(t).pytest THEN Venv(t) ELSE [Venv(t) EXCEPT !.pytest = outcome = "ok"]
           s == IF outcome = "ok" THEN [peSync[t] EXCEPT !.pc = "read"]
                ELSE [peSync[t] EXCEPT !.pc = "gate", !.outcome = outcome]
<1>1. Standing(peSync[t], Venv(t)) /\ peSync[t] \in Syncs /\ Venv(t) \in Venvs
  BY HomeIsThere DEF EInv, Shape, Ownership
<1>2. Venv(t) \in Built /\ ~Venv(t).users
  BY <1>1, Fields DEF Standing, Venvs
<1>3. v \in Built /\ v.there /\ ~v.users /\ (v.marked <=> Venv(t).marked)
      /\ v.print = Venv(t).print /\ (v.half <=> Venv(t).half) /\ v.installed = Venv(t).installed
      /\ (outcome = "ok" => v.pytest)
  BY <1>2 DEF Built
<1>4. s \in Syncs /\ s.pc = (IF outcome = "ok" THEN "read" ELSE "gate")
      /\ s.outcome = (IF outcome = "ok" THEN "none" ELSE outcome)
  BY <1>1 DEF Syncs, Phases, Outcomes, Standing
<1>5. peVenv' = [peVenv EXCEPT ![Home(t)] = v] /\ peSync' = [peSync EXCEPT ![t] = s]
  <2>1. Home(t) \in EnvTrees /\ peVenv \in [EnvTrees -> Venvs]
    BY HomeIsThere DEF EInv, Shape
  <2> QED
    BY <2>1 DEF Changes, Moves, EndsAs, Venv
<1>6. OwnedOnce(v) /\ Standing(s, v) /\ AtVenv(t)
  BY <1>3, <1>4 DEF OwnedOnce, Standing, AtVenv
<1>7. ~peShared => Truthful(v) /\ SoFar(s, v, t)
  <2>1. ~peShared => Truthful(Venv(t))
    BY HomeIsThere DEF EInv, Freshness, Venv, Shape
  <2> QED
    BY <2>1, <1>2, <1>3, <1>4, Fields DEF Truthful, SoFar, Outcomes
<1>8. peKilled = 0 => v.marked
  BY <1>1, <1>2, <1>3, HomeIsThere DEF EInv, Ownership, NoneIsLeftHalfBuilt, Linked, Home, Venv, Shape
<1> HIDE DEF v, s
<1> QED
  BY <1>2, <1>3, <1>4, <1>5, <1>6, <1>7, <1>8, Fields, SyncStep DEF Venvs

LEMMA ReadDeclaredStep ==
  ASSUME EInv, NEW t \in LiveTrees, ReadDeclared(t)
  PROVE  EInv'
<1> USE DEF ReadDeclared
<1>1. Standing(peSync[t], Venv(t)) /\ peSync[t] \in Syncs /\ Venv(t) \in Venvs
      /\ t \in EnvTrees /\ peDeclared[t] \in Declarations
  BY HomeIsThere DEF EInv, Shape, Ownership
<1>2. Venv(t) \in Built /\ ~Venv(t).users
  BY <1>1, Fields DEF Standing, Venvs
<1>3. PICK s \in Syncs :
        /\ peSync' = [peSync EXCEPT ![t] = s]
        /\ s.print = Fingerprint(t)
        /\ \/ s.pc = "gate" /\ s.outcome = "unchanged" /\ Venv(t).print = Fingerprint(t)
           \/ s.pc = "gate" /\ s.outcome = "failed"
           \/ s.pc = "stamp" /\ s.outcome = "none" /\ peDeclared[t] = NOTHING
           \/ s.pc = "deps" /\ s.outcome = "none" /\ peDeclared[t] # NOTHING
  <2>1. Fingerprint(t) \in Prints
    BY <1>1 DEF Fingerprint, Prints
  <2>2. CASE Venv(t).print = Fingerprint(t)
    <3> DEFINE s == [pc |-> "gate", print |-> Fingerprint(t), outcome |-> "unchanged"]
    <3>1. s \in Syncs
      BY <2>1 DEF Syncs, Phases
    <3>2. peSync' = [peSync EXCEPT ![t] = s]
      BY <2>2
    <3> QED
      BY <2>2, <3>1, <3>2
  <2>3. CASE Venv(t).print # Fingerprint(t) /\ KnownBad(t)
    <3> DEFINE s == [pc |-> "gate", print |-> Fingerprint(t), outcome |-> "failed"]
    <3>1. s \in Syncs
      BY <2>1 DEF Syncs, Phases
    <3>2. peSync' = [peSync EXCEPT ![t] = s]
      BY <2>3
    <3> QED
      BY <2>3, <3>1, <3>2
  <2>4. CASE Venv(t).print # Fingerprint(t) /\ ~KnownBad(t)
    <3> DEFINE s == [pc |-> IF peDeclared[t] = NOTHING THEN "stamp" ELSE "deps",
                     print |-> Fingerprint(t), outcome |-> "none"]
    <3>1. s \in Syncs
      BY <2>1 DEF Syncs, Phases
    <3>2. peSync' = [peSync EXCEPT ![t] = s]
      BY <2>4
    <3> QED
      BY <2>4, <3>1, <3>2
  <2> QED
    BY <2>2, <2>3, <2>4
<1>4. peVenv' = [peVenv EXCEPT ![Home(t)] = Venv(t)]
  BY HomeIsThere DEF EInv, Shape, Venv
<1>5. OwnedOnce(Venv(t)) /\ Standing(s, Venv(t)) /\ AtVenv(t)
  BY <1>1, <1>2, <1>3, HomeIsThere, Fields DEF EInv, Shape, Ownership, Venv, Standing, AtVenv
<1>6. ~peShared => Truthful(Venv(t)) /\ SoFar(s, Venv(t), t)
  <2>1. ~peShared => Truthful(Venv(t)) /\ Venv(t).pytest
    BY HomeIsThere DEF EInv, Freshness, Venv, Shape, SoFar
  <2> QED
    BY <2>1, <1>1, <1>2, <1>3, Fields DEF Truthful, SoFar, Fingerprint
<1>7. peKilled = 0 => Venv(t).marked
  BY <1>1, <1>2, HomeIsThere, Fields DEF EInv, Ownership, NoneIsLeftHalfBuilt, Linked, Home, Venv, Shape
<1> QED
  BY <1>1, <1>2, <1>3, <1>4, <1>5, <1>6, <1>7, Fields, SyncStep

LEMMA InstallDepsStep ==
  ASSUME EInv, NEW t \in LiveTrees, NEW outcome \in Outcomes, NEW left, InstallDeps(t, outcome, left)
  PROVE  EInv'
<1> USE DEF InstallDeps
<1> DEFINE v == [Venv(t) EXCEPT !.installed = IF outcome = "ok" THEN peDeclared[t] ELSE left,
                   !.half = @ \/ outcome = "ok" \/ left = CUT]
           s == IF outcome = "ok" THEN [peSync[t] EXCEPT !.pc = "stamp"]
                ELSE [peSync[t] EXCEPT !.pc = "gate", !.outcome = outcome]
<1>1. Standing(peSync[t], Venv(t)) /\ peSync[t] \in Syncs /\ Venv(t) \in Venvs
      /\ peDeclared[t] \in Declarations
  BY HomeIsThere DEF EInv, Shape, Ownership
<1>2. Venv(t) \in Built /\ ~Venv(t).users
  BY <1>1, Fields DEF Standing, Venvs
<1>3. v \in Built /\ v.there /\ ~v.users /\ (v.marked <=> Venv(t).marked)
      /\ v.print = Venv(t).print /\ (v.pytest <=> Venv(t).pytest)
      /\ (~v.half => ~Venv(t).half /\ v.installed = Venv(t).installed)
      /\ (outcome = "ok" => v.installed = peDeclared[t])
  BY <1>1, <1>2 DEF Built
<1>4. s \in Syncs /\ s.pc = (IF outcome = "ok" THEN "stamp" ELSE "gate")
      /\ s.outcome = (IF outcome = "ok" THEN "none" ELSE outcome)
      /\ s.print = peSync[t].print
  BY <1>1 DEF Syncs, Phases, Outcomes, Standing
<1>5. peVenv' = [peVenv EXCEPT ![Home(t)] = v] /\ peSync' = [peSync EXCEPT ![t] = s]
  BY DEF Changes, Moves, EndsAs
<1>6. OwnedOnce(v) /\ Standing(s, v) /\ AtVenv(t)
  BY <1>3, <1>4 DEF OwnedOnce, Standing, AtVenv
<1>7. ~peShared => Truthful(v) /\ SoFar(s, v, t)
  <2>1. ~peShared => Truthful(Venv(t)) /\ SoFar(peSync[t], Venv(t), t)
    BY HomeIsThere DEF EInv, Freshness, Venv, Shape
  <2>2. ~peShared => Truthful(v)
    BY <2>1, <1>2, <1>3, Fields DEF Truthful
  <2>3. ~peShared => SoFar(s, v, t)
    BY <2>1, <1>3, <1>4 DEF SoFar, Outcomes
  <2> QED
    BY <2>2, <2>3
<1>8. peKilled = 0 => v.marked
  BY <1>1, <1>2, <1>3, HomeIsThere, Fields
     DEF EInv, Ownership, NoneIsLeftHalfBuilt, Linked, Home, Venv, Shape
<1> HIDE DEF v, s
<1> QED
  BY <1>2, <1>3, <1>4, <1>5, <1>6, <1>7, <1>8, Fields, SyncStep DEF Venvs

LEMMA StampStep ==
  ASSUME EInv, NEW t \in LiveTrees, Stamp(t)
  PROVE  EInv'
<1> USE DEF Stamp
<1> DEFINE v == [Venv(t) EXCEPT !.print = peSync[t].print, !.half = FALSE]
           s == [peSync[t] EXCEPT !.pc = "gate", !.outcome = "ok"]
<1>1. Standing(peSync[t], Venv(t)) /\ peSync[t] \in Syncs /\ Venv(t) \in Venvs
  BY HomeIsThere DEF EInv, Shape, Ownership
<1>2. Venv(t) \in Built /\ ~Venv(t).users
  BY <1>1, Fields DEF Standing, Venvs
<1>3. v \in Built /\ v.there /\ ~v.users /\ (v.marked <=> Venv(t).marked)
      /\ v.print = peSync[t].print /\ (v.pytest <=> Venv(t).pytest)
      /\ v.installed = Venv(t).installed
  BY <1>1, <1>2 DEF Built, Syncs
<1>4. s \in Syncs /\ s.pc = "gate" /\ s.outcome = "ok"
  BY <1>1 DEF Syncs, Phases
<1>5. peVenv' = [peVenv EXCEPT ![Home(t)] = v] /\ peSync' = [peSync EXCEPT ![t] = s]
  BY DEF Changes, EndsAs
<1>6. OwnedOnce(v) /\ Standing(s, v) /\ AtVenv(t)
  BY <1>3, <1>4 DEF OwnedOnce, Standing, AtVenv
<1>7. ~peShared => Truthful(v) /\ SoFar(s, v, t)
  <2>1. ~peShared => SoFar(peSync[t], Venv(t), t)
    BY DEF EInv, Freshness
  <2>2. ~peShared => Truthful(v)
    BY <2>1, <1>3 DEF Truthful, SoFar, Fingerprint
  <2>3. ~peShared => SoFar(s, v, t)
    BY <2>1, <1>3, <1>4 DEF SoFar
  <2> QED
    BY <2>2, <2>3
<1>8. peKilled = 0 => v.marked
  BY <1>1, <1>2, <1>3, HomeIsThere, Fields
     DEF EInv, Ownership, NoneIsLeftHalfBuilt, Linked, Home, Venv, Shape
<1> HIDE DEF v, s
<1> QED
  BY <1>2, <1>3, <1>4, <1>5, <1>6, <1>7, <1>8, Fields, SyncStep DEF Venvs

LEMMA TestsRunStep ==
  ASSUME EInv, NEW t \in LiveTrees, TestsRun(t)
  PROVE  EInv'
<1> USE DEF TestsRun
<1>1. Home(t) \in EnvTrees /\ Venv(t) \in Venvs /\ OwnedOnce(Venv(t))
  BY HomeIsThere DEF EInv, Shape, Ownership, Venv
<1>2. peVenv' = [peVenv EXCEPT ![Home(t)] = Venv(t)]
  BY <1>1 DEF EInv, Shape, Venv
<1>3. Standing(Idle, Venv(t)) /\ AtVenv(t) /\ SoFar(Idle, Venv(t), t)
      /\ Idle.pc = "rest"
  BY DEF Standing, AtVenv, Idle, SoFar
<1>4. peKilled = 0 /\ Venv(t).there /\ ~Venv(t).users => Venv(t).marked
  BY HomeIsThere DEF EInv, Ownership, NoneIsLeftHalfBuilt, Linked, Home, Venv, Shape
<1>5. ~peShared => Truthful(Venv(t))
  BY <1>1 DEF EInv, Freshness, Venv
<1> QED
  BY <1>1, <1>2, <1>3, <1>4, <1>5, Fields, SyncStep

-----------------------------------------------------------------------------
(***************************************************************************)
(* Around the syncs.                                                       *)
(***************************************************************************)
LEMMA EditDeclaredStep ==
  ASSUME EInv, NEW t \in LiveTrees, NEW given \in Declarations, EditDeclared(t, given)
  PROVE  EInv'
<1> USE DEF EditDeclared
<1>1. /\ LiveTrees' = LiveTrees /\ \A u : Home(u)' = Home(u) /\ Venv(u)' = Venv(u)
      /\ \A u \in LiveTrees \ {t} : peDeclared'[u] = peDeclared[u]
  BY DEF LiveTrees, Home, Venv, EInv, Shape
<1>2. Shape'
  BY <1>1, ProjectEnvAssumption DEF EInv, Shape
<1>3. Ownership'
  BY <1>1 DEF EInv, Ownership, OwnedOnce, Standing, Linked, NoneIsLeftHalfBuilt
<1>4. Freshness'
  <2>1. \A u \in LiveTrees : ~peShared => SoFar(peSync[u], Venv(u), u)'
    BY <1>1 DEF EInv, Freshness, SoFar, Fingerprint
  <2> QED
    BY <2>1, <1>1 DEF EInv, Freshness, Truthful, Alone, AtVenv
<1> QED
  BY <1>2, <1>3, <1>4 DEF EInv

LEMMA MakeWorktreeStep ==
  ASSUME EInv, NEW t \in EnvWorktrees, NEW linked \in BOOLEAN, MakeWorktree(t, linked)
  PROVE  EInv'
<1> USE DEF MakeWorktree
<1>1. Shape /\ Ownership /\ Freshness
  BY DEF EInv
<1>2. /\ LiveTrees' = LiveTrees \cup {t} /\ t \in EnvTrees \ LiveTrees /\ t # "main"
      /\ peVenv[t] = NoVenv /\ peSync[t] = Idle
  BY <1>1, ProjectEnvAssumption DEF LiveTrees, EnvTrees, Ownership
<1>3. /\ \A u \in LiveTrees : Home(u)' = Home(u) /\ Venv(u)' = Venv(u)
      /\ \A u \in LiveTrees : peDeclared'[u] = peDeclared[u]
      /\ peLink' \subseteq LiveTrees' \ {"main"}
  BY <1>1, <1>2 DEF Home, Venv, Shape
<1>4. Shape'
  BY <1>1, <1>2, <1>3 DEF Shape
<1>5. Ownership'
  <2>1. \A u \in LiveTrees' : Standing(peSync[u], Venv(u))'
    <3>1. Standing(Idle, Venv(t)')
      BY DEF Standing, Idle
    <3> QED
      BY <3>1, <1>1, <1>2, <1>3 DEF Ownership, Standing, Idle
  <2>2. Linked'
    <3>1. peSync["main"].pc = "rest" /\ peSync[t].pc = "rest"
      BY <1>2 DEF Idle
    <3> QED
      BY <3>1, <1>1, <1>2 DEF Ownership, Linked
  <2>3. NoneIsLeftHalfBuilt'
    BY <1>1, <1>2, Fields DEF Ownership, NoneIsLeftHalfBuilt
  <2> QED
    BY <2>1, <2>2, <2>3, <1>1, <1>2 DEF Ownership, OwnedOnce, Idle
<1>6. Freshness'
  <2> SUFFICES ASSUME ~peShared
               PROVE  /\ \A u \in EnvTrees : Truthful(peVenv[u])
                      /\ \A u \in LiveTrees' : SoFar(peSync[u], Venv(u), u)'
                      /\ Alone'
    BY DEF Freshness, Truthful
  <2>1. SoFar(peSync[t], Venv(t), t)'
    BY <1>2 DEF SoFar, Idle
  <2>2. \A u \in LiveTrees : SoFar(peSync[u], Venv(u), u)'
    BY <1>1, <1>3 DEF Freshness, SoFar, Fingerprint
  <2>3. Alone'
    BY <1>1, <1>2, <1>3 DEF Freshness, Alone, AtVenv, Idle
  <2> QED
    BY <2>1, <2>2, <2>3, <1>1, <1>2 DEF Freshness
<1> QED
  BY <1>4, <1>5, <1>6 DEF EInv

LEMMA JoinStep ==
  ASSUME EInv, NEW t \in LiveTrees, NEW merged \in BOOLEAN, Join(t, merged)
  PROVE  EInv'
<1> USE DEF Join, Removed
<1>1. Shape /\ Ownership /\ Freshness
  BY DEF EInv
<1>2. /\ LiveTrees' = LiveTrees \ {t} /\ t # "main" /\ t \in EnvTrees
      /\ \A u \in LiveTrees : peSync[u] = Idle /\ Idle.pc = "rest"
      /\ peVenv' \in [EnvTrees -> Venvs] /\ peVenv'[t] = NoVenv
      /\ \A u \in EnvTrees \ {t} : peVenv'[u] = peVenv[u]
  BY <1>1 DEF LiveTrees, Shape, Ownership, Standing, Idle, Venvs
<1>3. Shape'
  BY <1>1, <1>2 DEF Shape
<1>4. Ownership'
  <2>1. \A u \in LiveTrees' : Standing(peSync[u], Venv(u))'
    BY <1>2 DEF Standing, Idle
  <2>2. Linked'
    BY <1>1, <1>2 DEF Ownership, Linked, Shape
  <2>3. NoneIsLeftHalfBuilt'
    BY <1>1, <1>2 DEF Ownership, NoneIsLeftHalfBuilt, Shape
  <2> QED
    BY <2>1, <2>2, <2>3, <1>1, <1>2, Fields DEF Ownership, OwnedOnce, Idle
<1>5. Freshness'
  <2>1. \A u \in LiveTrees' : SoFar(peSync[u], Venv(u), u)'
    BY <1>2 DEF SoFar, Idle
  <2>2. ~peShared => \A u \in EnvTrees : Truthful(peVenv'[u])
    BY <1>1, <1>2, Fields DEF Freshness, Truthful
  <2>3. Alone'
    BY <1>2 DEF Alone, AtVenv
  <2> QED
    BY <2>1, <2>2, <2>3 DEF Freshness, Truthful
<1> QED
  BY <1>3, <1>4, <1>5 DEF EInv

LEMMA NextEnvRunStep == ASSUME EInv, NextEnvRun PROVE EInv'
<1> USE DEF NextEnvRun
<1>1. Shape /\ Ownership /\ Freshness
  BY DEF EInv
<1>2. LiveTrees' = LiveTrees /\ peLink = {} /\ peLink' = {} /\ peSync["main"] = Idle /\ Idle.pc = "rest"
  BY <1>1 DEF LiveTrees, Shape, Ownership, Standing, Idle
<1>3. PICK v \in Venvs :
        /\ peVenv' = [peVenv EXCEPT !["main"] = v]
        /\ v = peVenv["main"] \/ v = NoVenv \/ v = NewVenv(FALSE, TRUE)
  <2>1. CASE UNCHANGED peVenv
    BY <2>1, <1>1 DEF Shape
  <2>2. CASE peVenv' = [peVenv EXCEPT !["main"] = NoVenv]
    BY <2>2 DEF Venvs
  <2>3. CASE peVenv' = [peVenv EXCEPT !["main"] = NewVenv(FALSE, TRUE)]
    BY <2>3, Fields DEF Venvs
  <2> QED
    BY <2>1, <2>2, <2>3
<1>4. /\ peVenv' \in [EnvTrees -> Venvs] /\ peVenv'["main"] = v
      /\ \A u \in EnvTrees \ {"main"} : peVenv'[u] = peVenv[u]
  BY <1>1, <1>3 DEF Shape
<1>5. OwnedOnce(v)
  BY <1>1, <1>3, Fields DEF Ownership, OwnedOnce, NewVenv, Shape
<1>6. v.there /\ ~v.users /\ ~v.marked => v = peVenv["main"]
  BY <1>3, Fields DEF NewVenv
<1>7. Shape'
  BY <1>1, <1>2, <1>4 DEF Shape
<1>8. Ownership'
  <2>1. \A u \in LiveTrees' : Standing(peSync[u], Venv(u))'
    BY <1>2 DEF Standing, Idle
  <2>2. NoneIsLeftHalfBuilt'
    BY <1>1, <1>2, <1>4, <1>6 DEF Ownership, NoneIsLeftHalfBuilt, Idle
  <2> QED
    BY <2>1, <2>2, <1>1, <1>2, <1>4, <1>5 DEF Ownership, OwnedOnce, Linked, Idle
<1>9. Freshness'
  <2>1. \A u \in LiveTrees' : SoFar(peSync[u], Venv(u), u)'
    BY <1>2 DEF SoFar, Idle
  <2>2. ~peShared => Truthful(v)
    <3>1. Truthful(NewVenv(FALSE, TRUE))
      BY NewIsUnprinted DEF Truthful, NewVenv
    <3>2. Truthful(NoVenv)
      BY Fields DEF Truthful
    <3> QED
      BY <3>1, <3>2, <1>1, <1>3 DEF Freshness, Shape
  <2>3. Alone'
    BY <1>2 DEF Alone, AtVenv
  <2> QED
    BY <2>1, <2>2, <2>3, <1>1, <1>4 DEF Freshness, Truthful
<1> QED
  BY <1>7, <1>8, <1>9 DEF EInv

(***************************************************************************)
(* What a kill leaves: the main tree and v, every sync at rest.            *)
(***************************************************************************)
LEMMA KilledState ==
  ASSUME EInv, NEW v \in Venvs, OwnedOnce(v), ~peShared => Truthful(v),
         peKilled < EnvKills, peKilled' = peKilled + 1, peEdits' = peEdits, peShared' = peShared,
         peVenv' = [t \in EnvTrees |-> IF t = "main" THEN v ELSE NoVenv],
         peDeclared' = [t \in {"main"} |-> peDeclared["main"]], peLink' = {},
         peSync' = [t \in EnvTrees |-> Idle]
  PROVE  EInv'
<1>1. Shape /\ Ownership /\ Freshness
  BY DEF EInv
<1>2. peKilled' \in 0..EnvKills /\ peKilled' # 0 /\ peEdits' \in 0..EnvEdits
  <2>1. EnvKills \in Nat /\ peKilled \in 0..EnvKills
    BY <1>1, ProjectEnvAssumption DEF Shape
  <2> QED
    BY <2>1, <1>1 DEF Shape
<1>3. /\ LiveTrees' = {"main"} /\ peDeclared' \in [LiveTrees' -> Declarations]
      /\ "main" \in EnvTrees
  BY <1>1 DEF LiveTrees, Shape, EnvTrees
<1>4. /\ peSync' \in [EnvTrees -> Syncs] /\ \A u \in EnvTrees : peSync'[u] = Idle
      /\ Idle.pc = "rest"
  BY Fields DEF Idle
<1>5. /\ peVenv' \in [EnvTrees -> Venvs] /\ (\A u \in EnvTrees : OwnedOnce(peVenv'[u]))
      /\ \A u \in EnvTrees \ {"main"} : peVenv'[u] = NoVenv
  BY Fields DEF OwnedOnce, Venvs
<1>6. Shape'
  BY <1>2, <1>3, <1>4, <1>5 DEF Shape
<1>7. Ownership'
  <2>1. \A u \in LiveTrees' : Standing(peSync[u], Venv(u))'
    BY <1>3, <1>4 DEF Standing, Idle
  <2>2. Linked' /\ NoneIsLeftHalfBuilt'
    BY <1>2 DEF Linked, NoneIsLeftHalfBuilt
  <2> QED
    BY <2>1, <2>2, <1>3, <1>4, <1>5, Fields DEF Ownership, OwnedOnce, Idle
<1>8. Freshness'
  <2>1. \A u \in LiveTrees' : SoFar(peSync[u], Venv(u), u)'
    BY <1>3, <1>4 DEF SoFar, Idle
  <2>2. ~peShared => \A u \in EnvTrees : Truthful(peVenv'[u])
    BY Fields DEF Truthful
  <2>3. Alone'
    BY <1>3 DEF Alone
  <2> QED
    BY <2>1, <2>2, <2>3 DEF Freshness, Truthful
<1> QED
  BY <1>6, <1>7, <1>8 DEF EInv

LEMMA EnvKillStep ==
  ASSUME EInv, NEW left \in {"half", "part", "as it was"}, EnvKill(left)
  PROVE  EInv'
<1>1. Shape /\ Ownership /\ Freshness /\ "main" \in EnvTrees
  BY DEF EInv, EnvTrees
<1>2. PICK v \in Venvs :
        /\ peVenv' = [t \in EnvTrees |-> IF t = "main" THEN v ELSE NoVenv]
        /\ OwnedOnce(v) /\ (~peShared => Truthful(v))
  <2>1. CASE left = "half"
    <3>1. OwnedOnce(NewVenv(FALSE, FALSE)) /\ Truthful(NewVenv(FALSE, FALSE))
      BY NewIsUnprinted DEF Truthful, OwnedOnce, NewVenv
    <3> QED
      BY <2>1, <3>1, Fields DEF Venvs, EnvKill
  <2>2. CASE left = "part"
    <3> DEFINE v == [peVenv["main"] EXCEPT !.installed = CUT, !.half = TRUE]
    <3>1. peVenv["main"] \in Built
      BY <2>2, <1>1, Fields, ZenonT(60) DEF Shape, Ownership, Standing, Venv, Venvs, EnvKill
    <3>2. v \in Built /\ v.half /\ (v.users <=> peVenv["main"].users)
          /\ (v.marked <=> peVenv["main"].marked)
      BY <3>1 DEF Built
    <3>3. OwnedOnce(v) /\ Truthful(v)
      BY <3>1, <3>2, <1>1, Fields DEF Ownership, OwnedOnce, Truthful
    <3>4. \A t \in EnvTrees : t = "main" => [peVenv[t] EXCEPT !.installed = CUT, !.half = TRUE] = v
      OBVIOUS
    <3>5. peVenv' = [t \in EnvTrees |-> IF t = "main" THEN v ELSE NoVenv]
      BY <2>2, <3>4 DEF EnvKill
    <3> HIDE DEF v
    <3> QED
      BY <3>2, <3>3, <3>5 DEF Venvs
  <2>3. CASE left = "as it was"
    <3>1. peVenv' = [t \in EnvTrees |-> IF t = "main" THEN peVenv["main"] ELSE NoVenv]
      BY <2>3 DEF EnvKill
    <3> QED
      BY <3>1, <1>1 DEF Shape, Ownership, Freshness
  <2> QED
    BY <2>1, <2>2, <2>3
<1> QED
  BY <1>2, KilledState DEF EnvKill

-----------------------------------------------------------------------------
LEMMA EInvStep == EInv /\ [ProjectEnvNext]_peVars => EInv'
<1> SUFFICES ASSUME EInv, [ProjectEnvNext]_peVars PROVE EInv'
  OBVIOUS
<1>1. ASSUME NEW t \in LiveTrees,
             StartSync(t) \/ MarkOwn(t) \/ ReadDeclared(t) \/ Stamp(t) \/ TestsRun(t)
      PROVE  EInv'
  BY <1>1, StartSyncStep, MarkOwnStep, ReadDeclaredStep, StampStep, TestsRunStep
<1>2. ASSUME NEW t \in LiveTrees, NEW outcome \in Outcomes,
             \/ Create(t, outcome) \/ InstallPytest(t, outcome)
             \/ \E left \in Left(t) : InstallDeps(t, outcome, left)
      PROVE  EInv'
  BY <1>2, CreateStep, InstallPytestStep, InstallDepsStep
<1>3. ASSUME NEW t \in LiveTrees,
             \/ \E given \in Declarations : EditDeclared(t, given)
             \/ \E merged \in BOOLEAN : Join(t, merged)
      PROVE  EInv'
  BY <1>3, EditDeclaredStep, JoinStep
<1>4. ASSUME NEW t \in EnvWorktrees, NEW linked \in BOOLEAN, MakeWorktree(t, linked)
      PROVE  EInv'
  BY <1>4, MakeWorktreeStep
<1>5. CASE NextEnvRun
  BY <1>5, NextEnvRunStep
<1>6. ASSUME NEW left \in {"half", "part", "as it was"}, EnvKill(left)
      PROVE  EInv'
  BY <1>6, EnvKillStep
<1>7. CASE UNCHANGED peVars
  BY <1>7 DEF peVars, EInv, Shape, Ownership, Freshness, OwnedOnce, Standing, Linked,
    NoneIsLeftHalfBuilt, Truthful, SoFar, Alone, AtVenv, Home, Venv, Fingerprint, LiveTrees
<1> QED
  BY <1>1, <1>2, <1>3, <1>4, <1>5, <1>6, <1>7 DEF ProjectEnvNext

(***************************************************************************)
(* The strengthened invariant holds whatever is denied, fails, is edited,  *)
(* is killed or syncs at the same time.                                    *)
(***************************************************************************)
THEOREM EnvInvariance == ProjectEnvSpec => []EInv
<1> QED
  BY EInvInit, EInvStep, PTL DEF ProjectEnvSpec

LEMMA EnvTypes == EInv => ProjectEnvTypeOK
  BY Fields DEF EInv, Shape, Ownership, ProjectEnvTypeOK

(***************************************************************************)
(* Every variable has its type, and a worktree there is not has nothing.   *)
(***************************************************************************)
THEOREM EnvTypeCorrect == ProjectEnvSpec => []ProjectEnvTypeOK
  BY EnvTypes, EnvInvariance, PTL

-----------------------------------------------------------------------------
(***************************************************************************)
(* A step of a sync changes the virtualenv it is at, which is not a user's *)
(* one; every other step waits for the syncs to end, or leaves the user's. *)
(***************************************************************************)
Untouched ==
  (\E u \in LiveTrees : AtVenv(u)) =>
    \A t \in EnvTrees : peVenv[t].there /\ peVenv[t].users => peVenv'[t] = peVenv[t]

LEMMA AtOwnVenv ==
  ASSUME EInv, NEW t \in LiveTrees,
         peSync[t].pc \in {"create", "mark", "pytest", "read", "deps", "stamp"},
         NEW v, peVenv' = [peVenv EXCEPT ![Home(t)] = v]
  PROVE  Untouched
<1>1. Standing(peSync[t], peVenv[Home(t)]) /\ peVenv \in [EnvTrees -> Venvs]
  BY DEF EInv, Shape, Ownership, Venv
<1>2. ~(peVenv[Home(t)].there /\ peVenv[Home(t)].users)
  BY <1>1 DEF Standing
<1>3. \A u \in EnvTrees \ {Home(t)} : peVenv'[u] = peVenv[u]
  BY <1>1
<1> QED
  BY <1>2, <1>3 DEF Untouched

LEMMA UntouchedStep == EInv /\ [ProjectEnvNext]_peVars => Untouched
<1> SUFFICES ASSUME EInv, [ProjectEnvNext]_peVars PROVE Untouched
  OBVIOUS
<1>1. ASSUME NEW t \in LiveTrees, NEW outcome \in Outcomes,
             \/ MarkOwn(t) \/ Stamp(t)
             \/ Create(t, outcome) \/ InstallPytest(t, outcome)
             \/ \E left \in Left(t) : InstallDeps(t, outcome, left)
      PROVE  Untouched
  <2>1. CASE UNCHANGED peVenv
    BY <2>1 DEF Untouched
  <2>2. CASE ~UNCHANGED peVenv
    <3>1. peSync[t].pc \in {"create", "mark", "pytest", "read", "deps", "stamp"}
      BY <1>1 DEF MarkOwn, Stamp, Create, InstallPytest, InstallDeps
    <3>2. PICK v : peVenv' = [peVenv EXCEPT ![Home(t)] = v]
      BY <1>1, <2>2 DEF MarkOwn, Stamp, Create, InstallPytest, InstallDeps, Changes
    <3> QED
      BY <3>1, <3>2, AtOwnVenv
  <2> QED
    BY <2>1, <2>2
<1>2. ASSUME NEW t \in LiveTrees,
             \/ StartSync(t) \/ ReadDeclared(t) \/ TestsRun(t)
             \/ \E given \in Declarations : EditDeclared(t, given)
      PROVE  Untouched
  BY <1>2 DEF Untouched, StartSync, ReadDeclared, TestsRun, EditDeclared
<1>3. ASSUME NEW t \in LiveTrees, NEW merged \in BOOLEAN, Join(t, merged)
      PROVE  Untouched
  BY <1>3 DEF Untouched, Join, AtVenv
<1>4. ASSUME NEW t \in EnvWorktrees, NEW linked \in BOOLEAN, MakeWorktree(t, linked)
      PROVE  Untouched
  BY <1>4 DEF Untouched, MakeWorktree
<1>5. CASE NextEnvRun
  BY <1>5 DEF Untouched, NextEnvRun, AtVenv
<1>6. ASSUME NEW left \in {"half", "part", "as it was"}, EnvKill(left)
      PROVE  Untouched
  <2>1. \A t \in EnvTrees \ {"main"} : peVenv[t].there => ~peVenv[t].users
    BY DEF EInv, Ownership
  <2>2. "main" \in LiveTrees /\ Standing(peSync["main"], peVenv["main"])
    BY DEF EInv, Shape, Ownership, Venv, Home
  <2>3. CASE left = "half" \/ left = "part"
    <3>1. ~(peVenv["main"].there /\ peVenv["main"].users)
      BY <1>6, <2>2, <2>3 DEF EnvKill, EInv, Ownership, Standing, Venv
    <3> QED
      BY <2>1, <3>1 DEF Untouched
  <2>4. CASE left = "as it was"
    <3>1. peVenv' = [t \in EnvTrees |-> IF t = "main" THEN peVenv["main"] ELSE NoVenv]
      BY <1>6, <2>4 DEF EnvKill
    <3> QED
      BY <2>1, <3>1 DEF Untouched
  <2> QED
    BY <2>3, <2>4
<1>7. CASE UNCHANGED peVars
  BY <1>7 DEF peVars, Untouched
<1> QED
  BY <1>1, <1>2, <1>3, <1>4, <1>5, <1>6, <1>7 DEF ProjectEnvNext, Outcomes

(***************************************************************************)
(* A virtualenv is the user's and untouched, or Rudra's and marked so.     *)
(***************************************************************************)
THEOREM OneOwner == ProjectEnvSpec => VenvsHaveOneOwner
<1>1. EInv => NoneIsLeftHalfBuilt
  BY DEF EInv, Ownership
<1>2. EInv /\ [ProjectEnvNext]_peVars => [Untouched]_peVars
  BY UntouchedStep
<1>3. ProjectEnvSpec => [][Untouched]_peVars
  BY <1>2, EnvInvariance, PTL DEF ProjectEnvSpec
<1> QED
  BY <1>1, <1>3, EnvInvariance, PTL DEF VenvsHaveOneOwner, ForeignIsUntouched, Untouched

\* What a sync that fails without a command of its own has behind it.
Tried ==
  \A t \in LiveTrees :
    peSync[t].pc = "read" /\ peSync'[t].outcome = "failed" => Fingerprint(t) \in peState.failed

LEMMA TriedStep == EInv /\ [ProjectEnvNext]_peVars => Tried
<1> SUFFICES ASSUME EInv, [ProjectEnvNext]_peVars, NEW t \in LiveTrees,
                    peSync[t].pc = "read", peSync'[t].outcome = "failed"
             PROVE  Fingerprint(t) \in peState.failed
  BY DEF Tried
<1>1. peSync \in [EnvTrees -> Syncs] /\ t \in EnvTrees /\ LiveTrees \subseteq EnvTrees
      /\ peSync[t].outcome = "none" /\ Idle.outcome = "none"
  BY DEF EInv, Shape, Ownership, Standing, Idle
<1>2. ASSUME ReadDeclared(t) PROVE KnownBad(t)
  <2> SUFFICES ASSUME ~KnownBad(t) PROVE FALSE
    OBVIOUS
  <2>1. \E at \in {"unchanged", "none"} : peSync'[t].outcome = at
    BY <1>1, <1>2 DEF ReadDeclared
  <2> QED
    BY <2>1
<1>3. ASSUME NEW u \in LiveTrees \ {t}, NEW s, peSync' = [peSync EXCEPT ![u] = s]
      PROVE  FALSE
  BY <1>1, <1>3
<1>4. ASSUME NEW u \in LiveTrees,
             StartSync(u) \/ MarkOwn(u) \/ ReadDeclared(u) \/ Stamp(u) \/ TestsRun(u)
      PROVE  KnownBad(t)
  <2>1. CASE u = t
    BY <2>1, <1>2, <1>4 DEF StartSync, MarkOwn, Stamp, TestsRun
  <2>2. CASE u # t
    <3>1. \E s : peSync' = [peSync EXCEPT ![u] = s]
      BY <1>4 DEF StartSync, MarkOwn, ReadDeclared, Stamp, TestsRun, Moves, EndsAs
    <3> QED
      BY <2>2, <3>1, <1>3
  <2> QED
    BY <2>1, <2>2
<1>5. ASSUME NEW u \in LiveTrees, NEW outcome \in Outcomes,
             \/ Create(u, outcome) \/ InstallPytest(u, outcome)
             \/ \E left \in Left(u) : InstallDeps(u, outcome, left)
      PROVE  KnownBad(t)
  <2>1. CASE u = t
    BY <2>1, <1>5 DEF Create, InstallPytest, InstallDeps
  <2>2. CASE u # t
    <3>1. \E s : peSync' = [peSync EXCEPT ![u] = s]
      BY <1>5, ZenonT(60) DEF Create, InstallPytest, InstallDeps, Moves, EndsAs
    <3> QED
      BY <2>2, <3>1, <1>3
  <2> QED
    BY <2>1, <2>2
<1>6. ASSUME UNCHANGED peSync PROVE KnownBad(t)
  BY <1>1, <1>6
<1>7. ASSUME NEW left, EnvKill(left) PROVE KnownBad(t)
  <2>1. peSync'[t] = Idle
    BY <1>1, <1>7 DEF EnvKill
  <2> QED
    BY <2>1, <1>1
<1>8. \/ \E u \in LiveTrees :
           StartSync(u) \/ MarkOwn(u) \/ ReadDeclared(u) \/ Stamp(u) \/ TestsRun(u)
      \/ \E u \in LiveTrees, outcome \in Outcomes :
           \/ Create(u, outcome) \/ InstallPytest(u, outcome)
           \/ \E left \in Left(u) : InstallDeps(u, outcome, left)
      \/ UNCHANGED peSync
      \/ \E left : EnvKill(left)
  BY DEF ProjectEnvNext, EditDeclared, Join, MakeWorktree, NextEnvRun, peVars
<1> QED
  BY <1>4, <1>5, <1>6, <1>7, <1>8 DEF KnownBad

(***************************************************************************)
(* A gate runs on what its tree declares, and a sync that fails without a  *)
(* command of its own had these very files fail before.                    *)
(***************************************************************************)
THEOREM UpToDate == ProjectEnvSpec => GateIsUpToDate
<1>1. EInv => GateRunsOnWhatItDeclares
  BY DEF EInv, Freshness, SoFar, GateRunsOnWhatItDeclares
<1>2. EInv /\ [ProjectEnvNext]_peVars => [Tried]_peVars
  BY TriedStep
<1>3. ProjectEnvSpec => [][Tried]_peVars
  BY <1>2, EnvInvariance, PTL DEF ProjectEnvSpec
<1> QED
  BY <1>1, <1>3, EnvInvariance, PTL DEF GateIsUpToDate, AFixIsTried, Tried

-----------------------------------------------------------------------------
(***************************************************************************)
(* The test stage (Suites): which stack, which command, and how it ends.   *)
(***************************************************************************)
STACKS == {"angular", "react", "node", "python", "rust"}
PYTHON == {"pytest", "unittest", "manage.py test"}

LEMMA StackCases == Stack \in STACKS \cup {"none"}
<1>1. Detected \subseteq STACKS
  BY DEF Detected, Marked, Inferred, STACKS
<1> DEFINE First(i) == /\ Precedence[i] \in Detected
                       /\ \A j \in 1..(i - 1) : Precedence[j] \notin Detected
<1>2. DOMAIN Precedence = 1..5
  BY DEF Precedence
<1>3. ASSUME Detected # {}
      PROVE  \E i \in 1..5 : First(i)
  <2>1. /\ Precedence[1] = "angular" /\ Precedence[2] = "react" /\ Precedence[3] = "node"
        /\ Precedence[4] = "python" /\ Precedence[5] = "rust"
    BY DEF Precedence
  <2>2. \/ Precedence[1] \in Detected \/ Precedence[2] \in Detected
        \/ Precedence[3] \in Detected \/ Precedence[4] \in Detected
        \/ Precedence[5] \in Detected
    <3>1. PICK stack \in Detected : stack \in STACKS
      BY <1>1, <1>3
    <3> QED
      BY <2>1, <3>1, Zenon DEF STACKS
  <2>3. CASE Precedence[1] \in Detected
    BY <2>3
  <2>4. CASE Precedence[1] \notin Detected /\ Precedence[2] \in Detected
    <3>1. \A j \in 1..(2 - 1) : j = 1
      OBVIOUS
    <3>2. First(2)
      BY <2>4, <3>1
    <3> QED
      BY <3>2
  <2>5. CASE Precedence[1] \notin Detected /\ Precedence[2] \notin Detected /\ Precedence[3] \in Detected
    <3>1. \A j \in 1..(3 - 1) : j \in {1, 2}
      OBVIOUS
    <3>2. First(3)
      BY <2>5, <3>1
    <3> QED
      BY <3>2
  <2>6. CASE /\ Precedence[1] \notin Detected /\ Precedence[2] \notin Detected
             /\ Precedence[3] \notin Detected /\ Precedence[4] \in Detected
    <3>1. \A j \in 1..(4 - 1) : j \in {1, 2, 3}
      OBVIOUS
    <3>2. First(4)
      BY <2>6, <3>1
    <3> QED
      BY <3>2
  <2>7. CASE /\ Precedence[1] \notin Detected /\ Precedence[2] \notin Detected
             /\ Precedence[3] \notin Detected /\ Precedence[4] \notin Detected
    <3>1. \A j \in 1..(5 - 1) : j \in {1, 2, 3, 4}
      OBVIOUS
    <3>2. Precedence[5] \in Detected
      BY <2>2, <2>7
    <3>3. First(5)
      BY <2>7, <3>1, <3>2
    <3> QED
      BY <3>3
  <2> QED
    BY <2>3, <2>4, <2>5, <2>6, <2>7
<1> HIDE DEF First
<1>4. ASSUME Detected # {}
      PROVE  Precedence[CHOOSE i \in 1..5 : First(i)] \in Detected
  <2>1. First(CHOOSE i \in 1..5 : First(i))
    BY <1>3, <1>4
  <2> QED
    BY <2>1 DEF First
<1>5. CASE Detected # {}
  <2>1. Stack = Precedence[CHOOSE i \in 1..5 : First(i)]
    BY <1>2, <1>5 DEF Stack, First
  <2> QED
    BY <1>1, <1>4, <1>5, <2>1
<1>6. CASE Detected = {}
  BY <1>6 DEF Stack
<1> QED
  BY <1>5, <1>6

(***************************************************************************)
(* A Python tree has a Python command, and no other tree has one; what     *)
(* unittest is chosen for, it can collect.                                 *)
(***************************************************************************)
LEMMA CommandCases ==
  /\ Stack = "python" => Command \in PYTHON
  /\ Stack # "python" => Command \in {NOCOMMAND, "cargo test", "npm test"}
  /\ Command = "unittest" => ~Undiscoverable /\ ~Uncollectable
<1>1. PythonCommand \in PYTHON /\ (PythonCommand = "unittest" => ~Undiscoverable /\ ~Uncollectable)
  BY DEF PythonCommand, PYTHON
<1>2. CASE Stack = "python"
  <2>1. Command = PythonCommand
    BY <1>2 DEF Command
  <2> QED
    BY <1>1, <1>2, <2>1
<1>3. CASE Stack # "python"
  <2>1. Command \in {NOCOMMAND, "cargo test", "npm test"}
    BY <1>3, StackCases DEF Command, STACKS
  <2> QED
    BY <1>3, <2>1 DEF NOCOMMAND
<1> QED
  BY <1>2, <1>3

(***************************************************************************)
(* How a command ends: without its runner it names the runner; with it,    *)
(* a Python command's total is the number of tests it collected.           *)
(***************************************************************************)
LEMMA EndingCases ==
  ASSUME NEW command, NEW printed \in Endings(command)
  PROVE  /\ printed.ended \in {"denied", "not started", "timed out", "exited"}
         /\ NoRunner(command) => printed.ended # "timed out"
         /\ NoRunner(command) /\ printed.ended = "exited" => "runner" \in printed.missing
         /\ ~NoRunner(command) /\ printed.ended = "exited" => "runner" \notin printed.missing
         /\ ~NoRunner(command) /\ printed.ended = "exited" /\ command \in PYTHON =>
              printed.total = Cardinality(Collects(command))
<1> DEFINE n == Cardinality(Collects(command))
           Ends == CASE command = "npm test" -> Exits({0, 1}, {0, 1, UNPARSED}, {{}})
                     [] command = "cargo test" -> Exits({0, 1}, {0, 1}, {{}})
                     [] command = "pytest" /\ n = 0 -> Exits({5}, {0}, {{}})
                     [] command \in {"unittest", "manage.py test"} /\ n = 0 -> Exits({0, 5}, {0}, {{}})
                     [] OTHER -> Exits({0}, {n}, {{}}) \cup Exits({1}, {n}, {{}, {"a package"}})
<1> HIDE DEF n
<1>1. CASE printed \in [ended : {"denied", "not started"}]
  BY <1>1
<1>2. CASE printed \notin [ended : {"denied", "not started"}] /\ NoRunner(command)
  <2>1. printed \in Exits({1}, {UNPARSED}, {{"runner"}})
    BY <1>2 DEF Endings
  <2> QED
    BY <1>2, <2>1 DEF Exits
<1>3. CASE printed \notin [ended : {"denied", "not started"}] /\ ~NoRunner(command)
  <2>1. printed \in [ended : {"timed out"}] \cup Ends
    BY <1>3 DEF Endings, n
  <2>2. CASE printed \in [ended : {"timed out"}]
    BY <1>3, <2>2
  <2>3. CASE printed \in Ends
    <3>1. CASE command = "npm test"
      BY <1>3, <2>3, <3>1 DEF Exits, PYTHON
    <3>2. CASE command = "cargo test"
      BY <1>3, <2>3, <3>2 DEF Exits, PYTHON
    <3>3. CASE command \in PYTHON /\ n = 0
      <4>1. CASE command = "pytest"
        <5>1. printed \in Exits({5}, {0}, {{}})
          BY <2>3, <3>3, <4>1
        <5> QED
          BY <1>3, <3>3, <5>1 DEF Exits, n
      <4>2. CASE command # "pytest"
        <5>1. printed \in Exits({0, 5}, {0}, {{}})
          BY <2>3, <3>3, <4>2 DEF PYTHON
        <5> QED
          BY <1>3, <3>3, <5>1 DEF Exits, n
      <4> QED
        BY <4>1, <4>2
    <3>4. CASE command \notin {"npm test", "cargo test"} /\ ~(command \in PYTHON /\ n = 0)
      <4>1. printed \in Exits({0}, {n}, {{}}) \cup Exits({1}, {n}, {{}, {"a package"}})
        BY <2>3, <3>4 DEF PYTHON
      <4> QED
        BY <1>3, <4>1 DEF Exits, n
    <3> QED
      BY <3>1, <3>2, <3>3, <3>4
  <2> QED
    BY <2>1, <2>2, <2>3
<1> QED
  BY <1>1, <1>2, <1>3

(***************************************************************************)
(* The inductive invariant: the tree is of its files, and the verdict, if  *)
(* there is one, is true of it.                                            *)
(***************************************************************************)
SuitesTree ==
  /\ suFiles \subseteq SuiteFiles /\ suTests \subseteq SuiteTests /\ IsFiniteSet(suTests)
  /\ suPackages \subseteq DIRS \ {"root"} /\ suVenv \in {NOVENV, "python", "pytest"}

SuitesVerdict ==
  /\ suVerdict.collected \subseteq suTests
  /\ suVerdict.outcome \in {"none", "passed", "failed", "not_applicable", "denied", "missing_tool"}
  /\ suVerdict.outcome = "none" <=> suVerdict = NoSuiteVerdict

SuitesInv == SuitesTree /\ SuitesVerdict /\ VerdictIsTrue

LEMMA NoVerdictIsTrue ==
  ASSUME suVerdict = NoSuiteVerdict
  PROVE  SuitesVerdict /\ VerdictIsTrue
  BY DEF NoSuiteVerdict, SuitesVerdict, VerdictIsTrue, APassRanTheTests, APassIsNotEmpty,
         ToolsAndCodeAreToldApart

LEMMA NoVerdictNext ==
  ASSUME suVerdict' = NoSuiteVerdict
  PROVE  SuitesVerdict' /\ VerdictIsTrue'
  BY DEF NoSuiteVerdict, SuitesVerdict, VerdictIsTrue, APassRanTheTests, APassIsNotEmpty,
         ToolsAndCodeAreToldApart

(***************************************************************************)
(* What unittest is chosen for, it collects: every test_x.py.              *)
(***************************************************************************)
LEMMA PythonCollects ==
  ASSUME SuitesTree, Command \in {"pytest", "unittest"}
  PROVE  {t \in suTests : t.name = "test_x"} \subseteq Collects(Command)
<1>1. CASE Command = "pytest"
  BY <1>1 DEF Collects
<1>2. CASE Command = "unittest"
  <2>1. Collects(Command) = {t \in suTests : t.name = "test_x" /\ t.style = "case" /\ Discoverable(t)}
    BY <1>2 DEF Collects
  <2> SUFFICES ASSUME NEW t \in suTests, t.name = "test_x"
               PROVE  t.style = "case" /\ Discoverable(t)
    BY <2>1
  <2>2. t \in SuiteTest
    BY SuitesAssumption DEF SuitesTree
  <2>3. t.style = "case"
    BY <1>2, <2>2, CommandCases DEF Uncollectable, SuiteTest
  <2>4. ASSUME t.dir = "root" PROVE Discoverable(t)
    <3>1. Chain("root") = {}
      BY DEF Chain
    <3> QED
      BY <2>4, <3>1 DEF Discoverable
  <2>5. ASSUME t.dir # "root" PROVE Discoverable(t)
    <3>1. ~Undiscoverable
      BY <1>2, CommandCases
    <3> QED
      BY <2>5, <3>1, Zenon DEF Undiscoverable
  <2> QED
    BY <2>3, <2>4, <2>5
<1> QED
  BY <1>1, <1>2

(***************************************************************************)
(* The stage's outcome, read back: what each says of how the command ended.*)
(***************************************************************************)
LEMMA OutcomeCases ==
  ASSUME NEW command, NEW stack, NEW printed \in Endings(command)
  PROVE  /\ TestOutcome(stack, printed)
              \in {"passed", "failed", "not_applicable", "denied", "missing_tool"}
         /\ TestOutcome(stack, printed) \in {"passed", "failed"} => ~NoRunner(command)
         /\ TestOutcome(stack, printed) = "missing_tool" =>
              printed.ended = "not started" \/ NoRunner(command)
         /\ TestOutcome(stack, printed) = "not_applicable" => suTests = {}
         /\ TestOutcome(stack, printed) = "passed" =>
              printed.ended = "exited" /\ printed.total # 0
<1>1. CASE printed.ended = "exited" /\ ~RunnerNotImportable(printed) /\ CollectedNothing(stack, printed)
  <2>1. TestOutcome(stack, printed) = NothingCollected /\ ~NoRunner(command)
    BY <1>1, EndingCases DEF TestOutcome, RunnerNotImportable
  <2> QED
    BY <2>1 DEF NothingCollected, VisibleTests
<1>2. CASE printed.ended = "exited" /\ RunnerNotImportable(printed)
  <2>1. TestOutcome(stack, printed) = "missing_tool" /\ NoRunner(command)
    BY <1>2, EndingCases DEF TestOutcome, RunnerNotImportable
  <2> QED
    BY <2>1
<1>3. CASE printed.ended = "exited" /\ ~RunnerNotImportable(printed) /\ ~CollectedNothing(stack, printed)
  <2>1. TestOutcome(stack, printed) \in {"passed", "failed"} /\ ~NoRunner(command)
    BY <1>3, EndingCases DEF TestOutcome, RunnerNotImportable
  <2>2. printed.total # 0
    BY <1>3 DEF CollectedNothing
  <2> QED
    BY <1>3, <2>1, <2>2
<1>4. CASE printed.ended # "exited"
  BY <1>4, EndingCases DEF TestOutcome
<1> QED
  BY <1>1, <1>2, <1>3, <1>4

LEMMA RunTestsStep ==
  ASSUME SuitesInv, RunTests
  PROVE  SuitesInv'
<1>1. SuitesTree'
  BY DEF SuitesInv, SuitesTree, RunTests
<1>2. CASE Command = NOCOMMAND
  <2>1. suVerdict' = [stack |-> Stack, command |-> NOCOMMAND, total |-> UNPARSED, collected |-> {},
                      outcome |-> "not_applicable"]
    BY <1>2 DEF RunTests, NoSuiteVerdict
  <2>2. Stack # "python"
    BY <1>2, CommandCases DEF NOCOMMAND, PYTHON
  <2>3. SuitesVerdict'
    BY <2>1 DEF SuitesVerdict, NoSuiteVerdict
  <2>4. VerdictIsTrue'
    BY <2>1, <2>2 DEF VerdictIsTrue, APassRanTheTests, APassIsNotEmpty, ToolsAndCodeAreToldApart
  <2> QED
    BY <1>1, <2>3, <2>4 DEF SuitesInv
<1>3. CASE Command # NOCOMMAND
  <2> DEFINE command == Command
  <2>1. PICK printed \in Endings(command) :
          suVerdict' =
            [stack |-> Stack, command |-> command, outcome |-> TestOutcome(Stack, printed),
             total |-> IF printed.ended = "exited" THEN printed.total ELSE UNPARSED,
             collected |-> IF printed.ended = "exited" /\ ~NoRunner(command)
                           THEN Collects(command) ELSE {}]
    BY <1>3 DEF RunTests
  <2>2. /\ Stack = "python" => command \in PYTHON
        /\ command \in PYTHON => Stack = "python"
    BY CommandCases DEF PYTHON, NOCOMMAND
  <2>3. Stack = "python" /\ command # "manage.py test" =>
          {t \in suTests : t.name = "test_x"} \subseteq Collects(command)
    BY <2>2, PythonCollects DEF SuitesInv, PYTHON
  <2>4. Collects(command) \subseteq suTests
    BY DEF Collects
  <2> DEFINE outcome == TestOutcome(Stack, printed)
             total == IF printed.ended = "exited" THEN printed.total ELSE UNPARSED
             collected == IF printed.ended = "exited" /\ ~NoRunner(command)
                          THEN Collects(command) ELSE {}
  <2>5. /\ outcome \in {"passed", "failed", "not_applicable", "denied", "missing_tool"}
        /\ outcome \in {"passed", "failed"} => ~NoRunner(command)
        /\ outcome = "missing_tool" => printed.ended = "not started" \/ NoRunner(command)
        /\ outcome = "not_applicable" => suTests = {}
        /\ outcome = "passed" => printed.ended = "exited" /\ printed.total # 0
    BY OutcomeCases
  <2>6. outcome = "passed" => total # 0 /\ collected = Collects(command)
    BY <2>5
  <2>7. outcome = "missing_tool" => collected = {}
    BY <2>5
  <2>8. outcome = "passed" /\ Stack = "python" => Collects(command) # {}
    <3> SUFFICES ASSUME outcome = "passed", Stack = "python", Collects(command) = {}
                 PROVE  FALSE
      OBVIOUS
    <3>1. printed.total = Cardinality(Collects(command))
      BY <2>2, <2>5, EndingCases
    <3>2. Cardinality({}) = 0
      BY FS_EmptySet
    <3> QED
      BY <2>5, <3>1, <3>2
  <2>9. collected \subseteq suTests
    BY <2>4
  <2>10. suVerdict' = [stack |-> Stack, command |-> command, outcome |-> outcome,
                       total |-> total, collected |-> collected]
    BY <2>1
  <2>11. suTests' = suTests /\ suVenv' = suVenv /\ suMachine' = suMachine
    BY DEF RunTests
  <2> HIDE DEF command, outcome, total, collected
  <2>13. /\ suVerdict'.stack = Stack /\ suVerdict'.command = command
         /\ suVerdict'.outcome = outcome /\ suVerdict'.total = total
         /\ suVerdict'.collected = collected
    BY <2>10
  <2>14. SuitesVerdict'
    <3>1. outcome # "none" /\ NoSuiteVerdict.outcome = "none"
      BY <2>5 DEF NoSuiteVerdict
    <3> QED
      BY <2>5, <2>9, <2>11, <2>13, <3>1 DEF SuitesVerdict
  <2>15. APassRanTheTests'
    <3>1. suVerdict'.outcome \in {"passed", "not_applicable"} /\ Stack = "python"
            /\ command # "manage.py test" => {t \in suTests' : t.name = "test_x"} \subseteq collected
      BY <2>3, <2>5, <2>6, <2>11, <2>13
    <3>2. suVerdict'.outcome \in {"passed", "not_applicable"} /\ suTests' # {} => total # 0
      BY <2>5, <2>6, <2>11, <2>13
    <3> QED
      BY <2>13, <3>1, <3>2 DEF APassRanTheTests
  <2>16. APassIsNotEmpty'
    BY <2>6, <2>8, <2>13 DEF APassIsNotEmpty
  <2>17. ToolsAndCodeAreToldApart'
    <3>1. NoRunner(suVerdict.command)' = NoRunner(command)
      BY <2>11, <2>13 DEF NoRunner
    <3> QED
      BY <2>5, <2>7, <2>13, <3>1 DEF ToolsAndCodeAreToldApart
  <2> QED
    BY <1>1, <2>14, <2>15, <2>16, <2>17 DEF SuitesInv, VerdictIsTrue
<1> QED
  BY <1>2, <1>3

LEMMA SuitesInvStep == SuitesInv /\ [SuitesNext]_suVars => SuitesInv'
<1> SUFFICES ASSUME SuitesInv, [SuitesNext]_suVars PROVE SuitesInv'
  OBVIOUS
<1>1. ASSUME NEW file \in SuiteFiles, WriteFile(file) PROVE SuitesInv'
  <2>1. SuitesTree'
    BY <1>1 DEF SuitesInv, SuitesTree, WriteFile, Toggled
  <2> QED
    BY <1>1, <2>1, NoVerdictNext DEF SuitesInv, WriteFile
<1>2. ASSUME NEW t \in SuiteTests, WriteTest(t) PROVE SuitesInv'
  <2>1. IsFiniteSet(suTests \ {t}) /\ IsFiniteSet(suTests \cup {t})
    BY FS_AddElement, FS_RemoveElement DEF SuitesInv, SuitesTree
  <2>2. SuitesTree'
    BY <1>2, <2>1 DEF SuitesInv, SuitesTree, WriteTest, Toggled
  <2> QED
    BY <1>2, <2>2, NoVerdictNext DEF SuitesInv, WriteTest
<1>3. ASSUME NEW dir \in DIRS \ {"root"}, WritePackage(dir) PROVE SuitesInv'
  <2>1. SuitesTree'
    BY <1>3 DEF SuitesInv, SuitesTree, WritePackage, Toggled
  <2> QED
    BY <1>3, <2>1, NoVerdictNext DEF SuitesInv, WritePackage
<1>4. ASSUME NEW venv \in {NOVENV, "python", "pytest"}, MakeVenv(venv) PROVE SuitesInv'
  <2>1. SuitesTree'
    BY <1>4 DEF SuitesInv, SuitesTree, MakeVenv
  <2> QED
    BY <1>4, <2>1, NoVerdictNext DEF SuitesInv, MakeVenv
<1>5. CASE UNCHANGED suVars
  BY <1>5 DEF suVars, SuitesInv, SuitesTree, SuitesVerdict, VerdictIsTrue, APassRanTheTests,
              APassIsNotEmpty, ToolsAndCodeAreToldApart, NoRunner
<1> QED
  BY <1>1, <1>2, <1>3, <1>4, <1>5, RunTestsStep DEF SuitesNext

LEMMA SuitesInvInit == SuitesInit => SuitesInv
  BY FS_EmptySet, NoVerdictIsTrue DEF SuitesInit, SuitesInv, SuitesTree

LEMMA SuitesInvariant == SuitesSpec => []SuitesInv
  BY SuitesInvInit, SuitesInvStep, PTL DEF SuitesSpec

LEMMA SuitesTypes == SuitesInv => SuitesTypeOK
  BY DEF SuitesInv, SuitesTree, SuitesVerdict, SuitesTypeOK

(***************************************************************************)
(* Every variable has its type, and a verdict is of tests the tree has.    *)
(***************************************************************************)
THEOREM SuitesTypeCorrect == SuitesSpec => []SuitesTypeOK
  BY SuitesTypes, SuitesInvariant, PTL

(***************************************************************************)
(* What test_stage says is true of the tree it ran in: a pass ran every    *)
(* test_x.py and some there were, a failure had its runner, and a missing  *)
(* tool ran nothing.                                                       *)
(***************************************************************************)
THEOREM VerdictsAreTrue == SuitesSpec => []VerdictIsTrue
<1>1. SuitesInv => VerdictIsTrue
  BY DEF SuitesInv
<1> QED
  BY <1>1, SuitesInvariant, PTL

-----------------------------------------------------------------------------
(***************************************************************************)
(* The three side by side: each of them takes its own steps or stands      *)
(* still, so a behaviour of the whole is one of the environment and one of *)
(* the suites, and what is invariant of the task stays so.                 *)
(***************************************************************************)
LEMMA GateParts ==
  /\ GateInit => Init /\ ProjectEnvInit /\ SuitesInit
  /\ [GateNext]_gateVars => [Next]_vars /\ [ProjectEnvNext]_peVars /\ [SuitesNext]_suVars
<1>1. GateInit => Init /\ ProjectEnvInit /\ SuitesInit
  BY DEF GateInit
<1>2. UNCHANGED gateVars => UNCHANGED vars /\ UNCHANGED peVars /\ UNCHANGED suVars
  BY DEF gateVars
<1>3. GateNext => [Next]_vars /\ [ProjectEnvNext]_peVars /\ [SuitesNext]_suVars
  BY DEF GateNext, OfTask
<1> QED
  BY <1>1, <1>2, <1>3

\* An environment and a suite beside a task behave as their own specifications say.
THEOREM GateImplementsItsParts == GateSpec => ProjectEnvSpec /\ SuitesSpec
  BY GateParts, PTL DEF GateSpec, ProjectEnvSpec, SuitesSpec

(***************************************************************************)
(* The variables of a task, its environment and its suite keep their types *)
(* in the machine TLC runs, for every value of its constants.              *)
(***************************************************************************)
THEOREM GateTypeCorrect == GateSpec => []GateTypeOK
<1>1. GateInit => IInv
  BY GateParts, InitInv
<1>2. IInv /\ [GateNext]_gateVars => IInv'
  BY GateParts, NextInv
<1>3. GateSpec => []IInv
  BY <1>1, <1>2, PTL DEF GateSpec
<1>4. IInv /\ ProjectEnvTypeOK /\ SuitesTypeOK => GateTypeOK
  BY TaskTypes DEF GateTypeOK
<1> QED
  BY <1>3, <1>4, GateImplementsItsParts, EnvTypeCorrect, SuitesTypeCorrect, PTL

=============================================================================
