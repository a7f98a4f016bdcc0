------------------------------ MODULE Models_proofs ------------------------------
(*****************************************************************************)
(* What is proved of the agents that call models: of the endpoints and their *)
(* retries (ModelCalls) and of the facts the user is asked for (Facts).      *)
(*****************************************************************************)
EXTENDS MCModels, RecursiveFunctions, FiniteSetTheorems, SequenceTheorems, TLAPS

Mild(seq) == \A i \in 1..Len(seq) : seq[i] # "fatal"

(***************************************************************************)
(* Of what the calls keep, the part that says how often one was tried.     *)
(***************************************************************************)
CallsOK ==
  /\ phase \in [Agents -> Phases] /\ outcome \in [Agents -> Outcomes]
  /\ attempt \in [Agents -> 1..MaxAttempts] /\ stream \in [Agents -> Nat]
  /\ yielded \in [Agents -> BOOLEAN] /\ answers \in [Agents -> Nat]
  /\ failures \in [Agents -> Seq(Errors)]

(***************************************************************************)
(* A call was tried once for each failure, and once more while it is in    *)
(* flight; only a failure that may pass lets it be tried again.            *)
(***************************************************************************)
Tried(a) ==
  /\ phase[a] \in {"graph", "acquiring"} => failures[a] = <<>>
  /\ phase[a] \notin {"calling", "backoff"} => attempt[a] = 1
  /\ phase[a] = "calling" => Len(failures[a]) = attempt[a] - 1
  /\ phase[a] = "backoff" => Len(failures[a]) = attempt[a] /\ attempt[a] < MaxAttempts
  /\ phase[a] # "idle" => outcome[a] = "none" /\ Mild(failures[a])
  /\ outcome[a] = "unavailable" => Len(failures[a]) = MaxAttempts /\ Mild(failures[a])

(***************************************************************************)
(* An answer is something seen of the invocation, and what was seen keeps  *)
(* it from being started again.                                            *)
(***************************************************************************)
Seen(a) ==
  /\ answers[a] > 0 => yielded[a]
  /\ phase[a] = "restart" => ~yielded[a]

MInv == CallsOK /\ served = answered /\ \A a \in Agents : Tried(a) /\ Seen(a)

LEMMA MInvInit == Init => MInv
<1> SUFFICES ASSUME Init PROVE MInv
  OBVIOUS
<1>1. CallsOK
  BY ModelCallsAssumption DEF Init, CallsOK, Phases, Outcomes
<1>2. \A a \in Agents : Tried(a) /\ Seen(a)
  BY DEF Init, Tried, Seen, Mild
<1> QED
  BY <1>1, <1>2 DEF MInv, Init

(***************************************************************************)
(* Another failure of a call in flight.                                    *)
(***************************************************************************)
LEMMA FailsOnce ==
  ASSUME MInv, NEW a \in Agents, NEW error \in Errors, Fails(a, error)
  PROVE  /\ failures' \in [Agents -> Seq(Errors)]
         /\ Len(failures'[a]) = attempt[a] /\ Last(failures'[a]) = error
         /\ error # "fatal" => Mild(failures'[a])
         /\ \A b \in Agents \ {a} : failures'[b] = failures[b]
<1>1. failures \in [Agents -> Seq(Errors)] /\ failures[a] \in Seq(Errors)
  BY DEF MInv, CallsOK
<1>2. failures' = [failures EXCEPT ![a] = Append(failures[a], error)]
  BY DEF Fails
<1>3. Append(failures[a], error) \in Seq(Errors)
  BY <1>1
<1>4. failures'[a] = Append(failures[a], error)
  BY <1>1, <1>2
<1>5. Len(failures[a]) = attempt[a] - 1 /\ Mild(failures[a]) /\ attempt[a] \in 1..MaxAttempts
  BY DEF MInv, CallsOK, Tried, Fails
<1>6. Len(failures'[a]) = attempt[a]
  BY <1>1, <1>4, <1>5, ModelCallsAssumption
<1>7. Last(failures'[a]) = error
  BY <1>1, <1>4 DEF Last
<1>8. error # "fatal" => Mild(failures'[a])
  BY <1>1, <1>4, <1>5 DEF Mild
<1> QED
  BY <1>1, <1>2, <1>3, <1>6, <1>7, <1>8

-----------------------------------------------------------------------------
(***************************************************************************)
(* A step of one agent is judged by that agent alone.                      *)
(***************************************************************************)
Kept(b) ==
  /\ phase'[b] = phase[b] /\ outcome'[b] = outcome[b] /\ attempt'[b] = attempt[b]
  /\ yielded'[b] = yielded[b] /\ answers'[b] = answers[b] /\ failures'[b] = failures[b]

LEMMA OneAgent ==
  ASSUME MInv, CallsOK', served' = answered', NEW a \in Agents,
         \A b \in Agents \ {a} : Kept(b),
         Tried(a)', Seen(a)'
  PROVE  MInv'
<1>1. \A b \in Agents \ {a} : Tried(b)' /\ Seen(b)'
  BY DEF MInv, Kept, Tried, Seen, Mild
<1> QED
  BY <1>1 DEF MInv

LEMMA Bounds == MaxAttempts \in Nat /\ MaxCalls \in Nat /\ 1 \in 1..MaxAttempts
  BY ModelCallsAssumption

LEMMA Nothing == <<>> \in Seq(Errors) /\ Len(<<>>) = 0 /\ Mild(<<>>)
  BY DEF Mild

(***************************************************************************)
(* Between calls.                                                          *)
(***************************************************************************)
LEMMA OutsideCalls ==
  ASSUME MInv, NEW a \in Agents,
         Invoke(a) \/ Yields(a) \/ Finish(a) \/ Call(a) \/ Acquire(a)
  PROVE  MInv'
<1> USE Bounds DEF callVars, streamVars, Returns
<1>1. CallsOK /\ Tried(a) /\ Seen(a)
  BY DEF MInv
<1>2. CallsOK'
  <2>1. phase' \in [Agents -> Phases] /\ outcome' \in [Agents -> Outcomes]
    BY <1>1 DEF CallsOK, Phases, Outcomes, Invoke, Yields, Finish, Call, Acquire
  <2>2. attempt' \in [Agents -> 1..MaxAttempts]
    BY <1>1 DEF CallsOK, Invoke, Yields, Finish, Call, Acquire
  <2>3. stream' \in [Agents -> Nat]
    BY <1>1, SMTT(60) DEF CallsOK, Invoke, Yields, Finish, Call, Acquire
  <2>4. yielded' \in [Agents -> BOOLEAN]
    BY <1>1 DEF CallsOK, Invoke, Yields, Finish, Call, Acquire
  <2>5. answers' \in [Agents -> Nat]
    BY <1>1 DEF CallsOK, Invoke, Yields, Finish, Call, Acquire
  <2>6. failures' \in [Agents -> Seq(Errors)]
    BY <1>1, Nothing DEF CallsOK, Invoke, Yields, Finish, Call, Acquire
  <2> QED
    BY <2>1, <2>2, <2>3, <2>4, <2>5, <2>6 DEF CallsOK
<1>3. served' = answered'
  BY DEF MInv, Invoke, Yields, Finish, Call, Acquire
<1>4. \A b \in Agents \ {a} : Kept(b)
  BY <1>1 DEF CallsOK, Kept, Invoke, Yields, Finish, Call, Acquire
<1>5. Tried(a)' /\ Seen(a)'
  <2>1. CASE Invoke(a)
    BY <1>1, <2>1, Nothing DEF CallsOK, Tried, Seen, Invoke
  <2>2. CASE Yields(a)
    BY <1>1, <2>2 DEF CallsOK, Tried, Seen, Mild, Yields
  <2>3. CASE Finish(a)
    BY <1>1, <2>3 DEF CallsOK, Tried, Seen, Mild, Finish
  <2>4. CASE Call(a)
    BY <1>1, <2>4, Nothing DEF CallsOK, Tried, Seen, Mild, Call
  <2>5. CASE Acquire(a)
    BY <1>1, <2>5, Nothing DEF CallsOK, Tried, Seen, Mild, Acquire
  <2> QED
    BY <2>1, <2>2, <2>3, <2>4, <2>5
<1> QED
  BY <1>2, <1>3, <1>4, <1>5, OneAgent

(***************************************************************************)
(* A call answered or issued again, an invocation started again, and       *)
(* Ctrl-C.                                                                 *)
(***************************************************************************)
LEMMA CallsGoOn ==
  ASSUME MInv, NEW a \in Agents, Answer(a) \/ Reissue(a) \/ Restart(a) \/ Cancel(a)
  PROVE  MInv'
<1> USE Bounds DEF callVars, streamVars, Returns, Ended
<1>1. CallsOK /\ Tried(a) /\ Seen(a)
  BY DEF MInv
<1>2. CallsOK'
  <2>1. phase' \in [Agents -> Phases] /\ outcome' \in [Agents -> Outcomes]
    BY <1>1 DEF CallsOK, Phases, Outcomes, Answer, Reissue, Restart, Cancel
  <2>2. attempt' \in [Agents -> 1..MaxAttempts]
    <3>1. CASE Reissue(a)
      BY <1>1, <3>1 DEF CallsOK, Tried, Reissue
    <3>2. CASE ~Reissue(a)
      BY <1>1, <3>2 DEF CallsOK, Answer, Restart, Cancel
    <3> QED
      BY <3>1, <3>2
  <2>3. stream' \in [Agents -> Nat]
    BY <1>1 DEF CallsOK, Answer, Reissue, Restart, Cancel
  <2>4. yielded' \in [Agents -> BOOLEAN]
    BY <1>1 DEF CallsOK, Answer, Reissue, Restart, Cancel
  <2>5. answers' \in [Agents -> Nat]
    <3>1. CASE Answer(a)
      BY <1>1, <3>1 DEF CallsOK, Answer
    <3>2. CASE ~Answer(a)
      BY <1>1, <3>2 DEF CallsOK, Reissue, Restart, Cancel
    <3> QED
      BY <3>1, <3>2
  <2>6. failures' \in [Agents -> Seq(Errors)]
    BY <1>1, Nothing, ZenonT(60) DEF CallsOK, Answer, Reissue, Restart, Cancel
  <2> QED
    BY <2>1, <2>2, <2>3, <2>4, <2>5, <2>6 DEF CallsOK
<1>3. served' = answered'
  BY DEF MInv, Answer, Reissue, Restart, Cancel
<1>4. \A b \in Agents \ {a} : Kept(b)
  BY <1>1 DEF CallsOK, Kept, Answer, Reissue, Restart, Cancel
<1>5. Tried(a)' /\ Seen(a)'
  <2>1. CASE Answer(a)
    BY <1>1, <2>1, Nothing DEF CallsOK, Tried, Seen, Answer
  <2>2. CASE Reissue(a)
    BY <1>1, <2>2 DEF CallsOK, Tried, Seen, Mild, Reissue
  <2>3. CASE Restart(a)
    BY <1>1, <2>3, Nothing DEF CallsOK, Tried, Seen, Restart
  <2>4. CASE Cancel(a)
    BY <1>1, <2>4, Nothing DEF CallsOK, Tried, Seen, Cancel
  <2> QED
    BY <2>1, <2>2, <2>3, <2>4
<1> QED
  BY <1>2, <1>3, <1>4, <1>5, OneAgent

(***************************************************************************)
(* A call that failed: waited for, given up, or raised.                    *)
(***************************************************************************)
LEMMA CallFailed ==
  ASSUME MInv, NEW a \in Agents, NEW error \in Errors,
         BackOff(a, error) \/ GiveUp(a, error) \/ Raise(a, error)
  PROVE  MInv'
<1> USE Bounds DEF streamVars, Returns, Ended
<1>1. CallsOK /\ Tried(a) /\ Seen(a)
  BY DEF MInv
<1>2. Fails(a, error)
  BY DEF BackOff, GiveUp, Raise
<1>3. /\ failures' \in [Agents -> Seq(Errors)]
      /\ Len(failures'[a]) = attempt[a]
      /\ error # "fatal" => Mild(failures'[a])
      /\ \A b \in Agents \ {a} : failures'[b] = failures[b]
  BY <1>2, FailsOnce
<1>4. CallsOK'
  <2>1. phase' \in [Agents -> Phases] /\ outcome' \in [Agents -> Outcomes]
    BY <1>1 DEF CallsOK, Phases, Outcomes, BackOff, GiveUp, Raise
  <2>2. attempt' \in [Agents -> 1..MaxAttempts]
    BY <1>1 DEF CallsOK, BackOff, GiveUp, Raise
  <2>3. stream' \in [Agents -> Nat]
    BY <1>1 DEF CallsOK, BackOff, GiveUp, Raise
  <2>4. yielded' \in [Agents -> BOOLEAN]
    BY <1>1 DEF CallsOK, BackOff, GiveUp, Raise
  <2>5. answers' \in [Agents -> Nat]
    BY <1>1 DEF CallsOK, BackOff, GiveUp, Raise
  <2> QED
    BY <1>3, <2>1, <2>2, <2>3, <2>4, <2>5 DEF CallsOK
<1>5. served' = answered'
  BY <1>2 DEF MInv, Fails
<1>6. \A b \in Agents \ {a} : Kept(b)
  BY <1>1, <1>3 DEF CallsOK, Kept, BackOff, GiveUp, Raise
<1>7. Tried(a)' /\ Seen(a)'
  <2>0. phase[a] = "calling" /\ attempt[a] \in 1..MaxAttempts
    BY <1>1, <1>2 DEF Fails, CallsOK
  <2>1. CASE BackOff(a, error)
    <3>1. error # "fatal" /\ attempt[a] # MaxAttempts
      BY <2>1 DEF BackOff, IsTransient, LastAttempt
    <3> QED
      BY <1>1, <1>3, <2>0, <2>1, <3>1 DEF CallsOK, Tried, Seen, BackOff
  <2>2. CASE GiveUp(a, error)
    <3>1. error # "fatal" /\ attempt[a] = MaxAttempts
      BY <2>2 DEF GiveUp, IsTransient, LastAttempt
    <3> QED
      BY <1>1, <1>3, <2>0, <2>2, <3>1 DEF CallsOK, Tried, Seen, GiveUp, Restartable
  <2>3. CASE Raise(a, error)
    BY <1>1, <1>3, <2>0, <2>3 DEF CallsOK, Tried, Seen, Raise
  <2> QED
    BY <2>1, <2>2, <2>3
<1> QED
  BY <1>4, <1>5, <1>6, <1>7, OneAgent

LEMMA MInvStep == MInv /\ [Next]_vars => MInv'
<1>1. ASSUME MInv, UNCHANGED vars
      PROVE  MInv'
  BY <1>1 DEF vars, callVars, streamVars, MInv, CallsOK, Tried, Seen, Mild
<1> QED
  BY <1>1, OutsideCalls, CallsGoOn, CallFailed DEF Next, Step

-----------------------------------------------------------------------------
(***************************************************************************)
(* An agent gives an endpoint up only when every attempt of one call       *)
(* failed, each in a way that may pass (model_retry.py, llm/retry.py).     *)
(***************************************************************************)
THEOREM EvidenceToGiveUp == Spec => []GivesUpOnEvidence
<1>1. MInv => GivesUpOnEvidence
  BY DEF MInv, Tried, Mild, GivesUpOnEvidence
<1> QED
  BY <1>1, MInvInit, MInvStep, PTL DEF Spec

(***************************************************************************)
(* An invocation its model answered is never started again by the retry of *)
(* the stream (approval.py): what its tools did is not done twice.         *)
(***************************************************************************)
THEOREM NoReplay == Spec => []AnsweredIsNotReplayed
<1>1. MInv => AnsweredIsNotReplayed
  BY DEF MInv, CallsOK, Seen, AnsweredIsNotReplayed
<1> QED
  BY <1>1, MInvInit, MInvStep, PTL DEF Spec

(***************************************************************************)
(* Once any agent of a role was answered, one report that the model is     *)
(* missing ends no agent of that role: served_roles is of the run.         *)
(***************************************************************************)
THEOREM OneReportEndsNothing == Spec => AnsweredIsNotMissing
<1> DEFINE Once == \A a \in Agents :
             outcome[a] = "none" /\ outcome'[a] = "raised" /\ RoleOf[a] \in answered
               => Last(failures'[a]) = "fatal"
<1>1. MInv /\ [Next]_vars => [Once]_vars
  <2> SUFFICES ASSUME MInv, Next, NEW a \in Agents,
                      outcome[a] = "none", outcome'[a] = "raised", RoleOf[a] \in answered
               PROVE  Last(failures'[a]) = "fatal"
    OBVIOUS
  <2>1. PICK error \in Errors : Raise(a, error)
    <3>1. outcome \in [Agents -> Outcomes]
      BY DEF MInv, CallsOK
    <3> QED
      BY <3>1 DEF Next, Step, Invoke, Returns, Yields, Finish, Call, Acquire, Answer, Reissue,
           BackOff, GiveUp, Raise, Restart, Cancel, Outcomes
  <2>2. error = "fatal"
    BY <2>1 DEF Raise, IsTransient, HasServed, MInv, Errors
  <2>3. Last(failures'[a]) = error
    BY <2>1, FailsOnce DEF Raise
  <2> QED
    BY <2>2, <2>3
<1> QED
  BY <1>1, MInvInit, MInvStep, PTL DEF Spec, AnsweredIsNotMissing

(***************************************************************************)
(* Both layers of retries act for cause, however many agents share the     *)
(* endpoint and wherever they are cancelled.                               *)
(***************************************************************************)
THEOREM CauseToRetry == Spec => RetriesHaveCause
BY EvidenceToGiveUp, NoReplay, OneReportEndsNothing DEF RetriesHaveCause

-----------------------------------------------------------------------------
(***************************************************************************)
(* The semaphores.  Of a finite set of places, the first m.                *)
(***************************************************************************)
LEMMA FirstOf ==
  ASSUME NEW S \in SUBSET Nat, IsFiniteSet(S), NEW m \in Nat, m <= Cardinality(S)
  PROVE  \E w \in SUBSET S : Cardinality(w) = m /\ \A i \in w, j \in S \ w : i < j
<1> DEFINE N == Cardinality(S)
           First(w, k) == Cardinality(w) = k /\ \A i \in w, j \in S \ w : i < j
           T == {k \in 0..N : \E w \in SUBSET S : First(w, k)}
           Smaller == {ss \in Nat \X Nat : ss[1] < ss[2]}
<1>1. N \in Nat
  BY FS_CardinalityType
<1>2. 0 \in T
  <2>1. First({}, 0)
    BY FS_EmptySet
  <2> HIDE DEF First
  <2> QED
    BY <1>1, <2>1
<1>3. ASSUME NEW k \in 0..N, k < N, k \in T
      PROVE  k + 1 \in T
  <2>1. PICK w \in SUBSET S : First(w, k)
    BY <1>3
  <2>2. S \ w # {} /\ S \ w \subseteq Nat
    <3>1. w # S
      BY <1>3, <2>1
    <3> QED
      BY <3>1
  <2>3. PICK x \in S \ w : \A y \in S \ w : ~(<<y, x>> \in Smaller)
    <3>1. IsWellFoundedOn(Smaller, Nat)
      BY NatLessThanWellFounded DEF OpToRel
    <3> QED
      BY <2>2, <3>1, WFMin
  <2>4. \A y \in S \ w : y # x => x < y
    <3> SUFFICES ASSUME NEW y \in S \ w, y # x PROVE x < y
      OBVIOUS
    <3>1. x \in Nat /\ y \in Nat /\ <<y, x>> \notin Smaller
      BY <2>2, <2>3
    <3> QED
      BY <3>1
  <2>5. Cardinality(w \cup {x}) = k + 1
    <3>1. IsFiniteSet(w)
      BY FS_Subset
    <3> QED
      BY <2>1, <2>3, <3>1, FS_AddElement
  <2>6. \A i \in w \cup {x}, j \in S \ (w \cup {x}) : i < j
    BY <2>1, <2>3, <2>4
  <2>7. w \cup {x} \in SUBSET S /\ First(w \cup {x}, k + 1) /\ k + 1 \in 0..N
    BY <1>1, <1>3, <2>3, <2>5, <2>6
  <2> HIDE DEF First
  <2> QED
    BY <2>7
<1> HIDE DEF T
<1>4. m \in T
  <2>1. N \in Nat /\ m \in 0..N
    BY <1>1
  <2>2. \A n \in 0..N : n < N /\ n \in T => n + 1 \in T
    BY <1>3
  <2> QED
    BY <2>1, <2>2, <1>2, Inductive, Zenon
<1> QED
  BY <1>4 DEF T

(***************************************************************************)
(* A semaphore: its line is of agents, each there once, and those that     *)
(* were woken are in it.                                                   *)
(***************************************************************************)
Semaphores == [value : Nat, waiters : Seq(Agents), woken : SUBSET Agents]
Line(s) == {s.waiters[i] : i \in 1..Len(s.waiters)}
InOrder(s) ==
  /\ s \in Semaphores /\ s.woken \subseteq Line(s)
  /\ \A i, j \in 1..Len(s.waiters) : s.waiters[i] = s.waiters[j] => i = j

LEMMA LineIs ==
  ASSUME NEW s \in Semaphores
  PROVE  Len(s.waiters) \in Nat /\ DOMAIN s.waiters = 1..Len(s.waiters) /\ Line(s) \subseteq Agents
  BY LenProperties, ElementOfSeq DEF Semaphores, Line

(***************************************************************************)
(* _wake_up_next gives each waiter it wakes one of the slots that are      *)
(* free, and none to one it woke before.                                   *)
(***************************************************************************)
LEMMA WakesFirst ==
  ASSUME NEW s, InOrder(s), NEW n \in Nat
  PROVE  /\ FirstAsleep(s, n) \subseteq Asleep(s) /\ IsFiniteSet(FirstAsleep(s, n))
         /\ Cardinality(FirstAsleep(s, n)) \in 0..s.value
<1> DEFINE S == Asleep(s)
           Is(first) == /\ Cardinality(first) <= n /\ Cardinality(first) <= s.value
                        /\ \/ first = S \/ Cardinality(first) = n \/ Cardinality(first) = s.value
                        /\ \A i \in first, j \in S \ first : i < j
<1>1. s \in Semaphores /\ s.value \in Nat
  BY DEF InOrder, Semaphores
<1>2. S \in SUBSET Nat /\ IsFiniteSet(S)
  <2>1. Len(s.waiters) \in Nat /\ S \subseteq 1..Len(s.waiters)
    BY <1>1, LineIs DEF Asleep
  <2>2. IsFiniteSet(1..Len(s.waiters))
    BY <2>1, FS_Interval
  <2> QED
    BY <2>1, <2>2, FS_Subset
<1>3. Cardinality(S) \in Nat
  BY <1>2, FS_CardinalityType
<1>4. PICK m \in Nat : /\ m <= Cardinality(S) /\ m <= n /\ m <= s.value
                       /\ m = Cardinality(S) \/ m = n \/ m = s.value
  <2>1. CASE Cardinality(S) <= n /\ Cardinality(S) <= s.value
    BY <1>3, <2>1
  <2>2. CASE n <= Cardinality(S) /\ n <= s.value
    BY <2>2
  <2>3. CASE s.value <= Cardinality(S) /\ s.value <= n
    BY <1>1, <2>3
  <2> QED
    BY <1>1, <1>3, <2>1, <2>2, <2>3
<1> HIDE DEF S
<1>5. PICK w \in SUBSET S : Cardinality(w) = m /\ \A i \in w, j \in S \ w : i < j
  BY <1>2, <1>4, FirstOf
<1>6. w = S \/ Cardinality(w) # Cardinality(S)
  BY <1>2, <1>5, FS_Subset
<1>7. Is(w)
  BY <1>4, <1>5, <1>6
<1>8. FirstAsleep(s, n) = CHOOSE first \in SUBSET S : Is(first)
  BY DEF FirstAsleep, S
<1> HIDE DEF Is
<1>9. FirstAsleep(s, n) \in SUBSET S /\ Is(FirstAsleep(s, n))
  BY <1>5, <1>7, <1>8
<1>10. IsFiniteSet(FirstAsleep(s, n))
  BY <1>2, <1>9, FS_Subset
<1>11. Cardinality(FirstAsleep(s, n)) \in Nat
  BY <1>10, FS_CardinalityType
<1> QED
  BY <1>1, <1>9, <1>10, <1>11 DEF S, Is

LEMMA WokenIs ==
  ASSUME NEW s, InOrder(s), NEW n \in Nat
  PROVE  /\ InOrder(Woken(s, n)) /\ Woken(s, n).waiters = s.waiters
         /\ IsFiniteSet(s.woken)
         /\ Woken(s, n).value + Cardinality(Woken(s, n).woken) = s.value + Cardinality(s.woken)
<1> DEFINE first == FirstAsleep(s, n)
           more == {s.waiters[i] : i \in first}
           t == Woken(s, n)
<1>1. /\ s \in Semaphores /\ s.value \in Nat /\ s.woken \subseteq Line(s)
      /\ s = [value |-> s.value, waiters |-> s.waiters, woken |-> s.woken]
  BY DEF InOrder, Semaphores
<1>2. /\ first \subseteq Asleep(s) /\ IsFiniteSet(first) /\ Cardinality(first) \in 0..s.value
  BY WakesFirst
<1>3. t = [value |-> s.value - Cardinality(first), waiters |-> s.waiters, woken |-> s.woken \cup more]
  <2>1. t = [s EXCEPT !.value = s.value - Cardinality(first), !.woken = s.woken \cup more]
    BY DEF Woken
  <2> HIDE DEF t, first, more
  <2> QED
    BY <1>1, <2>1 DEF Semaphores
<1>4. first \subseteq 1..Len(s.waiters) /\ \A i \in first : s.waiters[i] \notin s.woken
  BY <1>1, <1>2, LineIs DEF Asleep
<1> HIDE DEF first
<1>5. IsFiniteSet(more) /\ Cardinality(more) = Cardinality(first)
  <2> DEFINE f == [i \in first |-> s.waiters[i]]
  <2>1. f \in [first -> more] /\ \A x \in more : \E i \in first : f[i] = x
    OBVIOUS
  <2>2. \A i, j \in first : f[i] = f[j] => i = j
    BY <1>4 DEF InOrder
  <2> HIDE DEF f, more
  <2>3. f \in Bijection(first, more)
    BY <2>1, <2>2 DEF Bijection, Injection, Surjection, IsInjective
  <2>4. ExistsBijection(first, more)
    BY <2>3 DEF ExistsBijection
  <2> QED
    BY <1>2, <2>4, FS_Bijection
<1>6. more \subseteq Line(s) /\ more \cap s.woken = {}
  BY <1>4 DEF Line
<1>7. IsFiniteSet(s.woken) /\ s.woken \subseteq Agents /\ Line(s) \subseteq Agents
  <2>1. s.woken \subseteq Agents /\ Line(s) \subseteq Agents
    BY <1>1, LineIs DEF Semaphores
  <2> QED
    BY <2>1, FS_Subset, ModelCallsAssumption
<1> HIDE DEF more
<1>8. Cardinality(s.woken \cup more) = Cardinality(s.woken) + Cardinality(first)
  <2>1. Cardinality(s.woken \cup more)
          = Cardinality(s.woken) + Cardinality(more) - Cardinality(s.woken \cap more)
    BY <1>5, <1>7, FS_Union
  <2>2. Cardinality(s.woken \cap more) = Cardinality({})
    BY <1>6, Zenon
  <2>3. Cardinality(s.woken) \in Nat /\ Cardinality(more) \in Nat /\ Cardinality({}) = 0
    BY <1>5, <1>7, FS_CardinalityType, FS_EmptySet
  <2> QED
    BY <1>5, <2>1, <2>2, <2>3
<1>9. t \in Semaphores
  BY <1>1, <1>2, <1>3, <1>6, <1>7 DEF Semaphores
<1>10. /\ t.value = s.value - Cardinality(first) /\ t.waiters = s.waiters
       /\ t.woken = s.woken \cup more
  BY <1>3
<1> HIDE DEF t
<1>11. InOrder(t)
  BY <1>1, <1>6, <1>9, <1>10 DEF InOrder, Line
<1>12. Cardinality(s.woken) \in Nat
  BY <1>7, FS_CardinalityType
<1>13. t.value + Cardinality(t.woken) = s.value + Cardinality(s.woken)
  BY <1>1, <1>2, <1>8, <1>10, <1>12
<1> QED
  BY <1>7, <1>10, <1>11, <1>13 DEF t

(***************************************************************************)
(* A waiter out of its line leaves the others in theirs.                   *)
(***************************************************************************)
LEMMA OutOfLineIs ==
  ASSUME NEW s, InOrder(s), NEW a \in Line(s)
  PROVE  /\ InOrder(OutOfLine(s, a)) /\ Line(OutOfLine(s, a)) = Line(s) \ {a}
         /\ OutOfLine(s, a).value = s.value /\ OutOfLine(s, a).woken = s.woken \ {a}
<1> DEFINE N == Len(s.waiters)
           place == CHOOSE i \in DOMAIN s.waiters : s.waiters[i] = a
           rest == RemoveAt(s.waiters, place)
           t == OutOfLine(s, a)
<1>1. /\ s \in Semaphores /\ s.value \in Nat /\ s.woken \subseteq Line(s) /\ s.woken \subseteq Agents
      /\ s = [value |-> s.value, waiters |-> s.waiters, woken |-> s.woken]
      /\ s.waiters \in Seq(Agents)
      /\ \A i, j \in 1..N : s.waiters[i] = s.waiters[j] => i = j
  BY DEF InOrder, Semaphores
<1>2. N \in Nat /\ DOMAIN s.waiters = 1..N
  BY <1>1, LineIs
<1>3. place \in 1..N /\ s.waiters[place] = a
  BY <1>2 DEF Line
<1>4. t = [value |-> s.value, waiters |-> rest, woken |-> s.woken \ {a}]
  <2>1. t = [s EXCEPT !.waiters = rest, !.woken = s.woken \ {a}]
    BY DEF OutOfLine
  <2> HIDE DEF t, rest
  <2> QED
    BY <1>1, <2>1 DEF Semaphores
<1> HIDE DEF place
<1>5. /\ rest \in Seq(Agents) /\ Len(rest) = N - 1
      /\ \A j \in 1..N - 1 : rest[j] = IF j < place THEN s.waiters[j] ELSE s.waiters[j + 1]
  <2>1. 1 \in Int /\ place - 1 \in Int /\ place + 1 \in Int /\ N \in Int
    BY <1>2, <1>3
  <2> DEFINE front == SubSeq(s.waiters, 1, place - 1)
             back == SubSeq(s.waiters, place + 1, N)
  <2>2. /\ front \in Seq(Agents) /\ Len(front) = place - 1
        /\ \A j \in 1..place - 1 : front[j] = s.waiters[j]
    <3>1. \A k \in 1..place - 1 : s.waiters[k] \in Agents
      BY <1>1, <1>2, <1>3, ElementOfSeq
    <3>2. front = [j \in 1..place - 1 |-> s.waiters[j]]
      BY <1>1, <1>2, <1>3
    <3> HIDE DEF front
    <3>3. place - 1 \in Nat
      BY <1>2, <1>3
    <3>4. front \in Seq(Agents) /\ Len(front) = place - 1
      BY <3>1, <3>2, <3>3
    <3> QED
      BY <3>2, <3>4
  <2>3. /\ back \in Seq(Agents) /\ Len(back) = N - place
        /\ \A j \in 1..N - place : back[j] = s.waiters[place + j]
    <3>1. \A k \in 1..N : s.waiters[k] \in Agents
      BY <1>1, <1>2, ElementOfSeq
    <3>2. back = [j \in 1..N - place |-> s.waiters[place + j]]
      BY <1>1, <1>2, <1>3
    <3> QED
      BY <1>2, <1>3, <3>1, <3>2
  <2>4. rest = front \o back
    BY DEF RemoveAt
  <2> HIDE DEF front, back, rest
  <2>5. /\ rest \in Seq(Agents) /\ Len(rest) = Len(front) + Len(back)
        /\ \A j \in 1..Len(front) + Len(back) :
             rest[j] = IF j <= Len(front) THEN front[j] ELSE back[j - Len(front)]
    BY <2>2, <2>3, <2>4, ConcatProperties
  <2>6. Len(rest) = N - 1
    BY <1>2, <1>3, <2>2, <2>3, <2>5
  <2>7. ASSUME NEW j \in 1..N - 1
        PROVE  rest[j] = IF j < place THEN s.waiters[j] ELSE s.waiters[j + 1]
    <3>1. CASE j < place
      <4>1. j \in 1..place - 1 /\ j \in 1..Len(front) + Len(back) /\ j <= Len(front)
        BY <1>2, <1>3, <2>2, <2>3, <3>1
      <4> QED
        BY <2>2, <2>5, <3>1, <4>1
    <3>2. CASE ~(j < place)
      <4>1. /\ j - (place - 1) \in 1..N - place /\ j \in 1..Len(front) + Len(back)
            /\ ~(j <= Len(front)) /\ place + (j - (place - 1)) = j + 1
        BY <1>2, <1>3, <2>2, <2>3, <3>2
      <4>2. rest[j] = back[j - (place - 1)]
        BY <2>2, <2>5, <4>1
      <4> QED
        BY <2>3, <3>2, <4>1, <4>2
    <3> QED
      BY <3>1, <3>2
  <2> QED
    BY <2>5, <2>6, <2>7
<1> HIDE DEF rest
<1>6. {rest[j] : j \in 1..N - 1} = Line(s) \ {a}
  <2>1. ASSUME NEW j \in 1..N - 1 PROVE rest[j] \in Line(s) \ {a}
    <3>1. j \in 1..N /\ j + 1 \in 1..N
      BY <1>2
    <3>2. CASE j < place
      BY <1>1, <1>3, <1>5, <3>1, <3>2 DEF Line
    <3>3. CASE ~(j < place)
      <4>1. j + 1 # place
        BY <1>2, <1>3, <3>3
      <4> QED
        BY <1>1, <1>3, <1>5, <3>1, <3>3, <4>1 DEF Line
    <3> QED
      BY <3>2, <3>3
  <2>2. ASSUME NEW b \in Line(s) \ {a} PROVE \E j \in 1..N - 1 : rest[j] = b
    <3>1. PICK i \in 1..N : s.waiters[i] = b
      BY DEF Line
    <3>2. i # place
      BY <1>3, <3>1
    <3>3. CASE i < place
      <4>1. i \in 1..N - 1
        BY <1>2, <1>3, <3>3
      <4> QED
        BY <1>5, <3>1, <3>3, <4>1
    <3>4. CASE ~(i < place)
      <4>1. i - 1 \in 1..N - 1 /\ ~(i - 1 < place) /\ i - 1 + 1 = i
        BY <1>2, <1>3, <3>2, <3>4
      <4> QED
        BY <1>5, <3>1, <4>1
    <3> QED
      BY <3>3, <3>4
  <2> QED
    BY <2>1, <2>2
<1>7. \A i, j \in 1..N - 1 : rest[i] = rest[j] => i = j
  <2> SUFFICES ASSUME NEW i \in 1..N - 1, NEW j \in 1..N - 1, rest[i] = rest[j]
               PROVE  i = j
    OBVIOUS
  <2> DEFINE at(k) == IF k < place THEN k ELSE k + 1
  <2>1. at(i) \in 1..N /\ at(j) \in 1..N
    BY <1>2
  <2>2. s.waiters[at(i)] = s.waiters[at(j)]
    BY <1>5
  <2>3. at(i) = at(j)
    <3> HIDE DEF at
    <3> QED
      BY <1>1, <2>1, <2>2
  <2> QED
    BY <1>2, <1>3, <2>3
<1>8. t \in Semaphores
  BY <1>1, <1>4, <1>5 DEF Semaphores
<1>9. t.value = s.value /\ t.waiters = rest /\ t.woken = s.woken \ {a}
  BY <1>4
<1> HIDE DEF t
<1>10. Line(t) = Line(s) \ {a}
  BY <1>5, <1>6, <1>9 DEF Line
<1>11. t.woken \subseteq Line(t)
  BY <1>1, <1>9, <1>10
<1>12. InOrder(t)
  BY <1>5, <1>7, <1>8, <1>9, <1>11 DEF InOrder
<1> QED
  BY <1>9, <1>10, <1>12 DEF t

(***************************************************************************)
(* A semaphore of `limit` slots: I are in line, H hold one each.           *)
(***************************************************************************)
Slots(s, limit, I, H) ==
  /\ InOrder(s) /\ Line(s) = I /\ IsFiniteSet(H)
  /\ s.value + Cardinality(s.woken) + Cardinality(H) = limit

LEMMA SlotsCount ==
  ASSUME NEW s, NEW limit, NEW I, NEW H, Slots(s, limit, I, H)
  PROVE  /\ s.value \in Nat /\ Cardinality(s.woken) \in Nat /\ Cardinality(H) \in Nat
         /\ IsFiniteSet(s.woken) /\ s.woken \subseteq I
         /\ s = [value |-> s.value, waiters |-> s.waiters, woken |-> s.woken]
<1>1. s \in Semaphores /\ s.woken \subseteq Agents /\ s.woken \subseteq I /\ IsFiniteSet(H)
  BY DEF Slots, InOrder, Semaphores
<1>2. IsFiniteSet(s.woken)
  BY <1>1, FS_Subset, ModelCallsAssumption
<1> QED
  BY <1>1, <1>2, FS_CardinalityType DEF Semaphores

LEMMA Queues ==
  ASSUME NEW s, NEW limit, NEW I, NEW H, Slots(s, limit, I, H), NEW a \in Agents \ I, Locked(s)
  PROVE  Slots(Entered(s, a), limit, I \cup {a}, H)
<1> DEFINE t == Entered(s, a)
           N == Len(s.waiters)
<1>1. /\ s = [value |-> s.value, waiters |-> s.waiters, woken |-> s.woken]
      /\ s.waiters \in Seq(Agents) /\ s.value \in Nat /\ s.woken \subseteq Agents
      /\ s.woken \subseteq Line(s) /\ Line(s) = I
      /\ \A i, j \in 1..N : s.waiters[i] = s.waiters[j] => i = j
  BY SlotsCount DEF Slots, InOrder, Semaphores
<1>2. /\ t.value = s.value /\ t.waiters = Append(s.waiters, a) /\ t.woken = s.woken
      /\ t = [value |-> s.value, waiters |-> Append(s.waiters, a), woken |-> s.woken]
  <2>1. t = [s EXCEPT !.waiters = Append(s.waiters, a)]
    BY DEF Entered
  <2> HIDE DEF t
  <2> QED
    BY <1>1, <2>1
<1>3. /\ N \in Nat /\ Len(t.waiters) = N + 1 /\ t.waiters[N + 1] = a
      /\ \A i \in 1..N : t.waiters[i] = s.waiters[i]
      /\ t.waiters \in Seq(Agents)
  BY <1>1, <1>2, LenProperties, AppendProperties
<1> HIDE DEF t, N
<1>4. \A i \in 1..N + 1 : i \in 1..N \/ i = N + 1
  BY <1>3
<1>5. N + 1 \in 1..N + 1 /\ \A i \in 1..N : i \in 1..N + 1
  BY <1>3
<1>6. \A i \in 1..N : s.waiters[i] \in I
  BY <1>1 DEF Line, N
<1>7. Line(t) = I \cup {a}
  <2>1. Line(t) = {t.waiters[i] : i \in 1..N + 1} /\ I = {s.waiters[i] : i \in 1..N}
    BY <1>1, <1>3 DEF Line, N
  <2> QED
    BY <1>3, <1>4, <1>5, <2>1
<1>8. \A i, j \in 1..N + 1 : t.waiters[i] = t.waiters[j] => i = j
  BY <1>1, <1>3, <1>4, <1>6
<1>9. InOrder(t)
  BY <1>1, <1>2, <1>3, <1>7, <1>8 DEF InOrder, Semaphores
<1> QED
  BY <1>2, <1>7, <1>9 DEF Slots, t

LEMMA TakesFree ==
  ASSUME NEW s, NEW limit, NEW I, NEW H, Slots(s, limit, I, H), NEW a, a \notin H, ~Locked(s)
  PROVE  Slots(Entered(s, a), limit, I, H \cup {a})
<1> DEFINE t == Entered(s, a)
<1>1. /\ s = [value |-> s.value, waiters |-> s.waiters, woken |-> s.woken]
      /\ s.value \in Nat /\ s.value # 0
      /\ Cardinality(s.woken) \in Nat /\ Cardinality(H) \in Nat
  BY SlotsCount DEF Locked
<1>2. /\ t.value = s.value - 1 /\ t.waiters = s.waiters /\ t.woken = s.woken
      /\ t = [value |-> s.value - 1, waiters |-> s.waiters, woken |-> s.woken]
  <2>1. t = [s EXCEPT !.value = s.value - 1]
    BY DEF Entered
  <2> HIDE DEF t
  <2> QED
    BY <1>1, <2>1
<1> HIDE DEF t
<1>3. InOrder(t) /\ Line(t) = I
  BY <1>1, <1>2 DEF Slots, InOrder, Semaphores, Line
<1>4. IsFiniteSet(H \cup {a}) /\ Cardinality(H \cup {a}) = Cardinality(H) + 1
  BY FS_AddElement DEF Slots
<1>5. t.value + Cardinality(t.woken) + Cardinality(H \cup {a}) = limit
  BY <1>1, <1>2, <1>4 DEF Slots
<1> QED
  BY <1>3, <1>4, <1>5 DEF Slots, t

(***************************************************************************)
(* Waking a few keeps the count.                                           *)
(***************************************************************************)
LEMMA WakingKeeps ==
  ASSUME NEW s, NEW limit, NEW I, NEW H, Slots(s, limit, I, H), NEW n \in Nat
  PROVE  Slots(Woken(s, n), limit, I, H)
<1>1. InOrder(s)
  BY DEF Slots
<1>2. /\ InOrder(Woken(s, n)) /\ Woken(s, n).waiters = s.waiters
      /\ Woken(s, n).value + Cardinality(Woken(s, n).woken) = s.value + Cardinality(s.woken)
  BY <1>1, WokenIs
<1>3. Line(Woken(s, n)) = I
  BY <1>2 DEF Slots, Line
<1> QED
  BY <1>2, <1>3 DEF Slots

LEMMA ReleaseKeeps ==
  ASSUME NEW s, NEW limit, NEW I, NEW H, Slots(s, limit, I, H), NEW a \in H
  PROVE  Slots(Released(s), limit, I, H \ {a})
<1> DEFINE t == [s EXCEPT !.value = @ + 1]
<1>1. /\ s = [value |-> s.value, waiters |-> s.waiters, woken |-> s.woken]
      /\ s.value \in Nat /\ Cardinality(s.woken) \in Nat /\ Cardinality(H) \in Nat
  BY SlotsCount
<1>2. /\ t.value = s.value + 1 /\ t.waiters = s.waiters /\ t.woken = s.woken
      /\ t = [value |-> s.value + 1, waiters |-> s.waiters, woken |-> s.woken]
  BY <1>1
<1> HIDE DEF t
<1>3. InOrder(t) /\ Line(t) = I
  BY <1>1, <1>2 DEF Slots, InOrder, Semaphores, Line
<1>4. IsFiniteSet(H \ {a}) /\ Cardinality(H \ {a}) = Cardinality(H) - 1
  BY FS_RemoveElement DEF Slots
<1>5. t.value + Cardinality(t.woken) + Cardinality(H \ {a}) = limit
  BY <1>1, <1>2, <1>4 DEF Slots
<1>6. Slots(t, limit, I, H \ {a})
  BY <1>3, <1>4, <1>5 DEF Slots
<1>7. 1 \in Nat
  OBVIOUS
<1>8. Slots(Woken(t, 1), limit, I, H \ {a})
  BY <1>6, <1>7, WakingKeeps
<1> QED
  BY <1>8 DEF Released, t

LEMMA AgentsCount == Cardinality(Agents) \in Nat
  BY FS_CardinalityType, ModelCallsAssumption

LEMMA ResumeKeepsSlots ==
  ASSUME NEW s, NEW limit, NEW I, NEW H, Slots(s, limit, I, H), NEW a \in s.woken, a \notin H
  PROVE  Slots(Resumed(s, a), limit, I \ {a}, H \cup {a})
<1> DEFINE t == OutOfLine(s, a)
<1>1. /\ s.value \in Nat /\ Cardinality(s.woken) \in Nat /\ Cardinality(H) \in Nat
      /\ IsFiniteSet(s.woken) /\ a \in I
  BY SlotsCount
<1>2. /\ InOrder(t) /\ Line(t) = I \ {a}
      /\ t.value = s.value /\ t.woken = s.woken \ {a}
  BY <1>1, OutOfLineIs DEF Slots
<1> HIDE DEF t
<1>3. IsFiniteSet(H \cup {a}) /\ Cardinality(H \cup {a}) = Cardinality(H) + 1
  BY FS_AddElement DEF Slots
<1>4. Cardinality(s.woken \ {a}) = Cardinality(s.woken) - 1
  BY <1>1, FS_RemoveElement
<1>5. t.value + Cardinality(t.woken) + Cardinality(H \cup {a}) = limit
  BY <1>1, <1>2, <1>3, <1>4 DEF Slots
<1>6. Slots(t, limit, I \ {a}, H \cup {a})
  BY <1>2, <1>3, <1>5 DEF Slots
<1>7. Slots(Woken(t, Cardinality(Agents)), limit, I \ {a}, H \cup {a})
  BY <1>6, AgentsCount, WakingKeeps
<1> QED
  BY <1>7 DEF Resumed, t

(***************************************************************************)
(* A waiter cancelled in line gives back the slot it was already given.    *)
(***************************************************************************)
LEMMA GivingUpKeeps ==
  ASSUME NEW s, NEW limit, NEW I, NEW H, Slots(s, limit, I, H), NEW a \in I
  PROVE  Slots(GaveUpWaiting(s, a), limit, I \ {a}, H)
<1> DEFINE o == OutOfLine(s, a)
           back == IF a \in s.woken THEN o.value + 1 ELSE o.value
           t == [o EXCEPT !.value = back]
<1>1. /\ s.value \in Nat /\ Cardinality(s.woken) \in Nat /\ Cardinality(H) \in Nat
      /\ IsFiniteSet(s.woken)
  BY SlotsCount
<1>2. /\ InOrder(o) /\ Line(o) = I \ {a}
      /\ o.value = s.value /\ o.woken = s.woken \ {a}
  BY OutOfLineIs DEF Slots
<1>3. GaveUpWaiting(s, a) = Woken(t, Cardinality(Agents))
  BY DEF GaveUpWaiting
<1> HIDE DEF o
<1>4. back \in Nat /\ back = IF a \in s.woken THEN s.value + 1 ELSE s.value
  BY <1>1, <1>2
<1> HIDE DEF back
<1>5. /\ t.value = back /\ t.waiters = o.waiters /\ t.woken = o.woken
      /\ t = [value |-> back, waiters |-> o.waiters, woken |-> o.woken]
  <2>1. o = [value |-> o.value, waiters |-> o.waiters, woken |-> o.woken]
    BY <1>2 DEF InOrder, Semaphores
  <2> QED
    BY <2>1
<1> HIDE DEF t
<1>6. InOrder(t) /\ Line(t) = I \ {a}
  BY <1>2, <1>4, <1>5 DEF InOrder, Semaphores, Line
<1>7. Cardinality(s.woken \ {a})
        = IF a \in s.woken THEN Cardinality(s.woken) - 1 ELSE Cardinality(s.woken)
  BY <1>1, FS_RemoveElement
<1>8. t.value + Cardinality(t.woken) + Cardinality(H) = limit
  BY <1>1, <1>2, <1>4, <1>5, <1>7 DEF Slots
<1>9. Slots(t, limit, I \ {a}, H)
  BY <1>6, <1>8 DEF Slots
<1> QED
  BY <1>3, <1>9, AgentsCount, WakingKeeps

-----------------------------------------------------------------------------
(***************************************************************************)
(* The inductive invariant of the slots: on an endpoint that is gated, the *)
(* calls in flight hold one each and those in line are the agents that     *)
(* wait; on one that is not, nothing happens.                              *)
(***************************************************************************)
Waiting(e) == {a \in Agents : Endpoint(a) = e /\ phase[a] = "acquiring"}

SlotInv ==
  /\ sem \in [Endpoints -> Semaphores]
  /\ \A a \in Agents : phase[a] = "acquiring" => Gated(a)
  /\ \A e \in Endpoints :
       /\ Limit[e] > 1 => Slots(sem[e], Limit[e], Waiting(e), Holders(e))
       /\ ~(Limit[e] > 1) => sem[e] = [value |-> Limit[e], waiters |-> <<>>, woken |-> {}]

LEMMA EndpointIs ==
  ASSUME NEW a \in Agents
  PROVE  Endpoint(a) \in Endpoints
  BY ModelCallsAssumption DEF Endpoint

(***************************************************************************)
(* A step that leaves the semaphores, and who counts for one that is gated.*)
(***************************************************************************)
LEMMA SlotsRest ==
  ASSUME SlotInv, sem' = sem,
         \A a \in Agents :
           /\ phase'[a] = "acquiring" => Gated(a)
           /\ Gated(a) =>
                /\ phase'[a] = "acquiring" <=> phase[a] = "acquiring"
                /\ phase'[a] \in {"calling", "backoff"} <=> phase[a] \in {"calling", "backoff"}
  PROVE  SlotInv'
<1>1. ASSUME NEW e \in Endpoints, Limit[e] > 1
      PROVE  Holders(e)' = Holders(e) /\ Waiting(e)' = Waiting(e)
  <2>1. \A a \in Agents : Endpoint(a) = e => Gated(a)
    BY <1>1 DEF Gated
  <2> QED
    BY <2>1 DEF Holders, Waiting, Endpoint
<1>2. \A e \in Endpoints : Limit[e] > 1 => Slots(sem[e], Limit[e], Waiting(e), Holders(e))'
  BY <1>1 DEF SlotInv, Slots, InOrder, Line
<1> QED
  BY <1>2 DEF SlotInv, Gated, Endpoint

(***************************************************************************)
(* A step of one agent on its own endpoint.                                *)
(***************************************************************************)
LEMMA SlotsMove ==
  ASSUME SlotInv, NEW a \in Agents, NEW s,
         sem' = [sem EXCEPT ![Endpoint(a)] = s],
         \A b \in Agents \ {a} : phase'[b] = phase[b],
         Gated(a),
         Slots(s, Limit[Endpoint(a)], Waiting(Endpoint(a))', Holders(Endpoint(a))')
  PROVE  SlotInv'
<1> DEFINE mine == Endpoint(a)
<1>1. mine \in Endpoints /\ s \in Semaphores
  BY EndpointIs DEF Slots, InOrder
<1>2. sem' \in [Endpoints -> Semaphores]
  BY <1>1 DEF SlotInv
<1>3. \A b \in Agents : phase'[b] = "acquiring" => Gated(b)
  BY DEF SlotInv
<1>4. ASSUME NEW e \in Endpoints, e # mine
      PROVE  sem'[e] = sem[e] /\ Holders(e)' = Holders(e) /\ Waiting(e)' = Waiting(e)
  <2>1. sem'[e] = sem[e]
    BY <1>1, <1>4 DEF SlotInv
  <2>2. \A b \in Agents : Endpoint(b) = e => phase'[b] = phase[b]
    BY <1>4
  <2>3. Holders(e)' = Holders(e)
    BY <2>2 DEF Holders, Endpoint
  <2>4. Waiting(e)' = Waiting(e)
    BY <2>2 DEF Waiting, Endpoint
  <2> QED
    BY <2>1, <2>3, <2>4
<1>5. sem'[mine] = s /\ Limit[mine] > 1
  BY <1>1 DEF SlotInv, Gated
<1> HIDE DEF mine
<1>6. \A e \in Endpoints :
        /\ Limit[e] > 1 => Slots(sem'[e], Limit[e], Waiting(e)', Holders(e)')
        /\ ~(Limit[e] > 1) => sem'[e] = [value |-> Limit[e], waiters |-> <<>>, woken |-> {}]
  <2> SUFFICES ASSUME NEW e \in Endpoints
               PROVE  /\ Limit[e] > 1 => Slots(sem'[e], Limit[e], Waiting(e)', Holders(e)')
                      /\ ~(Limit[e] > 1) =>
                           sem'[e] = [value |-> Limit[e], waiters |-> <<>>, woken |-> {}]
    OBVIOUS
  <2>1. CASE e = mine
    <3>1. Slots(sem'[e], Limit[e], Waiting(e)', Holders(e)')
      BY <1>5, <2>1 DEF mine
    <3> QED
      BY <1>5, <2>1, <3>1
  <2>2. CASE e # mine
    <3>1. sem'[e] = sem[e] /\ Holders(e)' = Holders(e) /\ Waiting(e)' = Waiting(e)
      BY <1>4, <2>2
    <3> QED
      BY <3>1 DEF SlotInv
  <2> QED
    BY <2>1, <2>2
<1>7. \A e \in Endpoints : Limit[e] > 1 => Slots(sem[e], Limit[e], Waiting(e), Holders(e))'
  BY <1>6 DEF Slots, InOrder, Line
<1> QED
  BY <1>2, <1>3, <1>6, <1>7 DEF SlotInv, Gated, Endpoint

\* Who waits and who holds, after one agent moved.
LEMMA WhoAfter ==
  ASSUME NEW a \in Agents, \A b \in Agents \ {a} : phase'[b] = phase[b]
  PROVE  LET e == Endpoint(a) IN
         /\ Waiting(e)' = IF phase'[a] = "acquiring" THEN Waiting(e) \cup {a} ELSE Waiting(e) \ {a}
         /\ Holders(e)' = IF phase'[a] \in {"calling", "backoff"} THEN Holders(e) \cup {a}
                          ELSE Holders(e) \ {a}
         /\ a \in Waiting(e) <=> phase[a] = "acquiring"
         /\ a \in Holders(e) <=> phase[a] \in {"calling", "backoff"}
<1>1. \A b \in Agents \ {a} : phase'[b] = phase[b]
  OBVIOUS
<1> QED
  BY <1>1 DEF Waiting, Holders, Endpoint

(***************************************************************************)
(* A call that ends, however it ends, gives its slot back.                 *)
(***************************************************************************)
LEMMA SlotBackStep ==
  ASSUME SlotInv, NEW a \in Agents, phase[a] \in {"calling", "backoff"}, sem' = SlotBack(a),
         \A b \in Agents \ {a} : phase'[b] = phase[b],
         phase'[a] \in {"graph", "restart", "idle"}
  PROVE  SlotInv'
<1> DEFINE e == Endpoint(a)
<1>1. Waiting(e)' = Waiting(e) /\ Holders(e)' = Holders(e) \ {a} /\ a \in Holders(e)
  BY WhoAfter
<1>2. CASE Gated(a)
  <2>1. sem' = [sem EXCEPT ![e] = Released(sem[e])]
    BY <1>2 DEF SlotBack
  <2>2. Slots(sem[e], Limit[e], Waiting(e), Holders(e))
    BY <1>2, EndpointIs DEF SlotInv, Gated
  <2>3. Slots(Released(sem[e]), Limit[e], Waiting(e), Holders(e) \ {a})
    BY <1>1, <2>2, ReleaseKeeps
  <2> QED
    BY <1>1, <1>2, <2>1, <2>3, SlotsMove
<1>3. CASE ~Gated(a)
  <2>1. sem' = sem
    BY <1>3 DEF SlotBack
  <2>2. \A b \in Agents :
          /\ phase'[b] = "acquiring" => Gated(b)
          /\ Gated(b) => phase'[b] = phase[b]
    BY <1>3 DEF SlotInv
  <2> QED
    BY <2>1, <2>2, SlotsRest
<1> QED
  BY <1>2, <1>3

LEMMA CallSlots ==
  ASSUME SlotInv, phase \in [Agents -> Phases], NEW a \in Agents, Call(a)
  PROVE  SlotInv'
<1> DEFINE e == Endpoint(a)
<1>1. phase[a] = "graph" /\ \A b \in Agents \ {a} : phase'[b] = phase[b]
  BY DEF Call
<1>2. CASE Gated(a)
  <2>1. /\ sem' = [sem EXCEPT ![e] = Entered(sem[e], a)]
        /\ phase'[a] = IF Locked(sem[e]) THEN "acquiring" ELSE "calling"
    BY <1>2 DEF Call
  <2>2. Slots(sem[e], Limit[e], Waiting(e), Holders(e))
    BY <1>2, EndpointIs DEF SlotInv, Gated
  <2>3. a \notin Waiting(e) /\ a \notin Holders(e)
    BY <1>1, WhoAfter
  <2>4. CASE Locked(sem[e])
    <3>1. Waiting(e)' = Waiting(e) \cup {a} /\ Holders(e)' = Holders(e)
      BY <1>1, <2>1, <2>3, <2>4, WhoAfter, SMTT(60)
    <3>2. Slots(Entered(sem[e], a), Limit[e], Waiting(e) \cup {a}, Holders(e))
      BY <2>2, <2>3, <2>4, Queues
    <3> QED
      BY <1>1, <1>2, <2>1, <3>1, <3>2, SlotsMove
  <2>5. CASE ~Locked(sem[e])
    <3>1. Waiting(e)' = Waiting(e) /\ Holders(e)' = Holders(e) \cup {a}
      BY <1>1, <2>1, <2>3, <2>5, WhoAfter
    <3>2. Slots(Entered(sem[e], a), Limit[e], Waiting(e), Holders(e) \cup {a})
      BY <2>2, <2>3, <2>5, TakesFree
    <3> QED
      BY <1>1, <1>2, <2>1, <3>1, <3>2, SlotsMove
  <2> QED
    BY <2>4, <2>5
<1>3. CASE ~Gated(a)
  <2>1. sem' = sem /\ phase'[a] = "calling"
    BY <1>3 DEF Call
  <2>2. \A b \in Agents :
          /\ phase'[b] = "acquiring" => Gated(b)
          /\ Gated(b) => phase'[b] = phase[b]
    BY <1>1, <1>3, <2>1 DEF SlotInv
  <2> QED
    BY <2>1, <2>2, SlotsRest
<1> QED
  BY <1>2, <1>3

LEMMA AcquireSlots ==
  ASSUME SlotInv, phase \in [Agents -> Phases], NEW a \in Agents, Acquire(a)
  PROVE  SlotInv'
<1> DEFINE e == Endpoint(a)
<1>1. /\ phase[a] = "acquiring" /\ phase'[a] = "calling" /\ a \in sem[e].woken
      /\ \A b \in Agents \ {a} : phase'[b] = phase[b]
      /\ sem' = [sem EXCEPT ![e] = Resumed(sem[e], a)]
  BY DEF Acquire
<1>2. Gated(a) /\ Slots(sem[e], Limit[e], Waiting(e), Holders(e))
  BY <1>1, EndpointIs DEF SlotInv, Gated
<1>3. Waiting(e)' = Waiting(e) \ {a} /\ Holders(e)' = Holders(e) \cup {a} /\ a \notin Holders(e)
  BY <1>1, WhoAfter
<1>4. Slots(Resumed(sem[e], a), Limit[e], Waiting(e) \ {a}, Holders(e) \cup {a})
  BY <1>1, <1>2, <1>3, ResumeKeepsSlots
<1> QED
  BY <1>1, <1>2, <1>3, <1>4, SlotsMove

LEMMA CancelSlots ==
  ASSUME SlotInv, phase \in [Agents -> Phases], NEW a \in Agents, Cancel(a)
  PROVE  SlotInv'
<1> DEFINE e == Endpoint(a)
<1>1. /\ phase[a] # "idle" /\ phase'[a] = "idle"
      /\ \A b \in Agents \ {a} : phase'[b] = phase[b]
  BY DEF Cancel, Returns
<1>2. CASE phase[a] = "acquiring"
  <2>1. sem' = [sem EXCEPT ![e] = GaveUpWaiting(sem[e], a)]
    BY <1>2 DEF Cancel
  <2>2. Gated(a) /\ Slots(sem[e], Limit[e], Waiting(e), Holders(e))
    BY <1>2, EndpointIs DEF SlotInv, Gated
  <2>3. Waiting(e)' = Waiting(e) \ {a} /\ Holders(e)' = Holders(e) /\ a \in Waiting(e)
    BY <1>1, <1>2, WhoAfter
  <2>4. Slots(GaveUpWaiting(sem[e], a), Limit[e], Waiting(e) \ {a}, Holders(e))
    BY <2>2, <2>3, GivingUpKeeps
  <2> QED
    BY <1>1, <2>1, <2>2, <2>3, <2>4, SlotsMove
<1>3. CASE phase[a] \in {"calling", "backoff"}
  <2>1. sem' = SlotBack(a)
    BY <1>3 DEF Cancel
  <2> QED
    BY <1>1, <1>3, <2>1, SlotBackStep
<1>4. CASE phase[a] \notin {"acquiring", "calling", "backoff"}
  <2>1. sem' = sem
    BY <1>4 DEF Cancel
  <2>2. \A b \in Agents :
          /\ phase'[b] = "acquiring" => Gated(b)
          /\ Gated(b) =>
               /\ phase'[b] = "acquiring" <=> phase[b] = "acquiring"
               /\ phase'[b] \in {"calling", "backoff"} <=> phase[b] \in {"calling", "backoff"}
    BY <1>1, <1>4 DEF SlotInv
  <2> QED
    BY <2>1, <2>2, SlotsRest
<1> QED
  BY <1>2, <1>3, <1>4

(***************************************************************************)
(* The other steps: none waits for a slot, and a call keeps the one it has *)
(* while it backs off.                                                     *)
(***************************************************************************)
LEMMA QuietSlots ==
  ASSUME SlotInv, phase \in [Agents -> Phases], NEW a \in Agents,
         \/ Invoke(a) \/ Yields(a) \/ Finish(a) \/ Reissue(a) \/ Restart(a)
         \/ \E error \in Errors : BackOff(a, error)
  PROVE  SlotInv'
<1>1. sem' = sem
  BY DEF Invoke, Yields, Finish, Reissue, Restart, BackOff
<1>2. \A b \in Agents \ {a} : phase'[b] = phase[b]
  BY DEF Invoke, Yields, callVars, Finish, Returns, Reissue, Restart, BackOff
<1>3. \/ phase[a] \in {"idle", "graph", "restart"} /\ phase'[a] \in {"idle", "graph", "restart"}
      \/ phase[a] \in {"calling", "backoff"} /\ phase'[a] \in {"calling", "backoff"}
  BY DEF Invoke, Yields, callVars, Finish, Returns, Reissue, Restart, BackOff, Fails
<1>4. \A b \in Agents :
        /\ phase'[b] = "acquiring" => Gated(b)
        /\ Gated(b) =>
             /\ phase'[b] = "acquiring" <=> phase[b] = "acquiring"
             /\ phase'[b] \in {"calling", "backoff"} <=> phase[b] \in {"calling", "backoff"}
  BY <1>2, <1>3 DEF SlotInv
<1> QED
  BY <1>1, <1>4, SlotsRest

LEMMA EndingSlots ==
  ASSUME SlotInv, phase \in [Agents -> Phases], NEW a \in Agents,
         Answer(a) \/ \E error \in Errors : GiveUp(a, error) \/ Raise(a, error)
  PROVE  SlotInv'
<1>1. phase[a] = "calling" /\ sem' = SlotBack(a)
  BY DEF Answer, GiveUp, Raise, Fails
<1>2. \A b \in Agents \ {a} : phase'[b] = phase[b]
  BY DEF Answer, GiveUp, Raise, Returns
<1>3. phase'[a] \in {"graph", "restart", "idle"}
  BY DEF Answer, GiveUp, Raise, Returns
<1> QED
  BY <1>1, <1>2, <1>3, SlotBackStep

LEMMA SlotInvInit == Init => SlotInv
<1> SUFFICES ASSUME Init PROVE SlotInv
  OBVIOUS
<1>1. <<>> \in Seq(Agents) /\ Len(<<>>) = 0 /\ 1..0 = {}
  OBVIOUS
<1>2. \A e \in Endpoints : sem[e] = [value |-> Limit[e], waiters |-> <<>>, woken |-> {}]
  BY DEF Init
<1>3. \A e \in Endpoints :
        /\ sem[e].value = Limit[e] /\ sem[e].waiters = <<>> /\ sem[e].woken = {}
        /\ sem[e] \in Semaphores /\ Limit[e] \in Nat
        /\ Line(sem[e]) = {} /\ InOrder(sem[e])
  <2> SUFFICES ASSUME NEW e \in Endpoints
               PROVE  /\ sem[e].value = Limit[e] /\ sem[e].waiters = <<>> /\ sem[e].woken = {}
                      /\ sem[e] \in Semaphores /\ Limit[e] \in Nat
                      /\ Line(sem[e]) = {} /\ InOrder(sem[e])
    OBVIOUS
  <2>1. Limit[e] \in Nat
    BY ModelCallsAssumption
  <2>2. sem[e] = [value |-> Limit[e], waiters |-> <<>>, woken |-> {}]
    BY <1>2
  <2>3. sem[e].value = Limit[e] /\ sem[e].waiters = <<>> /\ sem[e].woken = {}
    BY <2>2
  <2>4. sem[e] \in Semaphores
    BY <1>1, <2>1, <2>2 DEF Semaphores
  <2>5. 1..Len(sem[e].waiters) = {}
    BY <1>1, <2>3
  <2>6. Line(sem[e]) = {}
    BY <2>5 DEF Line
  <2> QED
    BY <2>1, <2>3, <2>4, <2>5, <2>6 DEF InOrder
<1>4. sem \in [Endpoints -> Semaphores]
  BY <1>3 DEF Init
<1>5. \A e : Waiting(e) = {} /\ Holders(e) = {}
  BY DEF Init, Waiting, Holders
<1>6. \A e \in Endpoints : Slots(sem[e], Limit[e], Waiting(e), Holders(e))
  <2> SUFFICES ASSUME NEW e \in Endpoints PROVE Slots(sem[e], Limit[e], {}, {})
    BY <1>5
  <2>1. IsFiniteSet({}) /\ Cardinality({}) = 0
    BY FS_EmptySet
  <2>2. InOrder(sem[e])
    BY <1>3
  <2>3. sem[e].value = Limit[e] /\ sem[e].woken = {}
    BY <1>3
  <2>4. sem[e].value + Cardinality(sem[e].woken) + Cardinality({}) = Limit[e]
    BY <1>3, <2>1, <2>3
  <2> QED
    BY <1>3, <2>1, <2>2, <2>4 DEF Slots
<1> QED
  BY <1>2, <1>4, <1>6 DEF Init, SlotInv

LEMMA SlotInvStep == MInv /\ SlotInv /\ [Next]_vars => SlotInv'
<1> SUFFICES ASSUME MInv, SlotInv, [Next]_vars PROVE SlotInv'
  OBVIOUS
<1>1. phase \in [Agents -> Phases]
  BY DEF MInv, CallsOK
<1>2. CASE UNCHANGED vars
  <2>1. sem' = sem /\ phase' = phase
    BY <1>2 DEF vars, callVars
  <2> QED
    BY <2>1, SlotsRest DEF SlotInv
<1> QED
  BY <1>1, <1>2, CallSlots, AcquireSlots, CancelSlots, QuietSlots, EndingSlots DEF Next, Step

(***************************************************************************)
(* Every slot of a gated endpoint is free, given to a waiter that was      *)
(* woken, or held by one call, however the calls end (concurrency.py): for *)
(* any number of agents, endpoints and slots.                              *)
(***************************************************************************)
THEOREM SlotsConserved == Spec => []SlotsAreConserved
<1>1. SlotInv => SlotsAreConserved
  BY DEF SlotInv, Slots, SlotsAreConserved
<1> QED
  BY <1>1, MInvInit, MInvStep, SlotInvInit, SlotInvStep, PTL DEF Spec

(***************************************************************************)
(* What an invocation may still do: a call begun has room for its answer,  *)
(* and an invocation to be started again has an attempt left.              *)
(***************************************************************************)
Room(a) ==
  /\ phase[a] \in {"acquiring", "calling", "backoff"} => answers[a] < MaxCalls
  /\ phase[a] = "restart" => stream[a] < MaxAttempts

RoomInv ==
  /\ answers \in [Agents -> 0..MaxCalls] /\ stream \in [Agents -> 1..MaxAttempts]
  /\ invocations \in [Agents -> 0..MaxInvocations] /\ served \subseteq Roles
  /\ \A a \in Agents : Room(a)

LEMMA CallBounds ==
  /\ MaxAttempts \in Nat \ {0} /\ MaxCalls \in Nat \ {0} /\ MaxInvocations \in Nat \ {0}
  /\ 0 \in 0..MaxCalls /\ 1 \in 1..MaxAttempts /\ 0 \in 0..MaxInvocations
  BY ModelCallsAssumption

LEMMA OneRoom ==
  ASSUME RoomInv, NEW a \in Agents, NEW n \in 0..MaxCalls, NEW m \in 1..MaxAttempts,
         NEW i \in 0..MaxInvocations,
         answers' = [answers EXCEPT ![a] = n], stream' = [stream EXCEPT ![a] = m],
         invocations' = [invocations EXCEPT ![a] = i],
         \A b \in Agents \ {a} : phase'[b] = phase[b],
         served' \subseteq Roles,
         phase'[a] \in {"acquiring", "calling", "backoff"} => n < MaxCalls,
         phase'[a] = "restart" => m < MaxAttempts
  PROVE  RoomInv'
<1>1. /\ answers' \in [Agents -> 0..MaxCalls] /\ answers'[a] = n
      /\ \A b \in Agents \ {a} : answers'[b] = answers[b]
  BY DEF RoomInv
<1>2. /\ stream' \in [Agents -> 1..MaxAttempts] /\ stream'[a] = m
      /\ \A b \in Agents \ {a} : stream'[b] = stream[b]
  BY DEF RoomInv
<1>3. invocations' \in [Agents -> 0..MaxInvocations]
  BY DEF RoomInv
<1>4. \A b \in Agents \ {a} : Room(b)'
  BY <1>1, <1>2 DEF RoomInv, Room
<1>5. Room(a)'
  BY <1>1, <1>2 DEF Room
<1> QED
  BY <1>1, <1>2, <1>3, <1>4, <1>5 DEF RoomInv

LEMMA RoomStep ==
  ASSUME RoomInv, phase \in [Agents -> Phases], NEW a \in Agents, Invoke(a) \/ Step(a) \/ Cancel(a)
  PROVE  RoomInv'
<1> USE DEF callVars, streamVars, Returns
<1>1. /\ answers[a] \in 0..MaxCalls /\ stream[a] \in 1..MaxAttempts
      /\ invocations[a] \in 0..MaxInvocations /\ RoleOf[a] \in Roles /\ served \subseteq Roles /\ Room(a)
      /\ answers = [answers EXCEPT ![a] = answers[a]] /\ stream = [stream EXCEPT ![a] = stream[a]]
      /\ invocations = [invocations EXCEPT ![a] = invocations[a]]
  BY ModelCallsAssumption DEF RoomInv
<1>2. CASE Invoke(a)
  <2>1. invocations[a] + 1 \in 0..MaxInvocations
    BY <1>1, <1>2, CallBounds DEF Invoke
  <2>2. /\ invocations' = [invocations EXCEPT ![a] = invocations[a] + 1] /\ phase'[a] = "graph"
        /\ stream' = stream /\ answers' = answers /\ served' = served
        /\ \A b \in Agents \ {a} : phase'[b] = phase[b]
    BY <1>2 DEF Invoke
  <2> QED
    BY <1>1, <2>1, <2>2, OneRoom
<1>3. CASE Yields(a)
  <2>1. /\ invocations' = invocations /\ phase' = phase /\ phase[a] = "graph"
        /\ stream' = stream /\ answers' = answers /\ served' = served
    BY <1>3 DEF Yields
  <2> QED
    BY <1>1, <2>1, OneRoom
<1>4. CASE \/ Finish(a) \/ Cancel(a)
           \/ \E error \in Errors : Raise(a, error) \/ (GiveUp(a, error) /\ Returns(a, "unavailable"))
  <2>1. /\ invocations' = invocations /\ phase'[a] = "idle"
        /\ stream' = [stream EXCEPT ![a] = 1] /\ answers' = [answers EXCEPT ![a] = 0]
        /\ \A b \in Agents \ {a} : phase'[b] = phase[b]
    BY <1>4 DEF Finish, Cancel, Raise
  <2>2. served' = served
    BY <1>4 DEF Finish, Cancel, Raise, GiveUp, Fails
  <2> QED
    BY <1>1, <2>1, <2>2, CallBounds, OneRoom
<1>5. CASE Call(a)
  <2>1. /\ invocations' = invocations /\ phase'[a] # "restart" /\ answers[a] < MaxCalls
        /\ stream' = stream /\ answers' = answers /\ served' = served
        /\ \A b \in Agents \ {a} : phase'[b] = phase[b]
    BY <1>5 DEF Call
  <2> QED
    BY <1>1, <2>1, OneRoom
<1>6. CASE Acquire(a) \/ Reissue(a) \/ \E error \in Errors : BackOff(a, error)
  <2>1. /\ invocations' = invocations /\ phase'[a] # "restart" /\ answers[a] < MaxCalls
        /\ stream' = stream /\ answers' = answers /\ served' = served
        /\ \A b \in Agents \ {a} : phase'[b] = phase[b]
    BY <1>1, <1>6 DEF Acquire, Reissue, BackOff, Fails, Room
  <2> QED
    BY <1>1, <2>1, OneRoom
<1>7. CASE Answer(a)
  <2>1. answers[a] + 1 \in 0..MaxCalls
    BY <1>1, <1>7, CallBounds DEF Answer, Room
  <2>2. /\ answers' = [answers EXCEPT ![a] = answers[a] + 1] /\ phase'[a] = "graph"
        /\ stream' = stream /\ invocations' = invocations /\ served' = served \cup {RoleOf[a]}
        /\ \A b \in Agents \ {a} : phase'[b] = phase[b]
    BY <1>7 DEF Answer
  <2> QED
    BY <1>1, <2>1, <2>2, OneRoom
<1>8. CASE \E error \in Errors : GiveUp(a, error) /\ ~Returns(a, "unavailable")
  <2>1. /\ invocations' = invocations /\ phase'[a] = "restart" /\ stream[a] < MaxAttempts
        /\ stream' = stream /\ answers' = answers /\ served' = served
        /\ \A b \in Agents \ {a} : phase'[b] = phase[b]
    BY <1>8 DEF GiveUp, Fails, Restartable
  <2> QED
    BY <1>1, <2>1, OneRoom
<1>9. CASE Restart(a)
  <2>1. stream[a] + 1 \in 1..MaxAttempts
    BY <1>1, <1>9, CallBounds DEF Restart, Room
  <2>2. /\ stream' = [stream EXCEPT ![a] = stream[a] + 1] /\ phase'[a] = "graph"
        /\ answers' = answers /\ invocations' = invocations /\ served' = served
        /\ \A b \in Agents \ {a} : phase'[b] = phase[b]
    BY <1>9 DEF Restart
  <2> QED
    BY <1>1, <2>1, <2>2, OneRoom
<1> HIDE DEF Returns
<1> QED
  BY <1>2, <1>3, <1>4, <1>5, <1>6, <1>7, <1>8, <1>9 DEF Step

CallsInv == MInv /\ SlotInv /\ RoomInv

LEMMA CallsInvInit == Init => CallsInv
  BY CallBounds, MInvInit, SlotInvInit DEF Init, RoomInv, Room, CallsInv

LEMMA RoomInvStep == MInv /\ RoomInv /\ [Next]_vars => RoomInv'
<1> SUFFICES ASSUME MInv, RoomInv, [Next]_vars PROVE RoomInv'
  OBVIOUS
<1>1. CASE UNCHANGED vars
  BY <1>1 DEF vars, callVars, streamVars, RoomInv, Room
<1>2. phase \in [Agents -> Phases]
  BY DEF MInv, CallsOK
<1> QED
  BY <1>1, <1>2, RoomStep DEF Next

LEMMA CallsInvStep == CallsInv /\ [Next]_vars => CallsInv'
  BY MInvStep, SlotInvStep, RoomInvStep DEF CallsInv

LEMMA CallsInvTypes == CallsInv => TypeOK
<1> SUFFICES ASSUME MInv, SlotInv, RoomInv PROVE TypeOK
  BY DEF CallsInv
<1>1. ASSUME NEW e \in Endpoints
      PROVE  /\ sem[e].value \in 0..Limit[e] /\ sem[e].woken \subseteq Agents
             /\ sem[e].waiters \in Seq(Agents)
  <2>1. Limit[e] \in Nat /\ sem[e] \in Semaphores
    BY ModelCallsAssumption DEF SlotInv
  <2>2. sem[e].value \in Nat /\ sem[e].woken \subseteq Agents /\ sem[e].waiters \in Seq(Agents)
    BY <2>1 DEF Semaphores
  <2>3. CASE Limit[e] > 1
    <3>1. Slots(sem[e], Limit[e], Waiting(e), Holders(e))
      BY <2>3 DEF SlotInv
    <3>2. Cardinality(sem[e].woken) \in Nat /\ Cardinality(Holders(e)) \in Nat
      BY <3>1, SlotsCount
    <3>3. sem[e].value + Cardinality(sem[e].woken) + Cardinality(Holders(e)) = Limit[e]
      BY <3>1 DEF Slots
    <3>4. sem[e].value <= Limit[e]
      BY <2>1, <2>2, <3>2, <3>3
    <3> QED
      BY <2>1, <2>2, <3>4
  <2>4. CASE ~(Limit[e] > 1)
    <3>1. sem[e].value = Limit[e]
      BY <2>4 DEF SlotInv
    <3> QED
      BY <2>1, <2>2, <3>1
  <2> QED
    BY <2>3, <2>4
<1>2. DOMAIN sem = Endpoints
  BY DEF SlotInv
<1>3. /\ phase \in [Agents -> Phases] /\ outcome \in [Agents -> Outcomes]
      /\ attempt \in [Agents -> 1..MaxAttempts] /\ yielded \in [Agents -> BOOLEAN]
      /\ failures \in [Agents -> Seq(Errors)] /\ answered = served
  BY DEF MInv, CallsOK
<1> QED
  BY <1>1, <1>2, <1>3 DEF TypeOK, RoomInv

(***************************************************************************)
(* Every variable of the calls keeps its type: no semaphore counts past    *)
(* its limit, no invocation is started oftener than it may be.             *)
(***************************************************************************)
THEOREM CallsTypeCorrect == Spec => []TypeOK
  BY CallsInvInit, CallsInvStep, CallsInvTypes, PTL DEF Spec

-----------------------------------------------------------------------------
\* What the provers know of the threads: that there is one record of each.
Threads == DOMAIN fcThread = FactThreads

LEMMA InitThreads == FactsInit => Threads
  BY DEF FactsInit, Threads

LEMMA NextThreads ==
  ASSUME Threads, [FactsNext]_fcVars
  PROVE  Threads'
  BY DEF Threads, FactsNext, fcVars, Payload, Replace, SaveFails, CallRecord, RecordFact, CallAsk,
         AskNext, NextRun

(***************************************************************************)
(* What a record adds to what the store credits the user with.             *)
(***************************************************************************)
LEMMA RecordCredits ==
  ASSUME NEW facts, NEW key, NEW fact,
         NEW pair \in AskedPairs(Record(facts, key, fact)), pair \notin AskedPairs(facts)
  PROVE  fact.source = "asked" /\ pair = <<key, fact.value>>
  BY DEF AskedPairs, Record

-----------------------------------------------------------------------------
(***************************************************************************)
(* A run nobody attends: no thread asks, and what one is about to record   *)
(* as the user's the user was on record for.                               *)
(***************************************************************************)
Unattended ==
  /\ AskedPairs(fcStore) \subseteq fcLoaded
  /\ \A t \in FactThreads :
       /\ fcThread[t].pc # "ask" /\ fcThread[t].todo = <<>>
       /\ fcThread[t].pc = "record" => \A k \in DOMAIN fcThread[t].payload :
            fcThread[t].payload[k].source = "asked" =>
              <<k, fcThread[t].payload[k].value>> \in fcLoaded
       /\ fcThread[t].pc = "record" => DOMAIN fcThread[t].payload # {}

CreditInv == Threads /\ (~fcInteractive => Unattended)

(***************************************************************************)
(* A run nobody attends credits the user with nothing new: a fact claimed  *)
(* to be the user's is kept as such only when the store said so, as the    *)
(* user's, with this value (interaction_tools.py, record_fact).            *)
(***************************************************************************)
LEMMA CreditStep ==
  ASSUME CreditInv, Unattended, ~fcInteractive, ~fcInteractive',
         NEW t \in FactThreads,
         \/ \E key \in FactKeys, value \in FactValues, source \in Sources :
              CallRecord(t, key, value, source)
         \/ RecordFact(t) \/ Payload(t) \/ Replace(t) \/ SaveFails(t)
  PROVE  Unattended'
<1>1. CASE \E key \in FactKeys, value \in FactValues, source \in Sources :
             CallRecord(t, key, value, source)
  <2>1. PICK key \in FactKeys, value \in FactValues, source \in Sources :
          CallRecord(t, key, value, source)
    BY <1>1
  <2> DEFINE fact == FactOf(value, SourceOf(key, value, source))
  <2>2. fact.source = "asked" => <<key, fact.value>> \in fcLoaded
    <3>1. Restated(key, value) => <<key, value>> \in AskedPairs(fcStore)
      BY DEF Restated, AskedPairs, FactOf
    <3> QED
      BY <3>1 DEF FactOf, SourceOf, Unattended
  <2>3. fcThread' = [fcThread EXCEPT ![t] = Thread("record", <<>>, [k \in {key} |-> fact])]
    BY <2>1 DEF CallRecord
  <2>4. fcStore' = fcStore /\ fcLoaded' = fcLoaded
    BY <2>1 DEF CallRecord
  <2> HIDE DEF fact
  <2> QED
    BY <2>2, <2>3, <2>4 DEF Unattended, CreditInv, Threads, Thread, AskedPairs
<1>2. CASE RecordFact(t)
  <2> DEFINE key == CHOOSE k \in DOMAIN fcThread[t].payload : TRUE
             fact == fcThread[t].payload[key]
  <2>1. key \in DOMAIN fcThread[t].payload
    BY <1>2 DEF RecordFact, Unattended
  <2>2. fact.source = "asked" => <<key, fact.value>> \in fcLoaded
    BY <1>2, <2>1 DEF RecordFact, Unattended
  <2>3. fcLoaded' = fcLoaded
    BY <1>2 DEF RecordFact
  <2>4. \/ fcStore' = fcStore /\ fcThread' = [fcThread EXCEPT ![t] = Rest]
        \/ /\ fcStore' = Record(fcStore, key, fact)
           /\ fcThread' = [fcThread EXCEPT ![t] = Thread("payload", <<>>, NoFacts)]
    BY <1>2 DEF RecordFact
  <2> HIDE DEF key, fact
  <2>5. AskedPairs(fcStore)' \subseteq fcLoaded
    BY <2>2, <2>4, RecordCredits DEF Unattended, AskedPairs
  <2> QED
    BY <2>3, <2>4, <2>5 DEF Unattended, CreditInv, Threads, Thread, Rest
<1>3. CASE Payload(t) \/ Replace(t) \/ SaveFails(t)
  BY <1>3 DEF Payload, Replace, SaveFails, Goes, Unattended, CreditInv, Threads, Thread, Rest,
     AskedPairs
<1> QED
  BY <1>1, <1>2, <1>3

LEMMA CreditNext ==
  ASSUME CreditInv, [FactsNext]_fcVars
  PROVE  CreditInv'
<1>1. Threads'
  BY NextThreads DEF CreditInv
<1>2. ASSUME ~fcInteractive'
      PROVE  Unattended'
  <2>1. CASE UNCHANGED fcVars
    BY <1>2, <2>1 DEF fcVars, CreditInv, Unattended, AskedPairs
  <2>2. CASE \E interactive \in BOOLEAN : NextRun(interactive)
    BY <2>2 DEF NextRun, Unattended, Thread, Rest, AskedPairs
  <2>3. CASE \E t \in FactThreads : \/ \E questions \in QuestionLists : CallAsk(t, questions)
                                    \/ AskNext(t)
    BY <1>2, <2>3 DEF CreditInv, Unattended, CallAsk, AskNext
  <2>4. ASSUME NEW t \in FactThreads,
               \/ \E key \in FactKeys, value \in FactValues, source \in Sources :
                    CallRecord(t, key, value, source)
               \/ RecordFact(t) \/ Payload(t) \/ Replace(t) \/ SaveFails(t)
        PROVE  Unattended'
    <3>1. fcInteractive' = fcInteractive
      BY <2>4 DEF CallRecord, RecordFact, Payload, Replace, SaveFails
    <3> QED
      BY <1>2, <2>4, <3>1, CreditStep DEF CreditInv
  <2> QED
    BY <2>1, <2>2, <2>3, <2>4 DEF FactsNext
<1> QED
  BY <1>1, <1>2 DEF CreditInv

(***************************************************************************)
(* Whatever the planner claims and however its calls interleave, a run     *)
(* nobody attends credits the user with nothing the user had not already   *)
(* answered when it began.                                                 *)
(***************************************************************************)
THEOREM CreditsNothingNew == FactsSpec => []UnattendedCreditsNothing
<1>1. FactsInit => CreditInv
  BY InitThreads DEF FactsInit, CreditInv, Unattended, AskedPairs, NoFacts, Thread, Rest
<1>2. CreditInv => UnattendedCreditsNothing
  BY DEF CreditInv, Unattended, UnattendedCreditsNothing
<1>3. CreditInv /\ [FactsNext]_fcVars => CreditInv'
  BY CreditNext
<1> QED
  BY <1>1, <1>2, <1>3, PTL DEF FactsSpec

-----------------------------------------------------------------------------
(***************************************************************************)
(* Every question put is one less left; and of a call that overlaps no     *)
(* other, what it still has to ask is within what is left.                 *)
(***************************************************************************)
Budgeted ==
  ~fcCrowded =>
    /\ fcRemaining >= 0
    /\ \A t \in FactThreads : Asking(t) => Len(fcThread[t].todo) <= fcRemaining
    /\ \A t, u \in FactThreads : Asking(t) /\ Asking(u) => t = u

Lists ==
  \A t \in FactThreads :
    fcThread[t].todo \in Seq(FactKeys) /\ (fcThread[t].pc = "ask" => fcThread[t].todo # <<>>)

BudgetInv ==
  /\ Threads /\ Lists /\ Budgeted
  /\ fcRemaining \in Int /\ fcPut \in Int /\ fcPut + fcRemaining = MaxQuestions

LEMMA NothingToAsk ==
  <<>> \in Seq(FactKeys) /\ Rest.pc = "rest" /\ Rest.todo = <<>> /\ MaxQuestions \in Nat
  BY FactsAssumption DEF Rest, Thread

\* A run that has put no question and asks none.
AllRest ==
  /\ Threads /\ fcRemaining = MaxQuestions /\ fcPut = 0
  /\ \A t \in FactThreads : fcThread[t] = Rest

LEMMA RestingBudget == AllRest => BudgetInv
<1> SUFFICES ASSUME AllRest PROVE BudgetInv
  OBVIOUS
<1> USE DEF AllRest
<1>1. Lists
  BY NothingToAsk DEF Lists
<1>2. \A t \in FactThreads : ~Asking(t)
  BY NothingToAsk DEF Asking, Saving
<1>3. Budgeted
  BY <1>2, NothingToAsk DEF Budgeted
<1> QED
  BY <1>1, <1>3, NothingToAsk DEF BudgetInv

LEMMA AskStep ==
  ASSUME BudgetInv, NEW t \in FactThreads, AskNext(t)
  PROVE  BudgetInv'
<1> DEFINE todo == fcThread[t].todo
           rest == Tail(todo)
<1>1. todo \in Seq(FactKeys) /\ todo # <<>> /\ Asking(t)
  BY DEF BudgetInv, Lists, AskNext, Asking
<1>2. rest \in Seq(FactKeys) /\ Len(rest) = Len(todo) - 1 /\ Len(todo) \in Nat
  BY <1>1
<1>3. /\ fcRemaining' = fcRemaining - 1 /\ fcPut' = fcPut + 1 /\ fcCrowded' = fcCrowded
      /\ \/ fcThread' = [fcThread EXCEPT ![t] = Thread("payload", rest, NoFacts)]
         \/ fcThread' = [fcThread EXCEPT ![t] =
              Thread(IF rest = <<>> THEN "rest" ELSE "ask", rest, NoFacts)]
         \/ fcThread' = [fcThread EXCEPT ![t] = Rest]
  <2> HIDE DEF rest
  <2> QED
    BY DEF AskNext, Spent, rest
<1>4. Threads'
  BY <1>3 DEF BudgetInv, Threads
<1> HIDE DEF rest
<1>5. Lists'
  <2>1. \A u \in FactThreads \ {t} : fcThread'[u] = fcThread[u]
    BY <1>3 DEF BudgetInv, Threads
  <2>2. fcThread'[t].todo \in {rest, <<>>} /\ (fcThread'[t].pc = "ask" => fcThread'[t].todo # <<>>)
    BY <1>3, NothingToAsk DEF BudgetInv, Threads, Thread
  <2> QED
    BY <1>2, <2>1, <2>2, NothingToAsk DEF BudgetInv, Lists
<1>6. Budgeted'
  <2> SUFFICES ASSUME ~fcCrowded PROVE Budgeted'
    BY <1>3 DEF Budgeted
  <2>1. Len(todo) <= fcRemaining /\ \A u \in FactThreads : Asking(u) => u = t
    BY <1>1 DEF BudgetInv, Budgeted
  <2>2. fcRemaining' >= 0
    BY <1>2, <1>3, <2>1 DEF BudgetInv
  <2>3. \A u \in FactThreads \ {t} : fcThread'[u] = fcThread[u]
    BY <1>3 DEF BudgetInv, Threads
  <2>4. \A u \in FactThreads \ {t} : ~Asking(u)'
    BY <2>1, <2>3 DEF Asking, Saving
  <2>5. Asking(t)' => Len(fcThread'[t].todo) <= fcRemaining'
    BY <1>2, <1>3, <2>1 DEF BudgetInv, Threads, Thread, Rest, Asking, Saving
  <2> QED
    BY <2>2, <2>4, <2>5 DEF Budgeted
<1> QED
  BY <1>3, <1>4, <1>5, <1>6 DEF BudgetInv

LEMMA CallAskStep ==
  ASSUME BudgetInv, NEW t \in FactThreads, NEW questions \in QuestionLists, CallAsk(t, questions)
  PROVE  BudgetInv'
<1> DEFINE asked == Askable(questions)
<1>1. questions \in Seq(FactKeys) /\ Len(questions) \in Nat \ {0} /\ fcRemaining \in Nat \ {0}
  BY FactsAssumption DEF CallAsk, BudgetInv
<1>2. asked \in Seq(FactKeys) /\ Len(asked) \in Nat \ {0} /\ Len(asked) <= fcRemaining
  BY <1>1 DEF Askable
<1>3. /\ fcThread' = [fcThread EXCEPT ![t] = Thread("ask", asked, NoFacts)]
      /\ fcCrowded' = (fcCrowded \/ \E u \in FactThreads : Asking(u))
      /\ fcRemaining' = fcRemaining /\ fcPut' = fcPut
  BY DEF CallAsk
<1> HIDE DEF asked
<1>4. Threads' /\ Lists'
  BY <1>2, <1>3 DEF BudgetInv, Threads, Lists, Thread
<1>5. Budgeted'
  <2> SUFFICES ASSUME \A u \in FactThreads : ~Asking(u) PROVE Budgeted'
    BY <1>3 DEF Budgeted
  <2>1. \A u \in FactThreads \ {t} : ~Asking(u)'
    BY <1>3 DEF BudgetInv, Threads, Asking, Saving
  <2> QED
    BY <1>1, <1>2, <1>3, <2>1 DEF Budgeted, BudgetInv, Threads, Thread
<1> QED
  BY <1>3, <1>4, <1>5 DEF BudgetInv

(***************************************************************************)
(* A step that puts no question: no call has more to ask than before.      *)
(***************************************************************************)
LEMMA SilentStep ==
  ASSUME BudgetInv, NEW t \in FactThreads,
         \/ \E key \in FactKeys, value \in FactValues, source \in Sources :
              CallRecord(t, key, value, source)
         \/ RecordFact(t) \/ Payload(t) \/ Replace(t) \/ SaveFails(t)
  PROVE  BudgetInv'
<1>1. /\ fcRemaining' = fcRemaining /\ fcPut' = fcPut /\ fcCrowded' = fcCrowded
  BY DEF CallRecord, RecordFact, Payload, Replace, SaveFails
<1>0. \/ /\ Saving(t) /\ fcThread'[t].todo = fcThread[t].todo
         /\ fcThread'[t].pc = "ask" => fcThread[t].todo # <<>>
      \/ fcThread'[t].todo = <<>> /\ fcThread'[t].pc # "ask"
  <2>1. CASE Payload(t) \/ Replace(t)
    BY <2>1 DEF BudgetInv, Threads, Payload, Replace, Goes, Thread, Saving
  <2>2. CASE RecordFact(t) \/ SaveFails(t)
    BY <2>2 DEF BudgetInv, Threads, RecordFact, SaveFails, Thread, Rest
  <2>3. CASE \E key \in FactKeys, value \in FactValues, source \in Sources :
               CallRecord(t, key, value, source)
    BY <2>3 DEF BudgetInv, Threads, CallRecord, Thread
  <2> QED
    BY <2>1, <2>2, <2>3
<1>4. \A u \in FactThreads \ {t} : fcThread'[u] = fcThread[u]
  BY DEF BudgetInv, Threads, CallRecord, RecordFact, Payload, Replace, SaveFails
<1>5. Threads'
  BY DEF BudgetInv, Threads, CallRecord, RecordFact, Payload, Replace, SaveFails
<1>2. Lists'
  BY <1>0, <1>4, NothingToAsk DEF BudgetInv, Lists
<1>3. Budgeted'
  <2>1. \A u \in FactThreads \ {t} : Asking(u)' = Asking(u)
    BY <1>4 DEF Asking, Saving
  <2>2. Asking(t)' => Asking(t) /\ fcThread'[t].todo = fcThread[t].todo
    BY <1>0 DEF Asking, Saving
  <2> QED
    BY <1>1, <1>4, <2>1, <2>2 DEF Budgeted, BudgetInv
<1> QED
  BY <1>1, <1>2, <1>3, <1>5 DEF BudgetInv

LEMMA BudgetNext == BudgetInv /\ [FactsNext]_fcVars => BudgetInv'
<1> SUFFICES ASSUME BudgetInv, [FactsNext]_fcVars PROVE BudgetInv'
  OBVIOUS
<1>1. CASE UNCHANGED fcVars
  BY <1>1 DEF fcVars, BudgetInv, Threads, Lists, Budgeted, Asking, Saving
<1>2. CASE \E interactive \in BOOLEAN : NextRun(interactive)
  <2>1. AllRest'
    BY <1>2 DEF NextRun, AllRest, Threads
  <2> QED
    BY <2>1, RestingBudget, PTL
<1> QED
  BY <1>1, <1>2, AskStep, CallAskStep, SilentStep DEF FactsNext

(***************************************************************************)
(* A run puts at most max_questions questions to the user over any calls   *)
(* of ask_user that do not overlap.                                        *)
(***************************************************************************)
THEOREM QuestionsWithinBudget == FactsSpec => []QuestionsAreBudgeted
<1>1. FactsInit => BudgetInv
  BY InitThreads, RestingBudget DEF FactsInit, AllRest
<1>2. BudgetInv => QuestionsAreBudgeted
  BY FactsAssumption DEF BudgetInv, Budgeted, QuestionsAreBudgeted
<1> QED
  BY <1>1, <1>2, BudgetNext, PTL DEF FactsSpec

-----------------------------------------------------------------------------
(***************************************************************************)
(* While no two saves overlapped and none failed, at most one thread saves *)
(* and its payload is the store; with none, the file is.                   *)
(***************************************************************************)
InStep ==
  ~fcRaced =>
    /\ \A t, u \in FactThreads : Saving(t) /\ Saving(u) => t = u
    /\ \A t \in FactThreads : fcThread[t].pc = "replace" => fcThread[t].payload = fcStore
    /\ (\A t \in FactThreads : ~Saving(t)) => fcDisk = fcStore

LEMMA InStepNext ==
  ASSUME Threads, InStep, NEW t \in FactThreads,
         \/ \E key \in FactKeys, value \in FactValues, source \in Sources :
              CallRecord(t, key, value, source)
         \/ \E questions \in QuestionLists : CallAsk(t, questions)
         \/ RecordFact(t) \/ AskNext(t) \/ Payload(t) \/ Replace(t) \/ SaveFails(t)
  PROVE  InStep'
<1>1. \A u \in FactThreads \ {t} : fcThread'[u] = fcThread[u]
  BY DEF Threads, CallRecord, CallAsk, RecordFact, AskNext, Payload, Replace, SaveFails
<1>2. \A u \in FactThreads \ {t} : Saving(u)' = Saving(u)
  BY <1>1 DEF Saving
<1>3. CASE \/ \E key \in FactKeys, value \in FactValues, source \in Sources :
                CallRecord(t, key, value, source)
           \/ \E questions \in QuestionLists : CallAsk(t, questions)
  <2>0. fcThread[t] = Rest /\ fcThread'[t].pc \in {"record", "ask"}
    <3>1. ASSUME NEW questions \in QuestionLists, CallAsk(t, questions)
          PROVE  fcThread[t] = Rest /\ fcThread'[t].pc = "ask"
      BY <3>1 DEF Threads, CallAsk, Thread
    <3>2. ASSUME NEW key \in FactKeys, NEW value \in FactValues, NEW source \in Sources,
                 CallRecord(t, key, value, source)
          PROVE  fcThread[t] = Rest /\ fcThread'[t].pc = "record"
      BY <3>2 DEF Threads, CallRecord, Thread
    <3> QED
      BY <1>3, <3>1, <3>2
  <2>1. ~Saving(t) /\ ~Saving(t)' /\ fcThread'[t].pc # "replace"
    BY <2>0 DEF Saving, Rest, Thread
  <2>2. fcStore' = fcStore /\ fcDisk' = fcDisk /\ fcRaced' = fcRaced
    BY <1>3 DEF CallRecord, CallAsk
  <2> QED
    BY <1>1, <1>2, <2>1, <2>2 DEF InStep, Saving
<1>4. CASE RecordFact(t) \/ AskNext(t)
  <2>1. ~Saving(t) /\ fcThread'[t].pc # "replace" /\ fcDisk' = fcDisk
    BY <1>4 DEF Threads, RecordFact, AskNext, Saving, Thread, Rest
  <2>2. \/ fcStore' = fcStore /\ fcRaced' = fcRaced /\ ~Saving(t)'
        \/ Saving(t)' /\ fcRaced' = (fcRaced \/ \E u \in FactThreads \ {t} : Saving(u))
    BY <1>4 DEF Threads, RecordFact, AskNext, Saving, Thread, Rest, StartsSaving
  <2> QED
    BY <1>1, <1>2, <2>1, <2>2, ZenonT(60) DEF InStep, Saving
<1>5. CASE Payload(t)
  BY <1>1, <1>2, <1>5 DEF InStep, Threads, Payload, Saving, Thread
<1>6. CASE Replace(t)
  BY <1>1, <1>2, <1>6 DEF InStep, Threads, Replace, Saving, Thread, Goes
<1>7. CASE SaveFails(t)
  BY <1>7 DEF InStep, SaveFails
<1> QED
  BY <1>3, <1>4, <1>5, <1>6, <1>7

(***************************************************************************)
(* Between saves the file holds what the store holds, in every run, unless *)
(* two saves overlapped or one failed (facts/store.py, save and load).     *)
(***************************************************************************)
THEOREM FileHoldsTheStore == FactsSpec => []FactsAreOnDisk
<1>1. FactsInit => Threads /\ InStep
  BY InitThreads DEF FactsInit, InStep, Saving, Thread, Rest
<1>2. InStep => FactsAreOnDisk
  BY DEF InStep, FactsAreOnDisk
<1>3. Threads /\ InStep /\ [FactsNext]_fcVars => Threads' /\ InStep'
  <2> SUFFICES ASSUME Threads, InStep, [FactsNext]_fcVars PROVE InStep'
    BY NextThreads
  <2>1. CASE UNCHANGED fcVars
    BY <2>1 DEF fcVars, InStep, Saving
  <2>2. CASE \E interactive \in BOOLEAN : NextRun(interactive)
    BY <2>2 DEF NextRun, InStep, Saving, Thread, Rest, Load
  <2> QED
    BY <2>1, <2>2, InStepNext DEF FactsNext
<1> QED
  BY <1>1, <1>2, <1>3, PTL DEF FactsSpec

(***************************************************************************)
(* The user's answers are the user's: none is made up in a run nobody      *)
(* attends, and none is asked for beyond the budget.                       *)
(***************************************************************************)
THEOREM AnswersKeptApart == FactsSpec => []AnswersAreTheUsers
<1>1. UnattendedCreditsNothing /\ QuestionsAreBudgeted => AnswersAreTheUsers
  BY DEF AnswersAreTheUsers
<1> QED
  BY <1>1, CreditsNothingNew, QuestionsWithinBudget, PTL

-----------------------------------------------------------------------------
(***************************************************************************)
(* What a store holds, in memory, on disk or on its way there, and what a  *)
(* thread is about to record.                                              *)
(***************************************************************************)
FactsOf == [value : FactValues, source : Sources]

Holding(facts) ==
  /\ DOMAIN facts \subseteq FactKeys /\ IsFiniteSet(DOMAIN facts)
  /\ Cardinality(DOMAIN facts) <= MAX_FACTS
  /\ \A k \in DOMAIN facts : facts[k] \in FactsOf

Carries(t) ==
  /\ fcThread[t].pc \in {"rest", "record", "payload", "replace", "ask"}
  /\ fcThread[t].pc = "record" =>
       /\ DOMAIN fcThread[t].payload \subseteq FactKeys /\ DOMAIN fcThread[t].payload # {}
       /\ \A k \in DOMAIN fcThread[t].payload : fcThread[t].payload[k] \in FactsOf
  /\ fcThread[t].pc = "replace" => Holding(fcThread[t].payload)

StoreInv ==
  /\ Holding(fcStore) /\ Holding(fcDisk) /\ fcInteractive \in BOOLEAN
  /\ \A t \in FactThreads : Carries(t)

LEMMA NothingKept == Holding(NoFacts)
<1>1. DOMAIN NoFacts = {}
  BY DEF NoFacts
<1>2. MAX_FACTS \in Nat /\ MAX_FACTS > 0
  BY FactsAssumption
<1> QED
  BY <1>1, <1>2, FS_EmptySet DEF Holding

\* record takes a fact there is room for.
LEMMA RecordKeeps ==
  ASSUME NEW facts, Holding(facts), NEW key \in FactKeys, NEW fact \in FactsOf, RoomFor(facts, key)
  PROVE  Holding(Record(facts, key, fact))
<1> DEFINE D == DOMAIN facts
           after == Record(facts, key, fact)
<1>1. DOMAIN after = D \cup {key} /\ \A k \in D \cup {key} : after[k] = IF k = key THEN fact ELSE facts[k]
  BY DEF Record
<1>2. D \subseteq FactKeys /\ IsFiniteSet(D) /\ \A k \in D : facts[k] \in FactsOf
  BY DEF Holding
<1>3. Cardinality(D) \in Nat /\ MAX_FACTS \in Nat
  BY <1>2, FS_CardinalityType, FactsAssumption
<1>4. key \in D \/ Cardinality(D) < MAX_FACTS
  BY DEF RoomFor
<1>5. Cardinality(D) <= MAX_FACTS
  BY DEF Holding
<1> HIDE DEF D, after
<1>6. /\ IsFiniteSet(D \cup {key})
      /\ Cardinality(D \cup {key}) = IF key \in D THEN Cardinality(D) ELSE Cardinality(D) + 1
  BY <1>2, FS_AddElement
<1>7. Cardinality(D \cup {key}) <= MAX_FACTS
  BY <1>3, <1>4, <1>5, <1>6
<1>8. \A k \in DOMAIN after : after[k] \in FactsOf
  BY <1>1, <1>2
<1>9. Holding(after)
  BY <1>1, <1>2, <1>6, <1>7, <1>8 DEF Holding
<1> QED
  BY <1>9 DEF after

\* One thread moved: what it carries now, and the stores.
LEMMA OneCarries ==
  ASSUME StoreInv, Threads, NEW t \in FactThreads, NEW r, fcThread' = [fcThread EXCEPT ![t] = r],
         r.pc \in {"rest", "record", "payload", "replace", "ask"},
         r.pc = "record" =>
           /\ DOMAIN r.payload \subseteq FactKeys /\ DOMAIN r.payload # {}
           /\ \A k \in DOMAIN r.payload : r.payload[k] \in FactsOf,
         r.pc = "replace" => Holding(r.payload),
         Holding(fcStore'), Holding(fcDisk'), fcInteractive' = fcInteractive
  PROVE  StoreInv'
<1>1. fcThread'[t] = r /\ \A u \in FactThreads \ {t} : fcThread'[u] = fcThread[u]
  BY DEF Threads
<1>2. \A u \in FactThreads \ {t} : Carries(u)'
  BY <1>1 DEF StoreInv, Carries, Holding
<1>3. Carries(t)'
  BY <1>1 DEF Carries, Holding
<1>4. Holding(fcStore)' /\ Holding(fcDisk)'
  BY DEF Holding
<1> QED
  BY <1>2, <1>3, <1>4 DEF StoreInv

LEMMA OneIdles ==
  ASSUME StoreInv, Threads, NEW t \in FactThreads, NEW pc \in {"rest", "payload", "ask"}, NEW todo, NEW payload,
         fcThread' = [fcThread EXCEPT ![t] = Thread(pc, todo, payload)],
         Holding(fcStore'), Holding(fcDisk'), fcInteractive' = fcInteractive
  PROVE  StoreInv'
<1> DEFINE r == Thread(pc, todo, payload)
<1>1. r.pc = pc /\ fcThread' = [fcThread EXCEPT ![t] = r]
  BY DEF Thread
<1> HIDE DEF r
<1>2. /\ r.pc \in {"rest", "record", "payload", "replace", "ask"} /\ r.pc # "record" /\ r.pc # "replace"
  BY <1>1
<1> QED
  BY <1>1, <1>2, OneCarries

LEMMA StoreStep ==
  ASSUME StoreInv, Threads, Lists, NEW t \in FactThreads,
         \/ \E key \in FactKeys, value \in FactValues, source \in Sources :
              CallRecord(t, key, value, source)
         \/ RecordFact(t) \/ Payload(t) \/ Replace(t) \/ SaveFails(t)
         \/ \E questions \in QuestionLists : CallAsk(t, questions)
         \/ AskNext(t)
  PROVE  StoreInv'
<1>1. Holding(fcStore) /\ Holding(fcDisk) /\ Carries(t)
  BY DEF StoreInv
<1>2. /\ Rest.pc = "rest"
      /\ \A pc, todo, payload : Thread(pc, todo, payload).pc = pc
                                /\ Thread(pc, todo, payload).payload = payload
  BY DEF Rest, Thread
<1>3. ASSUME NEW key \in FactKeys, NEW value \in FactValues, NEW source \in Sources,
             CallRecord(t, key, value, source)
      PROVE  StoreInv'
  <2> DEFINE fact == FactOf(value, SourceOf(key, value, source))
             payload == [k \in {key} |-> fact]
             r == Thread("record", <<>>, payload)
  <2>1. fact \in FactsOf
    BY DEF FactOf, SourceOf, FactsOf, Sources
  <2>2. /\ fcThread' = [fcThread EXCEPT ![t] = r] /\ fcStore' = fcStore /\ fcDisk' = fcDisk
        /\ fcInteractive' = fcInteractive
    BY <1>3 DEF CallRecord
  <2>3. /\ DOMAIN payload \subseteq FactKeys /\ DOMAIN payload # {}
        /\ \A k \in DOMAIN payload : payload[k] \in FactsOf
    BY <2>1
  <2>4. r.pc = "record" /\ r.payload = payload
    BY <1>2
  <2> HIDE DEF r, payload, fact
  <2> QED
    BY <1>1, <2>2, <2>3, <2>4, OneCarries
<1>4. CASE RecordFact(t)
  <2> DEFINE payload == fcThread[t].payload
             key == CHOOSE k \in DOMAIN payload : TRUE
  <2>1. key \in DOMAIN payload /\ key \in FactKeys /\ payload[key] \in FactsOf
    BY <1>1, <1>4 DEF RecordFact, Carries
  <2>2. fcDisk' = fcDisk /\ fcInteractive' = fcInteractive
    BY <1>4 DEF RecordFact
  <2>3. CASE RoomFor(fcStore, key)
    <3>1. /\ fcStore' = Record(fcStore, key, payload[key])
          /\ fcThread' = [fcThread EXCEPT ![t] = Thread("payload", <<>>, NoFacts)]
      BY <1>4, <2>3 DEF RecordFact
    <3> HIDE DEF key, payload
    <3>2. Holding(fcStore')
      BY <1>1, <2>1, <2>3, <3>1, RecordKeeps
    <3> QED
      BY <1>1, <2>2, <3>1, <3>2, OneIdles
  <2>4. CASE ~RoomFor(fcStore, key)
    <3>1. fcStore' = fcStore /\ fcThread' = [fcThread EXCEPT ![t] = Rest]
      BY <1>4, <2>4 DEF RecordFact
    <3> QED
      BY <1>1, <1>2, <2>2, <3>1, OneCarries
  <2> QED
    BY <2>3, <2>4
<1>5. CASE Payload(t)
  <2>1. /\ fcThread' = [fcThread EXCEPT ![t] = Thread("replace", fcThread[t].todo, fcStore)]
        /\ fcStore' = fcStore /\ fcDisk' = fcDisk /\ fcInteractive' = fcInteractive
    BY <1>5 DEF Payload
  <2> DEFINE r == Thread("replace", fcThread[t].todo, fcStore)
  <2>2. r.pc = "replace" /\ r.payload = fcStore /\ fcThread' = [fcThread EXCEPT ![t] = r]
    BY <1>2, <2>1
  <2> HIDE DEF r
  <2> QED
    BY <1>1, <2>1, <2>2, OneCarries
<1>6. CASE Replace(t)
  <2>1. /\ fcThread' = [fcThread EXCEPT ![t] = Thread(Goes(t), fcThread[t].todo, NoFacts)]
        /\ fcStore' = fcStore /\ fcDisk' = fcThread[t].payload /\ fcInteractive' = fcInteractive
        /\ fcThread[t].pc = "replace" /\ Goes(t) \in {"rest", "ask"}
    BY <1>6 DEF Replace, Goes
  <2>2. Holding(fcDisk')
    BY <1>1, <2>1 DEF Carries
  <2> QED
    BY <1>1, <2>1, <2>2, OneIdles
<1>7. CASE SaveFails(t)
  <2>1. /\ fcThread' = [fcThread EXCEPT ![t] = Rest]
        /\ fcStore' = fcStore /\ fcDisk' = fcDisk /\ fcInteractive' = fcInteractive
    BY <1>7 DEF SaveFails
  <2> QED
    BY <1>1, <1>2, <2>1, OneCarries
<1>8. ASSUME NEW questions \in QuestionLists, CallAsk(t, questions)
      PROVE  StoreInv'
  <2>1. /\ fcThread' = [fcThread EXCEPT ![t] = Thread("ask", Askable(questions), NoFacts)]
        /\ fcStore' = fcStore /\ fcDisk' = fcDisk /\ fcInteractive' = fcInteractive
    BY <1>8 DEF CallAsk
  <2> QED
    BY <1>1, <2>1, OneIdles
<1>9. CASE AskNext(t)
  <2> DEFINE key == Head(fcThread[t].todo)
             rest == Tail(fcThread[t].todo)
             past == Thread(IF rest = <<>> THEN "rest" ELSE "ask", rest, NoFacts)
  <2>1. key \in FactKeys
    <3>1. fcThread[t].todo \in Seq(FactKeys) /\ fcThread[t].todo # <<>>
      BY <1>9 DEF AskNext, Lists
    <3> QED
      BY <3>1, HeadTailProperties
  <2>2. fcDisk' = fcDisk /\ fcInteractive' = fcInteractive
    BY <1>9 DEF AskNext
  <2>3. past.pc \in {"rest", "ask"}
    BY DEF Thread
  <2>4. \/ \E value \in FactValues :
             /\ RoomFor(fcStore, key)
             /\ fcStore' = Record(fcStore, key, FactOf(value, "asked"))
             /\ fcThread' = [fcThread EXCEPT ![t] = Thread("payload", rest, NoFacts)]
        \/ fcStore' = fcStore /\ \E end \in {past, Rest} : fcThread' = [fcThread EXCEPT ![t] = end]
    BY <1>9 DEF AskNext
  <2> HIDE DEF key, rest, past
  <2>5. ASSUME NEW value \in FactValues, RoomFor(fcStore, key),
               fcStore' = Record(fcStore, key, FactOf(value, "asked")),
               fcThread' = [fcThread EXCEPT ![t] = Thread("payload", rest, NoFacts)]
        PROVE  StoreInv'
    <3>1. FactOf(value, "asked") \in FactsOf
      BY DEF FactOf, FactsOf, Sources
    <3>2. Holding(fcStore')
      BY <1>1, <2>1, <2>5, <3>1, RecordKeeps
    <3> QED
      BY <1>1, <2>2, <2>5, <3>2, OneIdles
  <2>6. ASSUME fcStore' = fcStore, NEW end \in {past, Rest}, fcThread' = [fcThread EXCEPT ![t] = end]
        PROVE  StoreInv'
    <3>1. end.pc \in {"rest", "ask"}
      BY <1>2, <2>3
    <3> QED
      BY <1>1, <2>2, <2>6, <3>1, OneCarries
  <2> QED
    BY <2>4, <2>5, <2>6
<1> QED
  BY <1>3, <1>4, <1>5, <1>6, <1>7, <1>8, <1>9

(***************************************************************************)
(* The store holds no more than MAX_FACTS facts, each of a known source,   *)
(* and the file nothing but keys of theirs, through every run.             *)
(***************************************************************************)
THEOREM FactsTypeCorrect == FactsSpec => []FactsTypeOK
<1>1. FactsInit => BudgetInv
  BY InitThreads, RestingBudget DEF FactsInit, AllRest
<1>2. FactsInit => StoreInv
  <2>1. Rest.pc = "rest"
    BY DEF Rest, Thread
  <2> QED
    BY <2>1, NothingKept DEF FactsInit, StoreInv, Carries
<1>3. BudgetInv /\ StoreInv /\ [FactsNext]_fcVars => StoreInv'
  <2> SUFFICES ASSUME BudgetInv, StoreInv, [FactsNext]_fcVars PROVE StoreInv'
    OBVIOUS
  <2>1. CASE UNCHANGED fcVars
    BY <2>1 DEF fcVars, StoreInv, Carries, Holding
  <2>2. ASSUME NEW interactive \in BOOLEAN, NextRun(interactive) PROVE StoreInv'
    <3>1. /\ fcStore' = fcDisk /\ fcDisk' = fcDisk /\ fcInteractive' \in BOOLEAN
          /\ fcThread' = [u \in FactThreads |-> Rest]
      BY <2>2 DEF NextRun, Load
    <3>2. Rest.pc = "rest"
      BY DEF Rest, Thread
    <3>3. \A u \in FactThreads : Carries(u)'
      BY <3>1, <3>2 DEF Carries
    <3>4. Holding(fcStore)' /\ Holding(fcDisk)'
      BY <3>1 DEF StoreInv, Holding
    <3> QED
      BY <3>1, <3>3, <3>4 DEF StoreInv
  <2>3. Threads /\ Lists
    BY DEF BudgetInv
  <2> QED
    BY <2>1, <2>2, <2>3, StoreStep DEF FactsNext
<1>4. BudgetInv /\ StoreInv => FactsTypeOK
  BY DEF BudgetInv, StoreInv, Carries, Holding, FactsOf, FactsTypeOK
<1> QED
  BY <1>1, <1>2, <1>3, <1>4, BudgetNext, PTL DEF FactsSpec

-----------------------------------------------------------------------------
(***************************************************************************)
(* PlannerTurn.  What one consult counts, call by call.                    *)
(***************************************************************************)
Halts == {"no", "calls", "planning", "failures", "time"}
Tallies == [total : Nat, planning : [PlanningTools -> Nat], failures : Nat, halt : Halts]
ToolResults == {"ok", "error", "refused"}
CallLists == PlannerMessages \cup {<<>>}
Messages == {Human} \cup {Said(calls) : calls \in CallLists} \cup {Result(r) : r \in ToolResults}
PlannerThreads == Seq(Messages)

LEMMA PlannerBounds ==
  /\ MaxPlannerCalls \in Nat /\ MaxPlannerCalls > 0
  /\ MaxPlanningCalls \in Nat /\ MaxPlanningCalls > 0
  /\ MaxPlannerFailures \in Nat /\ MaxPlannerFailures > 0
  BY PlannerTurnAssumption

LEMMA CallListsAre ==
  ASSUME NEW calls \in CallLists
  PROVE  /\ calls \in Seq(STRING) /\ Len(calls) \in Nat /\ DOMAIN calls = 1..Len(calls)
         /\ \A j \in 1..Len(calls) : calls[j] \in AllTools
<1>1. calls \in Seq(STRING)
  <2>1. <<>> \in Seq(STRING)
    OBVIOUS
  <2> QED
    BY <2>1, PlannerTurnAssumption DEF CallLists
<1>2. Len(calls) \in Nat /\ DOMAIN calls = 1..Len(calls)
  BY <1>1, LenProperties
<1>3. CASE calls = <<>>
  BY <1>1, <1>2, <1>3
<1>4. CASE calls \in PlannerMessages
  BY <1>1, <1>2, <1>4 DEF AllTools
<1> QED
  BY <1>3, <1>4 DEF CallLists

\* A message is the consult's, the model's or a tool's.
LEMMA MessageKinds ==
  ASSUME NEW msg \in Messages
  PROVE  \/ msg = Human /\ msg.kind = "human"
         \/ msg.kind = "ai" /\ msg.calls \in CallLists /\ msg # Human
         \/ msg.kind = "tool" /\ msg.result \in ToolResults /\ msg # Human
<1>1. Human.kind = "human"
  BY DEF Human
<1>2. CASE \E calls \in CallLists : msg = Said(calls)
  BY <1>1, <1>2 DEF Said
<1>3. CASE \E r \in ToolResults : msg = Result(r)
  BY <1>1, <1>3 DEF Result
<1> QED
  BY <1>1, <1>2, <1>3 DEF Messages

\* A call that is counted, and what the counting finds.
CallsTo(calls, j, n) == {i \in 1..j : calls[i] = n}

LEMMA CallsToGrow ==
  ASSUME NEW calls \in CallLists, NEW j \in 1..Len(calls), NEW n
  PROVE  /\ IsFiniteSet(CallsTo(calls, j, n)) /\ Cardinality(CallsTo(calls, j, n)) \in Nat
         /\ IsFiniteSet(CallsTo(calls, j - 1, n)) /\ Cardinality(CallsTo(calls, j - 1, n)) \in Nat
         /\ Cardinality(CallsTo(calls, j, n)) =
              Cardinality(CallsTo(calls, j - 1, n)) + (IF calls[j] = n THEN 1 ELSE 0)
<1>1. Len(calls) \in Nat /\ j \in Nat /\ j - 1 \in Nat
  BY CallListsAre
<1>2. IsFiniteSet(1..j) /\ IsFiniteSet(1..j - 1)
  BY <1>1, FS_Interval
<1>3. IsFiniteSet(CallsTo(calls, j, n)) /\ IsFiniteSet(CallsTo(calls, j - 1, n))
  <2>1. CallsTo(calls, j, n) \subseteq 1..j /\ CallsTo(calls, j - 1, n) \subseteq 1..j - 1
    BY DEF CallsTo
  <2> QED
    BY <1>2, <2>1, FS_Subset
<1>4. Cardinality(CallsTo(calls, j, n)) \in Nat /\ Cardinality(CallsTo(calls, j - 1, n)) \in Nat
  BY <1>3, FS_CardinalityType
<1>5. j \notin CallsTo(calls, j - 1, n)
  BY <1>1 DEF CallsTo
<1>6. CallsTo(calls, j, n) = IF calls[j] = n THEN CallsTo(calls, j - 1, n) \cup {j}
                             ELSE CallsTo(calls, j - 1, n)
  BY <1>1 DEF CallsTo
<1>7. Cardinality(CallsTo(calls, j - 1, n) \cup {j}) = Cardinality(CallsTo(calls, j - 1, n)) + 1
  BY <1>3, <1>5, FS_AddElement
<1> QED
  BY <1>3, <1>4, <1>6, <1>7

LEMMA NoCallsYet == ASSUME NEW calls, NEW n PROVE Cardinality(CallsTo(calls, 0, n)) = 0
<1>1. CallsTo(calls, 0, n) = {}
  BY DEF CallsTo
<1> QED
  BY <1>1, FS_EmptySet
(***************************************************************************)
(* Before a bound is hit every call is counted; after, a count is enough.  *)
(***************************************************************************)
Going(c) ==
  /\ c \in Tallies /\ c.halt = "no" /\ c.total < MaxPlannerCalls
  /\ \A n \in PlanningTools : c.planning[n] < MaxPlanningCalls

CallsTallied(c, calls, j, d) ==
  /\ d \in Tallies /\ d.total <= MaxPlannerCalls /\ d.failures = c.failures
  /\ d.halt \in {"no", "calls", "planning"}
  /\ d.halt = "no" => /\ d.total = c.total + j /\ Going(d)
                      /\ \A n \in PlanningTools :
                           d.planning[n] = c.planning[n] + Cardinality(CallsTo(calls, j, n))
  /\ d.halt = "calls" => c.total + j >= MaxPlannerCalls
  /\ d.halt = "planning" =>
       \E n \in PlanningTools :
         c.planning[n] + Cardinality(CallsTo(calls, j, n)) >= MaxPlanningCalls

LEMMA CountedIs ==
  ASSUME NEW d \in Tallies, NEW name
  PROVE  /\ Counted(d, name) \in Tallies /\ Counted(d, name).total = d.total + 1
         /\ Counted(d, name).failures = d.failures /\ Counted(d, name).halt = d.halt
         /\ \A n \in PlanningTools :
              Counted(d, name).planning[n] = d.planning[n] + (IF name = n THEN 1 ELSE 0)
<1> DEFINE e == [d EXCEPT !.total = d.total + 1]
           k == d.planning
<1>1. /\ e \in Tallies /\ e.total = d.total + 1 /\ e.planning = k /\ e.failures = d.failures
      /\ e.halt = d.halt /\ k \in [PlanningTools -> Nat]
  BY DEF Tallies
<1>2. CASE name \in PlanningTools
  <2> DEFINE p == [k EXCEPT ![name] = k[name] + 1]
  <2>1. p \in [PlanningTools -> Nat] /\ \A n \in PlanningTools : p[n] = k[n] + (IF name = n THEN 1 ELSE 0)
    BY <1>1, <1>2
  <2>2. Counted(d, name) = [e EXCEPT !.planning = p]
    BY <1>1, <1>2 DEF Counted
  <2> HIDE DEF p, e, k
  <2> DEFINE f == [e EXCEPT !.planning = p]
  <2>3. f \in Tallies /\ f.total = e.total /\ f.failures = e.failures /\ f.halt = e.halt /\ f.planning = p
    BY <1>1, <2>1 DEF Tallies
  <2> HIDE DEF f
  <2> QED
    BY <1>1, <2>1, <2>2, <2>3 DEF k, f
<1>3. CASE name \notin PlanningTools
  <2>1. Counted(d, name) = e
    BY <1>3 DEF Counted
  <2>2. \A n \in PlanningTools : k[n] = k[n] + (IF name = n THEN 1 ELSE 0)
    BY <1>1, <1>3
  <2> HIDE DEF e
  <2> QED
    BY <1>1, <2>1, <2>2
<1> QED
  BY <1>2, <1>3

LEMMA HaltedIs ==
  ASSUME NEW d \in Tallies, NEW halt \in Halts, NEW e, e = [d EXCEPT !.halt = halt]
  PROVE  /\ e \in Tallies /\ e.total = d.total /\ e.planning = d.planning
         /\ e.failures = d.failures /\ e.halt = halt
  BY DEF Tallies

LEMMA CallTallied ==
  ASSUME NEW c \in Tallies, NEW calls \in CallLists, NEW j \in 1..Len(calls), NEW d,
         CallsTallied(c, calls, j - 1, d)
  PROVE  CallsTallied(c, calls, j, CallRead(d, calls[j]))
<1> DEFINE name == calls[j]
           e == Counted(d, name)
           after == CallRead(d, name)
<1> SUFFICES CallsTallied(c, calls, j, after)
  OBVIOUS
<1>1. /\ j \in Nat /\ c.total \in Nat /\ j - 1 \in Nat
      /\ \A n \in PlanningTools : c.planning[n] \in Nat
  BY CallListsAre DEF Tallies
<1>2. \A n : /\ Cardinality(CallsTo(calls, j, n)) \in Nat /\ Cardinality(CallsTo(calls, j - 1, n)) \in Nat
             /\ Cardinality(CallsTo(calls, j, n)) =
                  Cardinality(CallsTo(calls, j - 1, n)) + (IF name = n THEN 1 ELSE 0)
  BY CallsToGrow
<1>3. d \in Tallies
  BY DEF CallsTallied
<1>4. CASE d.halt # "no"
  <2>1. after = d
    BY <1>4 DEF CallRead
  <2>2. d.halt = "calls" => c.total + j >= MaxPlannerCalls
    BY <1>1, PlannerBounds DEF CallsTallied
  <2>3. ASSUME d.halt = "planning"
        PROVE  \E n \in PlanningTools :
                 c.planning[n] + Cardinality(CallsTo(calls, j, n)) >= MaxPlanningCalls
    <3>1. PICK n \in PlanningTools :
            c.planning[n] + Cardinality(CallsTo(calls, j - 1, n)) >= MaxPlanningCalls
      BY <2>3 DEF CallsTallied
    <3>2. Cardinality(CallsTo(calls, j, n)) >= Cardinality(CallsTo(calls, j - 1, n))
      BY <1>2
    <3> QED
      BY <1>1, <1>2, <3>1, <3>2, PlannerBounds
  <2>4. /\ d.total <= MaxPlannerCalls /\ d.failures = c.failures
        /\ d.halt \in {"no", "calls", "planning"}
    BY DEF CallsTallied
  <2> HIDE DEF after
  <2> QED
    BY <1>3, <1>4, <2>1, <2>2, <2>3, <2>4 DEF CallsTallied
<1>5. CASE d.halt = "no"
  <2>1. /\ d.total = c.total + (j - 1) /\ d.total < MaxPlannerCalls /\ d.total \in Nat
        /\ \A n \in PlanningTools :
             /\ d.planning[n] = c.planning[n] + Cardinality(CallsTo(calls, j - 1, n))
             /\ d.planning[n] < MaxPlanningCalls
        /\ d.failures = c.failures
    BY <1>5 DEF CallsTallied, Going, Tallies
  <2>2. /\ e \in Tallies /\ e.total = d.total + 1 /\ e.failures = d.failures /\ e.halt = "no"
        /\ \A n \in PlanningTools : e.planning[n] = d.planning[n] + (IF name = n THEN 1 ELSE 0)
    BY <1>3, <1>5, CountedIs
  <2> HIDE DEF e
  <2>3. e.total = c.total + j /\ e.total <= MaxPlannerCalls
    BY <1>1, <2>1, <2>2, PlannerBounds
  <2>4. \A n \in PlanningTools : e.planning[n] = c.planning[n] + Cardinality(CallsTo(calls, j, n))
    BY <1>1, <1>2, <2>1, <2>2
  <2>5. CASE e.total >= MaxPlannerCalls
    <3>1. after = [e EXCEPT !.halt = "calls"]
      BY <1>5, <2>5 DEF CallRead, e
    <3>2. /\ after \in Tallies /\ after.total = e.total /\ after.failures = e.failures
          /\ after.halt = "calls"
      <4> HIDE DEF after
      <4>1. "calls" \in Halts /\ "planning" \in Halts
        BY DEF Halts
      <4> QED
        BY <2>2, <3>1, <4>1, HaltedIs
    <3> HIDE DEF after
    <3> QED
      BY <2>1, <2>2, <2>3, <2>5, <3>2 DEF CallsTallied
  <2>6. CASE ~(e.total >= MaxPlannerCalls) /\ name \in PlanningTools
             /\ e.planning[name] >= MaxPlanningCalls
    <3>1. after = [e EXCEPT !.halt = "planning"]
      BY <1>5, <2>6 DEF CallRead, e
    <3>2. /\ after \in Tallies /\ after.total = e.total /\ after.failures = e.failures
          /\ after.halt = "planning"
      <4> HIDE DEF after
      <4>1. "calls" \in Halts /\ "planning" \in Halts
        BY DEF Halts
      <4> QED
        BY <2>2, <3>1, <4>1, HaltedIs
    <3>3. c.planning[name] + Cardinality(CallsTo(calls, j, name)) >= MaxPlanningCalls
      BY <2>4, <2>6
    <3> HIDE DEF after, name
    <3> QED
      BY <2>1, <2>2, <2>3, <2>6, <3>2, <3>3 DEF CallsTallied
  <2>7. CASE ~(e.total >= MaxPlannerCalls)
             /\ ~(name \in PlanningTools /\ e.planning[name] >= MaxPlanningCalls)
    <3>1. after = e
      BY <1>5, <2>7 DEF CallRead, e
    <3>2. e.total \in Nat /\ e.total < MaxPlannerCalls
      BY <2>2, <2>7, PlannerBounds DEF Tallies
    <3>3. ASSUME NEW n \in PlanningTools PROVE e.planning[n] < MaxPlanningCalls
      <4>1. d.planning[n] \in Nat /\ e.planning[n] \in Nat
        BY <1>3, <2>2 DEF Tallies
      <4>2. CASE n = name
        BY <2>7, <4>1, <4>2, PlannerBounds
      <4>3. CASE n # name
        BY <2>1, <2>2, <4>1, <4>3
      <4> QED
        BY <4>2, <4>3
    <3> HIDE DEF after
    <3> QED
      BY <2>1, <2>2, <2>3, <2>4, <3>1, <3>2, <3>3 DEF CallsTallied, Going
  <2> QED
    BY <2>5, <2>6, <2>7
<1> QED
  BY <1>4, <1>5
(***************************************************************************)
(* The calls of a message are counted in their order.                      *)
(***************************************************************************)
LEMMA CallReadTyped == ASSUME NEW d \in Tallies, NEW name PROVE CallRead(d, name) \in Tallies
<1> DEFINE e == Counted(d, name)
<1>1. e \in Tallies
  BY CountedIs
<1>2. ASSUME NEW halt \in {"calls", "planning"} PROVE [e EXCEPT !.halt = halt] \in Tallies
  <2> DEFINE f == [e EXCEPT !.halt = halt]
  <2>1. halt \in Halts
    BY DEF Halts
  <2> HIDE DEF e
  <2>2. f = [e EXCEPT !.halt = halt]
    OBVIOUS
  <2> HIDE DEF f
  <2>3. f \in Tallies
    BY <1>1, <2>1, <2>2, HaltedIs
  <2> QED
    BY <2>3 DEF f
<1>3. CallRead(d, name) \in {d, e, [e EXCEPT !.halt = "calls"], [e EXCEPT !.halt = "planning"]}
  BY DEF CallRead
<1> QED
  BY <1>1, <1>2, <1>3

LEMMA MessageTallied ==
  ASSUME NEW c, Going(c), NEW calls \in CallLists
  PROVE  CallsTallied(c, calls, Len(calls), CallsRead(c, calls))
<1> DEFINE N == Len(calls)
           V == Tallies
           start == c
           F(f) == [i \in 0..N |-> IF i = 0 THEN start ELSE CallRead(f[i - 1], calls[i])]
           one(i, p) == CallRead(p, calls[i])
           step == [i \in 1..N |-> [p \in V |-> one(i, p)]]
           h == CHOOSE f : f = F(f)
<1>1. N \in Nat
  BY CallListsAre
<1>2. start \in V
  BY DEF Going
<1>3. \A i \in 1..N, p \in V : one(i, p) \in V
  BY CallReadTyped
<1>4. \A f : \A i \in 0..N : F(f)[i] = IF i = 0 THEN start ELSE one(i, f[i - 1])
  OBVIOUS
<1>5. CallsRead(c, calls) = h[N]
  BY DEF CallsRead
<1> HIDE DEF V, start, one, N
<1>6. step \in [1..N -> [V -> V]]
  BY <1>3
<1>7. \A i \in 1..N, p \in V : step[i][p] = one(i, p)
  OBVIOUS
<1> HIDE DEF step
<1>8. PICK g \in [0..N -> V] : g[0] = start /\ \A i \in 1..N : g[i] = step[i][g[i - 1]]
  <2>1. step \in Steps(N, V)
    BY <1>6 DEF Steps
  <2>2. Computed(N, V, start, step)
    BY <1>1, <1>2, <2>1, RecursionExists
  <2> QED
    BY <2>2 DEF Computed
<1>9. \A i \in 1..N : i - 1 \in 0..N /\ g[i] = one(i, g[i - 1])
  <2> SUFFICES ASSUME NEW i \in 1..N PROVE i - 1 \in 0..N /\ g[i] = one(i, g[i - 1])
    OBVIOUS
  <2>1. i - 1 \in 0..N
    BY <1>1
  <2>2. g[i - 1] \in V
    BY <2>1
  <2> QED
    BY <2>1, <2>2, <1>7, <1>8
<1>10. g = F(g)
  <2>1. DOMAIN F(g) = 0..N /\ DOMAIN g = 0..N
    OBVIOUS
  <2>2. \A i \in 0..N : F(g)[i] = g[i]
    <3> SUFFICES ASSUME NEW i \in 0..N PROVE F(g)[i] = g[i]
      OBVIOUS
    <3>1. F(g)[i] = IF i = 0 THEN start ELSE one(i, g[i - 1])
      BY <1>4
    <3>2. i # 0 => i \in 1..N
      BY <1>1
    <3> QED
      BY <3>1, <3>2, <1>8, <1>9
  <2>3. F(g) = [i \in 0..N |-> F(g)[i]] /\ g = [i \in 0..N |-> g[i]]
    OBVIOUS
  <2> HIDE DEF F
  <2> QED
    BY <2>2, <2>3
<1>11. h = F(h)
  <2> HIDE DEF F
  <2> QED
    BY <1>10, Zenon
<1> HIDE DEF h, F
<1>12. h[0] = start /\ \A i \in 1..N : h[i] = one(i, h[i - 1])
  <2>1. \A i \in 0..N : h[i] = IF i = 0 THEN start ELSE one(i, h[i - 1])
    BY <1>4, <1>11
  <2>2. 0 \in 0..N /\ \A i \in 1..N : i \in 0..N /\ i # 0
    BY <1>1
  <2> QED
    BY <2>1, <2>2
<1>13. \A i \in 0..N : h[i] \in V
  <2>1. \A i \in 1..N : h[i - 1] \in V => h[i] \in V
    BY <1>3, <1>12
  <2> QED
    BY <1>1, <1>2, <1>12, <2>1, StaysIn
<1> DEFINE T == {n \in 0..N : CallsTallied(c, calls, n, h[n])}
<1>14. 0 \in T
  <2>1. CallsTallied(c, calls, 0, c)
    <3>1. \A n \in PlanningTools : c.planning[n] \in Nat /\ Cardinality(CallsTo(calls, 0, n)) = 0
      BY <1>2, NoCallsYet DEF Tallies, V, start
    <3>2. c \in Tallies /\ c.total \in Nat /\ c.total < MaxPlannerCalls /\ c.halt = "no"
      BY DEF Going, Tallies
    <3>3. \A n \in PlanningTools : c.planning[n] = c.planning[n] + Cardinality(CallsTo(calls, 0, n))
      BY <3>1
    <3>4. c.total = c.total + 0 /\ c.total <= MaxPlannerCalls
      BY <3>2, PlannerBounds
    <3> QED
      BY <3>2, <3>3, <3>4 DEF CallsTallied
  <2>2. h[0] = c /\ 0 \in 0..N
    BY <1>1, <1>12 DEF start
  <2> QED
    BY <2>1, <2>2
<1>15. ASSUME NEW n \in 0..N, n < N, n \in T
       PROVE  n + 1 \in T
  <2> DEFINE k == n + 1
  <2>1. k \in 0..N /\ k \in 1..N /\ k - 1 = n
    BY <1>1, <1>15
  <2> HIDE DEF k
  <2>2. h[k] = CallRead(h[k - 1], calls[k]) /\ CallsTallied(c, calls, k - 1, h[k - 1])
    BY <2>1, <1>12, <1>15 DEF one
  <2>3. c \in Tallies /\ k \in 1..Len(calls)
    BY <2>1 DEF Going, N
  <2>4. CallsTallied(c, calls, k, h[k])
    BY <2>2, <2>3, CallTallied
  <2>5. k \in T
    BY <2>1, <2>4
  <2> QED
    BY <2>5 DEF k
<1> HIDE DEF T
<1>16. N \in T
  <2>1. N \in 0..N
    BY <1>1
  <2> QED
    BY <2>1, <1>1, <1>14, <1>15, Inductive
<1> QED
  BY <1>5, <1>16 DEF T, N
-----------------------------------------------------------------------------
(***************************************************************************)
(* What the places of a thread hold, a message more at a time.             *)
(***************************************************************************)
LEMMA PlacesOf == ASSUME NEW l \in Nat PROVE IsFiniteSet(1..l) /\ Cardinality(1..l) = l
  BY FS_Interval

LEMMA CallsOfMessage ==
  ASSUME NEW msg \in Messages, NEW names
  PROVE  /\ IsFiniteSet(CallsOf(msg, names)) /\ Cardinality(CallsOf(msg, names)) \in Nat
         /\ msg.kind # "ai" => CallsOf(msg, names) = {} /\ Cardinality(CallsOf(msg, names)) = 0
         /\ msg.kind = "ai" => Cardinality(CallsOf(msg, AllTools)) = Len(msg.calls)
         /\ \A n : msg.kind = "ai" => CallsOf(msg, {n}) = CallsTo(msg.calls, Len(msg.calls), n)
<1>1. CASE msg.kind # "ai"
  <2>1. CallsOf(msg, names) = {}
    BY <1>1 DEF CallsOf
  <2> QED
    BY <1>1, <2>1, FS_EmptySet
<1>2. CASE msg.kind = "ai"
  <2>1. msg.calls \in CallLists
    BY <1>2, MessageKinds
  <2> DEFINE calls == msg.calls
  <2>2. /\ Len(calls) \in Nat /\ DOMAIN calls = 1..Len(calls)
        /\ \A j \in 1..Len(calls) : calls[j] \in AllTools
    BY <2>1, CallListsAre
  <2>3. CallsOf(msg, names) \subseteq 1..Len(calls) /\ CallsOf(msg, AllTools) = 1..Len(calls)
    BY <1>2, <2>2 DEF CallsOf
  <2>4. IsFiniteSet(1..Len(calls)) /\ Cardinality(1..Len(calls)) = Len(calls)
    BY <2>2, PlacesOf
  <2>5. IsFiniteSet(CallsOf(msg, names))
    BY <2>3, <2>4, FS_Subset
  <2>6. Cardinality(CallsOf(msg, names)) \in Nat
    BY <2>5, FS_CardinalityType
  <2>7. \A n : CallsOf(msg, {n}) = CallsTo(calls, Len(calls), n)
    BY <1>2, <2>2 DEF CallsOf, CallsTo
  <2> QED
    BY <1>2, <2>3, <2>4, <2>5, <2>6, <2>7
<1> QED
  BY <1>1, <1>2

LEMMA OnePlaceMore ==
  ASSUME NEW thread \in PlannerThreads, NEW a \in Nat, NEW k \in Nat, 1 <= a, a <= k, k <= Len(thread), NEW names
  PROVE  /\ thread[k] \in Messages /\ a..k = a..(k - 1) \cup {k} /\ k \notin a..(k - 1)
         /\ CallsIn(thread, a..k, names) =
              CallsIn(thread, a..(k - 1), names) \cup ({k} \X CallsOf(thread[k], names))
         /\ CallsIn(thread, a..(k - 1), names) \cap ({k} \X CallsOf(thread[k], names)) = {}
<1>1. thread[k] \in Messages
  BY ElementOfSeq DEF PlannerThreads
<1>2. a..k = a..(k - 1) \cup {k} /\ k \notin a..(k - 1)
  OBVIOUS
<1>3. CallsIn(thread, a..k, names) =
        CallsIn(thread, a..(k - 1), names) \cup ({k} \X CallsOf(thread[k], names))
  BY <1>2 DEF CallsIn
<1>4. CallsIn(thread, a..(k - 1), names) \cap ({k} \X CallsOf(thread[k], names)) = {}
  <2> SUFFICES ASSUME NEW p \in CallsIn(thread, a..(k - 1), names), p \in {k} \X CallsOf(thread[k], names)
               PROVE  FALSE
    OBVIOUS
  <2>1. PICK i \in a..(k - 1) : p \in {i} \X CallsOf(thread[i], names)
    BY DEF CallsIn
  <2>2. p[1] = i /\ p[1] = k
    BY <2>1
  <2> QED
    BY <1>2, <2>1, <2>2
<1> QED
  BY <1>1, <1>2, <1>3, <1>4

LEMMA NoPlaces ==
  ASSUME NEW thread, NEW a \in Nat, NEW names
  PROVE  CallsIn(thread, a..(a - 1), names) = {} /\ Cardinality(CallsIn(thread, a..(a - 1), names)) = 0
<1>1. a..(a - 1) = {}
  OBVIOUS
<1>2. CallsIn(thread, a..(a - 1), names) = {}
  BY <1>1 DEF CallsIn
<1> QED
  BY <1>2, FS_EmptySet

LEMMA CallsAreFinite ==
  ASSUME NEW thread \in PlannerThreads, NEW a \in Nat, 1 <= a, NEW k \in Nat, k <= Len(thread), NEW names
  PROVE  /\ IsFiniteSet(CallsIn(thread, a..k, names))
         /\ Cardinality(CallsIn(thread, a..k, names)) \in Nat
<1> DEFINE N == Len(thread)
           T == {n \in 0..N : IsFiniteSet(CallsIn(thread, a..n, names))}
<1>1. N \in Nat
  BY LenProperties DEF PlannerThreads
<1>2. 0 \in T
  <2>1. a..0 = {}
    OBVIOUS
  <2>2. CallsIn(thread, a..0, names) = {}
    BY <2>1 DEF CallsIn
  <2> QED
    BY <1>1, <2>2, FS_EmptySet
<1>3. ASSUME NEW n \in 0..N, n < N, n \in T
      PROVE  n + 1 \in T
  <2> DEFINE m == n + 1
  <2>1. m \in Nat /\ m <= N /\ m - 1 = n /\ m \in 0..N
    BY <1>1, <1>3
  <2> HIDE DEF m
  <2>2. IsFiniteSet(CallsIn(thread, a..(m - 1), names))
    BY <1>3, <2>1
  <2>3. CASE a <= m
    <3>1. thread[m] \in Messages /\ CallsIn(thread, a..m, names) =
            CallsIn(thread, a..(m - 1), names) \cup ({m} \X CallsOf(thread[m], names))
      BY <2>1, <2>3, OnePlaceMore
    <3>2. IsFiniteSet({m}) /\ IsFiniteSet(CallsOf(thread[m], names))
      BY <3>1, CallsOfMessage, FS_Singleton
    <3>3. IsFiniteSet({m} \X CallsOf(thread[m], names))
      BY <3>2, FS_Product
    <3>4. IsFiniteSet(CallsIn(thread, a..m, names))
      <4> DEFINE P == CallsIn(thread, a..(m - 1), names)
                 X == {m} \X CallsOf(thread[m], names)
      <4>1. IsFiniteSet(P) /\ IsFiniteSet(X) /\ CallsIn(thread, a..m, names) = P \cup X
        BY <2>2, <3>1, <3>3
      <4> HIDE DEF P, X
      <4>2. IsFiniteSet(P \cup X)
        BY <4>1, FS_Union
      <4> QED
        BY <4>1, <4>2
    <3>5. m \in T
      BY <2>1, <3>4
    <3> QED
      BY <3>5 DEF m
  <2>4. CASE ~(a <= m)
    <3>1. a..m = {}
      BY <2>1, <2>4
    <3>2. CallsIn(thread, a..m, names) = {}
      BY <3>1 DEF CallsIn
    <3>3. m \in T
      BY <2>1, <3>2, FS_EmptySet
    <3> QED
      BY <3>3 DEF m
  <2> QED
    BY <2>3, <2>4
<1> HIDE DEF T
<1>4. \A n \in 0..N : n \in T
  BY <1>1, <1>2, <1>3, Inductive
<1>5. IsFiniteSet(CallsIn(thread, a..k, names))
  BY <1>1, <1>4 DEF T
<1> QED
  BY <1>5, FS_CardinalityType

LEMMA CallsGrow ==
  ASSUME NEW thread \in PlannerThreads, NEW a \in Nat, NEW k \in Nat, 1 <= a, a <= k, k <= Len(thread), NEW names
  PROVE  /\ Cardinality(CallsIn(thread, a..k, names)) \in Nat
         /\ Cardinality(CallsIn(thread, a..(k - 1), names)) \in Nat
         /\ Cardinality(CallsOf(thread[k], names)) \in Nat
         /\ Cardinality(CallsIn(thread, a..k, names)) =
              Cardinality(CallsIn(thread, a..(k - 1), names)) + Cardinality(CallsOf(thread[k], names))
<1> DEFINE P == CallsIn(thread, a..(k - 1), names)
           O == CallsOf(thread[k], names)
<1>1. k - 1 \in Nat /\ k - 1 <= Len(thread)
  BY LenProperties DEF PlannerThreads
<1>2. /\ IsFiniteSet(P) /\ Cardinality(P) \in Nat
      /\ Cardinality(CallsIn(thread, a..k, names)) \in Nat
  BY <1>1, CallsAreFinite
<1>3. thread[k] \in Messages /\ CallsIn(thread, a..k, names) = P \cup ({k} \X O) /\ P \cap ({k} \X O) = {}
  BY OnePlaceMore
<1>4. IsFiniteSet(O) /\ Cardinality(O) \in Nat
  BY <1>3, CallsOfMessage
<1>5. IsFiniteSet({k}) /\ Cardinality({k}) = 1
  BY FS_Singleton
<1> HIDE DEF P, O
<1>6. IsFiniteSet({k} \X O) /\ Cardinality({k} \X O) = 1 * Cardinality(O)
  BY <1>4, <1>5, FS_Product
<1>7. Cardinality(P \cup ({k} \X O)) = Cardinality(P) + Cardinality({k} \X O) - Cardinality(P \cap ({k} \X O))
  BY <1>2, <1>6, FS_Union
<1>8. Cardinality(P \cap ({k} \X O)) = 0
  BY <1>3, FS_EmptySet
<1>9. Cardinality(CallsIn(thread, a..k, names)) = Cardinality(P) + Cardinality(O)
  <2> DEFINE X == {k} \X O
             n == Cardinality(O)
             p == Cardinality(P)
  <2>1. n \in Nat /\ p \in Nat /\ Cardinality(X) = 1 * n
    BY <1>2, <1>4, <1>6
  <2>2. CallsIn(thread, a..k, names) = P \cup X /\ Cardinality(P \cup X) = p + Cardinality(X) - 0
    BY <1>3, <1>7, <1>8
  <2> HIDE DEF X, n, p
  <2>3. Cardinality(X) = n
    BY <2>1
  <2>4. Cardinality(P \cup X) = p + n
    BY <2>1, <2>2, <2>3
  <2> QED
    BY <2>2, <2>4 DEF n, p
<1> QED
  BY <1>2, <1>4, <1>9 DEF P, O

LEMMA CallsGrowBy ==
  ASSUME NEW thread \in PlannerThreads, NEW a \in Nat, NEW k \in Nat, 1 <= a, a <= k, k <= Len(thread), NEW names
  PROVE  Cardinality(CallsIn(thread, a..k, names)) =
           Cardinality(CallsIn(thread, a..(k - 1), names)) + Cardinality(CallsOf(thread[k], names))
  BY CallsGrow

LEMMA ResultsGrow ==
  ASSUME NEW thread \in PlannerThreads, NEW m \in Nat, NEW k \in Nat, 1 <= m, m <= k, k <= Len(thread), NEW result
  PROVE  /\ IsFiniteSet(ResultsIn(thread, m..k, result)) /\ IsFiniteSet(ResultsIn(thread, m..(k - 1), result))
         /\ Cardinality(ResultsIn(thread, m..k, result)) \in Nat
         /\ Cardinality(ResultsIn(thread, m..(k - 1), result)) \in Nat
         /\ LET more == thread[k].kind = "tool" /\ thread[k].result = result
            IN  /\ more => /\ ResultsIn(thread, m..k, result) = ResultsIn(thread, m..(k - 1), result) \cup {k}
                           /\ Cardinality(ResultsIn(thread, m..k, result)) =
                                Cardinality(ResultsIn(thread, m..(k - 1), result)) + 1
                /\ ~more => ResultsIn(thread, m..k, result) = ResultsIn(thread, m..(k - 1), result)
<1> DEFINE P == ResultsIn(thread, m..(k - 1), result)
           Q == ResultsIn(thread, m..k, result)
<1>1. m..k = m..(k - 1) \cup {k} /\ k \notin m..(k - 1)
  OBVIOUS
<1>2. IsFiniteSet(m..k) /\ IsFiniteSet(m..(k - 1))
  BY FS_Interval
<1>3. P \subseteq m..(k - 1) /\ Q \subseteq m..k
  BY DEF ResultsIn
<1>4. IsFiniteSet(P) /\ IsFiniteSet(Q)
  BY <1>2, <1>3, FS_Subset
<1>5. Cardinality(P) \in Nat /\ Cardinality(Q) \in Nat
  BY <1>4, FS_CardinalityType
<1>6. k \notin P
  BY <1>1, <1>3
<1>7. thread[k].kind = "tool" /\ thread[k].result = result => Q = P \cup {k}
  BY <1>1 DEF ResultsIn
<1>8. ~(thread[k].kind = "tool" /\ thread[k].result = result) => Q = P
  BY <1>1 DEF ResultsIn
<1> HIDE DEF P, Q
<1>9. Cardinality(P \cup {k}) = Cardinality(P) + 1
  BY <1>4, <1>6, FS_AddElement
<1> QED
  BY <1>4, <1>5, <1>7, <1>8, <1>9 DEF P, Q
-----------------------------------------------------------------------------
(***************************************************************************)
(* The tally of a consult after the messages up to place k were read, the  *)
(* first of them being the consult's own at place a.                       *)
(***************************************************************************)
Earned(c, thread, a, k) ==
  /\ c.halt = "calls" => Cardinality(CallsIn(thread, a..k, AllTools)) >= MaxPlannerCalls
  /\ c.halt = "planning" =>
       \E n \in PlanningTools : Cardinality(CallsIn(thread, a..k, {n})) >= MaxPlanningCalls
  /\ c.halt = "failures" =>
       \E first, last \in a..k :
         /\ ResultsIn(thread, first..last, "ok") = {}
         /\ Cardinality(ResultsIn(thread, first..last, "error")) >= MaxPlannerFailures

Failing(c, thread, a, k) ==
  /\ c.failures < MaxPlannerFailures
  /\ \E m \in a..(k + 1) :
       /\ ResultsIn(thread, m..k, "ok") = {}
       /\ Cardinality(ResultsIn(thread, m..k, "error")) = c.failures

Tallied(c, thread, a, k) ==
  /\ c \in Tallies /\ c.total <= MaxPlannerCalls /\ c.halt # "time"
  /\ Earned(c, thread, a, k)
  /\ c.halt = "no" =>
       /\ Going(c) /\ Failing(c, thread, a, k)
       /\ c.total = Cardinality(CallsIn(thread, a..k, AllTools))
       /\ \A n \in PlanningTools : c.planning[n] = Cardinality(CallsIn(thread, a..k, {n}))

LEMMA EarnedGrows ==
  ASSUME NEW thread \in PlannerThreads, NEW a \in Nat, NEW k \in Nat, 1 <= a, a <= k, k <= Len(thread), NEW c,
         Earned(c, thread, a, k - 1)
  PROVE  Earned(c, thread, a, k)
<1>1. \A names : /\ Cardinality(CallsIn(thread, a..k, names)) \in Nat
                 /\ Cardinality(CallsIn(thread, a..(k - 1), names)) \in Nat
                 /\ Cardinality(CallsIn(thread, a..k, names)) >=
                      Cardinality(CallsIn(thread, a..(k - 1), names))
  <2> SUFFICES ASSUME NEW names
               PROVE  /\ Cardinality(CallsIn(thread, a..k, names)) \in Nat
                      /\ Cardinality(CallsIn(thread, a..(k - 1), names)) \in Nat
                      /\ Cardinality(CallsIn(thread, a..k, names)) >=
                           Cardinality(CallsIn(thread, a..(k - 1), names))
    OBVIOUS
  <2>1. /\ Cardinality(CallsIn(thread, a..k, names)) \in Nat
        /\ Cardinality(CallsIn(thread, a..(k - 1), names)) \in Nat
        /\ Cardinality(CallsOf(thread[k], names)) \in Nat
        /\ Cardinality(CallsIn(thread, a..k, names)) =
             Cardinality(CallsIn(thread, a..(k - 1), names)) + Cardinality(CallsOf(thread[k], names))
    BY CallsGrow
  <2> QED
    BY <2>1
<1>2. c.halt = "calls" => Cardinality(CallsIn(thread, a..k, AllTools)) >= MaxPlannerCalls
  BY <1>1, PlannerBounds DEF Earned
<1>3. ASSUME c.halt = "planning"
      PROVE  \E n \in PlanningTools : Cardinality(CallsIn(thread, a..k, {n})) >= MaxPlanningCalls
  <2>1. PICK n \in PlanningTools : Cardinality(CallsIn(thread, a..(k - 1), {n})) >= MaxPlanningCalls
    BY <1>3 DEF Earned
  <2>2. Cardinality(CallsIn(thread, a..k, {n})) >= MaxPlanningCalls
    BY <1>1, <2>1, PlannerBounds
  <2> QED
    BY <2>2
<1>4. a..(k - 1) \subseteq a..k
  OBVIOUS
<1> QED
  BY <1>2, <1>3, <1>4 DEF Earned

\* One message more is read.
LEMMA OneMessageRead ==
  ASSUME NEW thread \in PlannerThreads, NEW a \in Nat, NEW k \in Nat, 1 <= a, a <= k, k <= Len(thread), NEW c,
         Tallied(c, thread, a, k - 1)
  PROVE  Tallied(MessageRead(c, thread[k]), thread, a, k)
<1> DEFINE msg == thread[k]
           d == MessageRead(c, msg)
<1> SUFFICES Tallied(d, thread, a, k)
  OBVIOUS
<1>1. msg \in Messages
  BY OnePlaceMore
<1>2. c \in Tallies /\ c.total <= MaxPlannerCalls /\ c.halt # "time" /\ Earned(c, thread, a, k)
  BY EarnedGrows DEF Tallied
<1>3. CASE c.halt # "no"
  <2>1. d = c
    BY <1>3 DEF MessageRead
  <2> HIDE DEF d
  <2> QED
    BY <1>2, <1>3, <2>1 DEF Tallied
<1>4. ASSUME c.halt = "no"
      PROVE  /\ Going(c) /\ Failing(c, thread, a, k - 1)
             /\ c.total = Cardinality(CallsIn(thread, a..(k - 1), AllTools))
             /\ \A n \in PlanningTools : c.planning[n] = Cardinality(CallsIn(thread, a..(k - 1), {n}))
  BY <1>4 DEF Tallied
<1>5. \A names :
        /\ Cardinality(CallsIn(thread, a..(k - 1), names)) \in Nat
        /\ Cardinality(CallsOf(msg, names)) \in Nat
        /\ Cardinality(CallsIn(thread, a..k, names)) =
             Cardinality(CallsIn(thread, a..(k - 1), names)) + Cardinality(CallsOf(msg, names))
  BY CallsGrow
<1>6. k - 1 + 1 = k
  OBVIOUS
<1>7. ASSUME c.halt = "no"
      PROVE  \E m \in a..k :
               /\ m \in Nat /\ 1 <= m /\ m <= k
               /\ ResultsIn(thread, m..(k - 1), "ok") = {}
               /\ Cardinality(ResultsIn(thread, m..(k - 1), "error")) = c.failures
  <2>1. PICK m \in a..k :
          /\ ResultsIn(thread, m..(k - 1), "ok") = {}
          /\ Cardinality(ResultsIn(thread, m..(k - 1), "error")) = c.failures
    BY <1>4, <1>6, <1>7 DEF Failing
  <2> QED
    BY <2>1
<1>8. \A m \in a..k : m \in a..(k + 1)
  OBVIOUS
<1>9. c.failures \in Nat /\ c.total \in Nat /\ \A n \in PlanningTools : c.planning[n] \in Nat
  BY <1>2 DEF Tallies
\* A message that is no result leaves the failures as they are.
<1>10. ASSUME c.halt = "no", msg.kind # "tool", NEW e, e.failures = c.failures
       PROVE  Failing(e, thread, a, k)
  <2>1. PICK m \in a..k :
          /\ m \in Nat /\ 1 <= m /\ m <= k
          /\ ResultsIn(thread, m..(k - 1), "ok") = {}
          /\ Cardinality(ResultsIn(thread, m..(k - 1), "error")) = c.failures
    BY <1>7, <1>10
  <2>2. \A result : ResultsIn(thread, m..k, result) = ResultsIn(thread, m..(k - 1), result)
    BY <1>10, <2>1, ResultsGrow
  <2>3. e.failures < MaxPlannerFailures
    BY <1>4, <1>10 DEF Failing
  <2> QED
    BY <1>8, <1>10, <2>1, <2>2, <2>3 DEF Failing
\* And one that has no calls leaves their numbers.
<1>11. ASSUME c.halt = "no", msg.kind # "ai"
       PROVE  /\ c.total = Cardinality(CallsIn(thread, a..k, AllTools))
              /\ \A n \in PlanningTools : c.planning[n] = Cardinality(CallsIn(thread, a..k, {n}))
  <2>1. \A names : Cardinality(CallsOf(msg, names)) = 0
    BY <1>1, <1>11, CallsOfMessage
  <2>2. \A names : Cardinality(CallsIn(thread, a..k, names)) = Cardinality(CallsIn(thread, a..(k - 1), names))
    <3> SUFFICES ASSUME NEW names
                 PROVE  Cardinality(CallsIn(thread, a..k, names)) =
                          Cardinality(CallsIn(thread, a..(k - 1), names))
      OBVIOUS
    <3>1. Cardinality(CallsIn(thread, a..(k - 1), names)) \in Nat
          /\ Cardinality(CallsIn(thread, a..k, names)) =
               Cardinality(CallsIn(thread, a..(k - 1), names)) + 0
      BY <1>5, <2>1
    <3> QED
      BY <3>1
  <2> QED
    BY <1>4, <1>11, <2>2
<1>12. CASE c.halt = "no" /\ msg.kind = "human"
  <2>1. d = c
    BY <1>1, <1>12, MessageKinds DEF MessageRead
  <2>2. Failing(c, thread, a, k)
    BY <1>10, <1>12
  <2> HIDE DEF d
  <2> QED
    BY <1>2, <1>4, <1>11, <1>12, <2>1, <2>2 DEF Tallied
<1>13. CASE c.halt = "no" /\ msg.kind = "ai"
  <2> DEFINE calls == msg.calls
             N == Len(calls)
  <2>1. calls \in CallLists /\ N \in Nat /\ msg # Human
    BY <1>1, <1>13, MessageKinds, CallListsAre
  <2>2. d = CallsRead(c, calls)
    BY <1>13, <2>1 DEF MessageRead
  <2>3. CallsTallied(c, calls, N, d)
    BY <1>4, <1>13, <2>1, <2>2, MessageTallied
  <2>4. Cardinality(CallsIn(thread, a..k, AllTools)) = c.total + N
    <3>1. Cardinality(CallsOf(msg, AllTools)) = N
      BY <1>1, <1>13, CallsOfMessage
    <3> QED
      BY <1>4, <1>5, <1>13, <3>1
  <2>5. \A n \in PlanningTools :
          Cardinality(CallsIn(thread, a..k, {n})) = c.planning[n] + Cardinality(CallsTo(calls, N, n))
    <3> SUFFICES ASSUME NEW n \in PlanningTools
                 PROVE  Cardinality(CallsIn(thread, a..k, {n})) =
                          c.planning[n] + Cardinality(CallsTo(calls, N, n))
      OBVIOUS
    <3>1. CallsOf(msg, {n}) = CallsTo(calls, N, n)
      BY <1>1, <1>13, CallsOfMessage
    <3> QED
      BY <1>4, <1>5, <1>13, <3>1
  <2> HIDE DEF d, N, calls
  <2>6. d.failures = c.failures /\ d.halt \in {"no", "calls", "planning"} /\ d \in Tallies
        /\ d.total <= MaxPlannerCalls
    BY <2>3 DEF CallsTallied
  <2>7. Earned(d, thread, a, k)
    BY <2>3, <2>4, <2>5, <2>6 DEF CallsTallied, Earned
  <2>8. Failing(d, thread, a, k)
    BY <1>10, <1>13, <2>6
  <2>9. d.halt = "no" => /\ Going(d) /\ d.total = Cardinality(CallsIn(thread, a..k, AllTools))
                         /\ \A n \in PlanningTools :
                              d.planning[n] = Cardinality(CallsIn(thread, a..k, {n}))
    BY <2>3, <2>4, <2>5 DEF CallsTallied
  <2> QED
    BY <2>6, <2>7, <2>8, <2>9 DEF Tallied
<1>14. CASE c.halt = "no" /\ msg.kind = "tool"
  <2>1. msg.result \in ToolResults /\ msg # Human
    BY <1>1, <1>14, MessageKinds
  <2>2. d = ResultRead(c, msg.result)
    BY <1>14, <2>1 DEF MessageRead
  <2>3. PICK m \in a..k :
          /\ m \in Nat /\ 1 <= m /\ m <= k
          /\ ResultsIn(thread, m..(k - 1), "ok") = {}
          /\ Cardinality(ResultsIn(thread, m..(k - 1), "error")) = c.failures
    BY <1>7, <1>14
  <2>4. ASSUME d \in Tallies, d.total = c.total, d.planning = c.planning, d.halt = "no",
               Failing(d, thread, a, k)
        PROVE  Tallied(d, thread, a, k)
    <3> HIDE DEF d
    <3>1. Earned(d, thread, a, k)
      BY <2>4 DEF Earned
    <3>2. Going(d)
      BY <1>4, <1>14, <2>4 DEF Going
    <3> QED
      BY <1>2, <1>11, <1>14, <2>4, <3>1, <3>2 DEF Tallied
  <2>5. CASE msg.result = "ok"
    <3>1. d = [c EXCEPT !.failures = 0]
      BY <2>2, <2>5 DEF ResultRead
    <3>2. d \in Tallies /\ d.total = c.total /\ d.planning = c.planning /\ d.halt = "no" /\ d.failures = 0
      BY <1>2, <1>14, <3>1 DEF Tallies
    <3>3. (k + 1)..k = {} /\ k + 1 \in a..(k + 1)
      OBVIOUS
    <3>4. \A result : ResultsIn(thread, (k + 1)..k, result) = {}
      BY <3>3 DEF ResultsIn
    <3>5. Cardinality(ResultsIn(thread, (k + 1)..k, "error")) = 0
      BY <3>4, FS_EmptySet
    <3> HIDE DEF d
    <3>6. Failing(d, thread, a, k)
      BY <3>2, <3>3, <3>4, <3>5, PlannerBounds DEF Failing
    <3> QED
      BY <2>4, <3>2, <3>6
  <2>6. CASE msg.result = "refused"
    <3>1. d = c
      BY <2>2, <2>6 DEF ResultRead
    <3>2. \A result \in {"ok", "error"} :
            ResultsIn(thread, m..k, result) = ResultsIn(thread, m..(k - 1), result)
      BY <2>3, <2>6, ResultsGrow
    <3>3. c.failures < MaxPlannerFailures
      BY <1>4, <1>14 DEF Failing
    <3>4. Failing(c, thread, a, k)
      BY <1>8, <2>3, <3>2, <3>3 DEF Failing
    <3> QED
      BY <1>2, <1>14, <2>4, <3>1, <3>4
  <2>7. CASE msg.result = "error"
    <3>1. /\ ResultsIn(thread, m..k, "ok") = {}
          /\ Cardinality(ResultsIn(thread, m..k, "error")) = c.failures + 1
      <4>1. ResultsIn(thread, m..k, "ok") = ResultsIn(thread, m..(k - 1), "ok")
        BY <1>14, <2>3, <2>7, ResultsGrow
      <4>2. Cardinality(ResultsIn(thread, m..k, "error")) =
              Cardinality(ResultsIn(thread, m..(k - 1), "error")) + 1
        BY <1>14, <2>3, <2>7, ResultsGrow
      <4> QED
        BY <2>3, <4>1, <4>2
    <3>2. d = [c EXCEPT !.failures = c.failures + 1,
                        !.halt = IF c.failures + 1 >= MaxPlannerFailures THEN "failures" ELSE c.halt]
      BY <2>2, <2>7 DEF ResultRead
    <3>3. /\ d \in Tallies /\ d.total = c.total /\ d.planning = c.planning /\ d.failures = c.failures + 1
          /\ d.halt = IF c.failures + 1 >= MaxPlannerFailures THEN "failures" ELSE "no"
      <4> DEFINE f == c.failures + 1
                 halt == IF c.failures + 1 >= MaxPlannerFailures THEN "failures" ELSE "no"
      <4>1. f \in Nat /\ halt \in Halts
        BY <1>9 DEF Halts
      <4>2. d = [c EXCEPT !.failures = f, !.halt = halt]
        BY <1>14, <3>2
      <4> HIDE DEF f, halt, d
      <4>3. /\ d \in Tallies /\ d.total = c.total /\ d.planning = c.planning /\ d.failures = f
            /\ d.halt = halt
        BY <1>2, <4>1, <4>2 DEF Tallies
      <4> QED
        BY <4>3 DEF f, halt
    <3> HIDE DEF d
    <3>4. CASE c.failures + 1 >= MaxPlannerFailures
      <4>1. k \in a..k
        OBVIOUS
      <4>2. Earned(d, thread, a, k)
        BY <2>3, <3>1, <3>3, <3>4, <4>1 DEF Earned
      <4> QED
        BY <1>2, <3>3, <3>4, <4>2 DEF Tallied
    <3>5. CASE ~(c.failures + 1 >= MaxPlannerFailures)
      <4>1. d.failures < MaxPlannerFailures
        BY <1>9, <3>3, <3>5, PlannerBounds
      <4>2. Failing(d, thread, a, k)
        BY <1>8, <2>3, <3>1, <3>3, <4>1 DEF Failing
      <4> QED
        BY <2>4, <3>3, <3>5, <4>2
    <3> QED
      BY <3>4, <3>5
  <2> QED
    BY <2>1, <2>5, <2>6, <2>7 DEF ToolResults
<1> QED
  BY <1>1, <1>3, <1>12, <1>13, <1>14, MessageKinds
(***************************************************************************)
(* And the messages of a chunk.                                            *)
(***************************************************************************)
Steady == {d \in Tallies : d.halt = "no" => Going(d)}

LEMMA MessageSteady ==
  ASSUME NEW d \in Steady, NEW msg \in Messages
  PROVE  MessageRead(d, msg) \in Steady
<1>1. CASE d.halt # "no" \/ msg = Human
  BY <1>1 DEF MessageRead
<1>2. CASE d.halt = "no" /\ msg.kind = "ai"
  <2>1. msg.calls \in CallLists /\ msg # Human /\ Going(d)
    BY <1>2, MessageKinds DEF Steady
  <2>2. CallsTallied(d, msg.calls, Len(msg.calls), CallsRead(d, msg.calls))
    BY <2>1, MessageTallied
  <2>3. MessageRead(d, msg) = CallsRead(d, msg.calls)
    BY <1>2, <2>1 DEF MessageRead
  <2> DEFINE e == MessageRead(d, msg)
  <2>4. e \in Tallies /\ (e.halt = "no" => Going(e))
    <3>1. CallsTallied(d, msg.calls, Len(msg.calls), e)
      BY <2>2, <2>3
    <3> HIDE DEF e
    <3> QED
      BY <3>1 DEF CallsTallied
  <2> HIDE DEF e
  <2>5. e \in Steady
    BY <2>4 DEF Steady
  <2> QED
    BY <2>5 DEF e
<1>3. CASE d.halt = "no" /\ msg.kind = "tool"
  <2> DEFINE e == MessageRead(d, msg)
  <2>1. msg # Human /\ msg.result \in ToolResults /\ d \in Tallies /\ Going(d)
    BY <1>3, MessageKinds DEF Steady
  <2>2. e = ResultRead(d, msg.result)
    BY <1>3, <2>1 DEF MessageRead
  <2>3. d.failures \in Nat
    BY <2>1 DEF Tallies
  <2>4. /\ e \in Tallies /\ e.total = d.total /\ e.planning = d.planning
    <3>1. CASE msg.result = "ok"
      <4>1. e = [d EXCEPT !.failures = 0]
        BY <2>2, <3>1 DEF ResultRead
      <4> HIDE DEF e
      <4> QED
        BY <2>1, <4>1 DEF Tallies
    <3>2. CASE msg.result = "error"
      <4> DEFINE f == d.failures + 1
                 halt == IF d.failures + 1 >= MaxPlannerFailures THEN "failures" ELSE d.halt
      <4>1. f \in Nat /\ halt \in Halts
        BY <2>1, <2>3 DEF Halts, Tallies
      <4>2. e = [d EXCEPT !.failures = f, !.halt = halt]
        BY <2>2, <3>2 DEF ResultRead
      <4> HIDE DEF f, halt, e
      <4> QED
        BY <2>1, <4>1, <4>2 DEF Tallies
    <3>3. CASE msg.result = "refused"
      <4>1. e = d
        BY <2>2, <3>3 DEF ResultRead
      <4> QED
        BY <2>1, <4>1
    <3> QED
      BY <2>1, <3>1, <3>2, <3>3 DEF ToolResults
  <2> HIDE DEF e
  <2>5. e \in Steady
    BY <2>1, <2>4 DEF Steady, Going
  <2> QED
    BY <2>5 DEF e
<1> QED
  BY <1>1, <1>2, <1>3, MessageKinds

LEMMA ChunkTallied ==
  ASSUME NEW thread \in PlannerThreads, NEW a \in Nat, NEW from \in Nat, 1 <= a, a <= from, from <= Len(thread) + 1,
         NEW c, Tallied(c, thread, a, from - 1)
  PROVE  Tallied(MessagesRead(c, SubSeq(thread, from, Len(thread))), thread, a, Len(thread))
<1> DEFINE messages == SubSeq(thread, from, Len(thread))
           N == Len(messages)
           V == Steady
           start == c
           F(f) == [i \in 0..N |-> IF i = 0 THEN start ELSE MessageRead(f[i - 1], messages[i])]
           one(i, p) == MessageRead(p, messages[i])
           step == [i \in 1..N |-> [p \in V |-> one(i, p)]]
           h == CHOOSE f : f = F(f)
<1>0. Len(thread) \in Nat
  BY LenProperties DEF PlannerThreads
<1>1. /\ N \in Nat /\ N = Len(thread) - from + 1
      /\ \A i \in 1..N : messages[i] = thread[from - 1 + i] /\ messages[i] \in Messages
  <2>1. Len(messages) = Len(thread) - from + 1
    BY <1>0, SubSeqProperties DEF PlannerThreads
  <2>2. N \in Nat
    BY <1>0, <2>1
  <2>3. ASSUME NEW i \in 1..N
        PROVE  messages[i] = thread[from - 1 + i] /\ messages[i] \in Messages
    <3>1. from - 1 + i \in 1..Len(thread) /\ from + i - 1 = from - 1 + i
      BY <1>0, <2>1
    <3>2. messages[i] = thread[from + i - 1]
      BY <1>0, <2>1, <2>3, SubSeqProperties DEF PlannerThreads
    <3>3. thread[from - 1 + i] \in Messages
      BY <3>1, ElementOfSeq DEF PlannerThreads
    <3> QED
      BY <3>1, <3>2, <3>3
  <2> QED
    BY <2>1, <2>2, <2>3
<1>2. start \in V
  BY DEF Tallied, Steady
<1>3. \A i \in 1..N, p \in V : one(i, p) \in V
  BY <1>1, MessageSteady
<1>4. \A f : \A i \in 0..N : F(f)[i] = IF i = 0 THEN start ELSE one(i, f[i - 1])
  OBVIOUS
<1>5. MessagesRead(c, messages) = h[N]
  BY DEF MessagesRead
<1> HIDE DEF messages, V, start, one, N
<1>6. step \in [1..N -> [V -> V]]
  BY <1>3
<1>7. \A i \in 1..N, p \in V : step[i][p] = one(i, p)
  OBVIOUS
<1> HIDE DEF step
<1>8. PICK g \in [0..N -> V] : g[0] = start /\ \A i \in 1..N : g[i] = step[i][g[i - 1]]
  <2>1. step \in Steps(N, V)
    BY <1>6 DEF Steps
  <2>2. Computed(N, V, start, step)
    BY <1>1, <1>2, <2>1, RecursionExists
  <2> QED
    BY <2>2 DEF Computed
<1>9. \A i \in 1..N : i - 1 \in 0..N /\ g[i] = one(i, g[i - 1])
  <2> SUFFICES ASSUME NEW i \in 1..N PROVE i - 1 \in 0..N /\ g[i] = one(i, g[i - 1])
    OBVIOUS
  <2>1. i - 1 \in 0..N
    BY <1>1
  <2>2. g[i - 1] \in V
    BY <2>1
  <2> QED
    BY <2>1, <2>2, <1>7, <1>8
<1>10. g = F(g)
  <2>1. DOMAIN F(g) = 0..N /\ DOMAIN g = 0..N
    OBVIOUS
  <2>2. \A i \in 0..N : F(g)[i] = g[i]
    <3> SUFFICES ASSUME NEW i \in 0..N PROVE F(g)[i] = g[i]
      OBVIOUS
    <3>1. F(g)[i] = IF i = 0 THEN start ELSE one(i, g[i - 1])
      BY <1>4
    <3>2. i # 0 => i \in 1..N
      BY <1>1
    <3> QED
      BY <3>1, <3>2, <1>8, <1>9
  <2>3. F(g) = [i \in 0..N |-> F(g)[i]] /\ g = [i \in 0..N |-> g[i]]
    OBVIOUS
  <2> HIDE DEF F
  <2> QED
    BY <2>2, <2>3
<1>11. h = F(h)
  <2> HIDE DEF F
  <2> QED
    BY <1>10, Zenon
<1> HIDE DEF h, F
<1>12. h[0] = start /\ \A i \in 1..N : h[i] = one(i, h[i - 1])
  <2>1. \A i \in 0..N : h[i] = IF i = 0 THEN start ELSE one(i, h[i - 1])
    BY <1>4, <1>11
  <2>2. 0 \in 0..N /\ \A i \in 1..N : i \in 0..N /\ i # 0
    BY <1>1
  <2> QED
    BY <2>1, <2>2
<1>13. \A i \in 0..N : h[i] \in V
  <2>1. \A i \in 1..N : h[i - 1] \in V => h[i] \in V
    BY <1>3, <1>12
  <2> QED
    BY <1>1, <1>2, <1>12, <2>1, StaysIn
<1> DEFINE T == {n \in 0..N : Tallied(h[n], thread, a, from - 1 + n)}
<1>14. 0 \in T
  <2>1. from - 1 + 0 = from - 1 /\ 0 \in 0..N /\ h[0] = c
    BY <1>1, <1>12 DEF start
  <2> QED
    BY <2>1
<1>15. ASSUME NEW n \in 0..N, n < N, n \in T
       PROVE  n + 1 \in T
  <2> DEFINE m == n + 1
             k == from - 1 + m
  <2>1. m \in 0..N /\ m \in 1..N /\ m - 1 = n
    BY <1>1, <1>15
  <2>2. k \in Nat /\ a <= k /\ k <= Len(thread) /\ k - 1 = from - 1 + n
    BY <1>0, <1>1, <2>1
  <2>3. messages[m] = thread[k]
    BY <1>1, <2>1
  <2> HIDE DEF m, k
  <2>4. h[m] = MessageRead(h[m - 1], thread[k]) /\ Tallied(h[m - 1], thread, a, k - 1)
    BY <2>1, <2>2, <2>3, <1>12, <1>15 DEF one
  <2>5. Tallied(h[m], thread, a, k)
    BY <2>2, <2>4, OneMessageRead
  <2>6. m \in T
    BY <2>1, <2>5 DEF k
  <2> QED
    BY <2>6 DEF m
<1> HIDE DEF T
<1>16. N \in T
  <2>1. N \in 0..N
    BY <1>1
  <2> QED
    BY <2>1, <1>1, <1>14, <1>15, Inductive
<1>17. from - 1 + N = Len(thread)
  BY <1>0, <1>1
<1> QED
  BY <1>5, <1>16, <1>17 DEF T
-----------------------------------------------------------------------------
(***************************************************************************)
(* PlannerThreads that go on: what was read of the shorter stays read of the      *)
(* longer, and a halt that was earned stays earned.                        *)
(***************************************************************************)
GoesOn(thread, longer) ==
  /\ thread \in PlannerThreads /\ longer \in PlannerThreads /\ Len(thread) <= Len(longer)
  /\ \A i \in 1..Len(thread) : longer[i] = thread[i]

LEMMA SamePlaces ==
  ASSUME NEW thread, NEW longer, GoesOn(thread, longer), NEW a \in Nat, 1 <= a, NEW k \in Int, k <= Len(thread)
  PROVE  /\ \A names : CallsIn(longer, a..k, names) = CallsIn(thread, a..k, names)
         /\ \A result : ResultsIn(longer, a..k, result) = ResultsIn(thread, a..k, result)
<1>1. Len(thread) \in Nat
  BY LenProperties DEF GoesOn, PlannerThreads
<1>2. \A i \in a..k : longer[i] = thread[i]
  BY <1>1 DEF GoesOn
<1> QED
  BY <1>2 DEF CallsIn, ResultsIn

LEMMA EarnedStays ==
  ASSUME NEW thread, NEW longer, GoesOn(thread, longer), NEW a \in Nat, 1 <= a,
         NEW k \in Nat, k <= Len(thread), NEW m \in Nat, k <= m, m <= Len(longer), NEW c,
         Earned(c, thread, a, k)
  PROVE  Earned(c, longer, a, m)
<1>1. \A names : CallsIn(longer, a..k, names) = CallsIn(thread, a..k, names)
  BY SamePlaces
<1>2. \A names : /\ Cardinality(CallsIn(thread, a..k, names)) <= Cardinality(CallsIn(longer, a..m, names))
                 /\ Cardinality(CallsIn(thread, a..k, names)) \in Nat
                 /\ Cardinality(CallsIn(longer, a..m, names)) \in Nat
  <2> SUFFICES ASSUME NEW names
               PROVE  /\ Cardinality(CallsIn(thread, a..k, names)) <= Cardinality(CallsIn(longer, a..m, names))
                      /\ Cardinality(CallsIn(thread, a..k, names)) \in Nat
                      /\ Cardinality(CallsIn(longer, a..m, names)) \in Nat
    OBVIOUS
  <2>1. /\ IsFiniteSet(CallsIn(longer, a..m, names)) /\ Cardinality(CallsIn(longer, a..m, names)) \in Nat
        /\ Cardinality(CallsIn(thread, a..k, names)) \in Nat
    BY CallsAreFinite DEF GoesOn
  <2>2. a..k \subseteq a..m
    OBVIOUS
  <2>3. CallsIn(longer, a..k, names) \subseteq CallsIn(longer, a..m, names)
    BY <2>2 DEF CallsIn
  <2>4. Cardinality(CallsIn(longer, a..k, names)) <= Cardinality(CallsIn(longer, a..m, names))
    BY <2>1, <2>3, FS_Subset
  <2> QED
    BY <1>1, <2>1, <2>4
<1>3. c.halt = "calls" => Cardinality(CallsIn(longer, a..m, AllTools)) >= MaxPlannerCalls
  BY <1>2, PlannerBounds DEF Earned
<1>4. ASSUME c.halt = "planning"
      PROVE  \E n \in PlanningTools : Cardinality(CallsIn(longer, a..m, {n})) >= MaxPlanningCalls
  <2>1. PICK n \in PlanningTools : Cardinality(CallsIn(thread, a..k, {n})) >= MaxPlanningCalls
    BY <1>4 DEF Earned
  <2>2. Cardinality(CallsIn(longer, a..m, {n})) >= MaxPlanningCalls
    BY <1>2, <2>1, PlannerBounds
  <2> QED
    BY <2>2
<1>5. ASSUME c.halt = "failures"
      PROVE  \E first, last \in a..m :
               /\ ResultsIn(longer, first..last, "ok") = {}
               /\ Cardinality(ResultsIn(longer, first..last, "error")) >= MaxPlannerFailures
  <2>1. PICK first \in a..k, last \in a..k :
          /\ ResultsIn(thread, first..last, "ok") = {}
          /\ Cardinality(ResultsIn(thread, first..last, "error")) >= MaxPlannerFailures
    BY <1>5 DEF Earned
  <2>2. /\ first \in Nat /\ 1 <= first /\ last \in Int /\ last <= Len(thread)
        /\ first \in a..m /\ last \in a..m
    BY LenProperties DEF GoesOn, PlannerThreads
  <2>3. \A result : ResultsIn(longer, first..last, result) = ResultsIn(thread, first..last, result)
    BY <2>2, SamePlaces
  <2> QED
    BY <2>1, <2>2, <2>3
<1> QED
  BY <1>3, <1>4, <1>5 DEF Earned

LEMMA TalliedStays ==
  ASSUME NEW thread, NEW longer, GoesOn(thread, longer), NEW a \in Nat, 1 <= a,
         NEW k \in Int, k <= Len(thread), 0 <= k, NEW c, Tallied(c, thread, a, k)
  PROVE  Tallied(c, longer, a, k)
<1>1. \A names : CallsIn(longer, a..k, names) = CallsIn(thread, a..k, names)
  BY SamePlaces
<1>2. Earned(c, longer, a, k)
  <2>1. k \in Nat /\ k <= Len(longer)
    BY LenProperties DEF GoesOn, PlannerThreads
  <2> QED
    BY <2>1, EarnedStays DEF Tallied
<1>3. ASSUME c.halt = "no" PROVE Failing(c, longer, a, k)
  <2>1. PICK m \in a..(k + 1) :
          /\ ResultsIn(thread, m..k, "ok") = {}
          /\ Cardinality(ResultsIn(thread, m..k, "error")) = c.failures
    BY <1>3 DEF Tallied, Failing
  <2>2. m \in Nat /\ 1 <= m
    OBVIOUS
  <2>3. \A result : ResultsIn(longer, m..k, result) = ResultsIn(thread, m..k, result)
    BY <2>2, SamePlaces
  <2>4. c.failures < MaxPlannerFailures
    BY <1>3 DEF Tallied, Failing
  <2> QED
    BY <2>1, <2>3, <2>4 DEF Failing
<1> QED
  BY <1>1, <1>2, <1>3 DEF Tallied

\* Messages that are not the model's have no calls.
LEMMA NoMoreCalls ==
  ASSUME NEW thread \in PlannerThreads, NEW a \in Nat, NEW k \in Nat, a <= k, k <= Len(thread) + 1,
         \A i \in k..Len(thread) : thread[i].kind # "ai", NEW names
  PROVE  CallsIn(thread, a..Len(thread), names) = CallsIn(thread, a..(k - 1), names)
<1>1. Len(thread) \in Nat
  BY LenProperties DEF PlannerThreads
<1>2. a..Len(thread) = a..(k - 1) \cup k..Len(thread)
  BY <1>1
<1>3. \A i \in k..Len(thread) : CallsOf(thread[i], names) = {}
  BY DEF CallsOf
<1>4. CallsIn(thread, a..Len(thread), names) =
        CallsIn(thread, a..(k - 1), names) \cup CallsIn(thread, k..Len(thread), names)
  BY <1>2 DEF CallsIn
<1>5. CallsIn(thread, k..Len(thread), names) = {}
  BY <1>3 DEF CallsIn
<1> QED
  BY <1>4, <1>5

(***************************************************************************)
(* The last message of a consult's own.                                    *)
(***************************************************************************)
IsBase(thread, a) ==
  /\ a \in 1..Len(thread) /\ thread[a] = Human
  /\ \A j \in 1..Len(thread) : thread[j] = Human => j <= a

LEMMA BaseIs ==
  ASSUME NEW thread \in PlannerThreads, NEW a, IsBase(thread, a)
  PROVE  LastHuman(thread) = a /\ a \in Nat /\ 1 <= a /\ a <= Len(thread)
<1> DEFINE P(i) == thread[i] = Human /\ \A j \in DOMAIN thread : thread[j] = Human => j <= i
<1>1. DOMAIN thread = 1..Len(thread) /\ Len(thread) \in Nat
  BY LenProperties DEF PlannerThreads
<1>2. a \in DOMAIN thread /\ P(a)
  BY <1>1 DEF IsBase
<1>3. \A i \in DOMAIN thread : P(i) => i = a
  BY <1>1, <1>2
<1>4. LastHuman(thread) = CHOOSE i \in DOMAIN thread : P(i)
  BY DEF LastHuman
<1> HIDE DEF P
<1>5. LastHuman(thread) \in DOMAIN thread /\ P(LastHuman(thread))
  BY <1>2, <1>4, Zenon
<1> QED
  BY <1>1, <1>2, <1>3, <1>5

LEMMA BaseStays ==
  ASSUME NEW thread, NEW longer, GoesOn(thread, longer), NEW a, IsBase(thread, a),
         \A i \in (Len(thread) + 1)..Len(longer) : longer[i] # Human
  PROVE  IsBase(longer, a)
<1>1. Len(thread) \in Nat /\ Len(longer) \in Nat
  BY LenProperties DEF GoesOn, PlannerThreads
<1>2. ASSUME NEW j \in 1..Len(longer), longer[j] = Human PROVE j <= a
  <2>1. j \in 1..Len(thread)
    BY <1>1, <1>2
  <2> QED
    BY <1>2, <2>1 DEF IsBase, GoesOn
<1>3. a \in 1..Len(longer) /\ longer[a] = Human
  BY <1>1 DEF IsBase, GoesOn
<1> QED
  BY <1>2, <1>3 DEF IsBase
-----------------------------------------------------------------------------
(***************************************************************************)
(* What holds of a consult that began with the message at place a, k being *)
(* the first place not yet read.                                           *)
(***************************************************************************)
Spare(thread, a) ==
  /\ Cardinality(CallsIn(thread, a..Len(thread), AllTools)) < MaxPlannerCalls
  /\ \A n \in PlanningTools : Cardinality(CallsIn(thread, a..Len(thread), {n})) < MaxPlanningCalls

Bounded(thread, a) ==
  /\ \E m \in CallLists : Cardinality(CallsIn(thread, a..Len(thread), AllTools)) < MaxPlannerCalls + Len(m)
  /\ \A n \in PlanningTools :
       \E m \in CallLists : Cardinality(CallsIn(thread, a..Len(thread), {n})) < MaxPlanningCalls + Len(m)

Next1 == IF plSeen = 0 THEN LastHuman(plThread) ELSE plSeen

ConsultInv(a, k) ==
  /\ IsBase(plThread, a) /\ a <= k /\ k <= Len(plThread) + 1
  /\ Earned(plCount, plThread, a, Len(plThread)) /\ (plCount.halt = "time" => plTripped)
  /\ Bounded(plThread, a)
  /\ plPhase # "idle" => Tallied(plCount, plThread, a, k - 1)
  /\ plPhase \in {"model", "tools", "end"} => k = Len(plThread) + 1
  /\ plPhase = "model" => Spare(plThread, a)
  /\ plPhase = "tools" \/ (plPhase = "chunk" /\ plNext = "tools") => plThread[Len(plThread)].kind = "ai"
  /\ plPhase = "chunk" /\ plNext = "model" /\ plCount.halt = "no" =>
       \A i \in k..Len(plThread) : plThread[i].kind # "ai"

PlannerTyped ==
  /\ plStage \in {STAGES[i] : i \in DOMAIN STAGES} /\ plThread \in PlannerThreads
  /\ plPhase \in {"idle", "chunk", "model", "tools", "end"} /\ plNext \in {"model", "tools", "end"}
  /\ plTripped \in BOOLEAN /\ plSeen \in Nat
  /\ plConsult \in 0..(Len(STAGES) + PlannerConsults)
  /\ plCount \in Tallies /\ plCount.total <= MaxPlannerCalls

PlannerInv ==
  /\ PlannerTyped
  /\ plThread = <<>> => plPhase = "idle" /\ plCount.halt = "no"
  /\ plThread # <<>> => ConsultInv(LastHuman(plThread), Next1)

LEMMA NothingSaid ==
  /\ <<>> \in PlannerThreads /\ Len(<<>>) = 0 /\ <<>> \in CallLists
  /\ Fresh \in Tallies /\ Going(Fresh) /\ Fresh.total = 0 /\ Fresh.halt = "no" /\ Fresh.failures = 0
  /\ \A n \in PlanningTools : Fresh.planning[n] = 0
<1>1. <<>> \in PlannerThreads /\ Len(<<>>) = 0 /\ <<>> \in CallLists
  BY DEF PlannerThreads, CallLists
<1>2. /\ Fresh \in Tallies /\ Fresh.total = 0 /\ Fresh.halt = "no" /\ Fresh.failures = 0
      /\ \A n \in PlanningTools : Fresh.planning[n] = 0
  BY DEF Fresh, Tallies, Halts
<1>3. Going(Fresh)
  BY <1>2, PlannerBounds DEF Going
<1> QED
  BY <1>1, <1>2, <1>3

LEMMA StagesAre ==
  /\ Len(STAGES) = 3 /\ DOMAIN STAGES = 1..3
  /\ \A i \in 1..3 : STAGES[i] \in {STAGES[j] : j \in DOMAIN STAGES}
  /\ "breakdown" \in {STAGES[j] : j \in DOMAIN STAGES}
<1>1. Len(STAGES) = 3 /\ DOMAIN STAGES = 1..3 /\ STAGES[3] = "breakdown"
  BY DEF STAGES
<1> QED
  BY <1>1

LEMMA PlannerInitInv == PlannerInit => PlannerInv
<1> SUFFICES ASSUME PlannerInit PROVE PlannerInv
  OBVIOUS
<1>1. /\ plStage = STAGES[1] /\ plThread = <<>> /\ plPhase = "idle" /\ plNext = "model"
      /\ plSeen = 0 /\ plCount = Fresh /\ plTripped = FALSE /\ plConsult = 0
  BY DEF PlannerInit
<1>2. 0 \in 0..(Len(STAGES) + PlannerConsults)
  BY StagesAre, PlannerTurnAssumption
<1>3. STAGES[1] \in {STAGES[j] : j \in DOMAIN STAGES}
  BY StagesAre
<1>4. PlannerTyped
  <2>1. Fresh \in Tallies /\ Fresh.total <= MaxPlannerCalls /\ <<>> \in PlannerThreads /\ 0 \in Nat
    BY NothingSaid, PlannerBounds
  <2> QED
    BY <1>1, <1>2, <1>3, <2>1 DEF PlannerTyped
<1> QED
  BY <1>1, <1>4, NothingSaid DEF PlannerInv

\* A message is added to a thread.
LEMMA OneMoreSaid ==
  ASSUME NEW thread \in PlannerThreads, NEW msg \in Messages, NEW longer, longer = Append(thread, msg)
  PROVE  /\ longer \in PlannerThreads /\ Len(longer) = Len(thread) + 1 /\ Len(thread) \in Nat /\ longer # <<>>
         /\ longer[Len(thread) + 1] = msg /\ GoesOn(thread, longer)
         /\ \A i \in (Len(thread) + 1)..Len(longer) : longer[i] = msg
<1>1. Len(thread) \in Nat
  BY LenProperties DEF PlannerThreads
<1>2. /\ longer \in PlannerThreads /\ Len(longer) = Len(thread) + 1 /\ longer[Len(thread) + 1] = msg
      /\ \A i \in 1..Len(thread) : longer[i] = thread[i]
  BY AppendProperties DEF PlannerThreads
<1>3. longer # <<>>
  BY <1>1, <1>2, NothingSaid
<1>4. GoesOn(thread, longer)
  BY <1>1, <1>2 DEF GoesOn
<1>5. \A i \in (Len(thread) + 1)..Len(longer) : i = Len(thread) + 1
  BY <1>1, <1>2
<1> QED
  BY <1>1, <1>2, <1>3, <1>4, <1>5

LEMMA KindsMade ==
  /\ Human \in Messages /\ Human.kind = "human"
  /\ \A calls \in CallLists : Said(calls) \in Messages /\ Said(calls).kind = "ai"
       /\ Said(calls).calls = calls /\ Said(calls) # Human
  /\ \A r \in ToolResults : Result(r) \in Messages /\ Result(r).kind = "tool" /\ Result(r) # Human
<1>1. Human.kind = "human"
  BY DEF Human
<1>2. \A calls \in CallLists : Said(calls).kind = "ai" /\ Said(calls).calls = calls
  BY DEF Said
<1>3. \A r \in ToolResults : Result(r).kind = "tool"
  BY DEF Result
<1> QED
  BY <1>1, <1>2, <1>3 DEF Messages

LEMMA ConsultKeeps ==
  ASSUME PlannerInv, NEW canAsk \in BOOLEAN, NEW canRead \in BOOLEAN, Consult(canAsk, canRead)
  PROVE  PlannerInv'
<1> DEFINE before == IF plStage' = plStage THEN plThread ELSE <<>>
<1>0. PICK a : a = Len(before) + 1
  OBVIOUS
<1>1. PlannerTyped
  BY DEF PlannerInv
<1>2. /\ plStage' = StageOf(plConsult) /\ plThread' = Append(before, Human)
      /\ plPhase' = "chunk" /\ plNext' = "model" /\ plSeen' = 0 /\ plCount' = Fresh
      /\ plTripped' = FALSE /\ plConsult' = plConsult + 1
      /\ plConsult < Len(STAGES) + PlannerConsults
  BY DEF Consult
<1>3. before \in PlannerThreads
  BY <1>1, NothingSaid DEF PlannerTyped
<1> HIDE DEF before
<1>4. /\ plThread' \in PlannerThreads /\ Len(plThread') = a /\ a \in Nat /\ 1 <= a /\ plThread' # <<>>
      /\ plThread'[a] = Human
  <2>1. Human \in Messages
    BY KindsMade
  <2>2. /\ plThread' \in PlannerThreads /\ Len(plThread') = Len(before) + 1 /\ Len(before) \in Nat
        /\ plThread' # <<>> /\ plThread'[Len(before) + 1] = Human
    BY <1>2, <1>3, <2>1, OneMoreSaid
  <2> QED
    BY <1>0, <2>2
<1>5. plStage' \in {STAGES[j] : j \in DOMAIN STAGES}
  <2>1. plConsult \in Nat
    BY <1>1, StagesAre, PlannerTurnAssumption DEF PlannerTyped
  <2> QED
    BY <1>2, <2>1, StagesAre DEF StageOf
<1>6. PlannerTyped'
  <2>1. plConsult + 1 \in 0..(Len(STAGES) + PlannerConsults)
    BY <1>1, <1>2, StagesAre, PlannerTurnAssumption DEF PlannerTyped
  <2> QED
    <3>1. Fresh \in Tallies /\ Fresh.total <= MaxPlannerCalls
      BY NothingSaid, PlannerBounds
    <3> QED
      BY <1>2, <1>4, <1>5, <2>1, <3>1 DEF PlannerTyped
<1>7. IsBase(plThread', a)
  BY <1>4 DEF IsBase
<1>8. LastHuman(plThread') = a /\ Next1' = a
  BY <1>2, <1>4, <1>7, BaseIs DEF Next1
<1>9. \A names : Cardinality(CallsIn(plThread', a..a, names)) = 0
  <2> SUFFICES ASSUME NEW names PROVE Cardinality(CallsIn(plThread', a..a, names)) = 0
    OBVIOUS
  <2>1. CallsOf(plThread'[a], names) = {}
    BY <1>4, KindsMade DEF CallsOf
  <2>2. a..a = {a}
    BY <1>4
  <2>3. CallsIn(plThread', a..a, names) = {}
    BY <2>1, <2>2 DEF CallsIn
  <2> QED
    BY <2>3, FS_EmptySet
<1>10. Bounded(plThread', a)
  <2>1. <<>> \in CallLists /\ Len(<<>>) = 0
    BY NothingSaid
  <2>2. 0 < MaxPlannerCalls + Len(<<>>) /\ 0 < MaxPlanningCalls + Len(<<>>)
    BY <2>1, PlannerBounds
  <2>3. \A names : Cardinality(CallsIn(plThread', a..Len(plThread'), names)) = 0
    BY <1>4, <1>9
  <2> QED
    BY <2>1, <2>2, <2>3 DEF Bounded
<1>11. \A k : Earned(Fresh, plThread', a, k)
  BY NothingSaid DEF Earned
<1>12. Tallied(Fresh, plThread', a, a - 1)
  <2>1. \A names : Cardinality(CallsIn(plThread', a..(a - 1), names)) = 0
    BY <1>4, NoPlaces
  <2>2. a..(a - 1) = {} /\ a \in a..(a - 1 + 1)
    BY <1>4
  <2>3. \A result : ResultsIn(plThread', a..(a - 1), result) = {}
    BY <2>2 DEF ResultsIn
  <2>4. Failing(Fresh, plThread', a, a - 1)
    BY <2>2, <2>3, NothingSaid, PlannerBounds, FS_EmptySet DEF Failing
  <2> QED
    BY <1>11, <2>1, <2>4, NothingSaid, PlannerBounds DEF Tallied
<1>13. \A i \in a..a : plThread'[i].kind # "ai"
  BY <1>4, KindsMade
<1>14. ConsultInv(a, a)'
  <2>1. a <= a /\ a <= a + 1 /\ Fresh.halt = "no"
    BY <1>4, NothingSaid
  <2>2. Earned(plCount', plThread', a, Len(plThread')) /\ plCount'.halt = "no"
    BY <1>2, <1>11, NothingSaid
  <2> QED
    BY <1>2, <1>4, <1>7, <1>10, <1>12, <1>13, <2>1, <2>2 DEF ConsultInv
<1> QED
  BY <1>4, <1>6, <1>8, <1>14 DEF PlannerInv

(***************************************************************************)
(* A turn's thread only goes on, and what is added is no message of the    *)
(* planner's own: the places it is judged by are the same.                 *)
(***************************************************************************)
LEMMA PlacesAre ==
  ASSUME PlannerInv, plThread # <<>>, NEW a, a = LastHuman(plThread), NEW k, k = Next1
  PROVE  /\ ConsultInv(a, k) /\ IsBase(plThread, a) /\ plThread \in PlannerThreads
         /\ Len(plThread) \in Nat /\ a \in Nat /\ 1 <= a /\ a <= Len(plThread)
         /\ k \in Nat /\ a <= k /\ k <= Len(plThread) + 1
<1>1. ConsultInv(a, k) /\ plThread \in PlannerThreads /\ plSeen \in Nat
  BY DEF PlannerInv, PlannerTyped
<1>2. IsBase(plThread, a) /\ a <= k /\ k <= Len(plThread) + 1
  BY <1>1 DEF ConsultInv
<1>3. a \in Nat /\ 1 <= a /\ a <= Len(plThread)
  BY <1>1, <1>2, BaseIs
<1>4. Len(plThread) \in Nat
  BY <1>1, LenProperties DEF PlannerThreads
<1>5. k \in Nat
  BY <1>1, <1>3 DEF Next1
<1> QED
  BY <1>1, <1>2, <1>3, <1>4, <1>5

LEMMA PlacesStay ==
  ASSUME PlannerInv, plThread # <<>>, NEW a, a = LastHuman(plThread), NEW k, k = Next1,
         GoesOn(plThread, plThread'), plSeen' = plSeen,
         \A i \in (Len(plThread) + 1)..Len(plThread') : plThread'[i] # Human
  PROVE  /\ IsBase(plThread', a) /\ LastHuman(plThread') = a /\ Next1' = k /\ plThread' # <<>>
         /\ plThread' \in PlannerThreads /\ Len(plThread') \in Nat /\ Len(plThread) <= Len(plThread')
<1>1. IsBase(plThread, a)
  BY PlacesAre
<1>2. IsBase(plThread', a)
  BY <1>1, BaseStays
<1>3. plThread' \in PlannerThreads /\ Len(plThread) <= Len(plThread')
  BY DEF GoesOn
<1>4. LastHuman(plThread') = a
  BY <1>2, <1>3, BaseIs
<1>5. Next1' = k
  BY <1>4 DEF Next1
<1>6. Len(plThread') \in Nat
  BY <1>3, LenProperties DEF PlannerThreads
<1>7. plThread' # <<>>
  BY <1>2, <1>6, NothingSaid DEF IsBase
<1> QED
  BY <1>2, <1>3, <1>4, <1>5, <1>6, <1>7

\* The calls a message adds are what one message holds.
LEMMA OneMoreBounded ==
  ASSUME NEW thread \in PlannerThreads, NEW calls \in CallLists, NEW longer, longer = Append(thread, Said(calls)),
         NEW a \in Nat, 1 <= a, a <= Len(thread), Spare(thread, a)
  PROVE  Bounded(longer, a)
<1> DEFINE n == Len(thread)
           m == n + 1
           msg == Said(calls)
<1>1. msg \in Messages /\ msg.kind = "ai" /\ msg.calls = calls
  BY KindsMade
<1>2. /\ longer \in PlannerThreads /\ Len(longer) = m /\ n \in Nat /\ longer[m] = msg
      /\ GoesOn(thread, longer)
  <2> HIDE DEF msg
  <2>1. /\ longer \in PlannerThreads /\ Len(longer) = Len(thread) + 1 /\ Len(thread) \in Nat
        /\ longer[Len(thread) + 1] = msg /\ GoesOn(thread, longer)
    <3>1. longer = Append(thread, msg)
      BY DEF msg
    <3> QED
      BY <1>1, <3>1, OneMoreSaid
  <2> QED
    BY <2>1
<1>3. m \in Nat /\ a <= m /\ m <= Len(longer) /\ m - 1 = n
  BY <1>2
<1>4. Len(calls) \in Nat
  BY CallListsAre
<1>5. ASSUME NEW names
      PROVE  /\ Cardinality(CallsIn(longer, a..m, names)) =
                  Cardinality(CallsIn(thread, a..n, names)) + Cardinality(CallsOf(msg, names))
             /\ Cardinality(CallsIn(thread, a..n, names)) \in Nat
             /\ Cardinality(CallsOf(msg, names)) \in Nat
  <2>1. CallsIn(longer, a..n, names) = CallsIn(thread, a..n, names)
    BY <1>2, SamePlaces
  <2> HIDE DEF m, n, msg
  <2>2. /\ Cardinality(CallsIn(longer, a..(m - 1), names)) \in Nat
        /\ Cardinality(CallsOf(longer[m], names)) \in Nat
        /\ Cardinality(CallsIn(longer, a..m, names)) =
             Cardinality(CallsIn(longer, a..(m - 1), names)) + Cardinality(CallsOf(longer[m], names))
    <3>1. /\ longer \in PlannerThreads /\ a \in Nat /\ m \in Nat /\ 1 <= a /\ a <= m /\ m <= Len(longer)
      BY <1>2, <1>3
    <3>2. Cardinality(CallsIn(longer, a..(m - 1), names)) \in Nat
      BY <3>1, CallsGrow
    <3>3. Cardinality(CallsOf(longer[m], names)) \in Nat
      BY <3>1, CallsGrow
    <3>4. Cardinality(CallsIn(longer, a..m, names)) =
            Cardinality(CallsIn(longer, a..(m - 1), names)) + Cardinality(CallsOf(longer[m], names))
      BY <3>1, CallsGrowBy, Zenon
    <3> QED
      BY <3>2, <3>3, <3>4
  <2> QED
    BY <1>2, <1>3, <2>1, <2>2
<1>6. Cardinality(CallsOf(msg, AllTools)) = Len(calls)
  BY <1>1, CallsOfMessage
<1>7. ASSUME NEW name PROVE Cardinality(CallsOf(msg, {name})) <= Len(calls)
  <2>1. CallsOf(msg, {name}) = CallsTo(calls, Len(calls), name)
    BY <1>1, CallsOfMessage
  <2>2. CallsTo(calls, Len(calls), name) \subseteq 1..Len(calls)
    BY DEF CallsTo
  <2>3. IsFiniteSet(1..Len(calls)) /\ Cardinality(1..Len(calls)) = Len(calls)
    BY <1>4, PlacesOf
  <2>4. Cardinality(CallsTo(calls, Len(calls), name)) <= Cardinality(1..Len(calls))
    BY <2>2, <2>3, FS_Subset
  <2> QED
    BY <2>1, <2>3, <2>4
<1>8. Cardinality(CallsIn(longer, a..m, AllTools)) < MaxPlannerCalls + Len(calls)
  <2>1. Cardinality(CallsIn(thread, a..n, AllTools)) < MaxPlannerCalls
    BY DEF Spare
  <2> QED
    BY <1>4, <1>5, <1>6, <2>1, PlannerBounds
<1>9. ASSUME NEW name \in PlanningTools
      PROVE  Cardinality(CallsIn(longer, a..m, {name})) < MaxPlanningCalls + Len(calls)
  <2>1. Cardinality(CallsIn(thread, a..n, {name})) < MaxPlanningCalls
    BY DEF Spare
  <2>2. /\ Cardinality(CallsIn(longer, a..m, {name})) =
             Cardinality(CallsIn(thread, a..n, {name})) + Cardinality(CallsOf(msg, {name}))
        /\ Cardinality(CallsIn(thread, a..n, {name})) \in Nat
        /\ Cardinality(CallsOf(msg, {name})) \in Nat
    BY <1>5
  <2>3. Cardinality(CallsOf(msg, {name})) <= Len(calls)
    BY <1>7
  <2> DEFINE x == Cardinality(CallsIn(thread, a..n, {name}))
             y == Cardinality(CallsOf(msg, {name}))
             z == Cardinality(CallsIn(longer, a..m, {name}))
             l == Len(calls)
  <2>4. x \in Nat /\ y \in Nat /\ l \in Nat /\ z = x + y /\ x < MaxPlanningCalls /\ y <= l
    BY <1>4, <2>1, <2>2, <2>3
  <2> HIDE DEF x, y, z, l
  <2>5. z < MaxPlanningCalls + l
    BY <2>4, PlannerBounds
  <2> QED
    BY <2>5 DEF z, l
<1> QED
  BY <1>2, <1>8, <1>9 DEF Bounded

\* Messages that are not the model's leave the bound.
LEMMA BoundedStays ==
  ASSUME NEW thread, NEW longer, GoesOn(thread, longer), NEW a \in Nat, 1 <= a, a <= Len(thread),
         \A i \in (Len(thread) + 1)..Len(longer) : longer[i].kind # "ai", Bounded(thread, a)
  PROVE  Bounded(longer, a)
<1>1. thread \in PlannerThreads /\ longer \in PlannerThreads /\ Len(thread) \in Nat /\ Len(longer) \in Nat
      /\ Len(thread) <= Len(longer)
  BY LenProperties DEF GoesOn, PlannerThreads
<1>2. \A names : CallsIn(longer, a..Len(longer), names) = CallsIn(thread, a..Len(thread), names)
  <2> SUFFICES ASSUME NEW names
               PROVE  CallsIn(longer, a..Len(longer), names) = CallsIn(thread, a..Len(thread), names)
    OBVIOUS
  <2> DEFINE k == Len(thread) + 1
  <2>1. k \in Nat /\ a <= k /\ k <= Len(longer) + 1 /\ k - 1 = Len(thread)
    BY <1>1
  <2> HIDE DEF k
  <2>2. \A i \in k..Len(longer) : longer[i].kind # "ai"
    BY DEF k
  <2>3. CallsIn(longer, a..Len(longer), names) = CallsIn(longer, a..(k - 1), names)
    BY <1>1, <2>1, <2>2, NoMoreCalls
  <2>4. CallsIn(longer, a..Len(thread), names) = CallsIn(thread, a..Len(thread), names)
    BY <1>1, SamePlaces
  <2> QED
    BY <2>1, <2>3, <2>4
<1> QED
  BY <1>2 DEF Bounded

\* What the consult read and was halted for stays so while the thread goes on.
LEMMA ConsultGoesOn ==
  ASSUME PlannerInv, plThread # <<>>, plPhase # "idle", NEW a, a = LastHuman(plThread), NEW k, k = Next1,
         GoesOn(plThread, plThread'), plCount' = plCount
  PROVE  /\ Earned(plCount', plThread', a, Len(plThread'))
         /\ Tallied(plCount', plThread', a, k - 1)
<1>1. /\ ConsultInv(a, k) /\ Len(plThread) \in Nat /\ a \in Nat /\ 1 <= a /\ k \in Nat /\ a <= k
      /\ a <= Len(plThread) /\ k <= Len(plThread) + 1
  BY PlacesAre
<1>2. Earned(plCount, plThread, a, Len(plThread)) /\ Tallied(plCount, plThread, a, k - 1)
  BY <1>1 DEF ConsultInv
<1>3. Len(plThread') \in Nat /\ Len(plThread) <= Len(plThread')
  BY LenProperties DEF GoesOn, PlannerThreads
<1>4. Earned(plCount, plThread', a, Len(plThread'))
  BY <1>1, <1>2, <1>3, EarnedStays
<1>5. k - 1 \in Int /\ k - 1 <= Len(plThread) /\ 0 <= k - 1
  BY <1>1
<1>6. Tallied(plCount, plThread', a, k - 1)
  BY <1>1, <1>2, <1>5, TalliedStays
<1> QED
  BY <1>4, <1>6

-----------------------------------------------------------------------------
(***************************************************************************)
(* Step by step.                                                           *)
(***************************************************************************)
LEMMA CallModelKeeps == ASSUME PlannerInv, CallModel PROVE PlannerInv'
<1>0. PICK a : a = LastHuman(plThread)
  OBVIOUS
<1>1. PICK k : k = Next1
  OBVIOUS
<1>2. /\ plPhase = "model" /\ plPhase' = "chunk" /\ plStage' = plStage /\ plSeen' = plSeen
      /\ plCount' = plCount /\ plConsult' = plConsult
  BY DEF CallModel
<1>3. plThread # <<>> /\ PlannerTyped
  BY <1>2 DEF PlannerInv
<1>4. /\ ConsultInv(a, k) /\ IsBase(plThread, a) /\ plThread \in PlannerThreads
      /\ Len(plThread) \in Nat /\ a \in Nat /\ 1 <= a /\ a <= Len(plThread)
      /\ k \in Nat /\ a <= k /\ k <= Len(plThread) + 1
  BY <1>0, <1>1, <1>3, PlacesAre
<1>5. /\ k = Len(plThread) + 1 /\ Spare(plThread, a) /\ Bounded(plThread, a)
      /\ plCount.halt = "time" => plTripped
  BY <1>2, <1>4 DEF ConsultInv
<1>6. ASSUME NEW calls \in CallLists, plThread' = Append(plThread, Said(calls)),
             plNext' = IF calls = <<>> THEN "end" ELSE "tools", plTripped' = plTripped
      PROVE  PlannerInv'
  <2>1. /\ plThread' \in PlannerThreads /\ Len(plThread') = Len(plThread) + 1
        /\ plThread'[Len(plThread')] = Said(calls) /\ GoesOn(plThread, plThread')
        /\ \A i \in (Len(plThread) + 1)..Len(plThread') : plThread'[i] = Said(calls)
    <3> DEFINE msg == Said(calls)
    <3>1. msg \in Messages /\ plThread' = Append(plThread, msg)
      BY <1>6, KindsMade
    <3> HIDE DEF msg
    <3>2. /\ plThread' \in PlannerThreads /\ Len(plThread') = Len(plThread) + 1
          /\ plThread'[Len(plThread) + 1] = msg /\ GoesOn(plThread, plThread')
          /\ \A i \in (Len(plThread) + 1)..Len(plThread') : plThread'[i] = msg
      <4>1. plThread' \in PlannerThreads /\ Len(plThread') = Len(plThread) + 1
        BY <1>4, <3>1, OneMoreSaid
      <4>2. plThread'[Len(plThread) + 1] = msg
        BY <1>4, <3>1, OneMoreSaid
      <4>3. GoesOn(plThread, plThread')
        BY <1>4, <3>1, OneMoreSaid
      <4>4. \A i \in (Len(plThread) + 1)..Len(plThread') : plThread'[i] = msg
        BY <1>4, <3>1, OneMoreSaid
      <4> QED
        BY <4>1, <4>2, <4>3, <4>4
    <3> QED
      BY <3>2 DEF msg
  <2>2. Said(calls) # Human /\ Said(calls).kind = "ai"
    BY KindsMade
  <2>3. /\ IsBase(plThread', a) /\ LastHuman(plThread') = a /\ Next1' = k /\ plThread' # <<>>
        /\ Len(plThread') \in Nat
    BY <1>0, <1>1, <1>2, <1>3, <2>1, <2>2, PlacesStay
  <2>4. Earned(plCount', plThread', a, Len(plThread')) /\ Tallied(plCount', plThread', a, k - 1)
    BY <1>0, <1>1, <1>2, <1>3, <2>1, ConsultGoesOn
  <2>5. Bounded(plThread', a)
    BY <1>4, <1>5, <1>6, OneMoreBounded
  <2>6. plNext' \in {"tools", "end"}
    BY <1>6
  <2>7. PlannerTyped'
    BY <1>2, <1>3, <1>6, <2>1, <2>6 DEF PlannerTyped
  <2>8. ConsultInv(a, k)'
    <3>1. k <= Len(plThread') + 1
      BY <1>4, <2>1
    <3>2. plCount'.halt = "time" => plTripped'
      BY <1>2, <1>5, <1>6
    <3>3. plThread'[Len(plThread')].kind = "ai"
      BY <2>1, <2>2
    <3>4. plPhase' = "chunk" /\ plNext' # "model"
      BY <1>2, <2>6
    <3> QED
      BY <1>4, <2>3, <2>4, <2>5, <3>1, <3>2, <3>3, <3>4 DEF ConsultInv
  <2> QED
    BY <2>3, <2>7, <2>8 DEF PlannerInv
<1>7. ASSUME plTripped' = TRUE, plNext' = "end", plThread' = plThread
      PROVE  PlannerInv'
  <2>1. PlannerTyped'
    BY <1>2, <1>3, <1>7 DEF PlannerTyped
  <2>2. LastHuman(plThread') = a /\ Next1' = k
    BY <1>0, <1>1, <1>2, <1>7 DEF Next1
  <2>3. ConsultInv(a, k)'
    BY <1>2, <1>4, <1>7 DEF ConsultInv
  <2> QED
    BY <1>3, <1>7, <2>1, <2>2, <2>3 DEF PlannerInv
<1>8. \/ \E calls \in CallLists :
           /\ plThread' = Append(plThread, Said(calls))
           /\ plNext' = IF calls = <<>> THEN "end" ELSE "tools"
           /\ plTripped' = plTripped
      \/ plTripped' = TRUE /\ plNext' = "end" /\ plThread' = plThread
  BY DEF CallModel, CallLists
<1> QED
  BY <1>6, <1>7, <1>8

LEMMA RunToolsKeeps == ASSUME PlannerInv, RunTools PROVE PlannerInv'
<1>0. PICK a : a = LastHuman(plThread)
  OBVIOUS
<1>1. PICK k : k = Next1
  OBVIOUS
<1>2. /\ plPhase = "tools" /\ plPhase' = "chunk" /\ plStage' = plStage /\ plSeen' = plSeen
      /\ plCount' = plCount /\ plConsult' = plConsult /\ plNext' = "model" /\ plTripped' = plTripped
  BY DEF RunTools
<1>3. plThread # <<>> /\ PlannerTyped
  BY <1>2 DEF PlannerInv
<1>4. /\ ConsultInv(a, k) /\ IsBase(plThread, a) /\ plThread \in PlannerThreads
      /\ Len(plThread) \in Nat /\ a \in Nat /\ 1 <= a /\ a <= Len(plThread)
      /\ k \in Nat /\ a <= k /\ k <= Len(plThread) + 1
  BY <1>0, <1>1, <1>3, PlacesAre
<1>5. /\ k = Len(plThread) + 1 /\ Bounded(plThread, a) /\ plThread[Len(plThread)].kind = "ai"
      /\ plCount.halt = "time" => plTripped
  BY <1>2, <1>4 DEF ConsultInv
<1> DEFINE calls == plThread[Len(plThread)].calls
           n == Len(calls)
<1>6. calls \in CallLists /\ n \in Nat /\ DOMAIN calls = 1..n
  <2>1. plThread[Len(plThread)] \in Messages
    BY <1>4, ElementOfSeq DEF PlannerThreads
  <2>2. calls \in CallLists
    BY <1>5, <2>1, MessageKinds
  <2> HIDE DEF calls
  <2> QED
    BY <2>2, CallListsAre
<1>7. PICK results \in [DOMAIN calls -> ToolResults] :
        plThread' = plThread \o [i \in DOMAIN calls |-> Result(results[i])]
  BY DEF RunTools, Last, ToolResults
<1> HIDE DEF calls, n
<1> DEFINE more == [i \in 1..n |-> Result(results[i])]
<1>8. more \in Seq(Messages) /\ Len(more) = n /\ \A i \in 1..n : more[i] = Result(results[i])
      /\ \A j \in 1..n : more[j].kind = "tool" /\ more[j] # Human
  <2>1. \A i \in 1..n : /\ Result(results[i]) \in Messages /\ Result(results[i]).kind = "tool"
                        /\ Result(results[i]) # Human
    BY <1>6, <1>7, KindsMade
  <2>2. more \in Seq(Messages)
    BY <1>6, <2>1
  <2>3. Len(more) = n
    BY <1>6
  <2> QED
    BY <2>1, <2>2, <2>3
<1>9. plThread' = plThread \o more
  BY <1>6, <1>7
<1> HIDE DEF more
<1>10. /\ plThread' \in PlannerThreads /\ Len(plThread') = Len(plThread) + n
       /\ \A i \in 1..Len(plThread) : plThread'[i] = plThread[i]
       /\ \A i \in (Len(plThread) + 1)..Len(plThread') : plThread'[i].kind = "tool" /\ plThread'[i] # Human
  <2>1. plThread \in Seq(Messages)
    BY <1>4 DEF PlannerThreads
  <2>2. plThread' \in PlannerThreads /\ Len(plThread') = Len(plThread) + n
    BY <1>8, <1>9, <2>1, ConcatProperties DEF PlannerThreads
  <2>3. \A i \in 1..Len(plThread') : plThread'[i] = IF i <= Len(plThread) THEN plThread[i]
                                                     ELSE more[i - Len(plThread)]
    BY <1>8, <1>9, <2>1, <2>2, ConcatProperties
  <2>4. \A i \in 1..Len(plThread) : plThread'[i] = plThread[i]
    BY <1>4, <1>6, <2>2, <2>3
  <2>5. ASSUME NEW i \in (Len(plThread) + 1)..Len(plThread')
        PROVE  plThread'[i].kind = "tool" /\ plThread'[i] # Human
    <3>1. i \in 1..Len(plThread') /\ ~(i <= Len(plThread)) /\ i - Len(plThread) \in 1..n
      BY <1>4, <1>6, <2>2
    <3>2. plThread'[i] = more[i - Len(plThread)]
      BY <2>3, <3>1
    <3> QED
      BY <1>8, <3>1, <3>2
  <2> QED
    BY <2>2, <2>4, <2>5
<1>11. GoesOn(plThread, plThread')
  BY <1>4, <1>6, <1>10 DEF GoesOn
<1>12. /\ IsBase(plThread', a) /\ LastHuman(plThread') = a /\ Next1' = k /\ plThread' # <<>>
       /\ Len(plThread') \in Nat
  BY <1>0, <1>1, <1>2, <1>3, <1>10, <1>11, PlacesStay
<1>13. Earned(plCount', plThread', a, Len(plThread')) /\ Tallied(plCount', plThread', a, k - 1)
  BY <1>0, <1>1, <1>2, <1>3, <1>11, ConsultGoesOn
<1>14. \A i \in (Len(plThread) + 1)..Len(plThread') : plThread'[i].kind # "ai"
  BY <1>10
<1>15. Bounded(plThread', a)
  BY <1>4, <1>5, <1>11, <1>14, BoundedStays
<1>16. PlannerTyped'
  BY <1>2, <1>3, <1>10 DEF PlannerTyped
<1>17. ConsultInv(a, k)'
  <2>1. k <= Len(plThread') + 1
    BY <1>4, <1>6, <1>10
  <2>2. plCount'.halt = "time" => plTripped'
    BY <1>2, <1>5
  <2>3. \A i \in k..Len(plThread') : plThread'[i].kind # "ai"
    BY <1>5, <1>14
  <2> QED
    BY <1>2, <1>4, <1>12, <1>13, <1>15, <2>1, <2>2, <2>3 DEF ConsultInv
<1> QED
  BY <1>12, <1>16, <1>17 DEF PlannerInv

LEMMA ReadChunkKeeps == ASSUME PlannerInv, ReadChunk PROVE PlannerInv'
<1>0. PICK a : a = LastHuman(plThread)
  OBVIOUS
<1>1. PICK k : k = Next1
  OBVIOUS
<1>2. /\ plPhase = "chunk" /\ plPhase' = plNext /\ plStage' = plStage /\ plSeen' = Len(plThread) + 1
      /\ plConsult' = plConsult /\ plNext' = plNext /\ plTripped' = plTripped /\ plThread' = plThread
      /\ plCount.halt = "no"
  BY DEF ReadChunk
<1>3. plThread # <<>> /\ PlannerTyped
  BY <1>2 DEF PlannerInv
<1>4. /\ ConsultInv(a, k) /\ IsBase(plThread, a) /\ plThread \in PlannerThreads
      /\ Len(plThread) \in Nat /\ a \in Nat /\ 1 <= a /\ a <= Len(plThread)
      /\ k \in Nat /\ a <= k /\ k <= Len(plThread) + 1
  BY <1>0, <1>1, <1>3, PlacesAre
<1>5. Tallied(plCount, plThread, a, k - 1) /\ Bounded(plThread, a)
  BY <1>2, <1>4 DEF ConsultInv
<1>6. plCount' = MessagesRead(plCount, SubSeq(plThread, k, Len(plThread)))
  BY <1>1 DEF ReadChunk, Next1, Baseline
<1>7. Tallied(plCount', plThread, a, Len(plThread))
  <2>1. Tallied(MessagesRead(plCount, SubSeq(plThread, k, Len(plThread))), plThread, a, Len(plThread))
    BY <1>4, <1>5, ChunkTallied
  <2> QED
    BY <1>6, <2>1
<1>8. PICK z : z = Len(plThread) + 1
  OBVIOUS
<1>9. Next1' = z /\ LastHuman(plThread') = a
  BY <1>0, <1>2, <1>4, <1>8 DEF Next1
<1>10. PlannerTyped'
  <2>1. plCount' \in Tallies /\ plCount'.total <= MaxPlannerCalls
    BY <1>7 DEF Tallied
  <2>2. plNext \in {"idle", "chunk", "model", "tools", "end"} /\ Len(plThread) + 1 \in Nat
    BY <1>3, <1>4 DEF PlannerTyped
  <2> QED
    BY <1>2, <1>3, <2>1, <2>2 DEF PlannerTyped
<1>11. plNext = "model" => Spare(plThread, a)
  <2> SUFFICES ASSUME plNext = "model" PROVE Spare(plThread, a)
    OBVIOUS
  <2>1. \A i \in k..Len(plThread) : plThread[i].kind # "ai"
    BY <1>2, <1>4 DEF ConsultInv
  <2>2. \A names : CallsIn(plThread, a..Len(plThread), names) = CallsIn(plThread, a..(k - 1), names)
    BY <1>4, <2>1, NoMoreCalls
  <2>3. /\ Going(plCount) /\ plCount.total = Cardinality(CallsIn(plThread, a..(k - 1), AllTools))
        /\ \A n \in PlanningTools : plCount.planning[n] = Cardinality(CallsIn(plThread, a..(k - 1), {n}))
    BY <1>2, <1>5 DEF Tallied
  <2> QED
    BY <2>2, <2>3 DEF Going, Spare
<1>12. ConsultInv(a, z)'
  <2>1. a <= z /\ z <= Len(plThread') + 1 /\ z = Len(plThread') + 1 /\ z - 1 = Len(plThread')
    BY <1>2, <1>4, <1>8
  <2>2. Earned(plCount', plThread', a, Len(plThread')) /\ plCount'.halt # "time"
    BY <1>2, <1>7 DEF Tallied
  <2>3. Tallied(plCount', plThread', a, z - 1) /\ IsBase(plThread', a) /\ Bounded(plThread', a)
    BY <1>2, <1>4, <1>5, <1>7, <2>1
  <2>4. plPhase' = "model" => Spare(plThread', a)
    BY <1>2, <1>11
  <2>5. plPhase' = "tools" => plThread'[Len(plThread')].kind = "ai"
    BY <1>2, <1>4 DEF ConsultInv
  <2>6. plPhase' # "chunk"
    BY <1>2, <1>3 DEF PlannerTyped
  <2> QED
    BY <2>1, <2>2, <2>3, <2>4, <2>5, <2>6 DEF ConsultInv
<1> QED
  BY <1>2, <1>3, <1>9, <1>10, <1>12 DEF PlannerInv

LEMMA EndTurnKeeps == ASSUME PlannerInv, EndTurn PROVE PlannerInv'
<1>0. PICK a : a = LastHuman(plThread)
  OBVIOUS
<1>1. PICK k : k = Next1
  OBVIOUS
<1> DEFINE halt == IF plCount.halt = "no" /\ plTripped THEN "time" ELSE plCount.halt
<1>2. /\ plPhase # "idle" /\ plPhase' = "idle" /\ plStage' = plStage /\ plSeen' = plSeen
      /\ plConsult' = plConsult /\ plNext' = plNext /\ plTripped' = plTripped /\ plThread' = plThread
      /\ plCount' = [plCount EXCEPT !.halt = halt]
  BY DEF EndTurn
<1>3. plThread # <<>> /\ PlannerTyped
  BY <1>2 DEF PlannerInv
<1>4. halt \in Halts /\ plCount \in Tallies
  BY <1>3 DEF PlannerTyped, Tallies, Halts
<1>5. /\ ConsultInv(a, k)
  BY <1>0, <1>1, <1>3, PlacesAre
<1>6. /\ plCount' \in Tallies /\ plCount'.total = plCount.total /\ plCount'.halt = halt
  <2> HIDE DEF halt
  <2> QED
    BY <1>2, <1>4, HaltedIs
<1>7. PlannerTyped'
  BY <1>2, <1>3, <1>6 DEF PlannerTyped
<1>8. Earned(plCount', plThread', a, Len(plThread')) /\ (plCount'.halt = "time" => plTripped')
  <2>1. Earned(plCount, plThread, a, Len(plThread)) /\ (plCount.halt = "time" => plTripped)
    BY <1>5 DEF ConsultInv
  <2>2. CASE plCount.halt = "no" /\ plTripped
    <3>1. plCount'.halt = "time" /\ plTripped'
      BY <1>2, <1>6, <2>2
    <3> QED
      BY <3>1 DEF Earned
  <2>3. CASE ~(plCount.halt = "no" /\ plTripped)
    <3>1. plCount'.halt = plCount.halt
      BY <1>6, <2>3
    <3> QED
      BY <1>2, <2>1, <3>1 DEF Earned
  <2> QED
    BY <2>2, <2>3
<1>9. ConsultInv(a, k)'
  BY <1>2, <1>5, <1>8 DEF ConsultInv
<1>10. LastHuman(plThread') = a /\ Next1' = k
  BY <1>0, <1>1, <1>2 DEF Next1
<1> QED
  BY <1>2, <1>3, <1>7, <1>9, <1>10 DEF PlannerInv

LEMMA StreamRaisesKeeps == ASSUME PlannerInv, StreamRaises PROVE PlannerInv'
<1>0. PICK a : a = LastHuman(plThread)
  OBVIOUS
<1>1. PICK k : k = Next1
  OBVIOUS
<1>2. /\ plPhase # "idle" /\ plPhase' = "idle" /\ plStage' = plStage /\ plSeen' = plSeen
      /\ plConsult' = plConsult /\ plNext' = plNext /\ plTripped' = plTripped /\ plThread' = plThread
      /\ plCount' = plCount
  BY DEF StreamRaises
<1>3. plThread # <<>> /\ PlannerTyped
  BY <1>2 DEF PlannerInv
<1>4. PlannerTyped'
  BY <1>2, <1>3 DEF PlannerTyped
<1>5. ConsultInv(a, k)
  BY <1>0, <1>1, <1>3, PlacesAre
<1>6. ConsultInv(a, k)'
  BY <1>2, <1>5 DEF ConsultInv
<1>7. LastHuman(plThread') = a /\ Next1' = k
  BY <1>0, <1>1, <1>2 DEF Next1
<1> QED
  BY <1>2, <1>3, <1>4, <1>6, <1>7 DEF PlannerInv

LEMMA PlannerKeeps == PlannerInv /\ [PlannerNext]_plVars => PlannerInv'
<1> SUFFICES ASSUME PlannerInv, [PlannerNext]_plVars PROVE PlannerInv'
  OBVIOUS
<1>1. CASE \E canAsk, canRead \in BOOLEAN : Consult(canAsk, canRead)
  BY <1>1, ConsultKeeps
<1>2. CASE PlannerStep
  BY <1>2, CallModelKeeps, RunToolsKeeps, ReadChunkKeeps, EndTurnKeeps DEF PlannerStep
<1>3. CASE StreamRaises
  BY <1>3, StreamRaisesKeeps
<1>4. CASE UNCHANGED plVars
  <2>0. PICK a : a = LastHuman(plThread)
    OBVIOUS
  <2>1. PICK k : k = Next1
    OBVIOUS
  <2>2. /\ plStage' = plStage /\ plThread' = plThread /\ plPhase' = plPhase /\ plNext' = plNext
        /\ plSeen' = plSeen /\ plCount' = plCount /\ plTripped' = plTripped /\ plConsult' = plConsult
    BY <1>4 DEF plVars
  <2>3. PlannerTyped'
    BY <2>2 DEF PlannerInv, PlannerTyped
  <2>4. LastHuman(plThread') = a /\ Next1' = k
    BY <2>0, <2>1, <2>2 DEF Next1
  <2>5. plThread # <<>> => ConsultInv(a, k)
    BY <2>0, <2>1 DEF PlannerInv
  <2>6. plThread # <<>> => ConsultInv(a, k)'
    BY <2>2, <2>5 DEF ConsultInv
  <2> QED
    BY <2>2, <2>3, <2>4, <2>6 DEF PlannerInv
<1> QED
  BY <1>1, <1>2, <1>3, <1>4 DEF PlannerNext

THEOREM PlannerInvariant == PlannerSpec => []PlannerInv
<1>1. PlannerInit => PlannerInv
  BY PlannerInitInv
<1>2. PlannerInv /\ [PlannerNext]_plVars => PlannerInv'
  BY PlannerKeeps
<1> QED
  BY <1>1, <1>2, PTL DEF PlannerSpec

LEMMA PlannerInvTypes == PlannerInv => PlannerTypeOK
<1> SUFFICES ASSUME PlannerInv PROVE PlannerTypeOK
  OBVIOUS
<1>1. PlannerTyped
  BY DEF PlannerInv
<1>2. plCount.total \in 0..MaxPlannerCalls /\ plCount.halt \in Halts
  BY <1>1, PlannerBounds DEF PlannerTyped, Tallies
<1> QED
  BY <1>1, <1>2 DEF PlannerTyped, PlannerTypeOK, Halts, Range

(***************************************************************************)
(* Every value a consult counts and every phase it is in is of its type.   *)
(***************************************************************************)
THEOREM PlannerTypeCorrect == PlannerSpec => []PlannerTypeOK
  BY PlannerInvariant, PlannerInvTypes, PTL

LEMMA PlannerInvGuards == PlannerInv => PlannerGuardsAreExact
<1> SUFFICES ASSUME PlannerInv PROVE PlannerGuardsAreExact
  OBVIOUS
<1>1. CASE plThread = <<>>
  <2>1. plCount.halt = "no"
    BY <1>1 DEF PlannerInv
  <2> QED
    BY <1>1, <2>1 DEF PlannerGuardsAreExact, PlannerHaltIsEarned, PlannerCallsAreBounded
<1>2. CASE plThread # <<>>
  <2>1. ConsultInv(LastHuman(plThread), Next1) /\ plCount \in Tallies
    BY <1>2 DEF PlannerInv, PlannerTyped
  <2>2. /\ Earned(plCount, plThread, LastHuman(plThread), Len(plThread))
        /\ plCount.halt = "time" => plTripped
        /\ Bounded(plThread, LastHuman(plThread))
    BY <2>1 DEF ConsultInv
  <2>3. plCount.halt \in Halts
    BY <2>1 DEF Tallies
  <2>4. PlannerHaltIsEarned
    BY <2>2, <2>3 DEF PlannerHaltIsEarned, Earned, Own, Halts
  <2>5. PlannerCallsAreBounded
    BY <2>2 DEF PlannerCallsAreBounded, Bounded, Own, CallLists
  <2> QED
    BY <2>4, <2>5 DEF PlannerGuardsAreExact
<1> QED
  BY <1>1, <1>2

(***************************************************************************)
(* A consult is halted only for what it asked and what came back to it     *)
(* since the message it sent, and asks for no more than its bounds and     *)
(* what one more message holds: _stream_planner_turn and its counters.     *)
(***************************************************************************)
THEOREM GuardsAreExact == PlannerSpec => []PlannerGuardsAreExact
  BY PlannerInvariant, PlannerInvGuards, PTL

-----------------------------------------------------------------------------
(***************************************************************************)
(* The three side by side: each takes its own steps or stands still.       *)
(***************************************************************************)
LEMMA ModelsParts ==
  /\ ModelsInit => Init /\ PlannerInit /\ FactsInit
  /\ [ModelsNext]_modelsVars => [Next]_vars /\ [PlannerNext]_plVars /\ [FactsNext]_fcVars
<1>1. ModelsInit => Init /\ PlannerInit /\ FactsInit
  BY DEF ModelsInit
<1>2. UNCHANGED modelsVars => UNCHANGED vars /\ UNCHANGED plVars /\ UNCHANGED fcVars
  BY DEF modelsVars
<1>3. ModelsNext => [Next]_vars /\ [PlannerNext]_plVars /\ [FactsNext]_fcVars
  BY DEF ModelsNext, OfCalls, OfPlanner
<1> QED
  BY <1>1, <1>2, <1>3

(***************************************************************************)
(* Beside the others, calls and planner keep the invariants of their own   *)
(* specifications, and the facts behave as theirs says.                    *)
(***************************************************************************)
THEOREM ModelsImplementsItsParts == ModelsSpec => []CallsInv /\ []PlannerInv /\ FactsSpec
<1>1. ModelsInit => CallsInv /\ PlannerInv
  BY ModelsParts, CallsInvInit, PlannerInitInv
<1>2. CallsInv /\ [ModelsNext]_modelsVars => CallsInv'
  BY ModelsParts, CallsInvStep
<1>3. PlannerInv /\ [ModelsNext]_modelsVars => PlannerInv'
  BY ModelsParts, PlannerKeeps
<1> QED
  BY <1>1, <1>2, <1>3, ModelsParts, PTL DEF ModelsSpec, FactsSpec

(***************************************************************************)
(* The variables of calls, planner and facts keep their types in the       *)
(* machine TLC runs, for every value of its constants.                     *)
(***************************************************************************)
THEOREM ModelsTypeCorrect == ModelsSpec => []ModelsTypeOK
<1>1. TypeOK /\ PlannerTypeOK /\ FactsTypeOK => ModelsTypeOK
  BY DEF ModelsTypeOK
<1> QED
  BY <1>1, ModelsImplementsItsParts, CallsInvTypes, PlannerInvTypes, FactsTypeCorrect, PTL

(***************************************************************************)
(* And in that machine no slot is lost and no consult is stopped, or let   *)
(* go on, but by its own doing.                                            *)
(***************************************************************************)
THEOREM ModelsAreSafe == ModelsSpec => []SlotsAreConserved /\ []PlannerGuardsAreExact
<1>1. CallsInv => SlotsAreConserved
  BY DEF CallsInv, SlotInv, Slots, SlotsAreConserved
<1> QED
  BY <1>1, ModelsImplementsItsParts, PlannerInvGuards, PTL

=============================================================================
