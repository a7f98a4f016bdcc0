------------------------------ MODULE ModelCalls ------------------------------
(***************************************************************************)
(* middleware/model_retry.py, llm/retry.py, llm/concurrency.py and the     *)
(* stream retry of permissions/approval.py: the model calls of agents that *)
(* run at once, as those of a batch do, and share an endpoint.  A call     *)
(* waits for a slot of its endpoint, is issued again after a failure that  *)
(* may pass, and keeps its slot until it has an answer or is given up.     *)
(* Around the calls, an invocation nothing was seen of is started again.   *)
(* Durations are left out.                                                 *)
(***************************************************************************)
EXTENDS Integers, FiniteSets, Sequences, SequencesExt

CONSTANTS
  Agents, Roles, RoleOf,      \* agents invoked at once, one asyncio task each
  Endpoints, EndpointOf,      \* effective_base_url of each role
  Limit,                      \* resolve_endpoint_concurrency
  MaxAttempts,                \* one more than the waits of retry_delays
  MaxCalls,                   \* bound of the model: answers in one invocation
  MaxInvocations              \* bound of the model: invocations of one agent

ASSUME ModelCallsAssumption ==
  /\ IsFiniteSet(Agents)
  /\ RoleOf \in [Agents -> Roles] /\ EndpointOf \in [Roles -> Endpoints]
  /\ Limit \in [Endpoints -> Nat \ {0}]
  /\ {MaxAttempts, MaxCalls, MaxInvocations} \subseteq Nat \ {0}

VARIABLES
  phase,
  attempt,                \* of the call in progress, 1 outside one
  stream, yielded,        \* of the invocation: its attempt, and whether a chunk was seen
  sem,                    \* asyncio.Semaphore of each endpoint
  served,                 \* RunUsage.served_roles
  answers, invocations,   \* the model's answers in this invocation; invocations so far
  failures, outcome,      \* history: how the call in progress failed; how the last invocation ended
  answered                \* history: the roles a call of which was answered

callVars == <<phase, attempt, failures>>
streamVars == <<stream, yielded, answers, invocations>>
vars == <<callVars, streamVars, sem, served, outcome, answered>>

Phases == {"idle", "graph", "acquiring", "calling", "backoff", "restart"}
Outcomes == {"none", "answered", "unavailable", "raised", "cancelled"}

\* By x-should-retry, by status or by class name: worth another attempt, a
\* model the endpoint does not have, or any other failure.
Errors == {"transient", "missing", "fatal"}

Endpoint(a) == EndpointOf[RoleOf[a]]

\* semaphore_for: a limit of one gates nothing.
Gated(a) == Limit[Endpoint(a)] > 1

-----------------------------------------------------------------------------
(***************************************************************************)
(* asyncio.Semaphore (external): first come, first served.  A waiter that  *)
(* was woken has its slot and is still in line until it runs.              *)
(***************************************************************************)
Asleep(s) == {i \in DOMAIN s.waiters : s.waiters[i] \notin s.woken}

\* _wake_up_next, at most n times: the first of the line that sleep.
FirstAsleep(s, n) ==
  CHOOSE first \in SUBSET Asleep(s) :
    /\ Cardinality(first) <= n /\ Cardinality(first) <= s.value
    /\ \/ first = Asleep(s) \/ Cardinality(first) = n \/ Cardinality(first) = s.value
    /\ \A i \in first, j \in Asleep(s) \ first : i < j

Woken(s, n) ==
  [s EXCEPT !.value = @ - Cardinality(FirstAsleep(s, n)),
            !.woken = @ \cup {s.waiters[i] : i \in FirstAsleep(s, n)}]

Locked(s) == s.value = 0 \/ s.waiters # <<>>

Entered(s, a) ==
  IF Locked(s) THEN [s EXCEPT !.waiters = Append(@, a)] ELSE [s EXCEPT !.value = @ - 1]

OutOfLine(s, a) ==
  LET place == CHOOSE i \in DOMAIN s.waiters : s.waiters[i] = a
  IN  [s EXCEPT !.waiters = RemoveAt(@, place), !.woken = @ \ {a}]

Released(s) == Woken([s EXCEPT !.value = @ + 1], 1)

Resumed(s, a) == Woken(OutOfLine(s, a), Cardinality(Agents))

\* Mutant: a waiter that is cancelled with its slot keeps it.
GaveUpWithSlot(s, a) == Woken(OutOfLine(s, a), Cardinality(Agents))

\* Cancelled while in line: a slot already given is given back.
GaveUpWaiting(s, a) ==
  Woken([OutOfLine(s, a) EXCEPT !.value = IF a \in s.woken THEN @ + 1 ELSE @],
        Cardinality(Agents))

SlotBack(a) == IF Gated(a) THEN [sem EXCEPT ![Endpoint(a)] = Released(@)] ELSE sem

-----------------------------------------------------------------------------
Init ==
  /\ phase = [a \in Agents |-> "idle"]
  /\ attempt = [a \in Agents |-> 1] /\ stream = [a \in Agents |-> 1]
  /\ yielded = [a \in Agents |-> FALSE]
  /\ sem = [e \in Endpoints |-> [value |-> Limit[e], waiters |-> <<>>, woken |-> {}]]
  /\ served = {} /\ answered = {}
  /\ answers = [a \in Agents |-> 0] /\ invocations = [a \in Agents |-> 0]
  /\ failures = [a \in Agents |-> <<>>] /\ outcome = [a \in Agents |-> "none"]

\* The graph of an agent, from outside: it is built, yields chunks, calls its
\* model, and ends.
Invoke(a) ==
  /\ phase[a] = "idle" /\ invocations[a] < MaxInvocations
  /\ invocations' = [invocations EXCEPT ![a] = @ + 1]
  /\ phase' = [phase EXCEPT ![a] = "graph"]
  /\ outcome' = [outcome EXCEPT ![a] = "none"] /\ failures' = [failures EXCEPT ![a] = <<>>]
  /\ UNCHANGED <<attempt, stream, yielded, answers, sem, served, answered>>

Returns(a, result) ==
  /\ phase' = [phase EXCEPT ![a] = "idle"] /\ outcome' = [outcome EXCEPT ![a] = result]
  /\ stream' = [stream EXCEPT ![a] = 1] /\ yielded' = [yielded EXCEPT ![a] = FALSE]
  /\ answers' = [answers EXCEPT ![a] = 0] /\ UNCHANGED invocations

Yields(a) ==
  /\ phase[a] = "graph" /\ ~yielded[a]
  /\ yielded' = [yielded EXCEPT ![a] = TRUE]
  /\ UNCHANGED <<callVars, stream, answers, invocations, sem, served, outcome, answered>>

Finish(a) ==
  /\ phase[a] = "graph"
  /\ Returns(a, "answered")
  /\ UNCHANGED <<attempt, failures, sem, served, answered>>

-----------------------------------------------------------------------------
(***************************************************************************)
(* awrap_model_call and _retrying_call.                                    *)
(***************************************************************************)
Call(a) ==
  /\ phase[a] = "graph" /\ answers[a] < MaxCalls
  /\ IF Gated(a)
       THEN /\ sem' = [sem EXCEPT ![Endpoint(a)] = Entered(@, a)]
            /\ phase' = [phase EXCEPT ![a] =
                           IF Locked(sem[Endpoint(a)]) THEN "acquiring" ELSE "calling"]
       ELSE phase' = [phase EXCEPT ![a] = "calling"] /\ UNCHANGED sem
  /\ UNCHANGED <<attempt, failures, streamVars, served, outcome, answered>>

Acquire(a) ==
  /\ phase[a] = "acquiring" /\ a \in sem[Endpoint(a)].woken
  /\ sem' = [sem EXCEPT ![Endpoint(a)] = Resumed(@, a)]
  /\ phase' = [phase EXCEPT ![a] = "calling"]
  /\ UNCHANGED <<attempt, failures, streamVars, served, outcome, answered>>

Ended(a) == attempt' = [attempt EXCEPT ![a] = 1]

Answer(a) ==
  /\ phase[a] = "calling"
  /\ Ended(a) /\ failures' = [failures EXCEPT ![a] = <<>>]
  /\ served' = served \cup {RoleOf[a]} /\ answered' = answered \cup {RoleOf[a]}
  /\ sem' = SlotBack(a)
  /\ phase' = [phase EXCEPT ![a] = "graph"]
  /\ answers' = [answers EXCEPT ![a] = @ + 1] /\ yielded' = [yielded EXCEPT ![a] = TRUE]
  /\ UNCHANGED <<stream, invocations, outcome>>

\* Mutant: a role's answers are forgotten with the agent that had them.
HasServedHere(a) == answers[a] > 0

HasServed(a) == RoleOf[a] \in served

IsTransient(error, known) == error = "transient" \/ (known /\ error = "missing")

\* Mutant: the last attempt is the last wait.
LastWait(a) == attempt[a] >= MaxAttempts - 1

LastAttempt(a) == attempt[a] = MaxAttempts

Fails(a, error) ==
  /\ phase[a] = "calling"
  /\ failures' = [failures EXCEPT ![a] = Append(@, error)]
  /\ UNCHANGED <<served, answered>>

\* The wait before the next attempt, with the slot.
BackOff(a, error) ==
  /\ Fails(a, error)
  /\ IsTransient(error, HasServed(a)) /\ ~LastAttempt(a)
  /\ phase' = [phase EXCEPT ![a] = "backoff"]
  /\ UNCHANGED <<attempt, streamVars, sem, outcome>>

Reissue(a) ==
  /\ phase[a] = "backoff"
  /\ phase' = [phase EXCEPT ![a] = "calling"] /\ attempt' = [attempt EXCEPT ![a] = @ + 1]
  /\ UNCHANGED <<failures, streamVars, sem, served, outcome, answered>>

-----------------------------------------------------------------------------
(***************************************************************************)
(* What a call raised reaches _stream_with_retry, without its slot.        *)
(***************************************************************************)
\* Mutant: an invocation is started again whatever was seen of it.
RestartableAnyway(a) == stream[a] < MaxAttempts

\* Mutant: nothing bounds how often.
RestartableForEver(a) == ~yielded[a]

Restartable(a) == ~yielded[a] /\ stream[a] < MaxAttempts

\* ProviderUnavailable; it is itself transient when its text names such a status.
GiveUp(a, error) ==
  /\ Fails(a, error)
  /\ IsTransient(error, HasServed(a)) /\ LastAttempt(a)
  /\ Ended(a) /\ sem' = SlotBack(a)
  /\ \/ /\ Restartable(a)
        /\ phase' = [phase EXCEPT ![a] = "restart"] /\ UNCHANGED <<streamVars, outcome>>
     \/ Returns(a, "unavailable")

Raise(a, error) ==
  /\ Fails(a, error)
  /\ ~IsTransient(error, HasServed(a))
  /\ Ended(a) /\ sem' = SlotBack(a)
  /\ Returns(a, "raised")

\* Mutant: restarts are not counted.
RestartUncounted(a) ==
  /\ phase[a] = "restart"
  /\ phase' = [phase EXCEPT ![a] = "graph"] /\ failures' = [failures EXCEPT ![a] = <<>>]
  /\ UNCHANGED <<attempt, streamVars, sem, served, outcome, answered>>

Restart(a) ==
  /\ phase[a] = "restart"
  /\ phase' = [phase EXCEPT ![a] = "graph"] /\ stream' = [stream EXCEPT ![a] = @ + 1]
  /\ failures' = [failures EXCEPT ![a] = <<>>]
  /\ UNCHANGED <<attempt, yielded, answers, invocations, sem, served, outcome,
                 answered>>

\* Ctrl-C, or the batch giving up its siblings, at any await.
Cancel(a) ==
  /\ phase[a] # "idle"
  /\ sem' = CASE phase[a] = "acquiring" ->
                   [sem EXCEPT ![Endpoint(a)] = GaveUpWaiting(@, a)]
              [] phase[a] \in {"calling", "backoff"} -> SlotBack(a)
              [] OTHER -> sem
  /\ Returns(a, "cancelled")
  /\ Ended(a) /\ failures' = [failures EXCEPT ![a] = <<>>]
  /\ UNCHANGED <<served, answered>>

-----------------------------------------------------------------------------
Step(a) ==
  \/ Yields(a) \/ Finish(a)
  \/ Call(a) \/ Acquire(a) \/ Answer(a) \/ Reissue(a)
  \/ \E error \in Errors : BackOff(a, error) \/ GiveUp(a, error) \/ Raise(a, error)
  \/ Restart(a)

Next == \E a \in Agents : Invoke(a) \/ Step(a) \/ Cancel(a)

Spec == Init /\ [][Next]_vars /\ \A a \in Agents : WF_vars(Step(a))

-----------------------------------------------------------------------------
TypeOK ==
  /\ phase \in [Agents -> Phases] /\ outcome \in [Agents -> Outcomes]
  /\ attempt \in [Agents -> 1..MaxAttempts] /\ stream \in [Agents -> 1..MaxAttempts]
  /\ yielded \in [Agents -> BOOLEAN]
  /\ answers \in [Agents -> 0..MaxCalls] /\ invocations \in [Agents -> 0..MaxInvocations]
  /\ DOMAIN sem = Endpoints
  /\ \A e \in Endpoints :
       /\ sem[e].value \in 0..Limit[e] /\ sem[e].woken \subseteq Agents
       /\ sem[e].waiters \in Seq(Agents)
  /\ served \subseteq Roles /\ answered \subseteq Roles
  /\ failures \in [Agents -> Seq(Errors)]

(***************************************************************************)
(* Every slot of an endpoint is free, given to one woken waiter, or held   *)
(* by one call, in whatever way calls end: no more calls are in flight     *)
(* than the endpoint takes, and none is lost to one that was cancelled.    *)
(***************************************************************************)
Holders(e) == {a \in Agents : Endpoint(a) = e /\ phase[a] \in {"calling", "backoff"}}

SlotsAreConserved ==
  \A e \in Endpoints :
    Limit[e] > 1 => sem[e].value + Cardinality(sem[e].woken) + Cardinality(Holders(e)) = Limit[e]

(***************************************************************************)
(* An agent gives an endpoint up only when every attempt of one call       *)
(* failed, each in a way that may pass.                                    *)
(***************************************************************************)
GivesUpOnEvidence ==
  \A a \in Agents :
    outcome[a] = "unavailable" =>
      Len(failures[a]) = MaxAttempts /\ \A i \in 1..MaxAttempts : failures[a][i] # "fatal"

(***************************************************************************)
(* Once any agent of a role was answered, no agent of that role, built     *)
(* before or after, is ended by one report that the model is missing.      *)
(***************************************************************************)
AnsweredIsNotMissing ==
  [][\A a \in Agents :
       outcome[a] = "none" /\ outcome'[a] = "raised" /\ RoleOf[a] \in answered
         => Last(failures'[a]) = "fatal"]_vars

(***************************************************************************)
(* An invocation is never started again once its model answered: what its  *)
(* tools did would be done twice.                                          *)
(***************************************************************************)
AnsweredIsNotReplayed == \A a \in Agents : phase[a] = "restart" => answers[a] = 0

(***************************************************************************)
(* Both layers retry and give up for cause: no endpoint is given up on     *)
(* less than its evidence, nothing answered is played again, and no role   *)
(* that was answered is lost to one report.                                *)
(***************************************************************************)
RetriesHaveCause ==
  []GivesUpOnEvidence /\ []AnsweredIsNotReplayed /\ AnsweredIsNotMissing

(***************************************************************************)
(* Every invocation ends, however many wait for its endpoint and however   *)
(* they are cancelled: no slot is waited for in vain.                      *)
(***************************************************************************)
InvocationEnds == \A a \in Agents : (phase[a] # "idle") ~> (phase[a] = "idle")
=============================================================================
