------------------------------ MODULE Run_proofs ------------------------------
(*****************************************************************************)
(* What is proved of the run's keepers: of the permissions every tool call   *)
(* passes (Permissions) and of the memories it keeps (Memory).               *)
(*****************************************************************************)
EXTENDS MCRun, WorkLoop_proofs, RecursiveFunctions, SequenceTheorems

Effects == {"allow", "deny", "ask"}
Replies == {"none", "ask", "approve", "reject", "done"}
Batches == PermBatches \cup {<<>>}
ReplyMaps == UNION {[DOMAIN b -> Replies] : b \in Batches}
AgentRecord == [phase : {"idle", "asked", "tools", "raised"}, batch : Batches, reply : ReplyMaps]

(***************************************************************************)
(* PermissionEngine.decide answers one of three words.                     *)
(***************************************************************************)
LEMMA DecideCases ==
  ASSUME NEW grants, NEW call, pmMode \in {"ask", "plan", "auto"}
  PROVE  Decide(grants, call) \in Effects
  BY DEF Decide, ByMode, Effects

(***************************************************************************)
(* What the project denies is decided against, whatever was granted: the   *)
(* tools nobody is asked about have no rule and no floor.                  *)
(***************************************************************************)
LEMMA DeniedIsDecided ==
  ASSUME NEW grants, NEW call, Decide(grants, call) # "deny"
  PROVE  ~AnyMatches(DenyRules, call, FALSE) /\ FloorHit(call) \subseteq FloorDisabled
<1>1. CASE Ungated(call)
  <2>1. ~AnyMatches(DenyRules, call, FALSE)
    BY <1>1, PermissionsAssumption DEF Ungated, AnyMatches, RuleMatches
  <2>2. FloorHit(call) = {}
    BY <1>1 DEF Ungated, FloorHit, CONTROL_PLANE, WRAPPED_EXECUTE
  <2> QED
    BY <2>1, <2>2
<1>2. CASE ~Ungated(call)
  BY <1>2 DEF Decide, Denied
<1> QED
  BY <1>1, <1>2

\* A step grants more, or nothing new.
GrantsGrow ==
  /\ pmMode' = pmMode
  /\ (pmGrants.all => pmGrants'.all) /\ pmGrants.rules \subseteq pmGrants'.rules

(***************************************************************************)
(* A call that need not be asked about does not become one that must be    *)
(* when more is granted.                                                   *)
(***************************************************************************)
LEMMA GrantsSettle ==
  ASSUME GrantsGrow, NEW call, Decide(pmGrants, call) # "ask"
  PROVE  Decide(pmGrants, call)' # "ask"
<1>1. GrantedBy(pmGrants, call) => GrantedBy(pmGrants, call)'
  BY DEF GrantsGrow, GrantedBy, AnyMatches
<1>2. ByMode(call)' = ByMode(call)
  BY DEF GrantsGrow, ByMode
<1> QED
  BY <1>1, <1>2 DEF Decide

-----------------------------------------------------------------------------
(***************************************************************************)
(* The inductive invariant.  A message has a reply for each of its calls;  *)
(* while its calls may still run, one that was not asked about is one that *)
(* need not be, and every other has its answer.                            *)
(***************************************************************************)
Shape ==
  /\ pmMode \in {"ask", "plan", "auto"} /\ pmAgent \in [PermAgents -> AgentRecord]
  /\ \A a \in PermAgents : pmAgent[a].reply \in [DOMAIN pmAgent[a].batch -> Replies]

Settled(a) ==
  \A i \in DOMAIN pmAgent[a].batch :
    /\ pmAgent[a].phase \in {"asked", "tools"} /\ pmAgent[a].reply[i] = "none" =>
         ~Interrupts(a, pmAgent[a].batch[i])
    /\ pmAgent[a].phase = "asked" => pmAgent[a].reply[i] \in {"none", "ask"}
    /\ pmAgent[a].phase = "tools" => pmAgent[a].reply[i] # "ask"

CInv == Shape /\ \A a \in PermAgents : Settled(a)

LEMMA CInvInit == PermissionsInit => CInv
<1> SUFFICES ASSUME PermissionsInit PROVE CInv
  OBVIOUS
<1>1. <<>> \in Batches /\ <<>> \in [DOMAIN <<>> -> Replies]
  BY DEF Batches
<1>2. <<>> \in ReplyMaps
  BY <1>1 DEF ReplyMaps
<1>3. Shape
  BY <1>1, <1>2 DEF PermissionsInit, Shape, AgentRecord
<1>4. \A a \in PermAgents : Settled(a)
  BY DEF PermissionsInit, Settled
<1> QED
  BY <1>3, <1>4 DEF CInv

(***************************************************************************)
(* How an agent's record changes: to one of the same shape.                *)
(***************************************************************************)
LEMMA ShapeKept ==
  ASSUME Shape, NEW a \in PermAgents, pmMode' = pmMode,
         NEW phase \in {"idle", "asked", "tools", "raised"},
         NEW batch \in Batches, NEW reply \in [DOMAIN batch -> Replies],
         pmAgent' = [pmAgent EXCEPT ![a] = [phase |-> phase, batch |-> batch, reply |-> reply]]
  PROVE  Shape'
<1>1. reply \in ReplyMaps
  BY DEF ReplyMaps
<1>2. pmAgent' \in [PermAgents -> AgentRecord]
  BY <1>1 DEF Shape, AgentRecord
<1>3. \A b \in PermAgents : pmAgent'[b].reply \in [DOMAIN pmAgent'[b].batch -> Replies]
  BY DEF Shape
<1> QED
  BY <1>2, <1>3 DEF Shape

(***************************************************************************)
(* An agent whose record stays is still settled once more is granted.      *)
(***************************************************************************)
LEMMA SettledStays ==
  ASSUME GrantsGrow, NEW a \in PermAgents, Settled(a), pmAgent'[a] = pmAgent[a]
  PROVE  Settled(a)'
<1>1. \A call : ~Interrupts(a, call) => ~Interrupts(a, call)'
  BY GrantsSettle DEF Interrupts, GrantsOf
<1> QED
  BY <1>1 DEF Settled

-----------------------------------------------------------------------------
LEMMA ProposeStep ==
  ASSUME CInv, NEW a \in PermAgents, NEW batch \in PermBatches, Propose(a, batch)
  PROVE  CInv'
<1> DEFINE phase == IF \E i \in DOMAIN batch : Interrupts(a, batch[i]) THEN "asked" ELSE "tools"
           reply == [i \in DOMAIN batch |-> IF Interrupts(a, batch[i]) THEN "ask" ELSE "none"]
<1>1. pmAgent' = [pmAgent EXCEPT ![a] = [phase |-> phase, batch |-> batch, reply |-> reply]]
  BY DEF Propose
<1>2. phase \in {"asked", "tools"} /\ reply \in [DOMAIN batch -> Replies] /\ batch \in Batches
  BY DEF Replies, Batches
<1>3. GrantsGrow
  BY DEF Propose, GrantsGrow
<1>4. Shape'
  <2> HIDE DEF phase, reply
  <2> QED
    BY <1>1, <1>2, <1>3, ShapeKept DEF CInv, GrantsGrow
<1>5. Settled(a)'
  <2>1. pmAgent'[a] = [phase |-> phase, batch |-> batch, reply |-> reply]
    BY <1>1 DEF CInv, Shape
  <2>2. \A call : Interrupts(a, call)' = Interrupts(a, call)
    BY DEF Propose, Interrupts, GrantsOf, Decide, ByMode
  <2> QED
    BY <2>1, <2>2 DEF Settled
<1>6. \A b \in PermAgents \ {a} : Settled(b)'
  BY <1>1, <1>3, SettledStays DEF CInv, Shape
<1> QED
  BY <1>4, <1>5, <1>6 DEF CInv

LEMMA PromptStep ==
  ASSUME CInv, NEW a \in PermAgents, Prompt(a)
  PROVE  CInv'
<1> DEFINE batch == pmAgent[a].batch
<1>1. PICK end :
        /\ pmGrants' = [rules |-> pmGrants.rules \cup end.grants.rules,
                        all |-> pmGrants.all \/ end.grants.all]
        /\ pmAgent' = [pmAgent EXCEPT ![a] =
          [phase |-> AfterRound(a), batch |-> batch,
           reply |-> [i \in DOMAIN batch |->
             IF pmAgent[a].reply[i] # "ask" THEN "none"
             ELSE IF i \in end.approved THEN "approve" ELSE "reject"]]]
  BY DEF Prompt
<1>2. GrantsGrow
  <2>1. pmMode' = pmMode
    BY DEF Prompt
  <2> QED
    BY <1>1, <2>1 DEF GrantsGrow
<1>3. pmAgent[a] \in AgentRecord /\ pmAgent[a].reply \in [DOMAIN batch -> Replies]
  BY DEF CInv, Shape
<1> DEFINE reply == [i \in DOMAIN batch |->
             IF pmAgent[a].reply[i] # "ask" THEN "none"
             ELSE IF i \in end.approved THEN "approve" ELSE "reject"]
<1>4. pmAgent' = [pmAgent EXCEPT ![a] = [phase |-> AfterRound(a), batch |-> batch, reply |-> reply]]
  BY <1>1
<1>5. AfterRound(a) \in {"raised", "tools"} /\ batch \in Batches /\ reply \in [DOMAIN batch -> Replies]
  BY <1>3 DEF AfterRound, AgentRecord, Replies
<1>6. Shape'
  <2> HIDE DEF batch, reply
  <2> QED
    BY <1>2, <1>4, <1>5, ShapeKept DEF CInv, GrantsGrow
<1>7. Settled(a)'
  <2>1. pmAgent'[a] = [phase |-> AfterRound(a), batch |-> batch, reply |-> reply]
    BY <1>4 DEF CInv, Shape
  <2>2. pmAgent[a].phase = "asked"
    BY DEF Prompt
  <2>3. \A call : ~Interrupts(a, call) => ~Interrupts(a, call)'
    BY <1>2, GrantsSettle DEF Interrupts, GrantsOf
  <2>4. ASSUME NEW i \in DOMAIN batch, reply[i] = "none"
        PROVE  ~Interrupts(a, batch[i])
    <3>1. pmAgent[a].reply[i] # "ask"
      BY <2>4
    <3> QED
      BY <2>2, <3>1 DEF CInv, Settled
  <2>5. \A i \in DOMAIN batch : reply[i] # "ask"
    OBVIOUS
  <2> HIDE DEF reply
  <2> QED
    BY <1>5, <2>1, <2>3, <2>4, <2>5 DEF Settled
<1>8. \A b \in PermAgents \ {a} : Settled(b)'
  BY <1>4, <1>2, SettledStays DEF CInv, Shape
<1> QED
  BY <1>6, <1>7, <1>8 DEF CInv

LEMMA RunCallStep ==
  ASSUME CInv, NEW a \in PermAgents, NEW i \in DOMAIN pmAgent[a].batch, RunCall(a, i)
  PROVE  CInv'
<1> DEFINE batch == pmAgent[a].batch
           reply == [pmAgent[a].reply EXCEPT ![i] = "done"]
           last == \A j \in DOMAIN batch : j = i \/ pmAgent[a].reply[j] = "done"
           phase == IF last THEN "idle" ELSE "tools"
<1>1. pmAgent[a] \in AgentRecord /\ pmAgent[a].reply \in [DOMAIN batch -> Replies]
      /\ pmAgent[a].phase = "tools"
  BY DEF CInv, Shape, RunCall
<1>2. GrantsGrow
  BY DEF RunCall, GrantsGrow
<1>3. pmAgent' = [pmAgent EXCEPT ![a] = [phase |-> phase, batch |-> batch, reply |-> reply]]
  BY DEF RunCall
<1>4. phase \in {"idle", "tools"} /\ batch \in Batches /\ reply \in [DOMAIN batch -> Replies]
  BY <1>1 DEF AgentRecord, Replies
<1>5. Shape'
  <2> HIDE DEF batch, reply, phase
  <2> QED
    BY <1>2, <1>3, <1>4, ShapeKept DEF CInv, GrantsGrow
<1>6. Settled(a)'
  <2>1. pmAgent'[a] = [phase |-> phase, batch |-> batch, reply |-> reply]
    BY <1>3 DEF CInv, Shape
  <2>2. \A call : ~Interrupts(a, call) => ~Interrupts(a, call)'
    BY <1>2, GrantsSettle DEF Interrupts, GrantsOf
  <2>3. \A j \in DOMAIN batch : reply[j] \in {pmAgent[a].reply[j], "done"}
    BY <1>1
  <2>4. \A j \in DOMAIN batch :
          /\ pmAgent[a].reply[j] = "none" => ~Interrupts(a, batch[j])
          /\ pmAgent[a].reply[j] # "ask"
    BY <1>1 DEF CInv, Settled
  <2>5. phase # "asked"
    OBVIOUS
  <2> HIDE DEF reply, phase
  <2> QED
    BY <2>1, <2>2, <2>3, <2>4, <2>5 DEF Settled
<1>7. \A b \in PermAgents \ {a} : Settled(b)'
  BY <1>2, <1>3, SettledStays DEF CInv, Shape
<1> QED
  BY <1>5, <1>6, <1>7 DEF CInv

LEMMA NextStreamStep ==
  ASSUME CInv, NEW a \in PermAgents, NextStream(a)
  PROVE  CInv'
<1>1. pmAgent[a] \in AgentRecord /\ pmAgent[a].reply \in [DOMAIN pmAgent[a].batch -> Replies]
  BY DEF CInv, Shape
<1>2. GrantsGrow
  BY DEF NextStream, GrantsGrow
<1>3. pmAgent' = [pmAgent EXCEPT
        ![a] = [phase |-> "idle", batch |-> pmAgent[a].batch, reply |-> pmAgent[a].reply]]
  <2>1. [pmAgent[a] EXCEPT !.phase = "idle"]
          = [phase |-> "idle", batch |-> pmAgent[a].batch, reply |-> pmAgent[a].reply]
    BY <1>1 DEF AgentRecord
  <2> QED
    BY <2>1 DEF NextStream
<1>4. Shape'
  BY <1>1, <1>2, <1>3, ShapeKept DEF CInv, GrantsGrow, AgentRecord
<1>5. Settled(a)'
  BY <1>3 DEF CInv, Shape, Settled
<1>6. \A b \in PermAgents \ {a} : Settled(b)'
  BY <1>2, <1>3, SettledStays DEF CInv, Shape
<1> QED
  BY <1>4, <1>5, <1>6 DEF CInv

LEMMA CInvStep == CInv /\ [PermissionsNext]_pmVars => CInv'
<1> SUFFICES ASSUME CInv, [PermissionsNext]_pmVars PROVE CInv'
  OBVIOUS
<1>1. ASSUME NEW a \in PermAgents, NEW i \in 1..Len(pmAgent[a].batch), RunCall(a, i)
      PROVE  CInv'
  BY <1>1, RunCallStep DEF RunCall
<1>2. CASE UNCHANGED pmVars
  BY <1>2, ZenonT(60) DEF pmVars, CInv, Shape, Settled, Interrupts, GrantsOf, Decide, ByMode
<1> QED
  BY <1>1, <1>2, ProposeStep, PromptStep, NextStreamStep DEF PermissionsNext

-----------------------------------------------------------------------------
(***************************************************************************)
(* The history of what ran grows by the calls of the tool node only.       *)
(***************************************************************************)
LEMMA RanGrows ==
  ASSUME PermissionsNext
  PROVE  \/ pmRan' = pmRan
         \/ \E a \in PermAgents : \E i \in DOMAIN pmAgent[a].batch : RunCall(a, i)
  BY ZenonT(60) DEF PermissionsNext, Propose, Prompt, NextStream, RunCall

(***************************************************************************)
(* What the tool node lets through: a call that was not rejected, of a     *)
(* tool the agent has, which nothing denies at that instant; and one that  *)
(* must still be asked about only if it was answered "approve".            *)
(***************************************************************************)
LEMMA WhatRuns ==
  ASSUME CInv, NEW a \in PermAgents, NEW i \in DOMAIN pmAgent[a].batch, RunCall(a, i),
         NEW r \in pmRan' \ pmRan
  PROVE  /\ r.call = pmAgent[a].batch[i] /\ r.reply = pmAgent[a].reply[i]
         /\ r.effect = Decide(pmGrants, r.call)
         /\ r.effect \in {"allow", "ask"} /\ r.reply \in {"none", "approve"}
         /\ r.effect = "ask" => r.reply = "approve"
<1> DEFINE call == pmAgent[a].batch[i]
           effect == Decide(pmGrants, call)
           reply == pmAgent[a].reply[i]
<1>1. /\ r = [agent |-> a, call |-> call, effect |-> effect, reply |-> reply]
      /\ reply # "reject" /\ reply # "done" /\ pmAgent[a].phase = "tools"
      /\ effect # "deny" /\ (effect = "ask" => call.tool \in MUTATING)
      /\ call.tool \in Held[a]
  BY DEF RunCall, GrantsOf
<1>2. effect \in {"allow", "ask"}
  BY <1>1, DecideCases DEF CInv, Shape, Effects
<1>3. reply \in {"none", "approve"}
  BY <1>1 DEF CInv, Shape, Settled, Replies
<1>4. effect = "ask" => reply = "approve"
  BY <1>1, <1>3 DEF CInv, Settled, Interrupts, GrantsOf
<1> QED
  BY <1>1, <1>2, <1>3, <1>4

(***************************************************************************)
(* No grant, no allow rule and no mode lets a call run that a deny rule or *)
(* an enabled floor rule names: rules.py looks at those first.             *)
(***************************************************************************)
THEOREM NothingDeniedRuns == PermissionsSpec => []DeniedNeverRuns
<1>1. PermissionsInit => DeniedNeverRuns
  BY DEF PermissionsInit, DeniedNeverRuns
<1>2. ASSUME CInv, DeniedNeverRuns, [PermissionsNext]_pmVars
      PROVE  DeniedNeverRuns'
  <2> SUFFICES ASSUME NEW r \in pmRan', r \notin pmRan
               PROVE  ~AnyMatches(DenyRules, r.call, FALSE) /\ FloorHit(r.call) \subseteq FloorDisabled
    BY <1>2 DEF DeniedNeverRuns
  <2>0. PICK a \in PermAgents : \E i \in DOMAIN pmAgent[a].batch : RunCall(a, i)
    BY <1>2, RanGrows DEF pmVars
  <2>1. PICK i \in DOMAIN pmAgent[a].batch : RunCall(a, i)
    BY <2>0
  <2>2. Decide(pmGrants, r.call) # "deny"
    BY <1>2, <2>1, WhatRuns
  <2> QED
    BY <2>2, DeniedIsDecided
<1> QED
  BY <1>1, <1>2, CInvInit, CInvStep, PTL DEF PermissionsSpec

(***************************************************************************)
(* A call that ran was allowed when it ran, or the user approved this very *)
(* call: whatever other agents were granted between the message and the    *)
(* call, it can only have settled it.                                      *)
(***************************************************************************)
THEOREM ConsentToAllThatRan == PermissionsSpec => []RanWithConsent
<1>1. PermissionsInit => RanWithConsent
  BY DEF PermissionsInit, RanWithConsent
<1>2. ASSUME CInv, RanWithConsent, [PermissionsNext]_pmVars
      PROVE  RanWithConsent'
  <2> SUFFICES ASSUME NEW r \in pmRan', r \notin pmRan
               PROVE  r.effect = "allow" \/ r.reply = "approve"
    BY <1>2 DEF RanWithConsent
  <2>0. PICK a \in PermAgents : \E i \in DOMAIN pmAgent[a].batch : RunCall(a, i)
    BY <1>2, RanGrows DEF pmVars
  <2>1. PICK i \in DOMAIN pmAgent[a].batch : RunCall(a, i)
    BY <2>0
  <2> QED
    BY <1>2, <2>1, WhatRuns
<1> QED
  BY <1>1, <1>2, CInvInit, CInvStep, PTL DEF PermissionsSpec

(***************************************************************************)
(* What is granted is only ever added to.                                  *)
(***************************************************************************)
LEMMA GrantsOnlyGrow ==
  ASSUME [PermissionsNext]_pmVars
  PROVE  GrantsGrow
<1>1. ASSUME NEW a \in PermAgents, Prompt(a)
      PROVE  GrantsGrow
  <2>1. PICK end : pmGrants' = [rules |-> pmGrants.rules \cup end.grants.rules,
                                all |-> pmGrants.all \/ end.grants.all]
    BY <1>1 DEF Prompt
  <2>2. pmMode' = pmMode
    BY <1>1 DEF Prompt
  <2> QED
    BY <2>1, <2>2 DEF GrantsGrow
<1>2. (\A a \in PermAgents : ~Prompt(a)) => pmMode' = pmMode /\ pmGrants' = pmGrants
  BY DEF PermissionsNext, Propose, RunCall, NextStream, pmVars
<1> QED
  BY <1>1, <1>2 DEF GrantsGrow

(***************************************************************************)
(* A command that ran unasked is one every segment of which a single rule  *)
(* names: neither a grant nor an allow rule stretches over a chain.        *)
(***************************************************************************)
THEOREM NoGrantStretches == PermissionsSpec => []GrantsDoNotStretch
<1>1. PermissionsInit => GrantsDoNotStretch
  BY DEF PermissionsInit, GrantsDoNotStretch
<1>2. ASSUME CInv, GrantsDoNotStretch, [PermissionsNext]_pmVars
      PROVE  GrantsDoNotStretch'
  <2> DEFINE Named(rules, call) ==
               \E rule \in rules :
                 /\ rule.tool = "execute"
                 /\ rule.pattern = "*" \/ \A i \in DOMAIN call.arg.segments :
                      call.arg.segments[i].written = rule.pattern
  <2>1. GrantsGrow
    BY <1>2, GrantsOnlyGrow
  <2>2. ASSUME NEW r \in pmRan', r.call.tool = "execute", r.reply = "none",
               ~pmGrants'.all, pmMode' # "auto"
        PROVE  Named(pmGrants'.rules \cup AllowRules, r.call)
    <3>1. ~pmGrants.all /\ pmMode # "auto"
      BY <2>1, <2>2 DEF GrantsGrow
    <3>2. CASE r \in pmRan
      <4>1. Named(pmGrants.rules \cup AllowRules, r.call)
        BY <1>2, <2>2, <3>1, <3>2 DEF GrantsDoNotStretch
      <4> QED
        BY <2>1, <4>1 DEF GrantsGrow
    <3>3. CASE r \notin pmRan
      <4>0. PICK a \in PermAgents : \E i \in DOMAIN pmAgent[a].batch : RunCall(a, i)
        BY <1>2, <3>3, RanGrows DEF pmVars
      <4>1. PICK i \in DOMAIN pmAgent[a].batch : RunCall(a, i)
        BY <4>0
      <4>2. Decide(pmGrants, r.call) = "allow"
        BY <1>2, <2>2, <3>3, <4>1, WhatRuns
      <4>3. GrantedBy(pmGrants, r.call) \/ AnyMatches(AllowRules, r.call, TRUE)
        <5>1. ~Ungated(r.call) /\ r.call.tool \notin READ_ONLY
          BY <2>2 DEF Ungated, CONTROL_PLANE, WRAPPED_EXECUTE, READ_ONLY
        <5>2. ByMode(r.call) # "allow"
          BY <1>2, <3>1, <5>1 DEF ByMode, CInv, Shape
        <5> QED
          BY <4>2, <5>1, <5>2 DEF Decide
      <4>4. Named(pmGrants.rules \cup AllowRules, r.call)
        BY <2>2, <3>1, <4>3 DEF GrantedBy, AnyMatches, RuleMatches, ExecuteMatches
      <4> QED
        BY <2>1, <4>4 DEF GrantsGrow
    <3> QED
      BY <3>2, <3>3
  <2> QED
    BY <2>2 DEF GrantsDoNotStretch
<1> QED
  BY <1>1, <1>2, CInvInit, CInvStep, PTL DEF PermissionsSpec

(***************************************************************************)
(* Only what is permitted runs, whoever asked, granted or refused in       *)
(* between: over no deny rule, with consent in force as it runs, and by no *)
(* grant for less.                                                         *)
(***************************************************************************)
THEOREM PermittedAlone == PermissionsSpec => []OnlyPermittedRuns
<1>1. DeniedNeverRuns /\ RanWithConsent /\ GrantsDoNotStretch => OnlyPermittedRuns
  BY DEF OnlyPermittedRuns
<1> QED
  BY <1>1, NothingDeniedRuns, ConsentToAllThatRan, NoGrantStretches, PTL

-----------------------------------------------------------------------------
(***************************************************************************)
(* What the user is asked and told: the grants, the audit log and what was *)
(* shown keep their types, ...                                             *)
(***************************************************************************)
Keys == {"approve", "reject", "always", "auto", "cancelled"}
Grantings == [rules : SUBSET {SuggestGrant(call) : call \in Calls}, all : BOOLEAN]
AuditLines == PermAgents \X Calls \X {"allow", "approve", "deny", "reject"}
Showings == [call : Calls, held : BOOLEAN, granted : BOOLEAN]

Told ==
  /\ pmGrants \in Grantings /\ pmAudit \subseteq AuditLines /\ pmShown \subseteq Showings
  /\ pmRounds \in [PermAgents -> 1..(MaxApprovalRounds + 1)]

(***************************************************************************)
(* ... a call still to be asked about is of a tool its agent has, one that *)
(* was let through is in the log, and the rounds end in the last.          *)
(***************************************************************************)
LetThrough(audit, a, call) == \E outcome \in {"allow", "approve"} : <<a, call, outcome>> \in audit

Answerable(a) ==
  /\ pmAgent[a].phase # "raised" => pmRounds[a] <= MaxApprovalRounds
  /\ \A i \in DOMAIN pmAgent[a].batch :
       /\ pmAgent[a].reply[i] = "ask" => pmAgent[a].batch[i].tool \in Held[a]
       /\ pmAgent[a].reply[i] = "approve" => LetThrough(pmAudit, a, pmAgent[a].batch[i])

AInv == CInv /\ Told /\ (\A a \in PermAgents : Answerable(a)) /\ RanIsAudited /\ AsksOnlyWhatItMust

\* Where a round can stand after some of its answers.
Round(a) ==
  {p \in [grants : Grantings, approved : SUBSET (DOMAIN pmAgent[a].batch),
          audit : SUBSET AuditLines, shown : SUBSET Showings] :
     /\ pmGrants.rules \subseteq p.grants.rules /\ (pmGrants.all => p.grants.all)
     /\ pmAudit \subseteq p.audit
     /\ \A i \in p.approved : LetThrough(p.audit, a, pmAgent[a].batch[i])
     /\ \A s \in p.shown : s.held /\ ~s.granted}

LEMMA CallOfBatch ==
  ASSUME CInv, NEW a \in PermAgents, NEW i \in DOMAIN pmAgent[a].batch
  PROVE  pmAgent[a].batch[i] \in Calls
<1>1. pmAgent[a].batch \in Batches
  BY DEF CInv, Shape, AgentRecord
<1>2. pmAgent[a].batch # <<>>
  OBVIOUS
<1> QED
  BY <1>1, <1>2 DEF Batches, Calls

(***************************************************************************)
(* A call that must be asked about is one no grant in force speaks for.    *)
(***************************************************************************)
LEMMA AskedIsNotGranted ==
  ASSUME NEW grants, NEW call, Decide(grants, call) = "ask"
  PROVE  ~GrantedBy(grants, call)
  BY DEF Decide

LEMMA GrantedByMore ==
  ASSUME NEW fewer, NEW more, NEW call, fewer.all => more.all, fewer.rules \subseteq more.rules,
         GrantedBy(fewer, call)
  PROVE  GrantedBy(more, call)
  BY DEF GrantedBy, AnyMatches

(***************************************************************************)
(* One answer keeps a round where a round can stand: it asks about no call *)
(* that is settled, and it lets none through that it does not write down.  *)
(***************************************************************************)
LEMMA AnswerKeeps ==
  ASSUME AInv, NEW a \in PermAgents, NEW i \in DOMAIN pmAgent[a].batch,
         pmAgent[a].reply[i] = "ask", NEW key \in Keys, NEW p \in Round(a)
  PROVE  AnsweredBy(a, p, i, key) \in Round(a)
<1> DEFINE call == pmAgent[a].batch[i]
           effect == Decide(p.grants, call)
<1>1. call \in Calls /\ call.tool \in Held[a]
  BY CallOfBatch DEF AInv, Answerable
<1>2. effect \in Effects
  BY DecideCases DEF AInv, CInv, Shape
<1>3. /\ p.grants \in Grantings /\ p.approved \subseteq DOMAIN pmAgent[a].batch
      /\ p.audit \subseteq AuditLines /\ p.shown \subseteq Showings
      /\ p = [grants |-> p.grants, approved |-> p.approved, audit |-> p.audit, shown |-> p.shown]
      /\ pmGrants.rules \subseteq p.grants.rules /\ (pmGrants.all => p.grants.all)
      /\ pmAudit \subseteq p.audit
      /\ \A j \in p.approved : LetThrough(p.audit, a, pmAgent[a].batch[j])
      /\ \A s \in p.shown : s.held /\ ~s.granted
  BY DEF Round
<1>4. CASE effect # "ask"
  <2> DEFINE approved == IF effect \in {"allow", "approve"} THEN {i} ELSE {}
             line == <<a, call, effect>>
  <2>1. AnsweredBy(a, p, i, key)
          = [p EXCEPT !.approved = @ \cup approved, !.audit = @ \cup {line}]
    BY <1>4 DEF AnsweredBy
  <2>2. effect \in {"allow", "deny"}
    BY <1>2, <1>4 DEF Effects
  <2>3. line \in AuditLines
    BY <1>1, <2>2 DEF AuditLines
  <2>4. approved # {} => LetThrough(p.audit \cup {line}, a, call)
    BY <2>2 DEF LetThrough
  <2>5. \A j \in p.approved \cup approved :
          LetThrough(p.audit \cup {line}, a, pmAgent[a].batch[j])
    <3>1. ASSUME NEW j \in p.approved PROVE LetThrough(p.audit \cup {line}, a, pmAgent[a].batch[j])
      BY <1>3 DEF LetThrough
    <3>2. ASSUME NEW j \in approved PROVE LetThrough(p.audit \cup {line}, a, pmAgent[a].batch[j])
      BY <2>4
    <3> QED
      BY <3>1, <3>2
  <2>6. approved \subseteq DOMAIN pmAgent[a].batch
    OBVIOUS
  <2> HIDE DEF approved, line, call, effect
  <2>7. AnsweredBy(a, p, i, key)
          = [grants |-> p.grants, approved |-> p.approved \cup approved,
             audit |-> p.audit \cup {line}, shown |-> p.shown]
    BY <1>3, <2>1
  <2> DEFINE q == AnsweredBy(a, p, i, key)
  <2>8. /\ q.grants = p.grants /\ q.approved = p.approved \cup approved
        /\ q.audit = p.audit \cup {line} /\ q.shown = p.shown
    BY <2>7
  <2>9. q \in [grants : Grantings, approved : SUBSET (DOMAIN pmAgent[a].batch),
               audit : SUBSET AuditLines, shown : SUBSET Showings]
    BY <1>3, <2>3, <2>6, <2>7
  <2> HIDE DEF q
  <2>10. /\ pmGrants.rules \subseteq q.grants.rules /\ (pmGrants.all => q.grants.all)
         /\ pmAudit \subseteq q.audit
         /\ \A j \in q.approved : LetThrough(q.audit, a, pmAgent[a].batch[j])
         /\ \A s \in q.shown : s.held /\ ~s.granted
    BY <1>3, <2>5, <2>8
  <2>11. q \in Round(a)
    BY <2>9, <2>10 DEF Round
  <2> QED
    BY <2>11 DEF q
<1>5. CASE effect = "ask"
  <2> DEFINE grants == Widened(p.grants, call, key)
             approved == IF DecisionOf(key) \in {"allow", "approve"} THEN {i} ELSE {}
             line == <<a, call, IF key \in {"always", "auto"} THEN "allow" ELSE DecisionOf(key)>>
             seen == [call |-> call, held |-> call.tool \in Held[a],
                      granted |-> \E g \in {p.grants, pmGrants} : GrantedBy(g, call)]
  <2>1. AnsweredBy(a, p, i, key)
          = [grants |-> grants, approved |-> p.approved \cup approved,
             audit |-> p.audit \cup {line}, shown |-> p.shown \cup {seen}]
    BY <1>5 DEF AnsweredBy
  <2>2. DecisionOf(key) \in {"approve", "reject"}
    BY DEF DecisionOf
  <2>3. line \in AuditLines
    BY <1>1, <2>2 DEF AuditLines
  <2>4. approved # {} => LetThrough(p.audit \cup {line}, a, call)
    BY <2>2 DEF LetThrough
  <2>5. \A j \in p.approved \cup approved :
          LetThrough(p.audit \cup {line}, a, pmAgent[a].batch[j])
    <3>1. ASSUME NEW j \in p.approved PROVE LetThrough(p.audit \cup {line}, a, pmAgent[a].batch[j])
      BY <1>3 DEF LetThrough
    <3>2. ASSUME NEW j \in approved PROVE LetThrough(p.audit \cup {line}, a, pmAgent[a].batch[j])
      BY <2>4
    <3> QED
      BY <3>1, <3>2
  <2>6. approved \subseteq DOMAIN pmAgent[a].batch
    OBVIOUS
  <2>7. grants \in Grantings /\ p.grants.rules \subseteq grants.rules /\ (p.grants.all => grants.all)
    <3>1. SuggestGrant(call) \in {SuggestGrant(c) : c \in Calls}
      BY <1>1
    <3> HIDE DEF call
    <3> QED
      BY <1>3, <3>1 DEF Widened, Grantings
  <2>8. ~(\E g \in {p.grants, pmGrants} : GrantedBy(g, call))
    <3>1. ~GrantedBy(p.grants, call)
      BY <1>5, AskedIsNotGranted
    <3>2. ~GrantedBy(pmGrants, call)
      BY <1>3, <3>1, GrantedByMore
    <3> QED
      BY <3>1, <3>2
  <2>9. seen \in Showings /\ seen.held /\ ~seen.granted
    <3>1. seen = [call |-> call, held |-> TRUE, granted |-> FALSE]
      BY <1>1, <2>8
    <3> HIDE DEF seen, call
    <3> QED
      BY <1>1, <3>1 DEF Showings
  <2> HIDE DEF approved, line, call, effect, grants, seen
  <2> DEFINE q == AnsweredBy(a, p, i, key)
  <2>10. /\ q.grants = grants /\ q.approved = p.approved \cup approved
         /\ q.audit = p.audit \cup {line} /\ q.shown = p.shown \cup {seen}
    BY <2>1
  <2>11. q \in [grants : Grantings, approved : SUBSET (DOMAIN pmAgent[a].batch),
                audit : SUBSET AuditLines, shown : SUBSET Showings]
    BY <1>3, <2>1, <2>3, <2>6, <2>7, <2>9
  <2> HIDE DEF q
  <2>12. /\ pmGrants.rules \subseteq q.grants.rules /\ (pmGrants.all => q.grants.all)
         /\ pmAudit \subseteq q.audit
    BY <1>3, <2>7, <2>10
  <2>13. \A j \in q.approved : LetThrough(q.audit, a, pmAgent[a].batch[j])
    BY <2>5, <2>10
  <2>14. \A s \in q.shown : s.held /\ ~s.granted
    BY <1>3, <2>9, <2>10
  <2>15. q \in Round(a)
    BY <2>11, <2>12, <2>13, <2>14 DEF Round
  <2> QED
    BY <2>15 DEF q
<1> QED
  BY <1>4, <1>5

(***************************************************************************)
(* So, by induction over the requests of the message, do all of them.      *)
(***************************************************************************)
LEMMA AnswersKeep ==
  ASSUME AInv, NEW a \in PermAgents,
         NEW keys \in [{i \in DOMAIN pmAgent[a].batch : pmAgent[a].reply[i] = "ask"} -> Keys]
  PROVE  Answered(a, keys) \in Round(a)
<1> DEFINE N == Len(pmAgent[a].batch)
           V == Round(a)
           start == [grants |-> GrantsOf(a), approved |-> {}, audit |-> pmAudit, shown |-> pmShown]
           F(f) == [i \in 0..N |-> IF i = 0 THEN start
                                   ELSE IF i \in DOMAIN keys THEN AnsweredBy(a, f[i - 1], i, keys[i])
                                   ELSE f[i - 1]]
           one(i, p) == IF i \in DOMAIN keys THEN AnsweredBy(a, p, i, keys[i]) ELSE p
           step == [i \in 1..N |-> [p \in V |-> one(i, p)]]
           h == CHOOSE f : f = F(f)
<1>1. N \in Nat /\ DOMAIN pmAgent[a].batch = 1..N
  <2>1. pmAgent[a].batch \in Seq(Calls)
    BY PermissionsAssumption DEF AInv, CInv, Shape, AgentRecord, Batches
  <2> QED
    BY <2>1, LenProperties
<1>2. start \in V
  BY DEF Round, GrantsOf, AInv, Told, AsksOnlyWhatItMust
<1>3. \A i \in 1..N, p \in V : one(i, p) \in V
  <2> SUFFICES ASSUME NEW i \in 1..N, NEW p \in V PROVE one(i, p) \in V
    OBVIOUS
  <2>1. CASE i \in DOMAIN keys
    <3>1. keys[i] \in Keys /\ pmAgent[a].reply[i] = "ask" /\ i \in DOMAIN pmAgent[a].batch
      BY <2>1
    <3> QED
      BY <2>1, <3>1, AnswerKeeps
  <2> QED
    BY <2>1
<1>4. \A f : \A i \in 0..N : F(f)[i] = IF i = 0 THEN start ELSE one(i, f[i - 1])
  OBVIOUS
<1>5. Answered(a, keys) = h[N]
  BY DEF Answered
<1> HIDE DEF V, start, one, N
<1>6. step \in [1..N -> [V -> V]]
  BY <1>3
<1>7. \A i \in 1..N, p \in V : step[i][p] = one(i, p)
  OBVIOUS
<1> HIDE DEF step
<1>8. PICK g \in [0..N -> V] : g[0] = start /\ \A i \in 1..N : g[i] = step[i][g[i - 1]]
  <2>1. step \in Steps(N, V)
    BY <1>6 DEF Steps
  <2>2. Computed(N, V, start, step)
    BY <1>1, <1>2, <2>1, RecursionExists
  <2> QED
    BY <2>2 DEF Computed
<1>9. \A i \in 1..N : i - 1 \in 0..N /\ g[i] = one(i, g[i - 1])
  <2> SUFFICES ASSUME NEW i \in 1..N PROVE i - 1 \in 0..N /\ g[i] = one(i, g[i - 1])
    OBVIOUS
  <2>1. i - 1 \in 0..N
    BY <1>1
  <2>2. g[i - 1] \in V
    BY <2>1
  <2> QED
    BY <2>1, <2>2, <1>7, <1>8
<1>10. g = F(g)
  <2>1. DOMAIN F(g) = 0..N /\ DOMAIN g = 0..N
    OBVIOUS
  <2>2. \A i \in 0..N : F(g)[i] = g[i]
    <3> SUFFICES ASSUME NEW i \in 0..N PROVE F(g)[i] = g[i]
      OBVIOUS
    <3>1. F(g)[i] = IF i = 0 THEN start ELSE one(i, g[i - 1])
      BY <1>4
    <3>2. i # 0 => i \in 1..N
      BY <1>1
    <3> QED
      BY <3>1, <3>2, <1>8, <1>9
  <2>3. F(g) = [i \in 0..N |-> F(g)[i]] /\ g = [i \in 0..N |-> g[i]]
    OBVIOUS
  <2> HIDE DEF F
  <2> QED
    BY <2>2, <2>3
<1>11. h = F(h)
  <2> HIDE DEF F
  <2> QED
    BY <1>10, Zenon
<1> HIDE DEF h, F
<1>12. \A i \in 0..N : h[i] = IF i = 0 THEN start ELSE one(i, h[i - 1])
  BY <1>4, <1>11
<1> DEFINE T == {n \in 0..N : h[n] \in V}
<1>13. 0 \in T
  BY <1>1, <1>2, <1>12
<1>14. ASSUME NEW n \in 0..N, n < N, n \in T
       PROVE  n + 1 \in T
  <2>1. n + 1 \in 0..N /\ n + 1 \in 1..N /\ n + 1 # 0 /\ n + 1 - 1 = n
    BY <1>1, <1>14
  <2>2. h[n + 1] = one(n + 1, h[n])
    BY <2>1, <1>12
  <2> QED
    BY <2>1, <2>2, <1>3, <1>14
<1> HIDE DEF T
<1>15. N \in T
  <2>1. N \in Nat /\ N \in 0..N
    BY <1>1
  <2>2. \A n \in 0..N : n < N /\ n \in T => n + 1 \in T
    BY <1>14
  <2> QED
    BY <2>1, <2>2, <1>13, Inductive, Zenon
<1> QED
  BY <1>5, <1>15 DEF T, V

-----------------------------------------------------------------------------
(***************************************************************************)
(* An agent whose record stays has still its answers in the log.           *)
(***************************************************************************)
LEMMA AnswerableStays ==
  ASSUME NEW a, Answerable(a), pmAgent'[a] = pmAgent[a], pmRounds'[a] = pmRounds[a],
         pmAudit \subseteq pmAudit'
  PROVE  Answerable(a)'
  BY DEF Answerable, LetThrough

LEMMA AInvPropose ==
  ASSUME AInv, CInv', NEW a \in PermAgents, NEW batch \in PermBatches, Propose(a, batch)
  PROVE  AInv'
<1> DEFINE phase == IF \E i \in DOMAIN batch : Interrupts(a, batch[i]) THEN "asked" ELSE "tools"
           reply == [i \in DOMAIN batch |-> IF Interrupts(a, batch[i]) THEN "ask" ELSE "none"]
<1>1. /\ pmAgent' = [pmAgent EXCEPT ![a] = [phase |-> phase, batch |-> batch, reply |-> reply]]
      /\ pmGrants' = pmGrants /\ pmAudit' = pmAudit /\ pmShown' = pmShown /\ pmRan' = pmRan
      /\ pmRounds' = pmRounds /\ pmAgent[a].phase = "idle"
  BY DEF Propose
<1>2. Told' /\ RanIsAudited' /\ AsksOnlyWhatItMust'
  BY <1>1 DEF AInv, Told, RanIsAudited, AsksOnlyWhatItMust
<1>3. Answerable(a)'
  <2>1. pmAgent'[a] = [phase |-> phase, batch |-> batch, reply |-> reply]
    BY <1>1 DEF AInv, CInv, Shape
  <2>2. \A i \in DOMAIN batch :
          /\ reply[i] = "ask" => batch[i].tool \in Held[a]
          /\ reply[i] # "approve"
    BY DEF Interrupts
  <2>3. pmRounds'[a] <= MaxApprovalRounds
    BY <1>1 DEF AInv, Answerable
  <2> HIDE DEF reply, phase
  <2> QED
    BY <2>1, <2>2, <2>3 DEF Answerable
<1>4. \A b \in PermAgents \ {a} : Answerable(b)'
  <2> SUFFICES ASSUME NEW b \in PermAgents \ {a} PROVE Answerable(b)'
    OBVIOUS
  <2>1. pmAgent'[b] = pmAgent[b] /\ pmRounds'[b] = pmRounds[b] /\ pmAudit \subseteq pmAudit'
    BY <1>1 DEF AInv, CInv, Shape
  <2> QED
    BY <2>1, AnswerableStays DEF AInv
<1> QED
  BY <1>2, <1>3, <1>4 DEF AInv

LEMMA AInvPrompt ==
  ASSUME AInv, CInv', NEW a \in PermAgents, Prompt(a)
  PROVE  AInv'
<1> DEFINE batch == pmAgent[a].batch
           asked == {i \in DOMAIN batch : pmAgent[a].reply[i] = "ask"}
<1>1. PICK keys \in [asked -> Keys] :
        LET end == Answered(a, keys)
        IN  /\ pmGrants' = [rules |-> pmGrants.rules \cup end.grants.rules,
                            all |-> pmGrants.all \/ end.grants.all]
            /\ pmAudit' = end.audit /\ pmShown' = end.shown
            /\ pmAgent' = [pmAgent EXCEPT ![a] =
                  [phase |-> AfterRound(a), batch |-> batch,
                   reply |-> [i \in DOMAIN batch |->
                     IF pmAgent[a].reply[i] # "ask" THEN "none"
                     ELSE IF i \in end.approved THEN "approve" ELSE "reject"]]]
  BY DEF Prompt, Keys
<1> DEFINE end == Answered(a, keys)
           reply == [i \in DOMAIN batch |->
                      IF pmAgent[a].reply[i] # "ask" THEN "none"
                      ELSE IF i \in end.approved THEN "approve" ELSE "reject"]
<1>2. end \in Round(a)
  BY AnswersKeep
<1> HIDE DEF end
<1>3. /\ pmGrants' = [rules |-> pmGrants.rules \cup end.grants.rules,
                      all |-> pmGrants.all \/ end.grants.all]
      /\ pmAudit' = end.audit /\ pmShown' = end.shown
      /\ pmAgent' = [pmAgent EXCEPT ![a] = [phase |-> AfterRound(a), batch |-> batch, reply |-> reply]]
  BY <1>1 DEF end
<1>4. /\ pmRounds' = [pmRounds EXCEPT ![a] = @ + 1] /\ pmRan' = pmRan
      /\ pmAgent[a].phase = "asked"
  BY DEF Prompt
<1>5. /\ end.grants \in Grantings /\ end.audit \subseteq AuditLines /\ end.shown \subseteq Showings
      /\ pmAudit \subseteq end.audit
      /\ \A i \in end.approved : LetThrough(end.audit, a, batch[i])
      /\ \A s \in end.shown : s.held /\ ~s.granted
  BY <1>2 DEF Round
<1>6. /\ pmRounds \in [PermAgents -> 1..(MaxApprovalRounds + 1)]
      /\ pmRounds[a] <= MaxApprovalRounds /\ pmRounds[a] \in Nat \ {0} /\ MaxApprovalRounds \in Nat
  <2>1. pmRounds \in [PermAgents -> 1..(MaxApprovalRounds + 1)] /\ MaxApprovalRounds \in Nat
    BY PermissionsAssumption DEF AInv, Told
  <2>2. pmRounds[a] <= MaxApprovalRounds
    BY <1>4 DEF AInv, Answerable
  <2> QED
    BY <2>1, <2>2
<1>7. Told'
  <2>1. pmGrants' \in Grantings
    BY <1>3, <1>5 DEF AInv, Told, Grantings
  <2>2. pmRounds' \in [PermAgents -> 1..(MaxApprovalRounds + 1)]
    BY <1>4, <1>6
  <2> QED
    BY <1>3, <1>5, <2>1, <2>2 DEF Told
<1>8. RanIsAudited' /\ AsksOnlyWhatItMust'
  <2>1. RanIsAudited'
    BY <1>3, <1>4, <1>5 DEF AInv, RanIsAudited
  <2>2. AsksOnlyWhatItMust'
    BY <1>3, <1>5 DEF AsksOnlyWhatItMust
  <2> QED
    BY <2>1, <2>2
<1>9. Answerable(a)'
  <2>1. pmAgent'[a] = [phase |-> AfterRound(a), batch |-> batch, reply |-> reply]
    BY <1>3 DEF AInv, CInv, Shape
  <2>2. \A i \in DOMAIN batch :
          /\ reply[i] # "ask"
          /\ reply[i] = "approve" => LetThrough(pmAudit', a, batch[i])
    BY <1>3, <1>5
  <2>3. AfterRound(a) # "raised" => pmRounds'[a] <= MaxApprovalRounds
    BY <1>4, <1>6 DEF AfterRound
  <2> HIDE DEF reply
  <2>4. /\ pmAgent'[a].phase = AfterRound(a) /\ pmAgent'[a].batch = batch /\ pmAgent'[a].reply = reply
    BY <2>1
  <2> QED
    BY <2>2, <2>3, <2>4 DEF Answerable
<1>10. \A b \in PermAgents \ {a} : Answerable(b)'
  <2> SUFFICES ASSUME NEW b \in PermAgents \ {a} PROVE Answerable(b)'
    OBVIOUS
  <2>1. pmAgent'[b] = pmAgent[b] /\ pmRounds'[b] = pmRounds[b] /\ pmAudit \subseteq pmAudit'
    BY <1>3, <1>4, <1>5, <1>6 DEF AInv, CInv, Shape
  <2> QED
    BY <2>1, AnswerableStays DEF AInv
<1> QED
  BY <1>7, <1>8, <1>9, <1>10 DEF AInv

LEMMA AInvRunCall ==
  ASSUME AInv, CInv', NEW a \in PermAgents, NEW i \in DOMAIN pmAgent[a].batch, RunCall(a, i)
  PROVE  AInv'
<1> DEFINE batch == pmAgent[a].batch
           call == batch[i]
           effect == Decide(pmGrants, call)
           reply == pmAgent[a].reply[i]
           last == \A j \in DOMAIN batch : j = i \/ pmAgent[a].reply[j] = "done"
           phase == IF last THEN "idle" ELSE "tools"
           after == [pmAgent[a].reply EXCEPT ![i] = "done"]
           refused == effect = "deny" \/ (effect = "ask" /\ call.tool \notin MUTATING)
           outcomes == IF reply = "reject" THEN {}
                       ELSE ({"allow"} \cap {effect}) \cup (IF refused THEN {"deny"} ELSE {})
<1>1. /\ pmAudit' = pmAudit \cup UNION {Audited(a, call, o) : o \in outcomes}
      /\ pmAgent' = [pmAgent EXCEPT ![a] = [phase |-> phase, batch |-> batch, reply |-> after]]
      /\ pmGrants' = pmGrants /\ pmShown' = pmShown /\ pmRounds' = pmRounds
      /\ pmAgent[a].phase = "tools"
  BY DEF RunCall, GrantsOf
<1>2. call \in Calls /\ pmAgent[a].reply \in [DOMAIN batch -> Replies]
  BY CallOfBatch DEF AInv, CInv, Shape
<1>3. pmAudit \subseteq pmAudit' /\ pmAudit' \subseteq AuditLines
  <2>1. outcomes \subseteq {"allow", "deny"}
    OBVIOUS
  <2> HIDE DEF outcomes, call
  <2>2. \A o \in outcomes : Audited(a, call, o) \subseteq AuditLines
    BY <1>2, <2>1 DEF Audited, AuditLines
  <2> QED
    BY <1>1, <2>2 DEF AInv, Told
<1>4. Told' /\ AsksOnlyWhatItMust'
  BY <1>1, <1>3 DEF AInv, Told, AsksOnlyWhatItMust
<1>5. Answerable(a)'
  <2>1. pmAgent'[a] = [phase |-> phase, batch |-> batch, reply |-> after]
    BY <1>1 DEF AInv, CInv, Shape
  <2>2. /\ \A j \in DOMAIN batch : after[j] \in {pmAgent[a].reply[j], "done"}
        /\ \A j \in DOMAIN batch :
             /\ pmAgent[a].reply[j] = "ask" => batch[j].tool \in Held[a]
             /\ pmAgent[a].reply[j] = "approve" => LetThrough(pmAudit, a, batch[j])
        /\ pmRounds[a] <= MaxApprovalRounds
    BY <1>1, <1>2 DEF AInv, Answerable
  <2>3. \A j \in DOMAIN batch : LetThrough(pmAudit, a, batch[j]) => LetThrough(pmAudit', a, batch[j])
    BY <1>3 DEF LetThrough
  <2> HIDE DEF after, phase
  <2>4. /\ pmAgent'[a].phase = phase /\ pmAgent'[a].batch = batch /\ pmAgent'[a].reply = after
    BY <2>1
  <2> QED
    BY <1>1, <2>2, <2>3, <2>4 DEF Answerable
<1>6. \A b \in PermAgents \ {a} : Answerable(b)'
  <2> SUFFICES ASSUME NEW b \in PermAgents \ {a} PROVE Answerable(b)'
    OBVIOUS
  <2>1. pmAgent'[b] = pmAgent[b] /\ pmRounds'[b] = pmRounds[b] /\ pmAudit \subseteq pmAudit'
    BY <1>1, <1>3 DEF AInv, CInv, Shape
  <2> QED
    BY <2>1, AnswerableStays DEF AInv
<1>7. RanIsAudited'
  <2> SUFFICES ASSUME NEW r \in pmRan', r.call.tool \in MUTATING
               PROVE  LetThrough(pmAudit', r.agent, r.call)
    BY DEF RanIsAudited, LetThrough
  <2>1. CASE r \in pmRan
    BY <1>3, <2>1 DEF AInv, RanIsAudited, LetThrough
  <2>2. CASE r \notin pmRan
    <3>1. r.agent = a /\ r.call = call /\ r.reply = reply /\ r.effect = effect
      BY <2>2 DEF RunCall, GrantsOf
    <3>2. effect \in {"allow", "ask"} /\ reply \in {"none", "approve"}
          /\ (effect = "ask" => reply = "approve")
      BY <2>2, <3>1, WhatRuns DEF AInv
    <3>3. CASE effect = "ask"
      <4>1. LetThrough(pmAudit, a, call)
        BY <3>2, <3>3 DEF AInv, Answerable
      <4> QED
        BY <1>3, <3>1, <4>1 DEF LetThrough
    <3>4. CASE effect = "allow"
      <4>1. "allow" \in outcomes
        BY <3>2, <3>4
      <4>2. call.tool \notin READ_ONLY
        BY <3>1 DEF MUTATING, READ_ONLY
      <4>3. <<a, call, "allow">> \in Audited(a, call, "allow")
        BY <4>2 DEF Audited
      <4> HIDE DEF outcomes, call
      <4>4. <<a, call, "allow">> \in pmAudit'
        BY <1>1, <4>1, <4>3
      <4> QED
        BY <3>1, <4>4 DEF LetThrough
    <3> QED
      BY <3>2, <3>3, <3>4
  <2> QED
    BY <2>1, <2>2
<1> QED
  BY <1>4, <1>5, <1>6, <1>7 DEF AInv

LEMMA AInvNextStream ==
  ASSUME AInv, CInv', NEW a \in PermAgents, NextStream(a)
  PROVE  AInv'
<1>1. /\ pmRounds' = [pmRounds EXCEPT ![a] = 1]
      /\ pmAgent' = [pmAgent EXCEPT ![a].phase = "idle"]
      /\ pmGrants' = pmGrants /\ pmAudit' = pmAudit /\ pmShown' = pmShown /\ pmRan' = pmRan
  BY DEF NextStream
<1>2. 1 \in 1..(MaxApprovalRounds + 1) /\ 1 <= MaxApprovalRounds
  BY PermissionsAssumption
<1>3. Told' /\ RanIsAudited' /\ AsksOnlyWhatItMust'
  BY <1>1, <1>2 DEF AInv, Told, RanIsAudited, AsksOnlyWhatItMust
<1>4. Answerable(a)'
  <2>1. /\ pmAgent'[a].batch = pmAgent[a].batch /\ pmAgent'[a].reply = pmAgent[a].reply
        /\ pmRounds'[a] = 1
    BY <1>1 DEF AInv, CInv, Shape, AgentRecord, Told
  <2> QED
    BY <1>1, <1>2, <2>1 DEF AInv, Answerable
<1>5. \A b \in PermAgents \ {a} : Answerable(b)'
  <2> SUFFICES ASSUME NEW b \in PermAgents \ {a} PROVE Answerable(b)'
    OBVIOUS
  <2>1. pmAgent'[b] = pmAgent[b] /\ pmRounds'[b] = pmRounds[b] /\ pmAudit \subseteq pmAudit'
    BY <1>1 DEF AInv, CInv, Shape, Told
  <2> QED
    BY <2>1, AnswerableStays DEF AInv
<1> QED
  BY <1>3, <1>4, <1>5 DEF AInv

LEMMA AInvStep == AInv /\ [PermissionsNext]_pmVars => AInv'
<1> SUFFICES ASSUME AInv, [PermissionsNext]_pmVars PROVE AInv'
  OBVIOUS
<1>1. CInv'
  BY CInvStep DEF AInv
<1>2. ASSUME NEW a \in PermAgents, NEW i \in 1..Len(pmAgent[a].batch), RunCall(a, i)
      PROVE  AInv'
  BY <1>1, <1>2, AInvRunCall DEF RunCall
<1>3. CASE UNCHANGED pmVars
  BY <1>1, <1>3 DEF pmVars, AInv, Told, Answerable, RanIsAudited, AsksOnlyWhatItMust
<1> QED
  BY <1>1, <1>2, <1>3, AInvPropose, AInvPrompt, AInvNextStream DEF PermissionsNext

LEMMA AInvInit == PermissionsInit => AInv
<1> SUFFICES ASSUME PermissionsInit PROVE AInv
  OBVIOUS
<1>1. 1 \in 1..(MaxApprovalRounds + 1) /\ 1 <= MaxApprovalRounds
  BY PermissionsAssumption
<1>2. Told
  BY <1>1 DEF PermissionsInit, Told, Grantings
<1>3. \A a \in PermAgents : Answerable(a)
  BY <1>1 DEF PermissionsInit, Answerable
<1> QED
  BY <1>2, <1>3, CInvInit DEF PermissionsInit, AInv, RanIsAudited, AsksOnlyWhatItMust

LEMMA AInvariant == PermissionsSpec => []AInv
  BY AInvInit, AInvStep, PTL DEF PermissionsSpec

LEMMA PermissionsTypes == AInv => PermissionsTypeOK
<1> SUFFICES ASSUME AInv PROVE PermissionsTypeOK
  OBVIOUS
<1>1. pmGrants.all \in BOOLEAN /\ pmMode \in {"ask", "plan", "auto"}
  BY DEF AInv, Told, Grantings, CInv, Shape
<1>2. ASSUME NEW a \in PermAgents
      PROVE  /\ pmAgent[a].phase \in {"idle", "asked", "tools", "raised"}
             /\ pmRounds[a] \in 1..(MaxApprovalRounds + 1)
             /\ \A i \in DOMAIN pmAgent[a].reply :
                  pmAgent[a].reply[i] \in {"none", "ask", "approve", "reject", "done"}
  BY DEF AInv, Told, CInv, Shape, AgentRecord, Replies
<1> QED
  BY <1>1, <1>2 DEF PermissionsTypeOK

(***************************************************************************)
(* Every variable has its type; no stream has more rounds than it may.     *)
(***************************************************************************)
THEOREM PermissionsTypeCorrect == PermissionsSpec => []PermissionsTypeOK
  BY PermissionsTypes, AInvariant, PTL

(***************************************************************************)
(* The user is asked about no call its agent cannot make and none an       *)
(* earlier answer settled, and every change an agent was let make is in    *)
(* the audit log, however the agents' prompts and calls interleave.        *)
(***************************************************************************)
THEOREM UserAskedAndTold == PermissionsSpec => []UserIsAskedAndTold
<1>1. AInv => UserIsAskedAndTold
  BY DEF AInv, UserIsAskedAndTold
<1> QED
  BY <1>1, AInvariant, PTL

-----------------------------------------------------------------------------
Rows == [room : ROOMS, text : Texts, by : AUTHORS]
Drawers == {d \in [room : ROOMS, text : Texts, piece : 0..2, by : AUTHORS] : d.piece \in Pieces(d.text)}

\* A palace in which every memory is whole, and each drawer has an id of its own.
Whole(palace) ==
  /\ palace \subseteq Drawers
  /\ \A d, e \in palace : DrawerId(d) = DrawerId(e) => d = e
  /\ \A d \in palace : \A n \in Pieces(d.text) :
       \E e \in palace : DrawerId(e) = <<d.room, d.text, n>>

\* The ids of all the drawers of some rows.
IdsOf(rows) == {x \in ROOMS \X Texts \X (0..2) :
  \E r \in rows : x[1] = r.room /\ x[2] = r.text /\ x[3] \in Pieces(r.text)}

\* The rows a command holds are of whole memories; what a forget shows stays
\* in the palace, and the ids it deletes are those of what it showed.
CommandHolds ==
  /\ meCommand \in [at : {"none", "confirm", "delete", "export", "import"},
                    rows : SUBSET Rows, doomed : SUBSET (ROOMS \X Texts \X (0..2))]
  /\ meCommand.at = "confirm" =>
       \A r \in meCommand.rows : \A n \in Pieces(r.text) :
         \E d \in mePalace : DrawerId(d) = <<r.room, r.text, n>>
  /\ meCommand.at = "delete" => meCommand.doomed = IdsOf(meCommand.rows)

\* What is said of the two records, and of the tasks in them.
RecordsHold ==
  /\ meDone \in Seq(Texts) /\ meLog = Capped(meDone)
  /\ meSummary # NOLOG => meSummary = meLog /\ meTask = NOTEXT
  /\ meTask \in Texts \cup {NOTEXT} /\ meFailure \in BOOLEAN /\ meLost \in BOOLEAN
  /\ meLost => meFailure
  /\ LogAndPalaceAgree

MemoryInv == Whole(mePalace) /\ meFiles \subseteq Rows /\ CommandHolds /\ RecordsHold

-----------------------------------------------------------------------------
(***************************************************************************)
(* The operators of the palace.                                            *)
(***************************************************************************)
LEMMA PiecesOf == \A text : Pieces(text) \subseteq 0..2 /\ Pieces(text) # {}
  BY DEF Pieces

LEMMA DrawerOf ==
  ASSUME NEW d \in Drawers
  PROVE  /\ d.room \in ROOMS /\ d.text \in Texts /\ d.by \in AUTHORS /\ d.piece \in 0..2
         /\ d.piece \in Pieces(d.text) /\ DrawerId(d) = <<d.room, d.text, d.piece>>
  BY DEF Drawers, DrawerId

(***************************************************************************)
(* The drawers of an entry: one of each piece.                             *)
(***************************************************************************)
LEMMA DrawersOfEntry ==
  ASSUME NEW entry \in Rows
  PROVE  /\ DrawersOf(entry) \subseteq Drawers
         /\ \A n \in Pieces(entry.text) :
              \E e \in DrawersOf(entry) : DrawerId(e) = <<entry.room, entry.text, n>>
         /\ \A d \in DrawersOf(entry) :
              d.room = entry.room /\ d.text = entry.text /\ d.by = entry.by
<1>1. entry.room \in ROOMS /\ entry.text \in Texts /\ entry.by \in AUTHORS
  BY DEF Rows
<1>2. \A d \in DrawersOf(entry) :
        /\ d \in [room : ROOMS, text : Texts, piece : 0..2, by : AUTHORS]
        /\ d.room = entry.room /\ d.text = entry.text /\ d.by = entry.by
        /\ d.piece \in Pieces(entry.text)
  BY <1>1, PiecesOf DEF DrawersOf
<1>3. DrawersOf(entry) \subseteq Drawers
  BY <1>2 DEF Drawers
<1>4. ASSUME NEW n \in Pieces(entry.text)
      PROVE  \E e \in DrawersOf(entry) : DrawerId(e) = <<entry.room, entry.text, n>>
  <2> DEFINE e == [room |-> entry.room, text |-> entry.text, piece |-> n, by |-> entry.by]
  <2>1. e \in DrawersOf(entry)
    BY DEF DrawersOf
  <2>2. DrawerId(e) = <<entry.room, entry.text, n>>
    BY DEF DrawerId
  <2> HIDE DEF e
  <2> QED
    BY <2>1, <2>2
<1> QED
  BY <1>2, <1>3, <1>4

(***************************************************************************)
(* Filing an entry leaves a palace whole, takes no memory out of it, and   *)
(* puts this one in.                                                       *)
(***************************************************************************)
LEMMA UpsertWhole ==
  ASSUME Whole(mePalace), NEW entry \in Rows
  PROVE  /\ Whole(Upserted(entry))
         /\ \A d \in mePalace : \E e \in Upserted(entry) : DrawerId(e) = DrawerId(d)
         /\ \A n \in Pieces(entry.text) :
              \E e \in Upserted(entry) : DrawerId(e) = <<entry.room, entry.text, n>>
<1> DEFINE new == DrawersOf(entry)
           ids == {DrawerId(e) : e \in new}
           kept == {d \in mePalace : DrawerId(d) \notin ids}
           all == Upserted(entry)
<1>1. /\ new \subseteq Drawers
      /\ \A n \in Pieces(entry.text) : \E e \in new : DrawerId(e) = <<entry.room, entry.text, n>>
      /\ \A d \in new : d.room = entry.room /\ d.text = entry.text /\ d.by = entry.by
  BY DrawersOfEntry
<1>2. /\ mePalace \subseteq Drawers
      /\ \A d, e \in mePalace : DrawerId(d) = DrawerId(e) => d = e
      /\ \A d \in mePalace : \A n \in Pieces(d.text) :
           \E e \in mePalace : DrawerId(e) = <<d.room, d.text, n>>
  BY DEF Whole
<1>3. all = kept \cup new
  BY DEF Upserted
<1> HIDE DEF new, all
<1>4. \A d \in kept, e \in new : DrawerId(d) # DrawerId(e)
  OBVIOUS
<1>5. ASSUME NEW d \in new, NEW e \in new, DrawerId(d) = DrawerId(e)
      PROVE  d = e
  <2>1. d \in Drawers /\ e \in Drawers /\ d.room = e.room /\ d.text = e.text /\ d.by = e.by
    BY <1>1
  <2>2. d.piece = e.piece
    BY <1>5 DEF DrawerId
  <2> QED
    BY <2>1, <2>2 DEF Drawers
<1>6. \A d \in mePalace : \E e \in all : DrawerId(e) = DrawerId(d)
  BY <1>3
<1>7. all \subseteq Drawers
  BY <1>1, <1>2, <1>3
<1>8. \A d, e \in all : DrawerId(d) = DrawerId(e) => d = e
  BY <1>2, <1>3, <1>4, <1>5
<1>9. ASSUME NEW d \in all, NEW n \in Pieces(d.text)
      PROVE  \E e \in all : DrawerId(e) = <<d.room, d.text, n>>
  <2>1. CASE d \in new
    BY <1>1, <1>3, <2>1
  <2>2. CASE d \in mePalace
    <3>1. PICK e \in mePalace : DrawerId(e) = <<d.room, d.text, n>>
      BY <1>2, <2>2
    <3>2. PICK x \in all : DrawerId(x) = DrawerId(e)
      BY <1>6
    <3> QED
      BY <3>1, <3>2
  <2> QED
    BY <1>3, <2>1, <2>2
<1>10. \A n \in Pieces(entry.text) : \E e \in all : DrawerId(e) = <<entry.room, entry.text, n>>
  BY <1>1, <1>3
<1> HIDE DEF kept, ids
<1>11. Whole(all)
  BY <1>7, <1>8, <1>9 DEF Whole
<1> QED
  BY <1>6, <1>10, <1>11 DEF all

(***************************************************************************)
(* The rows of a whole palace are of whole memories.                       *)
(***************************************************************************)
LEMMA ReassembledWhole ==
  ASSUME Whole(mePalace)
  PROVE  /\ Reassembled(mePalace) \subseteq Rows
         /\ \A r \in Reassembled(mePalace) : \A n \in Pieces(r.text) :
              \E d \in mePalace : DrawerId(d) = <<r.room, r.text, n>>
<1> SUFFICES ASSUME NEW r \in Reassembled(mePalace)
             PROVE  /\ r \in Rows
                    /\ \A n \in Pieces(r.text) :
                         \E d \in mePalace : DrawerId(d) = <<r.room, r.text, n>>
  OBVIOUS
<1> DEFINE has(d) == \A n \in Pieces(d.text) : \E e \in mePalace : DrawerId(e) = <<d.room, d.text, n>>
<1>1. PICK d \in mePalace :
        r = [room |-> d.room, by |-> d.by, text |-> IF has(d) THEN d.text ELSE <<d.text, d.piece>>]
  BY DEF Reassembled
<1>2. d \in Drawers /\ has(d)
  BY DEF Whole
<1>3. r.room = d.room /\ r.text = d.text /\ r.by = d.by
  BY <1>1, <1>2
<1>4. r \in Rows
  <2>1. d.room \in ROOMS /\ d.text \in Texts /\ d.by \in AUTHORS
    BY <1>2, DrawerOf
  <2>2. r = [room |-> d.room, by |-> d.by, text |-> d.text]
    BY <1>1, <1>2
  <2> QED
    BY <2>1, <2>2 DEF Rows
<1> QED
  BY <1>2, <1>3, <1>4

(***************************************************************************)
(* The ids of some rows are those of the drawers that hold them.           *)
(***************************************************************************)
LEMMA IdIsDoomed ==
  ASSUME NEW rows \in SUBSET Rows, NEW d \in Drawers
  PROVE  DrawerId(d) \in IdsOf(rows) <=> \E r \in rows : r.room = d.room /\ r.text = d.text
<1>1. /\ d.room \in ROOMS /\ d.text \in Texts /\ d.piece \in 0..2 /\ d.piece \in Pieces(d.text)
      /\ DrawerId(d) = <<d.room, d.text, d.piece>>
  BY DrawerOf
<1>2. DrawerId(d) \in ROOMS \X Texts \X (0..2)
  BY <1>1
<1>3. DrawerId(d)[1] = d.room /\ DrawerId(d)[2] = d.text /\ DrawerId(d)[3] = d.piece
  BY <1>1
<1>4. DrawerId(d) \in IdsOf(rows) <=>
        \E r \in rows : d.room = r.room /\ d.text = r.text /\ d.piece \in Pieces(r.text)
  BY <1>2, <1>3 DEF IdsOf
<1> QED
  BY <1>1, <1>4

LEMMA DoomedIds ==
  ASSUME Whole(mePalace), NEW rows \in SUBSET Rows,
         \A r \in rows : \A n \in Pieces(r.text) :
           \E d \in mePalace : DrawerId(d) = <<r.room, r.text, n>>
  PROVE  {DrawerId(d) : d \in Doomed(rows)} = IdsOf(rows)
<1>1. mePalace \subseteq Drawers
  BY DEF Whole
<1>2. ASSUME NEW d \in Doomed(rows)
      PROVE  DrawerId(d) \in IdsOf(rows)
  <2>1. d \in mePalace /\ \E r \in rows : r.room = d.room /\ r.text = d.text
    BY DEF Doomed
  <2> QED
    BY <1>1, <2>1, IdIsDoomed
<1>3. ASSUME NEW x \in IdsOf(rows)
      PROVE  \E d \in Doomed(rows) : DrawerId(d) = x
  <2>1. x \in ROOMS \X Texts \X (0..2)
    BY DEF IdsOf
  <2>2. PICK r \in rows : x[1] = r.room /\ x[2] = r.text /\ x[3] \in Pieces(r.text)
    BY DEF IdsOf
  <2>3. x = <<r.room, r.text, x[3]>>
    BY <2>1, <2>2
  <2>4. PICK d \in mePalace : DrawerId(d) = x
    BY <2>2, <2>3
  <2>5. d.room = r.room /\ d.text = r.text
    <3>1. DrawerId(d) = <<d.room, d.text, d.piece>>
      BY DEF DrawerId
    <3> QED
      BY <3>1, <2>3, <2>4
  <2>6. d \in Doomed(rows)
    BY <2>5 DEF Doomed
  <2> QED
    BY <2>4, <2>6
<1> QED
  BY <1>2, <1>3

(***************************************************************************)
(* Deleting the ids of some rows leaves a palace whole.                    *)
(***************************************************************************)
LEMMA DeleteWhole ==
  ASSUME Whole(mePalace), NEW rows \in SUBSET Rows
  PROVE  Whole({d \in mePalace : DrawerId(d) \notin IdsOf(rows)})
<1> DEFINE left == {d \in mePalace : DrawerId(d) \notin IdsOf(rows)}
<1>1. /\ mePalace \subseteq Drawers
      /\ \A d, e \in mePalace : DrawerId(d) = DrawerId(e) => d = e
      /\ \A d \in mePalace : \A n \in Pieces(d.text) :
           \E e \in mePalace : DrawerId(e) = <<d.room, d.text, n>>
  BY DEF Whole
<1>2. ASSUME NEW d \in left, NEW n \in Pieces(d.text)
      PROVE  \E e \in left : DrawerId(e) = <<d.room, d.text, n>>
  <2>1. PICK e \in mePalace : DrawerId(e) = <<d.room, d.text, n>>
    BY <1>1
  <2>2. d \in Drawers /\ e \in Drawers /\ DrawerId(d) \notin IdsOf(rows)
    BY <1>1
  <2>3. e.room = d.room /\ e.text = d.text
    <3>1. DrawerId(e) = <<e.room, e.text, e.piece>>
      BY DEF DrawerId
    <3> QED
      BY <2>1, <3>1
  <2>4. DrawerId(e) \notin IdsOf(rows)
    BY <2>2, <2>3, IdIsDoomed
  <2> QED
    BY <2>1, <2>4
<1>3. left \subseteq Drawers /\ \A d, e \in left : DrawerId(d) = DrawerId(e) => d = e
  BY <1>1
<1> HIDE DEF left
<1>4. Whole(left)
  BY <1>2, <1>3 DEF Whole
<1> QED
  BY <1>4 DEF left

-----------------------------------------------------------------------------
(***************************************************************************)
(* The log: the end of a sequence.                                         *)
(***************************************************************************)
Kept(n) == IF n < LogCap THEN n ELSE LogCap

LEMMA KeptOf ==
  ASSUME NEW n \in Nat
  PROVE  Kept(n) \in Nat /\ Kept(n) <= n /\ Kept(n) <= LogCap /\ (n > 0 => Kept(n) > 0)
  BY MemoryAssumption DEF Kept

LEMMA CappedIs ==
  ASSUME NEW s \in Seq(Texts)
  PROVE  /\ Capped(s) \in Seq(Texts) /\ Len(Capped(s)) = Kept(Len(s)) /\ Len(s) \in Nat
         /\ \A i \in 1..Kept(Len(s)) : Capped(s)[i] = s[Len(s) - Kept(Len(s)) + i]
<1>1. Len(s) \in Nat /\ LogCap \in Nat \ {0}
  BY LenProperties, MemoryAssumption
<1> DEFINE from == IF Len(s) < LogCap THEN 1 ELSE Len(s) - LogCap + 1
<1>2. Capped(s) = SubSeq(s, from, Len(s))
  BY DEF Capped
<1>3. from = Len(s) - Kept(Len(s)) + 1 /\ from \in 1..Len(s) + 1
  BY <1>1 DEF Kept
<1> HIDE DEF from
<1>4. Kept(Len(s)) \in Nat /\ Kept(Len(s)) <= Len(s)
  BY <1>1, KeptOf
<1>5. Len(s) \in from - 1..Len(s)
  BY <1>1, <1>3
<1>6. SubSeq(s, from, Len(s)) \in Seq(Texts)
  BY <1>1, <1>3, <1>5, SubSeqProperties
<1>7. Len(SubSeq(s, from, Len(s))) = Kept(Len(s))
  BY <1>1, <1>3, <1>4
<1>8. \A i \in 1..Kept(Len(s)) : SubSeq(s, from, Len(s))[i] = s[Len(s) - Kept(Len(s)) + i]
  BY <1>1, <1>3, <1>4
<1> QED
  BY <1>1, <1>2, <1>6, <1>7, <1>8

(***************************************************************************)
(* Capping the capped log with an entry more is capping all there was.     *)
(***************************************************************************)
LEMMA CappedAppend ==
  ASSUME NEW s \in Seq(Texts), NEW x \in Texts
  PROVE  Capped(Append(Capped(s), x)) = Capped(Append(s, x))
<1> DEFINE n == Len(s)
           a == Append(Capped(s), x)
           b == Append(s, x)
<1>1. /\ Capped(s) \in Seq(Texts) /\ Len(Capped(s)) = Kept(n) /\ n \in Nat
      /\ \A i \in 1..Kept(n) : Capped(s)[i] = s[n - Kept(n) + i]
  BY CappedIs
<1>2. /\ a \in Seq(Texts) /\ Len(a) = Kept(n) + 1 /\ a[Kept(n) + 1] = x
      /\ \A i \in 1..Kept(n) : a[i] = Capped(s)[i]
  BY <1>1, AppendProperties
<1>3. b \in Seq(Texts) /\ Len(b) = n + 1 /\ b[n + 1] = x /\ \A i \in 1..n : b[i] = s[i]
  BY <1>1, AppendProperties
<1>4. Kept(n) \in Nat /\ Kept(n) <= n /\ LogCap \in Nat \ {0}
  BY <1>1, KeptOf, MemoryAssumption
<1>5. Kept(Kept(n) + 1) = Kept(n + 1)
  BY <1>1, <1>4 DEF Kept
<1> DEFINE k == Kept(n + 1)
<1> HIDE DEF n, a, b
<1>6. /\ Capped(a) \in Seq(Texts) /\ Len(Capped(a)) = Kept(Len(a))
      /\ \A i \in 1..Kept(Len(a)) : Capped(a)[i] = a[Len(a) - Kept(Len(a)) + i]
  BY <1>2, CappedIs
<1>7. /\ Capped(b) \in Seq(Texts) /\ Len(Capped(b)) = Kept(Len(b))
      /\ \A i \in 1..Kept(Len(b)) : Capped(b)[i] = b[Len(b) - Kept(Len(b)) + i]
  BY <1>3, CappedIs
<1>8. Kept(Len(a)) = k /\ Kept(Len(b)) = k
  BY <1>2, <1>3, <1>5
<1>9. k \in Nat /\ k <= n + 1 /\ k <= Kept(n) + 1
  BY <1>1, <1>4 DEF Kept
<1> HIDE DEF k
<1>10. ASSUME NEW i \in 1..k
       PROVE  Capped(a)[i] = Capped(b)[i]
  <2>1. Capped(a)[i] = a[Kept(n) + 1 - k + i] /\ Capped(b)[i] = b[n + 1 - k + i]
    <3>1. Capped(a)[i] = a[Len(a) - k + i]
      BY <1>6, <1>8
    <3>2. Capped(b)[i] = b[Len(b) - k + i]
      BY <1>7, <1>8
    <3>3. Len(a) = Kept(n) + 1 /\ Len(b) = n + 1
      BY <1>2, <1>3
    <3>4. Len(a) - k + i = Kept(n) + 1 - k + i /\ Len(b) - k + i = n + 1 - k + i
      BY <1>1, <1>4, <1>9, <3>3
    <3> QED
      BY <3>1, <3>2, <3>4
  <2> DEFINE p == Kept(n) + 1 - k + i
             q == n + 1 - k + i
  <2>2. p \in 1..Kept(n) + 1 /\ q \in 1..n + 1 /\ q = n - Kept(n) + p
    BY <1>1, <1>4, <1>9
  <2> HIDE DEF p, q
  <2>3. CASE p = Kept(n) + 1
    <3>1. q = n + 1
      BY <1>1, <1>4, <2>2, <2>3
    <3> QED
      BY <1>2, <1>3, <2>1, <2>3, <3>1 DEF p, q
  <2>4. CASE p # Kept(n) + 1
    <3>1. p \in 1..Kept(n) /\ q \in 1..n
      BY <1>1, <1>4, <2>2, <2>4
    <3>2. a[p] = s[n - Kept(n) + p]
      BY <1>1, <1>2, <3>1
    <3>3. b[q] = s[q]
      BY <1>3, <3>1
    <3>4. a[p] = b[q]
      BY <2>2, <3>2, <3>3
    <3> QED
      BY <2>1, <3>4 DEF p, q
  <2> QED
    BY <2>3, <2>4
<1>11. Len(Capped(a)) = Len(Capped(b)) /\ Len(Capped(a)) = k
  BY <1>6, <1>7, <1>8
<1>12. Capped(a) = Capped(b)
  <2>1. \A i \in 1..Len(Capped(a)) : Capped(a)[i] = Capped(b)[i]
    BY <1>10, <1>11
  <2> QED
    BY <1>6, <1>7, <1>11, <2>1, SeqEqual
<1> QED
  BY <1>12 DEF a, b

(***************************************************************************)
(* What it holds is the end of it.                                         *)
(***************************************************************************)
LEMMA CappedIsSuffix ==
  ASSUME NEW s \in Seq(Texts)
  PROVE  IsSuffix(Capped(s), s)
<1> DEFINE c == Capped(s)
           rc == Reverse(c)
           rs == Reverse(s)
           k == Len(c)
<1>1. /\ c \in Seq(Texts) /\ k = Kept(Len(s)) /\ Len(s) \in Nat
      /\ \A i \in 1..k : c[i] = s[Len(s) - k + i]
  BY CappedIs
<1>2. k \in Nat /\ k <= Len(s)
  BY <1>1, KeptOf
<1>3. rc = [i \in 1..k |-> c[(k - i) + 1]] /\ rs = [i \in 1..Len(s) |-> s[(Len(s) - i) + 1]]
  BY DEF Reverse
<1> HIDE DEF c, rc, rs, k
<1>4. Len(rc) = k /\ Len(rs) = Len(s)
  BY <1>1, <1>2, <1>3
<1>5. \A i \in 1..k : rc[i] = rs[i]
  <2> SUFFICES ASSUME NEW i \in 1..k PROVE rc[i] = rs[i]
    OBVIOUS
  <2>1. (k - i) + 1 \in 1..k /\ i \in 1..Len(s)
    BY <1>1, <1>2
  <2>2. rc[i] = s[Len(s) - k + ((k - i) + 1)]
    BY <1>1, <1>3, <2>1
  <2>3. Len(s) - k + ((k - i) + 1) = (Len(s) - i) + 1
    BY <1>1, <1>2
  <2> QED
    BY <1>3, <2>1, <2>2, <2>3
<1>6. SubSeq(rc, 1, k) = [i \in 1..k |-> rc[i]] /\ SubSeq(rs, 1, k) = [i \in 1..k |-> rs[i]]
  <2>1. k - 1 + 1 = k /\ \A i \in 1..k : i + 1 - 1 = i
    BY <1>2
  <2> QED
    BY <1>2, <2>1
<1>7. SubSeq(rc, 1, k) = SubSeq(rs, 1, k)
  BY <1>5, <1>6
<1> QED
  BY <1>2, <1>4, <1>7 DEF IsSuffix, IsPrefix, c, rc, rs

-----------------------------------------------------------------------------
(***************************************************************************)
(* Every action keeps the palace whole and the command's hold on it.       *)
(***************************************************************************)
\* Each memory of the palace is in the next one, under its id.
Grows == \A d \in mePalace : \E e \in mePalace' : DrawerId(e) = DrawerId(d)

LEMMA WritesWhole ==
  ASSUME Whole(mePalace), NEW entry \in Rows, NEW ok \in BOOLEAN,
         mePalace' = IF ok THEN Upserted(entry) ELSE mePalace
  PROVE  /\ Whole(mePalace)' /\ Grows
         /\ ok => \A n \in Pieces(entry.text) :
                    \E e \in mePalace' : DrawerId(e) = <<entry.room, entry.text, n>>
<1>1. CASE ok
  <2>1. mePalace' = Upserted(entry)
    BY <1>1
  <2>2. Whole(mePalace')
    BY <2>1, UpsertWhole
  <2>3. /\ \A d \in mePalace : \E e \in mePalace' : DrawerId(e) = DrawerId(d)
        /\ \A n \in Pieces(entry.text) :
             \E e \in mePalace' : DrawerId(e) = <<entry.room, entry.text, n>>
    BY <2>1, UpsertWhole
  <2> QED
    BY <2>2, <2>3 DEF Grows
<1>2. CASE ~ok
  <2>1. mePalace' = mePalace
    BY <1>2
  <2> QED
    BY <1>2, <2>1 DEF Grows
<1> QED
  BY <1>1, <1>2

LEMMA HoldsOn ==
  ASSUME CommandHolds, Grows, meCommand' = meCommand
  PROVE  CommandHolds'
<1>1. ASSUME meCommand.at = "confirm", NEW r \in meCommand.rows, NEW n \in Pieces(r.text)
      PROVE  \E d \in mePalace' : DrawerId(d) = <<r.room, r.text, n>>
  BY <1>1 DEF CommandHolds, Grows
<1> QED
  BY <1>1 DEF CommandHolds

PalaceInv == Whole(mePalace) /\ meFiles \subseteq Rows /\ CommandHolds

LEMMA NoneHolds ==
  ASSUME meCommand' = NoCommand
  PROVE  CommandHolds'
<1>1. NoCommand \in [at : {"none", "confirm", "delete", "export", "import"},
                     rows : SUBSET Rows, doomed : SUBSET (ROOMS \X Texts \X (0..2))]
  BY DEF NoCommand
<1>2. NoCommand.at = "none"
  BY DEF NoCommand
<1> QED
  BY <1>1, <1>2 DEF CommandHolds

LEMMA GoesHolds ==
  ASSUME CommandHolds, NEW at \in {"export", "import"}, NEW rows \in SUBSET Rows,
         meCommand' = [meCommand EXCEPT !.at = at, !.rows = rows]
  PROVE  CommandHolds'
<1>1. meCommand \in [at : {"none", "confirm", "delete", "export", "import"},
                     rows : SUBSET Rows, doomed : SUBSET (ROOMS \X Texts \X (0..2))]
  BY DEF CommandHolds
<1>2. meCommand' \in [at : {"none", "confirm", "delete", "export", "import"},
                      rows : SUBSET Rows, doomed : SUBSET (ROOMS \X Texts \X (0..2))]
  BY <1>1
<1>3. meCommand'.at = at
  BY <1>1
<1> QED
  BY <1>2, <1>3 DEF CommandHolds

LEMMA NextPalace ==
  ASSUME PalaceInv, RecordsHold, MemoryNext
  PROVE  PalaceInv'
<1> USE DEF PalaceInv
<1>1. CASE UNCHANGED <<mePalace, meFiles, meCommand>>
  <2>1. mePalace' = mePalace /\ meFiles' = meFiles /\ meCommand' = meCommand
    BY <1>1
  <2>2. Grows
    BY <2>1 DEF Grows
  <2> QED
    BY <2>1, <2>2, HoldsOn
<1>2. ASSUME NEW entry \in Rows, NEW ok \in BOOLEAN, RunWrites(entry, ok),
             meFiles' = meFiles, meCommand' = meCommand
      PROVE  PalaceInv'
  <2>1. mePalace' = IF ok THEN Upserted(entry) ELSE mePalace
    BY <1>2 DEF RunWrites
  <2>2. Whole(mePalace)' /\ Grows
    BY <2>1, WritesWhole
  <2> QED
    BY <1>2, <2>2, HoldsOn
<1>3. ASSUME NEW ok \in BOOLEAN, FileTask(ok)
      PROVE  PalaceInv'
  <2>1. [room |-> "tasks", text |-> meTask, by |-> "rudra"] \in Rows
    BY <1>3 DEF FileTask, RecordsHold, Rows, ROOMS, AUTHORS
  <2> QED
    BY <1>2, <1>3, <2>1 DEF FileTask
<1>4. ASSUME NEW ok \in BOOLEAN, NEW m \in Remembered, Remember(m.text, m.room, ok)
      PROVE  PalaceInv'
  <2>1. [room |-> m.room, text |-> m.text, by |-> "agent"] \in Rows
    BY MemoryAssumption DEF Rows, AUTHORS
  <2> QED
    BY <1>2, <1>4, <2>1 DEF Remember
<1>5. ASSUME NEW ok \in BOOLEAN, NEW row \in meCommand.rows, ImportWrites(row, ok)
      PROVE  PalaceInv'
  <2>1. row \in Rows /\ meCommand.rows \in SUBSET Rows /\ meCommand.at = "import"
    BY <1>5 DEF CommandHolds, ImportWrites
  <2>2. mePalace' = IF ok THEN Upserted(row) ELSE mePalace
    BY <1>5 DEF ImportWrites
  <2>3. Whole(mePalace)' /\ Grows
    BY <2>1, <2>2, WritesWhole
  <2>4. \/ meCommand' = NoCommand
        \/ meCommand' = [meCommand EXCEPT !.rows = meCommand.rows \ {row}]
    BY <1>5 DEF ImportWrites
  <2>5. meFiles' = meFiles
    BY <1>5 DEF ImportWrites
  <2>6. CASE meCommand' = [meCommand EXCEPT !.rows = meCommand.rows \ {row}]
    <3>1. meCommand' = [meCommand EXCEPT !.at = "import", !.rows = meCommand.rows \ {row}]
      BY <2>1, <2>6 DEF CommandHolds
    <3> DEFINE left == meCommand.rows \ {row}
    <3>2. left \in SUBSET Rows
      BY <2>1
    <3>3. meCommand' = [meCommand EXCEPT !.at = "import", !.rows = left]
      BY <3>1
    <3> HIDE DEF left
    <3>4. CommandHolds'
      BY <3>2, <3>3, GoesHolds
    <3> QED
      BY <2>3, <2>5, <3>4
  <2> QED
    BY <2>3, <2>4, <2>5, <2>6, NoneHolds
<1>6. CASE CommandFails
  BY <1>6, NoneHolds DEF CommandFails
<1>7. ASSUME NEW by, ForgetLists(by)
      PROVE  PalaceInv'
  <2> DEFINE rows == {r \in Reassembled(mePalace) : r.by \in by}
  <2>1. mePalace' = mePalace /\ meFiles' = meFiles
        /\ meCommand' = [meCommand EXCEPT !.at = "confirm", !.rows = rows]
    BY <1>7 DEF ForgetLists, Goes
  <2>2. /\ rows \in SUBSET Rows
        /\ \A r \in rows : \A n \in Pieces(r.text) :
             \E d \in mePalace : DrawerId(d) = <<r.room, r.text, n>>
    BY ReassembledWhole
  <2> HIDE DEF rows
  <2>3. /\ meCommand' \in [at : {"none", "confirm", "delete", "export", "import"},
                           rows : SUBSET Rows, doomed : SUBSET (ROOMS \X Texts \X (0..2))]
        /\ meCommand'.at = "confirm" /\ meCommand'.rows = rows
    BY <2>1, <2>2 DEF CommandHolds
  <2>4. CommandHolds'
    BY <2>1, <2>2, <2>3 DEF CommandHolds
  <2> QED
    BY <2>1, <2>4
<1>8. CASE ForgetReads
  <2>1. /\ mePalace' = mePalace /\ meFiles' = meFiles /\ meCommand.at = "confirm"
        /\ meCommand' = [meCommand EXCEPT !.at = "delete",
                                          !.doomed = {DrawerId(d) : d \in Doomed(meCommand.rows)}]
    BY <1>8 DEF ForgetReads
  <2>2. meCommand.rows \in SUBSET Rows
    BY DEF CommandHolds
  <2>3. \A r \in meCommand.rows : \A n \in Pieces(r.text) :
          \E d \in mePalace : DrawerId(d) = <<r.room, r.text, n>>
    BY <2>1 DEF CommandHolds
  <2>4. {DrawerId(d) : d \in Doomed(meCommand.rows)} = IdsOf(meCommand.rows)
    BY <2>2, <2>3, DoomedIds
  <2>5. meCommand' = [meCommand EXCEPT !.at = "delete", !.doomed = IdsOf(meCommand.rows)]
    BY <2>1, <2>4
  <2>6. IdsOf(meCommand.rows) \in SUBSET (ROOMS \X Texts \X (0..2))
    BY DEF IdsOf
  <2>7. /\ meCommand' \in [at : {"none", "confirm", "delete", "export", "import"},
                           rows : SUBSET Rows, doomed : SUBSET (ROOMS \X Texts \X (0..2))]
        /\ meCommand'.at = "delete" /\ meCommand'.rows = meCommand.rows
        /\ meCommand'.doomed = IdsOf(meCommand.rows)
    BY <2>5, <2>6 DEF CommandHolds
  <2>8. CommandHolds'
    BY <2>7 DEF CommandHolds
  <2> QED
    BY <2>1, <2>8
<1>9. CASE ForgetDeletes
  <2>1. meCommand.rows \in SUBSET Rows /\ meCommand.doomed = IdsOf(meCommand.rows)
    BY <1>9 DEF ForgetDeletes, CommandHolds
  <2>2. mePalace' = {d \in mePalace : DrawerId(d) \notin IdsOf(meCommand.rows)}
    BY <1>9, <2>1 DEF ForgetDeletes
  <2>3. Whole({d \in mePalace : DrawerId(d) \notin IdsOf(meCommand.rows)})
    BY <2>1, DeleteWhole
  <2>4. Whole(mePalace')
    BY <2>2, <2>3
  <2> QED
    BY <1>9, <2>4, NoneHolds DEF ForgetDeletes
<1>10. CASE ExportLists
  <2>1. Reassembled(mePalace) \in SUBSET Rows
    BY ReassembledWhole
  <2> QED
    BY <1>10, <2>1, GoesHolds DEF ExportLists, Goes
<1>11. ASSUME NEW room \in ROOMS, ExportWrites(room)
       PROVE  PalaceInv'
  <2> DEFINE rows == {r \in meCommand.rows : r.room = room}
             left == meCommand.rows \ rows
  <2>1. /\ mePalace' = mePalace /\ meCommand.at = "export"
        /\ meFiles' = {r \in meFiles : r.room # room} \cup rows
        /\ meCommand' = IF left = {} THEN NoCommand ELSE [meCommand EXCEPT !.rows = left]
    BY <1>11 DEF ExportWrites
  <2>2. meCommand.rows \in SUBSET Rows
    BY DEF CommandHolds
  <2>3. rows \in SUBSET Rows /\ left \in SUBSET Rows
    BY <2>2
  <2> HIDE DEF rows, left
  <2>4. meFiles' \subseteq Rows
    BY <2>1, <2>3
  <2>5. CASE meCommand' = [meCommand EXCEPT !.rows = left]
    <3>1. meCommand' = [meCommand EXCEPT !.at = "export", !.rows = left]
      BY <2>1, <2>5 DEF CommandHolds
    <3> QED
      BY <2>1, <2>3, <2>4, <3>1, GoesHolds
  <2> QED
    BY <2>1, <2>4, <2>5, NoneHolds
<1>12. CASE ImportReads
  <2>1. meFiles \in SUBSET Rows
    OBVIOUS
  <2> QED
    BY <1>12, <2>1, GoesHolds DEF ImportReads, Goes
<1>13. ASSUME NEW text, NEW ok, RecordTask(text, ok)
       PROVE  PalaceInv'
  BY <1>1, <1>13 DEF RecordTask
<1>14. ASSUME NEW notes, SummaryWrites(notes)
       PROVE  PalaceInv'
  BY <1>1, <1>14 DEF SummaryWrites
<1>15. CASE BuildStore \/ SummaryReads \/ RunKilled
  BY <1>1, <1>15 DEF BuildStore, SummaryReads, RunKilled
<1> QED
  BY <1>3, <1>4, <1>5, <1>6, <1>7, <1>8, <1>9, <1>10, <1>11, <1>12, <1>13, <1>14, <1>15 DEF MemoryNext

-----------------------------------------------------------------------------
(***************************************************************************)
(* Every action keeps the two records.                                     *)
(***************************************************************************)
\* A task's memory is there, still to come, or known to be missing.
Known(text) ==
  \/ text \in {meTask} \cup meMissing
  \/ \E d \in mePalace : d.room = "tasks" /\ d.text = text
KnownNext(text) ==
  \/ text \in {meTask'} \cup meMissing'
  \/ \E d \in mePalace' : d.room = "tasks" /\ d.text = text

LEMMA LogTexts ==
  ASSUME RecordsHold
  PROVE  /\ meLog \in Seq(Texts) /\ DOMAIN meLog = 1..Len(meLog)
         /\ \A i \in DOMAIN meLog : meLog[i] \in Texts /\ Known(meLog[i])
<1>1. meLog \in Seq(Texts)
  BY CappedIs DEF RecordsHold
<1>2. DOMAIN meLog = 1..Len(meLog) /\ \A i \in 1..Len(meLog) : meLog[i] \in Texts
  BY <1>1, LenProperties, ElementOfSeq
<1>3. \A i \in DOMAIN meLog : Known(meLog[i])
  BY DEF RecordsHold, LogAndPalaceAgree, Known
<1> QED
  BY <1>1, <1>2, <1>3

LEMMA AgreeOn ==
  ASSUME RecordsHold, meLog' = meLog, \A text \in Texts : Known(text) => KnownNext(text)
  PROVE  LogAndPalaceAgree'
<1>1. \A i \in DOMAIN meLog : KnownNext(meLog[i])
  BY LogTexts
<1> QED
  BY <1>1 DEF LogAndPalaceAgree, KnownNext

\* A grown palace has the task memories it had.
LEMMA GrownKnows ==
  ASSUME Grows, NEW text, NEW d \in mePalace, d.room = "tasks", d.text = text
  PROVE  \E e \in mePalace' : e.room = "tasks" /\ e.text = text
<1>1. PICK e \in mePalace' : DrawerId(e) = DrawerId(d)
  BY DEF Grows
<1>2. e.room = d.room /\ e.text = d.text
  BY <1>1 DEF DrawerId
<1> QED
  BY <1>2

LEMMA NextRecords ==
  ASSUME PalaceInv, RecordsHold, MemoryNext
  PROVE  RecordsHold'
<1>1. ASSUME mePalace' = mePalace, meLog' = meLog, meDone' = meDone, meTask' = meTask,
             meSummary' \in {meSummary, meLog, NOLOG}, meSummary' # NOLOG => meTask = NOTEXT,
             meFailure' = meFailure, meLost' = meLost, meMissing' = meMissing
      PROVE  RecordsHold'
  <2>1. LogAndPalaceAgree'
    BY <1>1, AgreeOn DEF Known, KnownNext
  <2> QED
    BY <1>1, <2>1 DEF RecordsHold
<1>2. ASSUME NEW entry \in Rows, NEW ok \in BOOLEAN, RunWrites(entry, ok)
      PROVE  /\ Grows /\ meFailure' \in BOOLEAN /\ meLost' \in BOOLEAN /\ (meLost' => meFailure')
             /\ ok => \E e \in mePalace' : e.room = entry.room /\ e.text = entry.text
  <2>1. mePalace' = IF ok THEN Upserted(entry) ELSE mePalace
    BY <1>2 DEF RunWrites
  <2>2. Grows /\ (ok => \A n \in Pieces(entry.text) :
                          \E e \in mePalace' : DrawerId(e) = <<entry.room, entry.text, n>>)
    BY <2>1, WritesWhole DEF PalaceInv
  <2>3. ok => \E e \in mePalace' : e.room = entry.room /\ e.text = entry.text
    BY <2>2, PiecesOf DEF DrawerId
  <2>4. meFailure \in BOOLEAN /\ meLost \in BOOLEAN /\ (meLost => meFailure)
    BY DEF RecordsHold
  <2>5. meFailure' = (meFailure \/ ~ok) /\ meLost' = (meLost \/ ~ok)
    BY <1>2 DEF RunWrites, RecordedFailure
  <2>6. meFailure' \in BOOLEAN /\ meLost' \in BOOLEAN /\ (meLost' => meFailure')
    BY <2>4, <2>5
  <2> QED
    BY <2>2, <2>3, <2>6
<1>3. CASE BuildStore
  <2>1. LogAndPalaceAgree'
    BY <1>3, AgreeOn DEF BuildStore, Known, KnownNext
  <2> QED
    BY <1>3, <2>1 DEF BuildStore, RecordsHold
<1>4. ASSUME NEW text \in Texts, NEW ok \in BOOLEAN, RecordTask(text, ok)
      PROVE  RecordsHold'
  <2>1. /\ meTask = NOTEXT /\ meTask' = text /\ meSummary' = NOLOG /\ meMissing' = meMissing
        /\ mePalace' = mePalace /\ meFailure' = meFailure /\ meLost' = meLost
    BY <1>4 DEF RecordTask
  <2>2. ASSUME NEW t \in Texts, Known(t)
        PROVE  KnownNext(t)
    <3>1. t # NOTEXT
      BY MemoryAssumption
    <3> QED
      BY <2>1, <2>2, <3>1 DEF Known, KnownNext
  <2>3. CASE ok
    <3>1. meDone' = Append(meDone, text) /\ meLog' = Capped(Append(meLog, text))
      BY <1>4, <2>3 DEF RecordTask
    <3>2. meDone \in Seq(Texts) /\ meLog = Capped(meDone)
      BY DEF RecordsHold
    <3>3. meDone' \in Seq(Texts) /\ meLog' = Capped(meDone')
      BY <3>1, <3>2, CappedAppend, AppendProperties
    <3>4. ASSUME NEW i \in DOMAIN meLog'
          PROVE  KnownNext(meLog'[i])
      <4>1. meLog \in Seq(Texts) /\ \A j \in DOMAIN meLog : Known(meLog[j]) /\ meLog[j] \in Texts
        BY LogTexts
      <4> DEFINE a == Append(meLog, text)
      <4>2. /\ a \in Seq(Texts) /\ Len(a) = Len(meLog) + 1 /\ a[Len(meLog) + 1] = text
            /\ \A j \in 1..Len(meLog) : a[j] = meLog[j]
            /\ DOMAIN meLog = 1..Len(meLog) /\ Len(meLog) \in Nat
        BY <4>1, AppendProperties, LenProperties
      <4> HIDE DEF a
      <4>3. /\ Capped(a) \in Seq(Texts) /\ Len(Capped(a)) = Kept(Len(a))
            /\ \A j \in 1..Kept(Len(a)) : Capped(a)[j] = a[Len(a) - Kept(Len(a)) + j]
        BY <4>2, CappedIs
      <4>4. meLog' = Capped(a)
        BY <3>1 DEF a
      <4>5. i \in 1..Kept(Len(a))
        BY <4>3, <4>4, LenProperties
      <4>6. Kept(Len(a)) \in Nat /\ Kept(Len(a)) <= Len(a)
        BY <4>2, KeptOf
      <4> DEFINE p == Len(a) - Kept(Len(a)) + i
      <4>7. p \in 1..Len(meLog) + 1
        BY <4>2, <4>5, <4>6
      <4>8. meLog'[i] = a[p]
        BY <4>3, <4>4, <4>5
      <4> HIDE DEF p
      <4>9. CASE p \in 1..Len(meLog)
        BY <2>2, <4>1, <4>2, <4>8, <4>9
      <4>10. CASE p = Len(meLog) + 1
        BY <2>1, <4>2, <4>8, <4>10 DEF KnownNext
      <4> QED
        BY <4>2, <4>7, <4>9, <4>10
    <3>5. LogAndPalaceAgree'
      BY <3>4 DEF LogAndPalaceAgree, KnownNext
    <3> QED
      BY <2>1, <3>3, <3>5 DEF RecordsHold
  <2>4. CASE ~ok
    <3>1. meDone' = meDone /\ meLog' = meLog
      BY <1>4, <2>4 DEF RecordTask
    <3>2. LogAndPalaceAgree'
      BY <2>2, <3>1, AgreeOn
    <3> QED
      BY <2>1, <3>1, <3>2 DEF RecordsHold
  <2> QED
    BY <2>3, <2>4
<1>5. ASSUME NEW ok \in BOOLEAN, FileTask(ok)
      PROVE  RecordsHold'
  <2> DEFINE entry == [room |-> "tasks", text |-> meTask, by |-> "rudra"]
  <2>1. entry \in Rows /\ entry.room = "tasks" /\ entry.text = meTask
    BY <1>5 DEF FileTask, RecordsHold, Rows, ROOMS, AUTHORS
  <2>2. RunWrites(entry, ok) /\ UNCHANGED <<meLog, meDone, meSummary>> /\ meTask # NOTEXT
        /\ meTask' = NOTEXT
        /\ meMissing' = IF ok THEN meMissing \ {meTask} ELSE meMissing \cup {meTask}
    BY <1>5 DEF FileTask
  <2> HIDE DEF entry
  <2>3. /\ Grows /\ meFailure' \in BOOLEAN /\ meLost' \in BOOLEAN /\ (meLost' => meFailure')
        /\ ok => \E e \in mePalace' : e.room = "tasks" /\ e.text = meTask
    BY <1>2, <2>1, <2>2
  <2>4. ASSUME NEW t \in Texts, Known(t)
        PROVE  KnownNext(t)
    <3>1. CASE t = meTask
      BY <2>2, <2>3, <3>1 DEF KnownNext
    <3>2. CASE t # meTask /\ t \in meMissing
      BY <2>2, <3>2 DEF KnownNext
    <3>3. CASE \E d \in mePalace : d.room = "tasks" /\ d.text = t
      BY <2>3, <3>3, GrownKnows DEF KnownNext
    <3> QED
      BY <2>4, <3>1, <3>2, <3>3 DEF Known
  <2>5. LogAndPalaceAgree'
    BY <2>2, <2>4, AgreeOn
  <2>6. meSummary' = NOLOG
    BY <2>2 DEF RecordsHold
  <2> QED
    BY <2>2, <2>3, <2>5, <2>6 DEF RecordsHold
<1>6. ASSUME NEW ok \in BOOLEAN, NEW m \in Remembered, Remember(m.text, m.room, ok)
      PROVE  RecordsHold'
  <2> DEFINE entry == [room |-> m.room, text |-> m.text, by |-> "agent"]
  <2>1. entry \in Rows
    BY MemoryAssumption DEF Rows, AUTHORS
  <2>2. RunWrites(entry, ok) /\ UNCHANGED <<meLog, meDone, meTask, meSummary, meMissing>>
    BY <1>6 DEF Remember
  <2> HIDE DEF entry
  <2>3. Grows /\ meFailure' \in BOOLEAN /\ meLost' \in BOOLEAN /\ (meLost' => meFailure')
    BY <1>2, <2>1, <2>2
  <2>4. \A t \in Texts : Known(t) => KnownNext(t)
    BY <2>2, <2>3, GrownKnows DEF Known, KnownNext
  <2>5. LogAndPalaceAgree'
    BY <2>2, <2>4, AgreeOn
  <2> QED
    BY <2>2, <2>3, <2>5 DEF RecordsHold
<1>7. CASE SummaryReads
  BY <1>1, <1>7 DEF SummaryReads
<1>8. ASSUME NEW notes \in BOOLEAN, SummaryWrites(notes)
      PROVE  RecordsHold'
  <2>1. meLog' = meLog
    BY <1>8 DEF SummaryWrites, RecordsHold
  <2> QED
    BY <1>1, <1>8, <2>1 DEF SummaryWrites
<1>9. CASE RunKilled
  <2>1. /\ mePalace' = mePalace /\ meLog' = meLog /\ meDone' = meDone /\ meTask' = NOTEXT
        /\ meSummary' = NOLOG /\ meFailure' = FALSE /\ meLost' = FALSE
        /\ meMissing' = meMissing \cup ({meTask} \ {NOTEXT})
    BY <1>9 DEF RunKilled
  <2>2. ASSUME NEW t \in Texts, Known(t)
        PROVE  KnownNext(t)
    <3>1. t # NOTEXT
      BY MemoryAssumption
    <3> QED
      BY <2>1, <2>2, <3>1 DEF Known, KnownNext
  <2>3. LogAndPalaceAgree'
    BY <2>1, <2>2, AgreeOn
  <2> QED
    BY <2>1, <2>3 DEF RecordsHold
<1>10. ASSUME NEW ok \in BOOLEAN, NEW row \in meCommand.rows, ImportWrites(row, ok)
       PROVE  RecordsHold'
  <2>1. row \in Rows
    BY DEF PalaceInv, CommandHolds
  <2>2. mePalace' = IF ok THEN Upserted(row) ELSE mePalace
    BY <1>10 DEF ImportWrites
  <2>3. Grows
    BY <2>1, <2>2, WritesWhole DEF PalaceInv
  <2>4. UNCHANGED <<meLog, meDone, meTask, meSummary, meFailure, meLost, meMissing>>
    BY <1>10 DEF ImportWrites
  <2>5. \A t \in Texts : Known(t) => KnownNext(t)
    BY <2>3, <2>4, GrownKnows DEF Known, KnownNext
  <2>6. LogAndPalaceAgree'
    BY <2>4, <2>5, AgreeOn
  <2> QED
    BY <2>4, <2>6 DEF RecordsHold
<1>11. CASE ForgetDeletes
  <2>1. /\ mePalace' = {d \in mePalace : DrawerId(d) \notin meCommand.doomed}
        /\ meMissing' = meMissing \cup {r.text : r \in {r \in meCommand.rows : r.room = "tasks"}}
        /\ UNCHANGED <<meLog, meDone, meTask, meSummary, meFailure, meLost>>
    BY <1>11 DEF ForgetDeletes
  <2>2. meCommand.rows \in SUBSET Rows /\ meCommand.doomed = IdsOf(meCommand.rows)
    BY <1>11 DEF ForgetDeletes, PalaceInv, CommandHolds
  <2>3. ASSUME NEW d \in mePalace, d.room = "tasks"
        PROVE  d \in mePalace' \/ d.text \in meMissing'
    <3>1. d \in Drawers
      BY DEF PalaceInv, Whole
    <3>2. DrawerId(d) \in IdsOf(meCommand.rows) <=>
            \E r \in meCommand.rows : r.room = d.room /\ r.text = d.text
      BY <2>2, <3>1, IdIsDoomed
    <3> QED
      BY <2>1, <2>2, <2>3, <3>2
  <2>4. \A t \in Texts : Known(t) => KnownNext(t)
    BY <2>1, <2>3 DEF Known, KnownNext
  <2>5. LogAndPalaceAgree'
    BY <2>1, <2>4, AgreeOn
  <2> QED
    BY <2>1, <2>5 DEF RecordsHold
<1>12. CASE CommandFails \/ ForgetReads \/ ExportLists \/ ImportReads
  BY <1>1, <1>12 DEF CommandFails, ForgetReads, ExportLists, ImportReads, RecordsHold
<1>13. ASSUME NEW by, ForgetLists(by)
       PROVE  RecordsHold'
  BY <1>1, <1>13 DEF ForgetLists, RecordsHold
<1>14. ASSUME NEW room, ExportWrites(room)
       PROVE  RecordsHold'
  BY <1>1, <1>14 DEF ExportWrites, RecordsHold
<1> QED
  BY <1>3, <1>4, <1>5, <1>6, <1>7, <1>8, <1>9, <1>10, <1>11, <1>12, <1>13, <1>14 DEF MemoryNext

-----------------------------------------------------------------------------
LEMMA MemoryInitInv == MemoryInit => MemoryInv
<1> SUFFICES ASSUME MemoryInit PROVE MemoryInv
  OBVIOUS
<1>1. Whole(mePalace) /\ meFiles \subseteq Rows
  BY DEF MemoryInit, Whole
<1>2. CommandHolds
  BY DEF MemoryInit, CommandHolds, NoCommand
<1>3. <<>> \in Seq(Texts) /\ Len(<<>>) = 0
  BY EmptySeq
<1>4. Capped(<<>>) = <<>>
  <2>1. Capped(<<>>) \in Seq(Texts) /\ Len(Capped(<<>>)) = 0
    <3>1. Kept(0) = 0
      BY MemoryAssumption DEF Kept
    <3> DEFINE e == <<>>
    <3>2. e \in Seq(Texts) /\ Len(e) = 0
      BY <1>3
    <3> HIDE DEF e
    <3>3. Capped(e) \in Seq(Texts) /\ Len(Capped(e)) = Kept(Len(e))
      BY <3>2, CappedIs
    <3> QED
      BY <3>1, <3>2, <3>3 DEF e
  <2> QED
    BY <2>1, EmptySeq
<1>5. RecordsHold
  <2>1. meLog = <<>> /\ meDone = <<>> /\ meSummary = NOLOG /\ meTask = NOTEXT
        /\ meFailure = FALSE /\ meLost = FALSE
    BY DEF MemoryInit
  <2>2. LogAndPalaceAgree
    BY <2>1 DEF LogAndPalaceAgree
  <2> QED
    BY <1>3, <1>4, <2>1, <2>2 DEF RecordsHold
<1> QED
  BY <1>1, <1>2, <1>5 DEF MemoryInv

LEMMA NextMemoryInv ==
  ASSUME MemoryInv, [MemoryNext]_meVars
  PROVE  MemoryInv'
<1>1. CASE MemoryNext
  BY <1>1, NextPalace, NextRecords DEF MemoryInv, PalaceInv
<1>2. CASE UNCHANGED meVars
  <2>1. /\ mePalace' = mePalace /\ meLog' = meLog /\ meDone' = meDone /\ meTask' = meTask
        /\ meSummary' = meSummary /\ meFailure' = meFailure /\ meLost' = meLost
        /\ meMissing' = meMissing /\ meFiles' = meFiles /\ meCommand' = meCommand
    BY <1>2 DEF meVars
  <2>2. RecordsHold'
    BY <2>1 DEF MemoryInv, RecordsHold, LogAndPalaceAgree
  <2>3. CommandHolds'
    BY <2>1 DEF MemoryInv, CommandHolds
  <2> QED
    BY <2>1, <2>2, <2>3 DEF MemoryInv
<1> QED
  BY <1>1, <1>2

LEMMA MemoryInvariant == MemorySpec => []MemoryInv
<1>1. MemoryInit => MemoryInv
  BY MemoryInitInv
<1>2. MemoryInv /\ [MemoryNext]_meVars => MemoryInv'
  BY NextMemoryInv
<1> QED
  BY <1>1, <1>2, PTL DEF MemorySpec

LEMMA MemoryTypes == MemoryInv => MemoryTypeOK
<1> SUFFICES ASSUME MemoryInv PROVE MemoryTypeOK
  OBVIOUS
<1>1. \A d \in mePalace : d.room \in ROOMS /\ d.by \in AUTHORS /\ d.piece \in 0..2
  BY DrawerOf DEF MemoryInv, Whole
<1>2. Len(meLog) <= LogCap
  <2>1. meDone \in Seq(Texts) /\ meLog = Capped(meDone)
    BY DEF MemoryInv, RecordsHold
  <2>2. Len(meLog) = Kept(Len(meDone)) /\ Len(meDone) \in Nat
    BY <2>1, CappedIs
  <2> QED
    BY <2>2, KeptOf
<1> QED
  BY <1>1, <1>2 DEF MemoryInv, Whole, RecordsHold, MemoryTypeOK

(***************************************************************************)
(* Every variable of the memory keeps its type, and each drawer its id.    *)
(***************************************************************************)
THEOREM MemoryTypeCorrect == MemorySpec => []MemoryTypeOK
  BY MemoryTypes, MemoryInvariant, PTL

(***************************************************************************)
(* A memory is whole or gone: filed, copied, forgotten and restored by two *)
(* processes in any order and cut anywhere, no fragment of it is left, and *)
(* a forget takes what it showed and nothing else.                         *)
(***************************************************************************)
THEOREM MemoriesHold == MemorySpec => WholeOrGone
<1> DEFINE A == meCommand.at = "delete" /\ mePalace' # mePalace /\ meCommand' = NoCommand =>
                  \A d \in mePalace :
                    d \notin mePalace' <=> \E r \in meCommand.rows : r.room = d.room /\ r.text = d.text
<1>1. MemoryInv => MemoriesAreWhole
  <2> SUFFICES ASSUME MemoryInv PROVE MemoriesAreWhole
    OBVIOUS
  <2>1. \A d \in mePalace : d.text \in Texts
    BY DrawerOf DEF MemoryInv, Whole
  <2>2. \A r \in meFiles : r.text \in Texts
    BY DEF MemoryInv, Rows
  <2> QED
    BY <2>1, <2>2 DEF MemoryInv, Whole, MemoriesAreWhole
<1>2. MemoryInv /\ [MemoryNext]_meVars => [A]_meVars
  <2> SUFFICES ASSUME MemoryInv, MemoryNext, meCommand.at = "delete", mePalace' # mePalace,
                      meCommand' = NoCommand, NEW d \in mePalace
               PROVE  d \notin mePalace' <=>
                        \E r \in meCommand.rows : r.room = d.room /\ r.text = d.text
    BY DEF meVars
  <2>1. meCommand' # meCommand
    BY DEF NoCommand
  <2>2. ForgetDeletes
    BY <2>1 DEF MemoryNext, BuildStore, SummaryReads, RunKilled, RecordTask, FileTask, SummaryWrites,
           Remember, ImportWrites, CommandFails, ForgetReads, ExportLists, ImportReads, ForgetLists,
           ExportWrites
  <2>3. meCommand.rows \in SUBSET Rows /\ meCommand.doomed = IdsOf(meCommand.rows) /\ d \in Drawers
    BY DEF MemoryInv, CommandHolds, Whole
  <2>4. d \notin mePalace' <=> DrawerId(d) \in IdsOf(meCommand.rows)
    BY <2>2, <2>3 DEF ForgetDeletes
  <2> QED
    BY <2>3, <2>4, IdIsDoomed
<1>3. MemorySpec => [][MemoryNext]_meVars
  BY PTL DEF MemorySpec
<1>4. MemorySpec => [][A]_meVars
  BY <1>2, <1>3, MemoryInvariant, PTL
<1>5. MemorySpec => ForgottenIsGone
  BY <1>4, PTL DEF ForgottenIsGone
<1>6. MemorySpec => []MemoriesAreWhole
  BY <1>1, MemoryInvariant, PTL
<1> QED
  BY <1>5, <1>6, PTL DEF WholeOrGone

(***************************************************************************)
(* A task's two records agree: the log is the end of what was recorded,    *)
(* whatever the summariser wrote back, each task in it is in the palace,   *)
(* and where one was lost the run says so.                                 *)
(***************************************************************************)
THEOREM RecordsStayTrue == MemorySpec => []RecordsAgree
<1>1. MemoryInv => RecordsAgree
  <2> SUFFICES ASSUME MemoryInv PROVE RecordsAgree
    OBVIOUS
  <2>1. meDone \in Seq(Texts) /\ meLog = Capped(meDone)
    BY DEF MemoryInv, RecordsHold
  <2>2. Len(meLog) = Kept(Len(meDone)) /\ IsSuffix(meLog, meDone)
    BY <2>1, CappedIs, CappedIsSuffix
  <2>3. LogIsTheRecentWindow
    BY <2>2 DEF LogIsTheRecentWindow, Kept
  <2>4. LossIsReported /\ LogAndPalaceAgree
    BY DEF MemoryInv, RecordsHold, LossIsReported
  <2> QED
    BY <2>3, <2>4 DEF RecordsAgree
<1> QED
  BY <1>1, MemoryInvariant, PTL

-----------------------------------------------------------------------------
(***************************************************************************)
(* The three side by side: each of them takes its own steps or stands      *)
(* still, so a behaviour of the whole is one of the memory and one of the  *)
(* permissions, and what is invariant of the driver stays so.              *)
(***************************************************************************)
LEMMA RunParts ==
  /\ RunInit => Init /\ MemoryInit /\ PermissionsInit
  /\ [RunNext]_runVars => [Next]_vars /\ [MemoryNext]_meVars /\ [PermissionsNext]_pmVars
<1>1. RunInit => Init /\ MemoryInit /\ PermissionsInit
  BY DEF RunInit
<1>2. UNCHANGED runVars => UNCHANGED vars /\ UNCHANGED meVars /\ UNCHANGED pmVars
  BY DEF runVars
<1>3. RunNext => [Next]_vars /\ [MemoryNext]_meVars /\ [PermissionsNext]_pmVars
  BY DEF RunNext, OfWork
<1> QED
  BY <1>1, <1>2, <1>3

\* Memories and permissions beside a driver behave as their own specifications say.
THEOREM RunImplementsItsParts == RunSpec => MemorySpec /\ PermissionsSpec
  BY RunParts, PTL DEF RunSpec, MemorySpec, PermissionsSpec

(***************************************************************************)
(* The variables of a run's driver, memory and permissions keep their      *)
(* types in the machine TLC runs, for every value of its constants.        *)
(***************************************************************************)
THEOREM RunTypeCorrect == RunSpec => []RunTypeOK
<1>1. RunInit => IInv
  BY RunParts, IInvInit
<1>2. IInv /\ [RunNext]_runVars => IInv'
  BY RunParts, IInvStep
<1>3. RunSpec => []IInv
  BY <1>1, <1>2, PTL DEF RunSpec
<1>4. IInv /\ MemoryTypeOK /\ PermissionsTypeOK => RunTypeOK
  BY WorkTypes DEF RunTypeOK
<1> QED
  BY <1>3, <1>4, RunImplementsItsParts, MemoryTypeCorrect, PermissionsTypeCorrect, PTL

=============================================================================
