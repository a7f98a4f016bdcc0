----------------------------- MODULE Permissions ------------------------------
(***************************************************************************)
(* permissions/: what a tool call may do.  One engine per project root     *)
(* decides every call; a call it would ask about interrupts its agent, and *)
(* the user answers a message's calls one after the other.  Agents of a    *)
(* batch share what the user granted.  A prompt blocks the event loop, so  *)
(* no other agent moves while a message is answered.                       *)
(***************************************************************************)
EXTENDS Naturals, Sequences, FiniteSets

CONSTANTS
  PermAgents, MainAgents,  \* agents; those of the main tree, not of a worktree
  Held,                    \* the tools each agent was built with
  AllowRules, DenyRules,   \* permissions.allow and .deny
  FloorDisabled,           \* permissions.floor_disable
  AutoOptIns,              \* which of execute and call_mcp_tool run unattended
  MaxApprovalRounds,       \* MAX_APPROVAL_ROUNDS
  PermBatches,             \* bound of the model: the calls of one message
  PermMessages             \* bound of the model: messages of one agent

VARIABLES
  pmMode,                  \* ask, plan or auto
  pmGrants,                \* SessionGrants: its rules, and approve_all
  pmAgent,                 \* of each agent: its message's calls and what became of them
  pmRounds,                \* of each agent: rounds of the stream in progress
  pmSent,                  \* messages so far
  pmAudit,                 \* permissions.jsonl
  pmRan,                   \* history: the calls that ran, how decided and how answered
  pmShown                  \* history: the calls the user was asked about, and when

pmVars == <<pmMode, pmGrants, pmAgent, pmRounds, pmSent, pmAudit, pmRan, pmShown>>

CONTROL_PLANE == {"add_tasks", "drop_task", "ask_user", "record_fact", "remember"}
READ_ONLY == {"read_file", "ls", "glob", "grep", "read_ledger", "search_memory", "task"}
MUTATING == {"write_file", "edit_file", "delete", "execute", "call_mcp_tool"}
WRAPPED_EXECUTE == {"git_diff", "run_tests"}
UNRESOLVED == {"execute", "call_mcp_tool"}

Calls == UNION {{batch[i] : i \in DOMAIN batch} : batch \in PermBatches}

\* parse_rule refuses a rule about a tool that is never asked about.
ASSUME PermissionsAssumption ==
  /\ PermBatches \subseteq Seq(Calls)
  /\ MainAgents \subseteq PermAgents
  /\ MaxApprovalRounds \in Nat \ {0} /\ PermMessages \in Nat
  /\ \A rule \in AllowRules \cup DenyRules :
       rule.tool \notin CONTROL_PLANE \cup WRAPPED_EXECUTE

PermissionsInit ==
  /\ pmMode \in {"ask", "plan", "auto"}
  /\ pmGrants = [rules |-> {}, all |-> FALSE]
  /\ pmAgent = [a \in PermAgents |-> [phase |-> "idle", batch |-> <<>>, reply |-> <<>>]]
  /\ pmRounds = [a \in PermAgents |-> 1] /\ pmSent = [a \in PermAgents |-> 0]
  /\ pmAudit = {} /\ pmRan = {} /\ pmShown = {}

-----------------------------------------------------------------------------
(***************************************************************************)
(* rules.py.  A call is a tool and its gated argument: a place, "none", or *)
(* a command.  A command is its segments, each as written and as meant     *)
(* once wrappers, paths and flags are seen through, and whether it         *)
(* substitutes.  A pattern is a place or a program.                        *)
(***************************************************************************)
Rule(tool, pattern) == [tool |-> tool, pattern |-> pattern]

DeniedSegment(pattern, segment) == pattern \in {segment.written, segment.meant}

\* Mutant: a rule that allows takes one segment for the whole.
ExecuteMatchesAny(pattern, command, permissive) ==
  \E i \in DOMAIN command.segments : DeniedSegment(pattern, command.segments[i])

\* A rule that denies takes any segment in any spelling; one that allows
\* must take every segment as it is written, and never a substitution.
ExecuteMatches(pattern, command, permissive) ==
  IF permissive
    THEN ~command.substitutes /\ \A i \in DOMAIN command.segments :
           command.segments[i].written = pattern
    ELSE \E i \in DOMAIN command.segments : DeniedSegment(pattern, command.segments[i])

RuleMatches(rule, call, permissive) ==
  /\ rule.tool = call.tool
  /\ \/ rule.pattern = "*"
     \/ IF call.tool = "execute" THEN ExecuteMatches(rule.pattern, call.arg, permissive)
        ELSE rule.pattern = call.arg

AnyMatches(rules, call, permissive) == \E rule \in rules : RuleMatches(rule, call, permissive)

Unresolvable(call) == call.tool \in MUTATING \ UNRESOLVED /\ call.arg \in {"none", "unresolvable"}

FloorHit(call) ==
  CASE call.tool \in {"write_file", "edit_file", "delete"} /\ call.arg = "outside" -> {"outside-root"}
    [] call.tool \in {"write_file", "edit_file", "delete"} /\ call.arg = "git" -> {"git-dir"}
    [] call.tool \in {"write_file", "edit_file", "delete"} /\ call.arg = "rudra" -> {"rudra-state"}
    [] call.tool = "execute" /\ call.arg.catastrophic -> {"catastrophic-command"}
    [] OTHER -> {}

\* Mutant: a worktree's engine has grants of its own.
GrantsApart(a) == IF a \in MainAgents THEN pmGrants ELSE [rules |-> {}, all |-> FALSE]

\* The engine of a worktree is built over the grants of the session.
GrantsOf(a) == pmGrants

\* What the mode says of a call no rule speaks of.
ByMode(call) ==
  IF call.tool \in READ_ONLY THEN "allow"
  ELSE CASE pmMode = "auto" ->
              IF call.tool \in UNRESOLVED \ AutoOptIns THEN "deny" ELSE "allow"
         [] pmMode = "plan" -> "deny"
         [] pmMode = "ask" -> "ask"

Ungated(call) == call.tool \in CONTROL_PLANE \cup WRAPPED_EXECUTE

\* The project denies it, by its floor or a rule.
Denied(call) ==
  \/ Unresolvable(call) \/ FloorHit(call) \ FloorDisabled # {}
  \/ AnyMatches(DenyRules, call, FALSE)

GrantedBy(grants, call) == grants.all \/ AnyMatches(grants.rules, call, TRUE)

\* Mutant: what the user granted is looked at before what the project denies.
DecideGrantsFirst(grants, call) ==
  IF Ungated(call) \/ GrantedBy(grants, call) THEN "allow"
  ELSE IF Denied(call) THEN "deny" ELSE ByMode(call)

\* PermissionEngine.decide.
Decide(grants, call) ==
  IF Ungated(call) THEN "allow"
  ELSE IF Denied(call) THEN "deny"
  ELSE IF GrantedBy(grants, call) \/ AnyMatches(AllowRules, call, TRUE) THEN "allow"
  ELSE ByMode(call)

\* Mutant: only what was refused is written down.
AuditedRefusals(a, call, outcome) == IF outcome = "allow" THEN {} ELSE {<<a, call, outcome>>}

\* AuditLog: a read that was allowed is not worth a line.
Audited(a, call, outcome) ==
  IF outcome = "allow" /\ call.tool \in READ_ONLY THEN {} ELSE {<<a, call, outcome>>}

-----------------------------------------------------------------------------
(***************************************************************************)
(* approval.py.                                                            *)
(***************************************************************************)
\* suggest_grant: this place, or this program; a command of several segments
\* only itself, which no single segment then matches.
SuggestGrant(call) ==
  IF call.tool # "execute" THEN Rule(call.tool, call.arg)
  ELSE IF Len(call.arg.segments) = 1 /\ ~call.arg.substitutes
    THEN Rule("execute", call.arg.segments[1].written)
    ELSE Rule("execute", "itself")

Widened(grants, call, key) ==
  CASE key = "always" -> [grants EXCEPT !.rules = @ \cup {SuggestGrant(call)}]
    [] key = "auto" -> [grants EXCEPT !.all = TRUE]
    [] OTHER -> grants

DecisionOf(key) == IF key \in {"approve", "always", "auto"} THEN "approve" ELSE "reject"

\* One request, decided again: an earlier answer may have settled it.
AnsweredBy(a, p, i, key) ==
  LET call == pmAgent[a].batch[i]
      effect == Decide(p.grants, call)
      let(decision) == IF decision \in {"allow", "approve"} THEN {i} ELSE {} IN
  IF effect # "ask"
    THEN [p EXCEPT !.approved = @ \cup let(effect), !.audit = @ \cup {<<a, call, effect>>}]
    ELSE [grants |-> Widened(p.grants, call, key),
          approved |-> p.approved \cup let(DecisionOf(key)),
          audit |-> p.audit \cup {<<a, call, IF key \in {"always", "auto"} THEN "allow" ELSE DecisionOf(key)>>},
          shown |-> p.shown \cup {[call |-> call, held |-> call.tool \in Held[a],
                                   granted |-> \E g \in {p.grants, pmGrants} : GrantedBy(g, call)]}]

\* Mutant: the gate's map is given to every agent as it is.
InterruptsAny(a, call) == call.tool \in MUTATING /\ Decide(GrantsOf(a), call) = "ask"

\* Mutant: it is narrowed to the tools of the main agents.
InterruptsNarrowed(a, call) ==
  call.tool \in MUTATING \cap UNION {Held[m] : m \in MainAgents} /\ Decide(GrantsOf(a), call) = "ask"

\* The predicate of interrupt_on, narrowed to the tools the agent has.
Interrupts(a, call) ==
  call.tool \in MUTATING \cap Held[a] /\ Decide(GrantsOf(a), call) = "ask"

\* A message.  Its calls are interrupted before any of them runs.
Propose(a, batch) ==
  /\ pmAgent[a].phase = "idle" /\ pmSent[a] < PermMessages
  /\ pmSent' = [pmSent EXCEPT ![a] = @ + 1]
  /\ pmAgent' = [pmAgent EXCEPT ![a] =
       [phase |-> IF \E i \in DOMAIN batch : Interrupts(a, batch[i]) THEN "asked" ELSE "tools",
        batch |-> batch,
        reply |-> [i \in DOMAIN batch |-> IF Interrupts(a, batch[i]) THEN "ask" ELSE "none"]]]
  /\ UNCHANGED <<pmMode, pmGrants, pmRounds, pmAudit, pmRan, pmShown>>

\* Mutant: the rounds are not counted.
AfterRoundAlways(a) == "tools"

\* The last round's answers are asked for and not used.
AfterRound(a) == IF pmRounds[a] = MaxApprovalRounds THEN "raised" ELSE "tools"

\* decide_action_requests: the requests in the order of the message, each
\* over what the ones before it left.
Answered(a, keys) ==
  LET last == Len(pmAgent[a].batch)
      after[i \in 0..last] ==
        IF i = 0 THEN [grants |-> GrantsOf(a), approved |-> {}, audit |-> pmAudit, shown |-> pmShown]
        ELSE IF i \in DOMAIN keys THEN AnsweredBy(a, after[i - 1], i, keys[i])
        ELSE after[i - 1]
  IN  after[last]

\* run_with_approvals: a round.
Prompt(a) ==
  /\ pmAgent[a].phase = "asked"
  /\ LET batch == pmAgent[a].batch
         asked == {i \in DOMAIN batch : pmAgent[a].reply[i] = "ask"}
     IN \E keys \in [asked -> {"approve", "reject", "always", "auto", "cancelled"}] :
          LET end == Answered(a, keys)
          IN /\ pmGrants' = [rules |-> pmGrants.rules \cup end.grants.rules,
                             all |-> pmGrants.all \/ end.grants.all]
             /\ pmAudit' = end.audit /\ pmShown' = end.shown
             /\ pmAgent' = [pmAgent EXCEPT ![a] =
                  [phase |-> AfterRound(a), batch |-> batch,
                   reply |-> [i \in DOMAIN batch |->
                     IF pmAgent[a].reply[i] # "ask" THEN "none"
                     ELSE IF i \in end.approved THEN "approve" ELSE "reject"]]]
  /\ pmRounds' = [pmRounds EXCEPT ![a] = @ + 1]
  /\ UNCHANGED <<pmMode, pmSent, pmRan>>

-----------------------------------------------------------------------------
\* A call reaches the tool node: rejected by the user it is answered there;
\* any other is checked again by middleware.py, which trusts a call that is
\* still to be asked about to have been asked about, if its tool can be.  The
\* node itself answers for a tool the agent has not.
RunCall(a, i) ==
  /\ pmAgent[a].phase = "tools" /\ i \in DOMAIN pmAgent[a].batch
  /\ pmAgent[a].reply[i] # "done"
  /\ LET batch == pmAgent[a].batch
         call == batch[i]
         effect == Decide(GrantsOf(a), call)
         reply == pmAgent[a].reply[i]
         last == \A j \in DOMAIN batch : j = i \/ pmAgent[a].reply[j] = "done"
         refused == effect = "deny" \/ (effect = "ask" /\ call.tool \notin MUTATING)
         outcomes == IF reply = "reject" THEN {}
                     ELSE ({"allow"} \cap {effect}) \cup (IF refused THEN {"deny"} ELSE {})
     IN /\ pmAudit' = pmAudit \cup UNION {Audited(a, call, o) : o \in outcomes}
        /\ pmRan' = IF reply # "reject" /\ ~refused /\ call.tool \in Held[a]
                      THEN pmRan \cup {[agent |-> a, call |-> call, effect |-> effect, reply |-> reply]}
                      ELSE pmRan
        /\ pmAgent' = [pmAgent EXCEPT ![a] =
             [phase |-> IF last THEN "idle" ELSE "tools", batch |-> batch,
              reply |-> [pmAgent[a].reply EXCEPT ![i] = "done"]]]
  /\ UNCHANGED <<pmMode, pmGrants, pmRounds, pmSent, pmShown>>

\* The agent is done, or another turn of it begins.
NextStream(a) ==
  /\ pmAgent[a].phase \in {"idle", "raised"} /\ pmRounds[a] > 1
  /\ pmRounds' = [pmRounds EXCEPT ![a] = 1]
  /\ pmAgent' = [pmAgent EXCEPT ![a].phase = "idle"]
  /\ UNCHANGED <<pmMode, pmGrants, pmSent, pmAudit, pmRan, pmShown>>

PermissionsNext ==
  \E a \in PermAgents :
    \/ \E batch \in PermBatches : Propose(a, batch)
    \/ Prompt(a)
    \/ \E i \in 1..Len(pmAgent[a].batch) : RunCall(a, i)
    \/ NextStream(a)

PermissionsSpec == PermissionsInit /\ [][PermissionsNext]_pmVars

-----------------------------------------------------------------------------
PermissionsTypeOK ==
  /\ pmMode \in {"ask", "plan", "auto"} /\ pmGrants.all \in BOOLEAN
  /\ \A a \in PermAgents :
       /\ pmAgent[a].phase \in {"idle", "asked", "tools", "raised"}
       /\ \A i \in DOMAIN pmAgent[a].reply :
            pmAgent[a].reply[i] \in {"none", "ask", "approve", "reject", "done"}
       /\ pmRounds[a] \in 1..(MaxApprovalRounds + 1)

(***************************************************************************)
(* Whatever another agent's answers did in between, a call that ran was    *)
(* either allowed by a rule, a grant or the mode at that instant, or the   *)
(* user let through this very call.                                        *)
(***************************************************************************)
RanWithConsent == \A r \in pmRan : r.effect = "allow" \/ r.reply = "approve"

(***************************************************************************)
(* What the project denies stays denied: no grant, no allow rule and no    *)
(* mode lets a call run that matches a deny rule or an enabled floor rule. *)
(***************************************************************************)
DeniedNeverRuns ==
  \A r \in pmRan :
    ~AnyMatches(DenyRules, r.call, FALSE) /\ FloorHit(r.call) \subseteq FloorDisabled

(***************************************************************************)
(* The user is asked only about a call its agent can make, and never about *)
(* one an earlier answer, to any agent, has settled.                       *)
(***************************************************************************)
AsksOnlyWhatItMust == \A s \in pmShown : s.held /\ ~s.granted

(***************************************************************************)
(* A chain or a substitution is never allowed by a grant for one of its    *)
(* programs: a command that ran on a grant or an allow rule alone is one   *)
(* every segment of which some rule names as it is written.                *)
(***************************************************************************)
GrantsDoNotStretch ==
  \A r \in pmRan :
    r.call.tool = "execute" /\ r.reply = "none" /\ ~pmGrants.all /\ pmMode # "auto" =>
      \E rule \in pmGrants.rules \cup AllowRules :
        /\ rule.tool = "execute"
        /\ rule.pattern = "*" \/ \A i \in DOMAIN r.call.arg.segments :
             r.call.arg.segments[i].written = rule.pattern

(***************************************************************************)
(* Only what is permitted runs: with consent in force as it runs, over no  *)
(* deny rule, and by no grant for less than it is.                         *)
(***************************************************************************)
OnlyPermittedRuns == DeniedNeverRuns /\ RanWithConsent /\ GrantsDoNotStretch

(***************************************************************************)
(* Every change an agent was allowed to make is in the audit log, by the   *)
(* prompt that let it through or by the check that did.                    *)
(***************************************************************************)
RanIsAudited ==
  \A r \in pmRan : r.call.tool \in MUTATING =>
    \E outcome \in {"allow", "approve"} : <<r.agent, r.call, outcome>> \in pmAudit

(***************************************************************************)
(* The user is asked what must be asked, no more, and told of all that was *)
(* changed.                                                                *)
(***************************************************************************)
UserIsAskedAndTold == AsksOnlyWhatItMust /\ RanIsAudited
=============================================================================
