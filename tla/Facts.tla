-------------------------------- MODULE Facts --------------------------------
(***************************************************************************)
(* facts/store.py and tools/interaction_tools.py: what the planner         *)
(* establishes, in memory and in facts.json.  The tool calls of one message*)
(* run in threads of their own, each recording and then saving; a process  *)
(* may die between the two, and the next loads what is on disk.            *)
(***************************************************************************)
EXTENDS Integers, Sequences, FiniteSets, Functions

CONSTANTS
  FactKeys, FactValues,
  MAX_FACTS,
  MaxQuestions,           \* agent.max_questions
  FactThreads,            \* the tool calls that may run at once
  QuestionLists,          \* bound of the model: the keys one ask_user may ask for
  FactCalls, FactRuns     \* bounds of the model: tool calls in one run; runs

ASSUME FactsAssumption ==
  /\ MAX_FACTS \in Nat \ {0} /\ MaxQuestions \in Nat
  /\ {FactCalls, FactRuns} \subseteq Nat
  /\ QuestionLists \subseteq Seq(FactKeys) \ {<<>>}

VARIABLES
  fcStore, fcDisk,        \* FactStore.facts, and facts.json
  fcInteractive,          \* whether this run may ask
  fcRemaining,            \* questions the user may still be asked
  fcThread,               \* of each thread: what it has left to do
  fcCalls, fcRun,
  fcLoaded,               \* history: what the user was on record for when the run began
  fcPut,                  \* history: questions put to the user in this run
  fcCrowded, fcRaced      \* history: two ask_user overlapped; two savers overlapped

fcVars == <<fcStore, fcDisk, fcInteractive, fcRemaining, fcThread, fcCalls, fcRun, fcLoaded,
            fcPut, fcCrowded, fcRaced>>

Sources == {"asked", "inferred"}     \* detected is recorded nowhere
NoFacts == [k \in {} |-> 0]
FactOf(value, source) == [value |-> value, source |-> source]
AskedPairs(facts) == {<<k, facts[k].value>> : k \in {j \in DOMAIN facts : facts[j].source = "asked"}}

Thread(pc, todo, payload) == [pc |-> pc, todo |-> todo, payload |-> payload]
Rest == Thread("rest", <<>>, NoFacts)

FactsInit ==
  /\ fcStore = NoFacts /\ fcDisk = NoFacts
  /\ fcInteractive \in BOOLEAN /\ fcRemaining = MaxQuestions
  /\ fcThread = [t \in FactThreads |-> Rest]
  /\ fcCalls = 0 /\ fcRun = 1 /\ fcLoaded = {} /\ fcPut = 0
  /\ fcCrowded = FALSE /\ fcRaced = FALSE

Saving(t) == fcThread[t].pc \in {"payload", "replace"}

-----------------------------------------------------------------------------
(***************************************************************************)
(* FactStore.                                                              *)
(***************************************************************************)
\* Mutant: one more than MAX_FACTS.
RoomForOneMore(facts, key) == key \in DOMAIN facts \/ Cardinality(DOMAIN facts) <= MAX_FACTS

RoomFor(facts, key) == key \in DOMAIN facts \/ Cardinality(DOMAIN facts) < MAX_FACTS

\* record: the check and the write as one step; a rejected fact changes nothing.
Record(facts, key, fact) == [k \in DOMAIN facts \cup {key} |-> IF k = key THEN fact ELSE facts[k]]

\* After a fact was recorded: this thread saves, and perhaps beside another.
StartsSaving(t) ==
  fcRaced' = (fcRaced \/ \E u \in FactThreads \ {t} : Saving(u))

Goes(t) == IF fcThread[t].todo = <<>> THEN "rest" ELSE "ask"

\* save: the payload is built from the store as it is now.
Payload(t) ==
  /\ fcThread[t].pc = "payload"
  /\ fcThread' = [fcThread EXCEPT ![t] = Thread("replace", @.todo, fcStore)]
  /\ UNCHANGED <<fcStore, fcDisk, fcInteractive, fcRemaining, fcCalls, fcRun, fcLoaded, fcPut,
                 fcCrowded, fcRaced>>

\* os.replace of a file of its own: whichever thread comes last is what stays.
Replace(t) ==
  /\ fcThread[t].pc = "replace"
  /\ fcDisk' = fcThread[t].payload
  /\ fcThread' = [fcThread EXCEPT ![t] = Thread(Goes(t), @.todo, NoFacts)]
  /\ UNCHANGED <<fcStore, fcInteractive, fcRemaining, fcCalls, fcRun, fcLoaded, fcPut, fcCrowded,
                 fcRaced>>

\* The write fails: the temporary is removed, the tool raises, memory is ahead.
SaveFails(t) ==
  /\ fcThread[t].pc = "replace"
  /\ fcThread' = [fcThread EXCEPT ![t] = Rest]
  /\ fcRaced' = TRUE
  /\ UNCHANGED <<fcStore, fcDisk, fcInteractive, fcRemaining, fcCalls, fcRun, fcLoaded, fcPut,
                 fcCrowded>>

-----------------------------------------------------------------------------
(***************************************************************************)
(* record_fact.                                                            *)
(***************************************************************************)
\* Mutant: an unattended run may say the user said it, of any fact the user answered.
SourceByKey(key, value, source) ==
  IF ~fcInteractive /\ source = "asked"
     /\ ~(key \in DOMAIN fcStore /\ fcStore[key].source = "asked")
    THEN "inferred" ELSE source

Restated(key, value) ==
  key \in DOMAIN fcStore /\ fcStore[key] = FactOf(value, "asked")

SourceOf(key, value, source) ==
  IF ~fcInteractive /\ source = "asked" /\ ~Restated(key, value) THEN "inferred" ELSE source

\* The source is settled from the store as it is, and the store written after.
CallRecord(t, key, value, source) ==
  /\ fcThread[t] = Rest /\ fcCalls < FactCalls
  /\ fcCalls' = fcCalls + 1
  /\ fcThread' = [fcThread EXCEPT ![t] =
       Thread("record", <<>>, [k \in {key} |-> FactOf(value, SourceOf(key, value, source))])]
  /\ UNCHANGED <<fcStore, fcDisk, fcInteractive, fcRemaining, fcRun, fcLoaded, fcPut, fcCrowded,
                 fcRaced>>

RecordFact(t) ==
  /\ fcThread[t].pc = "record"
  /\ LET key == CHOOSE k \in DOMAIN fcThread[t].payload : TRUE IN
     IF RoomFor(fcStore, key)
       THEN /\ fcStore' = Record(fcStore, key, fcThread[t].payload[key])
            /\ fcThread' = [fcThread EXCEPT ![t] = Thread("payload", <<>>, NoFacts)]
            /\ StartsSaving(t)
       ELSE fcThread' = [fcThread EXCEPT ![t] = Rest] /\ UNCHANGED <<fcStore, fcRaced>>
  /\ UNCHANGED <<fcDisk, fcInteractive, fcRemaining, fcCalls, fcRun, fcLoaded, fcPut, fcCrowded>>

-----------------------------------------------------------------------------
(***************************************************************************)
(* ask_user, a tool only of a run that may ask.                            *)
(***************************************************************************)
Asking(t) == fcThread[t].pc = "ask" \/ (Saving(t) /\ fcThread[t].todo # <<>>)

\* How many of them the budget still allows, decided before the first is asked.
Askable(questions) ==
  SubSeq(questions, 1, IF fcRemaining < Len(questions) THEN fcRemaining ELSE Len(questions))

CallAsk(t, questions) ==
  /\ fcThread[t] = Rest /\ fcCalls < FactCalls
  /\ fcInteractive /\ MaxQuestions > 0 /\ fcRemaining > 0
  /\ fcCalls' = fcCalls + 1
  /\ fcThread' = [fcThread EXCEPT ![t] = Thread("ask", Askable(questions), NoFacts)]
  /\ fcCrowded' = (fcCrowded \/ \E u \in FactThreads : Asking(u))
  /\ UNCHANGED <<fcStore, fcDisk, fcInteractive, fcRemaining, fcRun, fcLoaded, fcPut, fcRaced>>

\* Mutant: a call, not a question, is what the budget counts.
SpentByCall(t) == fcRemaining - (IF Len(fcThread[t].todo) = 1 THEN 1 ELSE 0)

Spent(t) == fcRemaining - 1

\* One question: an answer is recorded as the user's, none or a cancelled
\* selection goes on to the next, a closed input ends the call.
AskNext(t) ==
  /\ fcThread[t].pc = "ask"
  /\ fcRemaining' = Spent(t) /\ fcPut' = fcPut + 1
  /\ LET key == Head(fcThread[t].todo)
         rest == Tail(fcThread[t].todo)
         past == Thread(IF rest = <<>> THEN "rest" ELSE "ask", rest, NoFacts)
     IN \/ \E value \in FactValues :
             IF RoomFor(fcStore, key)
               THEN /\ fcStore' = Record(fcStore, key, FactOf(value, "asked"))
                    /\ fcThread' = [fcThread EXCEPT ![t] = Thread("payload", rest, NoFacts)]
                    /\ StartsSaving(t)
               ELSE fcThread' = [fcThread EXCEPT ![t] = past] /\ UNCHANGED <<fcStore, fcRaced>>
        \/ \E end \in {past, Rest} :
             fcThread' = [fcThread EXCEPT ![t] = end] /\ UNCHANGED <<fcStore, fcRaced>>
  /\ UNCHANGED <<fcDisk, fcInteractive, fcCalls, fcRun, fcLoaded, fcCrowded>>

-----------------------------------------------------------------------------
\* Mutant: what the user answered is not taken from a file.
LoadInferred(facts) ==
  Restrict(facts, {k \in DOMAIN facts : facts[k].source = "inferred"})

\* load: every entry goes through record, which takes all that save wrote.
Load(facts) == facts

\* The process ends, in the middle of anything, and another run loads the file.
NextRun(interactive) ==
  /\ fcRun < FactRuns
  /\ fcRun' = fcRun + 1 /\ fcStore' = Load(fcDisk) /\ fcInteractive' = interactive
  /\ fcRemaining' = MaxQuestions /\ fcThread' = [t \in FactThreads |-> Rest] /\ fcCalls' = 0
  /\ fcLoaded' = AskedPairs(fcStore') /\ fcPut' = 0 /\ fcCrowded' = FALSE /\ fcRaced' = FALSE
  /\ UNCHANGED fcDisk

FactsNext ==
  \/ \E t \in FactThreads :
       \/ \E key \in FactKeys, value \in FactValues, source \in Sources :
            CallRecord(t, key, value, source)
       \/ RecordFact(t) \/ Payload(t) \/ Replace(t) \/ SaveFails(t)
       \/ \E questions \in QuestionLists : CallAsk(t, questions)
       \/ AskNext(t)
  \/ \E interactive \in BOOLEAN : NextRun(interactive)

FactsSpec == FactsInit /\ [][FactsNext]_fcVars

-----------------------------------------------------------------------------
FactsTypeOK ==
  /\ DOMAIN fcStore \subseteq FactKeys /\ DOMAIN fcDisk \subseteq FactKeys
  /\ \A k \in DOMAIN fcStore : fcStore[k] \in [value : FactValues, source : Sources]
  /\ Cardinality(DOMAIN fcStore) <= MAX_FACTS
  /\ fcInteractive \in BOOLEAN /\ fcRemaining \in Int
  /\ \A t \in FactThreads : fcThread[t].pc \in {"rest", "record", "payload", "replace", "ask"}

(***************************************************************************)
(* In a run nobody attends, whatever the planner claims and however its    *)
(* calls interleave, the store credits the user with nothing the user had  *)
(* not already answered when the run began.                                *)
(***************************************************************************)
UnattendedCreditsNothing == ~fcInteractive => AskedPairs(fcStore) \subseteq fcLoaded

(***************************************************************************)
(* A run puts at most max_questions questions to the user, over any calls  *)
(* that do not overlap: the budget counts questions.                       *)
(***************************************************************************)
QuestionsAreBudgeted == ~fcCrowded => fcPut <= MaxQuestions

(***************************************************************************)
(* The user's answers are the user's: nobody is credited with one in a run *)
(* nobody attends, and none is asked for beyond the budget.                *)
(***************************************************************************)
AnswersAreTheUsers == UnattendedCreditsNothing /\ QuestionsAreBudgeted

(***************************************************************************)
(* Between saves the file holds what the store holds, in a later run as in *)
(* the one that established it, unless two saves overlapped or one failed. *)
(***************************************************************************)
FactsAreOnDisk ==
  ~fcRaced /\ (\A t \in FactThreads : ~Saving(t)) => fcDisk = fcStore
=============================================================================
