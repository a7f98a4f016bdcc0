-------------------------------- MODULE Session --------------------------------
(***************************************************************************)
(* cli.py main, agent/main_agent.py create_main_agent and RudraAgent, and  *)
(* state/archive.py: a process takes one request, or one after another at  *)
(* a prompt; each is a session that opens its log, database and            *)
(* transcript, runs, and is closed step by step, its evidence copied out   *)
(* of the project.  Ctrl-C comes at any await.  What the run itself does   *)
(* is in WorkLoop: here it replaces the ledger, or goes on with it.        *)
(***************************************************************************)
EXTENDS Naturals, Sequences, SequencesExt, FiniteSets

CONSTANTS
  Modes,                  \* bound of the model: what the file may say, of ask, auto and plan
  KEEP_RUNS, MAX_PROJECT_BYTES,
  Processes,              \* bound of the model: [kind, tty, flag] of the processes started
  RunSizes,               \* bound of the model: the bytes of one run's evidence
  MaxSessions             \* bound of the model: sessions

ASSUME SessionAssumption ==
  /\ {KEEP_RUNS, MAX_PROJECT_BYTES, MaxSessions} \subseteq Nat \ {0} /\ RunSizes \subseteq Nat
  /\ Modes \subseteq {"ask", "auto", "plan"}
  /\ Processes \subseteq [kind : {"shot", "repl"}, tty : BOOLEAN,
                          flag : {"none", "ask", "auto", "plan"}]

VARIABLES
  ssProcess,              \* [kind, tty, flag]: the process, and the mode its flags give
  ssPc, ssSession,        \* where it is, and the number of the session
  ssFile, ssMode,         \* permissions.mode in config.toml, and in the configuration in force
  ssResume,               \* whether the session goes on with the ledger
  ssLedger,               \* ledger.json: whose plan it is, and whether tasks are pending
  ssLog, ssDb, ssTranscript,  \* the sessions whose log, database, transcript is open
  ssUsage,                \* the session usage.json is of
  ssArchive,              \* the runs archived, newest first: [run, usage, size, stuck]
  ssResult,               \* how the run ended
  ssCut,                  \* history: the close of the session was cut short
  ssReplace               \* history: the plan the user has agreed to replace

ssVars == <<ssProcess, ssPc, ssSession, ssFile, ssMode, ssResume, ssLedger, ssLog, ssDb,
            ssTranscript, ssUsage, ssArchive, ssResult, ssCut, ssReplace>>
ssOpen == <<ssLog, ssDb, ssTranscript>>
ssDisk == <<ssLedger, ssUsage, ssArchive>>
ssHistory == <<ssCut, ssReplace>>

NoProcess == [kind |-> "none", tty |-> FALSE, flag |-> "none"]

SessionInit ==
  /\ ssProcess = NoProcess /\ ssPc = "down" /\ ssSession = 0
  /\ ssFile \in Modes /\ ssMode = "ask" /\ ssResume = FALSE
  /\ ssLedger = [plan |-> 0, pending |-> FALSE]
  /\ ssLog = {} /\ ssDb = {} /\ ssTranscript = {}
  /\ ssUsage = 0 /\ ssArchive = <<>> /\ ssResult = "none"
  /\ ssCut = FALSE /\ ssReplace = 0

-----------------------------------------------------------------------------
(***************************************************************************)
(* The process and its prompt.                                             *)
(***************************************************************************)
\* A process that ends takes what it had open with it.
Quits ==
  /\ ssPc' = "down" /\ ssProcess' = NoProcess
  /\ ssLog' = {} /\ ssDb' = {} /\ ssTranscript' = {}

\* get_config: a flag wins over the file.
Configured(process) == IF process.flag = "none" THEN ssFile ELSE process.flag

\* Mutant: a request is run under the number of the last.
BeginsAgain(resume) ==
  /\ ssSession < MaxSessions /\ ssSession' = ssSession
  /\ ssPc' = "create" /\ ssResume' = resume /\ ssResult' = "none" /\ ssCut' = FALSE

\* Where a request goes: --continue needs a pending task.
Begins(resume) ==
  /\ ssSession < MaxSessions /\ ssSession' = ssSession + 1
  /\ ssPc' = "create" /\ ssResume' = resume /\ ssResult' = "none" /\ ssCut' = FALSE

\* main: mode ask without a terminal, or nothing to continue, is refused.
StartProcess(process, resume) ==
  /\ ssPc = "down"
  /\ ssMode' = Configured(process)
  /\ \/ /\ \/ ssMode' = "ask" /\ ~process.tty
           \/ process.kind = "shot" /\ resume /\ ~ssLedger.pending
        /\ UNCHANGED <<ssProcess, ssPc, ssSession, ssResume, ssResult, ssHistory>>
     \/ /\ ssMode' = "ask" => process.tty
        /\ ssProcess' = process
        /\ \/ process.kind = "shot" /\ (resume => ssLedger.pending) /\ Begins(resume)
           \/ /\ process.kind = "repl" /\ ~resume /\ ssPc' = "prompt"
              /\ UNCHANGED <<ssSession, ssResume, ssResult, ssCut>>
        /\ UNCHANGED ssReplace
  /\ UNCHANGED <<ssFile, ssOpen, ssDisk>>

\* The user edits config.toml between two requests.
EditConfig(mode) ==
  /\ ssPc = "prompt" /\ ssFile' = mode
  /\ UNCHANGED <<ssProcess, ssPc, ssSession, ssMode, ssResume, ssOpen, ssDisk, ssResult,
                 ssHistory>>

\* Mutant: whether to ask is decided from the configuration of the last request.
AsksBeforeReplacingStale(mode) == ssProcess.tty /\ ssMode # "plan"

\* asks_before_replacing, of the mode in force for this request.
AsksBeforeReplacing(mode) == ssProcess.tty /\ mode # "plan"

\* _repl_session: the configuration is read again; a request that would
\* replace pending tasks is asked about first.
Type(intent) ==
  /\ ssPc = "prompt" /\ ssMode' = Configured(ssProcess)
  /\ \/ /\ intent = "request" /\ AsksBeforeReplacing(ssMode') /\ ssLedger.pending
        /\ ssPc' = "ask" /\ UNCHANGED <<ssSession, ssResume, ssResult, ssCut>>
     \/ /\ intent = "request" /\ ~(AsksBeforeReplacing(ssMode') /\ ssLedger.pending)
        /\ Begins(FALSE)
     \/ intent = "continue" /\ ssLedger.pending /\ Begins(TRUE)
     \/ /\ intent = "continue" /\ ~ssLedger.pending
        /\ UNCHANGED <<ssPc, ssSession, ssResume, ssResult, ssCut>>
  /\ UNCHANGED <<ssProcess, ssFile, ssOpen, ssDisk, ssReplace>>

\* ask_replace.
Choose(choice) ==
  /\ ssPc = "ask"
  /\ \/ /\ choice = "cancel" /\ ssPc' = "prompt"
        /\ UNCHANGED <<ssSession, ssResume, ssResult, ssHistory>>
     \/ choice = "continue" /\ ssLedger.pending /\ Begins(TRUE) /\ UNCHANGED ssReplace
     \/ choice = "replace" /\ Begins(FALSE) /\ ssReplace' = ssLedger.plan
  /\ UNCHANGED <<ssProcess, ssFile, ssMode, ssOpen, ssDisk>>

Leave ==
  /\ ssPc = "prompt" /\ Quits
  /\ UNCHANGED <<ssSession, ssFile, ssMode, ssResume, ssDisk, ssResult, ssHistory>>

\* An exception leaves the session: Ctrl-C leads back to the prompt, or ends a
\* one-shot process; anything else ends either.
Unwinds(kind) ==
  \/ /\ kind = "cancelled" /\ ssProcess.kind = "repl"
     /\ ssPc' = "prompt" /\ UNCHANGED <<ssProcess, ssLog, ssTranscript>>
  \/ kind = "cancelled" /\ ssProcess.kind = "shot" /\ Quits
  \/ kind = "error" /\ Quits

-----------------------------------------------------------------------------
(***************************************************************************)
(* create_main_agent.                                                      *)
(***************************************************************************)
\* Mutant: a run's log is attached beside what is attached already.
AttachedBeside(log) == ssLog \cup {log}

\* configure_debug_logging takes any other run's log off.
Attached(log) == {log}

\* _open_run_log, when a log is wanted and can be opened.
OpenRunLog(wanted) ==
  /\ ssPc = "create" /\ ssPc' = "connect"
  /\ ssLog' = IF wanted THEN Attached(ssSession) ELSE ssLog
  /\ UNCHANGED <<ssProcess, ssSession, ssFile, ssMode, ssResume, ssDisk, ssDb, ssTranscript,
                 ssResult, ssHistory>>

Connect ==
  /\ ssPc = "connect"
  /\ \/ ssPc' = "setup" /\ ssDb' = ssDb \cup {ssSession}
        /\ UNCHANGED <<ssProcess, ssLog, ssTranscript>>
     \/ /\ \E kind \in {"cancelled", "error"} : Unwinds(kind)
        /\ ssPc' = "prompt" => UNCHANGED ssDb
  /\ UNCHANGED <<ssSession, ssFile, ssMode, ssResume, ssDisk, ssResult, ssHistory>>

\* Mutant: what is raised after the connection was made leaves it open.
ClosedOnErrorNot(db) == db

\* The rest of it; whatever is raised closes the connection.
ClosedOnError(db) == db \ {ssSession}

Setup ==
  /\ ssPc = "setup"
  /\ \/ ssPc' = "run" /\ UNCHANGED <<ssProcess, ssOpen>>
     \/ /\ \E kind \in {"cancelled", "error"} : Unwinds(kind)
        /\ ssPc' = "prompt" => ssDb' = ClosedOnError(ssDb)
  /\ UNCHANGED <<ssSession, ssFile, ssMode, ssResume, ssDisk, ssResult, ssHistory>>

-----------------------------------------------------------------------------
(***************************************************************************)
(* RudraAgent.run.                                                         *)
(***************************************************************************)
\* The first event opens the transcript.
RunStarts ==
  /\ ssPc = "run" /\ ssPc' = "running"
  /\ ssTranscript' = ssTranscript \cup {ssSession}
  /\ UNCHANGED <<ssProcess, ssSession, ssFile, ssMode, ssResume, ssDisk, ssLog, ssDb, ssResult,
                 ssHistory>>

\* plan: the request is saved over the ledger, and usage.json is written.
PlanSaves ==
  /\ ssPc = "running" /\ ~ssResume /\ ssLedger.plan # ssSession
  /\ ssLedger' = [plan |-> ssSession, pending |-> FALSE] /\ ssUsage' = ssSession
  /\ UNCHANGED <<ssProcess, ssPc, ssSession, ssFile, ssMode, ssResume, ssOpen, ssArchive, ssResult,
                 ssHistory>>

\* Tasks are planned, worked, put back.
Works(pending) ==
  /\ ssPc = "running" /\ (ssResume \/ ssLedger.plan = ssSession)
  /\ ssLedger' = [ssLedger EXCEPT !.pending = pending]
  /\ UNCHANGED <<ssProcess, ssPc, ssSession, ssFile, ssMode, ssResume, ssOpen, ssUsage, ssArchive,
                 ssResult, ssHistory>>

\* The run returns, raises, or is cancelled; the close follows all the same.
RunReturns(result) ==
  /\ ssPc = "running" /\ ssPc' = "transcript" /\ ssResult' = result
  /\ UNCHANGED <<ssProcess, ssSession, ssFile, ssMode, ssResume, ssOpen, ssDisk, ssHistory>>

\* A second Ctrl-C within its window, or a kill.
Killed ==
  /\ ssPc \notin {"down", "prompt", "ask"} /\ Quits /\ ssCut' = TRUE
  /\ UNCHANGED <<ssSession, ssFile, ssMode, ssResume, ssDisk, ssResult, ssReplace>>

-----------------------------------------------------------------------------
(***************************************************************************)
(* RudraAgent.close, one step after another.                               *)
(***************************************************************************)
\* A transcript whose last write failed raises again when it is closed.
CloseTranscript ==
  /\ ssPc = "transcript"
  /\ \/ /\ ssPc' = "db" /\ ssTranscript' = ssTranscript \ {ssSession}
        /\ UNCHANGED <<ssProcess, ssLog, ssDb, ssCut>>
     \/ Unwinds("error") /\ ssCut' = TRUE
  /\ UNCHANGED <<ssSession, ssFile, ssMode, ssResume, ssDisk, ssResult, ssReplace>>

\* The MCP client's close only forgets its catalog.
CloseDb ==
  /\ ssPc = "db"
  /\ \/ /\ ssPc' = "usage" /\ ssDb' = ssDb \ {ssSession}
        /\ UNCHANGED <<ssProcess, ssLog, ssTranscript, ssCut>>
     \/ /\ \E kind \in {"cancelled", "error"} : Unwinds(kind)
        /\ ssPc' = "prompt" => ssDb' = ssDb \ {ssSession}
        /\ ssCut' = TRUE
  /\ UNCHANGED <<ssSession, ssFile, ssMode, ssResume, ssDisk, ssResult, ssReplace>>

\* Mutant: the archive is taken before usage.json is written.
CloseOrderArchiveFirst == <<"archive", "usage", "recorders">>
CloseOrder == <<"usage", "archive", "recorders">>

\* The steps after the database; write_usage_log and archive_run do not raise.
After(step) ==
  IF step = "recorders" THEN "closed"
  ELSE CloseOrder[(CHOOSE i \in DOMAIN CloseOrder : CloseOrder[i] = step) + 1]

WriteUsage ==
  /\ ssPc = "usage"
  /\ ssPc' = After("usage")
  /\ ssUsage' = ssSession
  /\ UNCHANGED <<ssProcess, ssSession, ssFile, ssMode, ssResume, ssOpen, ssLedger, ssArchive,
                 ssResult, ssHistory>>

Bytes(runs) ==
  LET sum[i \in 0..Len(runs)] == IF i = 0 THEN 0 ELSE sum[i - 1] + runs[i].size
  IN  sum[Len(runs)]

\* Mutant: the bytes of a run that could not be deleted are not counted.
WithUncounted(kept, i, run) ==
  IF \/ run.stuck \/ kept = <<>>
     \/ i <= KEEP_RUNS /\ Bytes(SelectSeq(kept, LAMBDA r : ~r.stuck)) + run.size <= MAX_PROJECT_BYTES
    THEN Append(kept, run) ELSE kept

\* Of the runs, the i-th: it is kept under both bounds, or as the only one, or
\* because it cannot be deleted.
With(kept, i, run) ==
  IF \/ i <= KEEP_RUNS /\ (kept = <<>> \/ Bytes(kept) + run.size <= MAX_PROJECT_BYTES)
     \/ run.stuck
    THEN Append(kept, run) ELSE kept

\* prune_runs: one run after another, the newest first.
Pruned(runs) ==
  LET kept[i \in 0..Len(runs)] == IF i = 0 THEN <<>> ELSE With(kept[i - 1], i, runs[i])
  IN  kept[Len(runs)]

\* archive_run.
ArchiveRun(size, stuck) ==
  /\ ssPc = "archive"
  /\ ssPc' = After("archive")
  /\ ssArchive' = Pruned(<<[run |-> ssSession, usage |-> ssUsage, size |-> size,
                            stuck |-> stuck]>> \o ssArchive)
  /\ UNCHANGED <<ssProcess, ssSession, ssFile, ssMode, ssResume, ssOpen, ssLedger, ssUsage,
                 ssResult, ssHistory>>

\* remove_console_recorder and detach_debug_logging, of this run's log only.
DetachRecorders ==
  /\ ssPc = "recorders" /\ ssPc' = "closed"
  /\ ssLog' = ssLog \ {ssSession}
  /\ UNCHANGED <<ssProcess, ssSession, ssFile, ssMode, ssResume, ssDisk, ssDb, ssTranscript,
                 ssResult, ssHistory>>

\* Back in main, or in the loop of the prompt.
Return ==
  /\ ssPc = "closed"
  /\ \/ /\ ssProcess.kind = "repl" /\ ssResult # "raised" /\ ssPc' = "prompt"
        /\ UNCHANGED <<ssProcess, ssOpen>>
     \/ ssProcess.kind = "repl" /\ ssResult = "raised" /\ Quits
     \/ ssProcess.kind = "shot" /\ Quits
  /\ UNCHANGED <<ssSession, ssFile, ssMode, ssResume, ssDisk, ssResult, ssHistory>>

Closing == CloseTranscript \/ CloseDb \/ WriteUsage \/ DetachRecorders \/ Return
  \/ \E size \in RunSizes, stuck \in BOOLEAN : ArchiveRun(size, stuck)

SessionNext ==
  \/ \E process \in Processes, resume \in BOOLEAN : StartProcess(process, resume)
  \/ \E mode \in Modes : EditConfig(mode)
  \/ \E intent \in {"request", "continue"} : Type(intent)
  \/ \E choice \in {"cancel", "continue", "replace"} : Choose(choice)
  \/ Leave
  \/ \E wanted \in BOOLEAN : OpenRunLog(wanted)
  \/ Connect \/ Setup \/ RunStarts \/ PlanSaves
  \/ \E pending \in BOOLEAN : Works(pending)
  \/ \E result \in {"success", "failure", "cancelled", "raised"} : RunReturns(result)
  \/ Closing \/ Killed

SessionSpec == SessionInit /\ [][SessionNext]_ssVars

-----------------------------------------------------------------------------
SessionTypeOK ==
  /\ ssProcess.kind \in {"none", "shot", "repl"} /\ ssSession \in 0..MaxSessions
  /\ {ssFile, ssMode} \subseteq {"ask", "auto", "plan"} /\ ssUsage \in 0..ssSession
  /\ (ssLog \cup ssDb \cup ssTranscript) \subseteq 1..ssSession
  /\ (ssPc = "down" <=> ssProcess = NoProcess)

(***************************************************************************)
(* A run that keeps a log is alone in writing it and writes no other:      *)
(* though a session interrupted while it was made, or closed, left its log *)
(* attached to a logger every later session shares.                        *)
(***************************************************************************)
RunLogIsOwn == ssPc = "running" /\ ssSession \in ssLog => ssLog = {ssSession}

(***************************************************************************)
(* At the prompt no session holds its database, whatever was raised and    *)
(* wherever in the making, the run or the closing of it.                   *)
(***************************************************************************)
NoDatabaseIsLeft == ssPc \in {"prompt", "ask", "down"} => ssDb = {}

(***************************************************************************)
(* Nothing of one session is in another's way: its log is its own and its  *)
(* database closed.                                                        *)
(***************************************************************************)
NothingIsLeftOpen == RunLogIsOwn /\ NoDatabaseIsLeft

(***************************************************************************)
(* However a run ended, once its close was gone through it is the newest   *)
(* of the archive, with its own numbers and not those of an earlier run.   *)
(***************************************************************************)
EndedIsArchived ==
  ssPc \in {"prompt", "down"} /\ ssResult # "none" /\ ~ssCut =>
    ssArchive # <<>> /\ ssArchive[1].run = ssSession /\ ssArchive[1].usage = ssSession

(***************************************************************************)
(* What the archive keeps fits its two bounds, counting what it could not  *)
(* delete; the newest run is kept whatever its size.                       *)
(***************************************************************************)
ArchiveFits ==
  \A i \in 2..Len(ssArchive) :
    ~ssArchive[i].stuck =>
      i <= KEEP_RUNS /\ Bytes(SubSeq(ssArchive, 1, i)) <= MAX_PROJECT_BYTES

(***************************************************************************)
(* The archive holds what it should: the run that ended, as it ended, and  *)
(* of the others what fits.                                                *)
(***************************************************************************)
ArchiveHolds == EndedIsArchived /\ ArchiveFits

(***************************************************************************)
(* At a prompt somebody reads, outside plan mode, tasks still pending are  *)
(* replaced only after the user, asked about that very plan, said so:      *)
(* whatever was edited, continued, cancelled or interrupted in between.    *)
(***************************************************************************)
ReplacedOnlyIfAgreed ==
  [][ssLedger'.plan # ssLedger.plan /\ ssLedger.pending
     /\ ssProcess.kind = "repl" /\ ssProcess.tty /\ ssMode # "plan"
       => ssReplace = ssLedger.plan]_ssVars
=============================================================================
