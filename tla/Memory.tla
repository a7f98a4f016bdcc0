------------------------------- MODULE Memory --------------------------------
(***************************************************************************)
(* Long-term memory: the palace (memory/store.py, over mempalace), which   *)
(* keeps a memory as drawers of one chunk each; AGENTS.md's Session Log    *)
(* (context/agents_md.py); the markdown copy (memory/export.py); and the   *)
(* commands of `rudra memory`, each a process beside the run's.  A store   *)
(* call may fail anywhere and degrades; either process may be killed       *)
(* between two steps.                                                      *)
(***************************************************************************)
EXTENDS Naturals, Sequences, FiniteSets, SequencesExt

CONSTANTS
  Texts,                  \* what may be remembered
  Chunked,                \* those of them longer than one drawer
  Remembered,             \* what an agent may remember: [room, text]
  LogCap,                 \* SESSION_LOG_ENTRIES
  MaxRecorded             \* bound of the model: tasks a project completes

ROOMS == {"tasks", "preferences"}
AUTHORS == {"rudra", "agent"}
NOTEXT == "no text"
ASSUME MemoryAssumption ==
  /\ Chunked \subseteq Texts /\ Remembered \subseteq [room : ROOMS, text : Texts]
  /\ LogCap \in Nat \ {0} /\ MaxRecorded \in Nat /\ NOTEXT \notin Texts

VARIABLES
  mePalace,               \* its drawers: [room, text, piece, by]
  meLog,                  \* AGENTS.md: the tasks of its Session Log
  meDone,                 \* the tasks recorded there, the oldest first
  meTask,                 \* the task whose memory is still to be filed, or NOTEXT
  meSummary,              \* the log the summariser read, while its model call is out
  meFailure,              \* of the run: last_failure() is set
  meLost,                 \* history: a write of this run did not file
  meMissing,              \* history: the tasks not filed, or forgotten
  meFiles,                \* the exported copy: [room, text, by]
  meCommand               \* of the command: where it is, the rows it holds

meVars == <<mePalace, meLog, meDone, meTask, meSummary, meFailure, meLost, meMissing,
            meFiles, meCommand>>

NOLOG == <<"no log">>
NoCommand == [at |-> "none", rows |-> {}, doomed |-> {}]

MemoryInit ==
  /\ mePalace = {} /\ meLog = <<>> /\ meDone = <<>> /\ meTask = NOTEXT /\ meSummary = NOLOG
  /\ meFailure = FALSE /\ meLost = FALSE /\ meMissing = {} /\ meFiles = {} /\ meCommand = NoCommand

-----------------------------------------------------------------------------
(***************************************************************************)
(* MemoryStore.                                                            *)
(***************************************************************************)
\* _chunks: the drawers of a text.
Pieces(text) == IF text \in Chunked THEN {1, 2} ELSE {0}

\* Mutant: the room is no part of the id.
DrawerIdByText(d) == <<"any", d.text, d.piece>>

\* The id of a drawer is of the whole entry and the chunk, not of the author.
DrawerId(d) == <<d.room, d.text, d.piece>>
DrawersOf(entry) ==
  [room : {entry.room}, text : {entry.text}, piece : Pieces(entry.text), by : {entry.by}]

\* Mutant: what is there is kept beside what is added.
UpsertedAdds(entry) == mePalace \cup DrawersOf(entry)

\* upsert: drawers of the same ids are replaced.
Upserted(entry) ==
  {d \in mePalace : DrawerId(d) \notin {DrawerId(e) : e \in DrawersOf(entry)}} \cup DrawersOf(entry)

\* Mutant: a row per drawer, of the text of the drawer.
ReassembledNot(drawers) ==
  {[room |-> d.room, by |-> d.by,
    text |-> IF d.piece = 0 THEN d.text ELSE <<d.text, d.piece>>] : d \in drawers}

\* _reassemble: a row per memory.  Of a memory with a drawer missing the row
\* has what is left.
Reassembled(drawers) ==
  {[room |-> d.room, by |-> d.by,
    text |-> IF \A n \in Pieces(d.text) : \E e \in drawers : DrawerId(e) = <<d.room, d.text, n>>
             THEN d.text ELSE <<d.text, d.piece>>] : d \in drawers}

\* Mutant: the drawers whose id is one of the ids the listing gave.
DoomedExact(rows) == {d \in mePalace : d.piece = 0 /\ \E r \in rows : <<r.room, r.text>> = <<d.room, d.text>>}

\* delete: the drawers a row names, by their id or its base.
Doomed(rows) == {d \in mePalace : \E r \in rows : <<r.room, r.text>> = <<d.room, d.text>>}

\* Mutant: a call that works clears what an earlier one recorded.
RecordedFailureLast(failed, ok) == ~ok

\* degrades: the first failure of a process is kept.
RecordedFailure(failed, ok) == failed \/ ~ok

\* One write of the run: the entry is filed, or the call degrades to False.
RunWrites(entry, ok) ==
  /\ mePalace' = IF ok THEN Upserted(entry) ELSE mePalace
  /\ meFailure' = RecordedFailure(meFailure, ok)
  /\ meLost' = (meLost \/ ~ok)

-----------------------------------------------------------------------------
(***************************************************************************)
(* The run.                                                                *)
(***************************************************************************)
\* build_memory_store: the failures of an earlier input are forgotten.
BuildStore ==
  /\ meTask = NOTEXT /\ meSummary = NOLOG
  /\ meFailure' = FALSE /\ meLost' = FALSE
  /\ UNCHANGED <<mePalace, meLog, meDone, meTask, meSummary, meMissing, meFiles, meCommand>>

\* Mutant: the oldest entries are kept.
CappedOldest(entries) == SubSeq(entries, 1, IF Len(entries) < LogCap THEN Len(entries) ELSE LogCap)

\* append_session_entry: entries[-cap:].
Capped(entries) ==
  SubSeq(entries, IF Len(entries) < LogCap THEN 1 ELSE Len(entries) - LogCap + 1, Len(entries))

\* record_task_in_memory, of a DONE task; a file that cannot be read or
\* replaced is left.
RecordTask(text, ok) ==
  /\ meTask = NOTEXT /\ meSummary = NOLOG
  /\ Len(meDone) < MaxRecorded /\ text \notin {meDone[i] : i \in DOMAIN meDone}
  /\ meTask' = text
  /\ meDone' = IF ok THEN Append(meDone, text) ELSE meDone
  /\ meLog' = IF ok THEN Capped(Append(meLog, text)) ELSE meLog
  /\ UNCHANGED <<mePalace, meSummary, meFailure, meLost, meMissing, meFiles, meCommand>>

\* record_task_memory, next to it.
FileTask(ok) ==
  /\ meTask # NOTEXT
  /\ RunWrites([room |-> "tasks", text |-> meTask, by |-> "rudra"], ok)
  /\ meTask' = NOTEXT
  /\ meMissing' = IF ok THEN meMissing \ {meTask} ELSE meMissing \cup {meTask}
  /\ UNCHANGED <<meLog, meDone, meSummary, meFiles, meCommand>>

\* remember: what the agent is told is what the write returned.
Remember(text, room, ok) ==
  /\ meSummary = NOLOG
  /\ RunWrites([room |-> room, text |-> text, by |-> "agent"], ok)
  /\ UNCHANGED <<meLog, meDone, meTask, meSummary, meMissing, meFiles, meCommand>>

\* summarise_architecture, when something is done: it reads AGENTS.md ...
SummaryReads ==
  /\ meTask = NOTEXT /\ meSummary = NOLOG /\ meDone # <<>>
  /\ meSummary' = meLog
  /\ UNCHANGED <<mePalace, meLog, meDone, meTask, meFailure, meLost, meMissing, meFiles, meCommand>>

\* ... and after its model call replaces one section of what it read, if the
\* call gave any notes.
SummaryWrites(notes) ==
  /\ meSummary # NOLOG
  /\ meLog' = IF notes THEN meSummary ELSE meLog
  /\ meSummary' = NOLOG
  /\ UNCHANGED <<mePalace, meDone, meTask, meFailure, meLost, meMissing, meFiles, meCommand>>

\* Killed: a task may be in the log and not in the palace.
RunKilled ==
  /\ meTask # NOTEXT \/ meSummary # NOLOG
  /\ meMissing' = meMissing \cup ({meTask} \ {NOTEXT})
  /\ meTask' = NOTEXT /\ meSummary' = NOLOG /\ meFailure' = FALSE /\ meLost' = FALSE
  /\ UNCHANGED <<mePalace, meLog, meDone, meFiles, meCommand>>

-----------------------------------------------------------------------------
(***************************************************************************)
(* The commands.                                                           *)
(***************************************************************************)
Goes(at, rows) == meCommand' = [meCommand EXCEPT !.at = at, !.rows = rows]

\* A store call that degrades ends its command with exit 1.
CommandFails ==
  /\ meCommand.at # "none" /\ meCommand' = NoCommand
  /\ UNCHANGED <<mePalace, meLog, meDone, meTask, meSummary, meFailure, meLost, meMissing, meFiles>>

\* forget: what matches is listed and shown.
ForgetLists(by) ==
  /\ meCommand.at = "none"
  /\ LET rows == {r \in Reassembled(mePalace) : r.by \in by}
     IN  rows # {} /\ Goes("confirm", rows)
  /\ UNCHANGED <<mePalace, meLog, meDone, meTask, meSummary, meFailure, meLost, meMissing, meFiles>>

\* The user agrees; delete asks for the ids there are ...
ForgetReads ==
  /\ meCommand.at = "confirm"
  /\ meCommand' = [meCommand EXCEPT !.at = "delete", !.doomed = {DrawerId(d) : d \in Doomed(meCommand.rows)}]
  /\ UNCHANGED <<mePalace, meLog, meDone, meTask, meSummary, meFailure, meLost, meMissing, meFiles>>

\* ... and deletes those it chose.
ForgetDeletes ==
  /\ meCommand.at = "delete" /\ meCommand' = NoCommand
  /\ mePalace' = {d \in mePalace : DrawerId(d) \notin meCommand.doomed}
  /\ meMissing' = meMissing \cup {r.text : r \in {r \in meCommand.rows : r.room = "tasks"}}
  /\ UNCHANGED <<meLog, meDone, meTask, meSummary, meFailure, meLost, meFiles>>

\* export: one listing ...
ExportLists ==
  /\ meCommand.at = "none" /\ mePalace # {}
  /\ Goes("export", Reassembled(mePalace))
  /\ UNCHANGED <<mePalace, meLog, meDone, meTask, meSummary, meFailure, meLost, meMissing, meFiles>>

\* ... and the file of one room after another; a room it has nothing of keeps
\* the file it had.
ExportWrites(room) ==
  /\ meCommand.at = "export"
  /\ LET rows == {r \in meCommand.rows : r.room = room}
         left == meCommand.rows \ rows
     IN  /\ rows # {} /\ meFiles' = {r \in meFiles : r.room # room} \cup rows
         /\ meCommand' = IF left = {} THEN NoCommand ELSE [meCommand EXCEPT !.rows = left]
  /\ UNCHANGED <<mePalace, meLog, meDone, meTask, meSummary, meFailure, meLost, meMissing>>

\* import: the entries of the files ...
ImportReads ==
  /\ meCommand.at = "none" /\ meFiles # {}
  /\ Goes("import", meFiles)
  /\ UNCHANGED <<mePalace, meLog, meDone, meTask, meSummary, meFailure, meLost, meMissing, meFiles>>

\* ... one write each; one that fails is skipped, and the command fails at its end.
ImportWrites(row, ok) ==
  /\ meCommand.at = "import" /\ row \in meCommand.rows
  /\ mePalace' = IF ok THEN Upserted(row) ELSE mePalace
  /\ LET left == meCommand.rows \ {row}
     IN  meCommand' = IF left = {} THEN NoCommand ELSE [meCommand EXCEPT !.rows = left]
  /\ UNCHANGED <<meLog, meDone, meTask, meSummary, meFailure, meLost, meMissing, meFiles>>

MemoryNext ==
  \/ BuildStore \/ SummaryReads \/ RunKilled
  \/ \E ok \in BOOLEAN :
       \/ \E text \in Texts : RecordTask(text, ok)
       \/ FileTask(ok) \/ SummaryWrites(ok)
       \/ \E m \in Remembered : Remember(m.text, m.room, ok)
       \/ \E row \in meCommand.rows : ImportWrites(row, ok)
  \/ CommandFails \/ ForgetReads \/ ForgetDeletes \/ ExportLists \/ ImportReads
  \/ \E by \in {{"agent"}, AUTHORS} : ForgetLists(by)
  \/ \E room \in ROOMS : ExportWrites(room)

MemorySpec == MemoryInit /\ [][MemoryNext]_meVars

-----------------------------------------------------------------------------
(***************************************************************************)
(* Every variable has its type, and no two drawers have one id.            *)
(***************************************************************************)
MemoryTypeOK ==
  /\ \A d \in mePalace : d.room \in ROOMS /\ d.by \in AUTHORS /\ d.piece \in 0..2
  /\ \A d, e \in mePalace : DrawerId(d) = DrawerId(e) => d = e
  /\ Len(meLog) <= LogCap /\ meTask \in Texts \cup {NOTEXT}

(***************************************************************************)
(* What is remembered is whole: no order of filing, forgetting, exporting  *)
(* and restoring, of two processes and cut anywhere, leaves a fragment of  *)
(* a memory in the palace or in its copy.                                  *)
(***************************************************************************)
MemoriesAreWhole ==
  /\ \A d \in mePalace : d.text \in Texts /\ \A n \in Pieces(d.text) :
       \E e \in mePalace : DrawerId(e) = <<d.room, d.text, n>>
  /\ \A r \in meFiles : r.text \in Texts

(***************************************************************************)
(* A forget takes all of what it showed, however many drawers it has, and  *)
(* nothing else, whatever the run filed while it asked.                    *)
(***************************************************************************)
ForgottenIsGone ==
  [][meCommand.at = "delete" /\ mePalace' # mePalace /\ meCommand' = NoCommand =>
       \A d \in mePalace :
         d \notin mePalace' <=> \E r \in meCommand.rows : r.room = d.room /\ r.text = d.text]_meVars

(***************************************************************************)
(* A memory is whole or gone, however it was filed, copied and forgotten.  *)
(***************************************************************************)
WholeOrGone == []MemoriesAreWhole /\ ForgottenIsGone

(***************************************************************************)
(* A run's failed write is reported at its end: no later success hides it. *)
(***************************************************************************)
LossIsReported == meLost => meFailure

(***************************************************************************)
(* The log is the recent window of the tasks it was given, in their order, *)
(* and the summariser, who writes back what it read before its model call, *)
(* drops none.                                                             *)
(***************************************************************************)
LogIsTheRecentWindow ==
  /\ Len(meLog) = IF Len(meDone) < LogCap THEN Len(meDone) ELSE LogCap
  /\ IsSuffix(meLog, meDone)

(***************************************************************************)
(* The log and the palace do not diverge: a task in the log is in the      *)
(* palace, under its own room, unless its filing failed, the process was   *)
(* killed between the two, or it was forgotten.                            *)
(***************************************************************************)
LogAndPalaceAgree ==
  \A i \in DOMAIN meLog :
    \/ meLog[i] \in {meTask} \cup meMissing
    \/ \E d \in mePalace : d.room = "tasks" /\ d.text = meLog[i]

(***************************************************************************)
(* A task's two records agree: the log is its recent window, each task in  *)
(* it is in the palace, and where one was lost the run says so.            *)
(***************************************************************************)
RecordsAgree == LossIsReported /\ LogIsTheRecentWindow /\ LogAndPalaceAgree
=============================================================================
