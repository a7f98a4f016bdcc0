# Rudra in TLA+

Rudra is a command-line coding agent: it plans a request into a ledger of tasks,
has subagents write and test each of them, and believes nothing but a
verification gate that reads the tree they left. This directory models the part
of Rudra that decides: which task is worked, whether its work is accepted, when
the loop gives up, what is on disk when it stops, what a batch of tasks in git
worktrees leaves on the main tree, what ends one agent's turn, what becomes
of its model calls, what a call is turned into and whether it may run, which
environment and which suite the gate believes, what is remembered, and what a
session leaves behind when it is closed. Text (prompts, notes, parsing of tool
output, rendering) is abstracted away; every state change, guard, early return
and error path of the modelled handlers is kept.

Source paths below are under `src/src/rudra/`. Documentation paths are under
`src/Documentation/`.

## 1. The system

| component | state | operations | who it talks to |
|---|---|---|---|
| Verification gate (`verify/`) | none: a function of the tree and the changed files | `verify` runs syntax, typecheck, test, lint, stubs and stops at the first halting stage | reads the tree; called by the loop and by the merge check |
| Loop judgements (`loop/regressions.py`, `bounds.py`, `dependencies.py`) | none | failure keys, verdict against an inherited set, signature, missing packages | asked by `run_task` |
| Task run (`loop/engine.py` `run_task`) | the call's locals, the task's `status`, `attempts`, `files_touched`, `last_signature`; the run's `failure_baseline`, `baseline_failed`, `run_errors` | dispatch the coder, give an attempt back, judge, dispatch the tester, refund a gate over missing packages, settle, stop | subagent runner, gate, ledger |
| Ledger (`loop/ledger.py`, `loop/tools.py`) | `tasks` in working order, `_unblocking`, `_front_at`, `run/ledger.json` | `add_tasks`, `drop_task`, `next_pending`, `save`, `load` | planner tools, both drivers |
| Serial driver (`loop/engine.py` `plan`, `work`; `agent/main_agent.py` `_run`) | consult flags and counters, the previous ledger | plan in three stages, approval and revisions, pick up, consult, close, cancel, resume | planner, ledger, task run |
| Parallel driver (`loop/parallel.py`) | the batch, its worktrees, redo counts, the base gate | fork, join, merge back, check, undo, redo, cap, consult, cancel | git core, gate, ledger, task run |
| Git core (`git/core.py`) | the repository | worktrees, commit, merge, reset, `auto_branch` | parallel driver, CLI |
| Subagent runner (`subagents/runner.py`) | counters of one invocation | guards on calls, repeats, failures, refused reads, seconds; one nudge | the agent graph, task run |
| Repeat guard (`middleware/repeat_guard.py`) | per invocation, what each call's last answer was and what each file was written with; per run and role, the writes | refuse a call an earlier one settled, learn from the calls that ran | every tool call of a subagent |
| Planner agent (`agent/planner_agent.py`) | the thread of its stages, counters of one consult | guards on calls, on calls of one planning tool, on failures, on seconds | ledger tools, facts, model calls |
| Model retry and endpoint limits (`middleware/model_retry.py`, `llm/retry.py`, `llm/concurrency.py`) | semaphore per endpoint, `RunUsage.served_roles`, the attempt of a call and of a stream | take a slot, call, back off, give up; start a stream again | every agent that shares the endpoint |
| Tool-argument middleware (`middleware/`, ordered by `subagents/build.py`) | none of its own; reads the project's files | annotate, refuse, reroute, repair one call on its way to the tool | every tool call |
| Permissions (`permissions/`) | session grants and auto-accept, audit log, an agent's approval rounds | interrupt, prompt, grant, decide as the call runs, record | every tool call; the user |
| Facts (`facts/`, `tools/interaction_tools.py`) | `FactStore.facts`, questions left, `facts.json` | record, ask, save, load | planner's tool calls |
| Memory (`memory/`, `context/agents_md.py`) | the palace's drawers, AGENTS.md's Session Log, exported rooms | file, list, forget, export, import, summarise | task run, `rudra memory` in another process |
| Project environment (`testing/project_env.py`) | `.venv`, its marker, what failed in this run | create, install, stamp, skip | the gate, in the main tree and in worktrees |
| Stack detection and test runner (`stacks/`, `testing/runner.py`, `verify/pipeline.py`) | none: functions of the tree | detect the stack, choose the command, read its outcome | the gate |
| Configuration (`config/`) | the configuration in force and where each value came from | merge five layers, validate, resolve roles, read again | CLI; everything reads it |
| Session (`cli.py`, `agent/main_agent.py`, `state/archive.py`) | open log, database, transcript; the archive | open, run, close step by step, archive, rotate, ask before replacing | all of the above |

`PROJECT.json` lists the rest (MCP client, skills, providers, compatibility
shims, git tools), with the reason each is left out.

**How they interact.** A process plans into the ledger, settles the plan with the
user, and hands it to one of two drivers. The serial driver works one task at a
time; the parallel one runs `run_task` for a batch, each in a worktree of its own,
and merges afterwards. `run_task` is shared by both. A subagent is an asyncio
task inside the same process: what it writes is on disk at once, and a Ctrl-C
lands at whichever `await` the process is in. `ledger.json` is all that survives.

**What is hard.** The gate is a *prefix*: it stops at the first stage that halts,
so what it says of a tree depends on what is wrong before. Its answer is compared
with one given at pick-up time, several attempts and a tester earlier. The
attempt bound is moved by two kinds of give-back. Cancellation falls inside a
subagent that has already written. A kill falls anywhere. The tool calls of one
message run concurrently, each checked against what was learnt before the others
ran. The planner edits the ledger while the driver holds a task. A batch's
siblings are each at a different point when one of them stops the run. A grant
given at one agent's prompt is in force for the calls of another. A prompt
outlives many edits of the files it was configured from. A virtualenv is built by
commands any of which may be refused, fail, or be the last thing the process does.
`rudra memory` edits what a run is writing. Each of
these is a hazard in `PROJECT.json`, at its line.

**What makes each part correct.**

- *Task run*: done means the work answers for every failure it caused; a task is
  given up only on evidence; the accounts of attempts balance; a call returns and
  never leaves its task in progress.
- *Ledger and serial driver*: a settled task is never worked again; what a block
  asked for is worked first; consults end; unfinished work is never replaced
  without a copy; the run ends.
- *Parallel driver*: done work is on the main tree; the main tree never gets
  redder than its base; no worktree outlives its batch; redos are capped.
- *Repeat guard and subagent runner*: what a refusal says is true when it says
  it; a turn ends, whatever the model asks for; a guard that fired is final; an
  agent is stopped for flailing exactly when it flails.
- *Model calls*: no slot of an endpoint is lost or overbooked, however calls end;
  an endpoint is given up on evidence; an invocation whose model answered is not
  replayed.
- *Planner*: a consult is halted for what it did itself, and ends.
- *Calls*: what a stage of the stack judged is what the tool gets; a repaired edit
  is the edit that was meant; what ran had consent as it ran, nothing denied ever
  does, and the user is not asked what is settled.
- *Facts*: nobody is credited with an answer nobody gave; the budget counts
  questions; the file holds what the store holds.
- *Memory*: a memory is whole or gone; a loss is reported; the log and the palace
  do not diverge.
- *Environment and suites*: a gate runs on what its tree declares, in an
  environment that is wholly Rudra's or wholly the user's; a pass ran the tests.
- *Configuration*: the value in force is the highest layer's, and the layer named
  for it gave it; a request sees the files as they are and keeps the flags.
- *Session*: nothing stays open, the run that ended is the run archived, the
  archive fits its bounds, pending work is replaced only when its user agreed.

## 2. Modules

| module | models | role |
|---|---|---|
| `Gate` | `verify/pipeline.py`, `loop/regressions.py`, `bounds.py`, `dependencies.py` | pure operators: what the gate reports of a tree and what the loop asks of that report |
| `TaskRun` | `run_task` and the run around it | one action per step between two awaits |
| `TaskLifecycle` | nothing directly | the abstract specification of a ledger's tasks |
| `Ledger` | `loop/ledger.py`, `loop/tools.py` | the queue, as operators on a sequence |
| `WorkLoop` | `plan`, approval, `work`, resume | the serial driver over `Ledger`, with processes that crash |
| `ParallelLoop` | `loop/parallel.py` | the parallel driver over worktrees |
| `RepeatGuard` | `middleware/repeat_guard.py` | what the guard refuses and learns, as operators on a record |
| `SubagentTurn` | `subagents/runner.py` | one agent invoked through `run_subagent`, over `RepeatGuard` |
| `ModelCalls` | `middleware/model_retry.py`, `llm/retry.py`, `llm/concurrency.py`, `_stream_with_retry` of `permissions/approval.py` | the model calls of agents that share an endpoint |
| `PlannerTurn` | `agent/planner_agent.py` | the planner's stages and re-consults on threads that remember |
| `Facts` | `facts/store.py`, `tools/interaction_tools.py` | concurrent tool calls over a store, a budget and a file, run after run |
| `ToolChain` | the order in `subagents/build.py`, and the stages in `middleware/` | one call on its way down an agent's stack, a step per stage |
| `GutterEdit` | `middleware/gutter_indent.py` | edits copied from a read, repaired against the file as it then is |
| `Permissions` | `permissions/` | agents' messages, approval rounds, grants, the check as a call runs |
| `Memory` | `memory/store.py`, `export.py`, `context/agents_md.py` | the palace, the log beside it, and a second process that edits both |
| `ProjectEnv` | `testing/project_env.py` | `.venv` of a tree and of worktrees, command by command |
| `Suites` | `stacks/detect.py`, `testing/runner.py`, the test stage of `verify/pipeline.py` | which suite of a changing tree is run, and what is believed of it |
| `Config` | `config/layers.py`, `config/loader.py` | five layers, read at the start and before each request |
| `Session` | `cli.py`, `agent/main_agent.py`, `state/archive.py` | sessions opened, cut short, closed and archived |
| `MCTaskRun`, `MCParallelLoop`, `MCSubagentTurn`, `MCModelCalls` | | instances for TLC: the faults, symmetry, the view |
| `MCAgent`, `MCModels`, `MCRun`, `MCProcess`, `MCGate` | | several components side by side in one run |
| `Gate_proofs`, `WorkLoop_proofs`, `ParallelLoop_proofs`, `AgentCalls_proofs`, `Models_proofs`, `Run_proofs`, `Process_proofs`, `RecursiveFunctions` | | theorems and their proofs |

`TaskRun` and `ParallelLoop` extend `Gate`; `WorkLoop` extends `Ledger`.
`TaskRun` and `WorkLoop` both implement `TaskLifecycle`, the first from memory
(`status`, and the task of the call in progress), the second from `ledger.json`.
In the drivers `run_task` is one of its three outcomes; `TaskRun` is the inside.
In `TaskRun` a subagent's turn is one step with any effect; `SubagentTurn`,
which extends `RepeatGuard`, is the inside of that, and `ModelCalls` the inside of
its model's steps. A planning stage of `WorkLoop` is any change of the ledger;
`PlannerTurn` is the inside of that. `ToolChain`, `GutterEdit` and `Permissions`
are between `SubagentTurn`'s `Check` and `Run`: what a call becomes and whether it
may run. `ProjectEnv` and `Suites` are the inside of `Gate`'s test stage, and
`Session` has `WorkLoop`'s run as one step.

**Components side by side.** `MCRun` and the other four extend several components
and give them one `Init` and `Next` in which the variable `part`, fixed by the
initial state, says which of them moves. The components of one such module share
no variable, no action of one reads another's, and a component that does not move
rests in one of its own initial states, so the behaviours of a component are
exactly its own: every property is checked as if alone, over the same states, and
a mutant of one cannot disturb another. It is a sum and not a product; what
crosses components is in the refinements and the abstractions named above.

### Gate

A *fault* is `[stage, at]`: the stage that would report it, and the file it is
located in, or a member of `Crashes` when the stage cannot locate it. A tree is a
set of faults and whether it has tests. `Visible` scopes the syntax and stub
stages to the changed files (`pipeline.py`); `Blocker` is the first stage that
halts; `Escalation` is a missing tool, a denied command or an internal error.
`failure_keys`, `verdict_for`, `failure_signature` and `missing_packages` keep
the names they have in the source. Line numbers and messages are abstracted, so
two faults of one stage in one file are one fault. Lint is advisory and halts
nothing.

### TaskRun

`pc` is where `run_task` is: `head` (the attempt loop), `coder`, `gate`, `tester`,
`regate`; outside a call it is `idle` or `stopped`. `Dispatch` charges the attempt
and marks the task in progress; `CoderFails` gives it back and counts a run
error; `CoderServes` computes what changed since the snapshot, which reaches back
over failed dispatches (`carried`). `VerifyAttempt` is the whole judgement: the
empty-diff branch (`JudgeEmptyDiff`), the tester branch (`SendTester`), or the
verdict (`JudgeWork`), each with its escalation, baseline update, and settling.
`VerifyTests` is the gate after the tester. `Cancel` is Ctrl-C at an await;
`Resume` is `--continue` in a new process with an edited tree. A subagent may
write any files and leave any faults (`Rewrite`), except that a fault of a file's
own text moves only with that file. `served` and `startTree` are history
variables and are read by properties only.

### Ledger and WorkLoop

A task is its id, its status and the blocked task whose consult added it.
`add_tasks` inserts a consult's tasks ahead of the pending ones, at a place found
at its first addition (`_front_at`). `pc` follows a process: `saving` and the
planning stages, `settling` (approval and revisions), `picking`, `working`,
`consult`, `closing`, `down`. `disk` and `previous` are `ledger.json` and
`ledger.previous.json`; `Crash` takes a process down at any step, and the next
one sees only those two files.

### ParallelLoop

`Fork` takes a batch of the configured size, some of whose worktrees may fail;
siblings start and end in any order; `StartReduce` waits for all of them. The
merge-back is one action per decision of `_merge_back`, in ascending id:
`PassOver`, `NothingToMerge`, `CommitFails`, `MergeFails`, `MergeApplies`, then
`MergeKept` or `MergeUndone` at `checking`. `EndBatch` saves and applies the cap.
`Kill` may fall at any step, and takes with it all but `disk` and the main tree.
git may refuse a reset, whose result the code does not read, and, where
`WorktreesFail` holds, a worktree. `landed` (whose work is on the main tree),
`baseTree` and `stuck` (a merge of the batch that regressed was not undone) are
history variables.

### RepeatGuard and SubagentTurn

A call is its tool, the file or folder it resolves to, and what it would put
there. The guard is `failures` and `answered`, how often each read in a row
failed or succeeded, and `written`, what this agent last put in each file;
`shared` is `RunUsage.write_beliefs`, which outlives the invocation and is
believed only where the disk agrees. `Refusal` is `_blocked`, `Recorded` and
`Shared` are `_record`.

`phase` follows an invocation. In `model`, `OutOfTime` is the deadline's hook,
`Asks` the message with tool calls (`CountCall` counts each against the guards of
calls and of repeats), `Finishes` one without, `Raises` an exception. In `tools`
the calls of one message are `asked`, `running`, `ran` and `answered`, each on its
own: `Denied` is the permission layer, outside the guard; `Check` is what the
guard does before the tool, `Run` the tool (external: what a backend or a shell
may do), `Record` what the guard does after. `ReadResults` counts their results
in the order they were asked. `drained` is the end of the stream: `Nudge` gives
one more turn to an agent that announced work, `End` returns.

The runner reads a guard only when a chunk arrives, and the graph is one step
ahead of it: a guard that fires on a message may stop its calls or not (`Breaks`
or `LeaveResults`), and one that fires on results still pays for the model's next
answer, whose calls never run. Which of the two depends on whether a hook yields a
chunk in between, so the model allows both.

`asked`, `lately`, `told`, `overlapped` and `subtree` are history variables.

### ModelCalls

`phase` is where an agent's coroutine is: `graph` between calls, `acquiring` in
line for a slot, `calling`, `backoff` between two attempts of one call, `restart`
between two of the stream. `Call` and `Acquire` are `async with sem`, and the
semaphore is asyncio's: a FIFO whose woken waiter has its slot before it runs,
which is why a cancelled waiter (`GaveUpWaiting`) may have one to give back.
`Answer`, `BackOff`, `GiveUp` and `Raise` are the exits of an attempt in
`_retrying_call`; the slot is held through the backoff and returned when the
call ends. An error is `transient`, `fatal`, or `missing`, the 404 that
`is_transient` retries only for a role that was answered. What a call raises
reaches `_stream_with_retry` in the same step, which starts the stream again only
if nothing was seen of it. A `ProviderUnavailable` is itself transient or not by
the status in its text, so `GiveUp` allows both. `Cancel` is a cancellation at
any await. `failures`, `outcome` and `answered` are history variables; Python's
own `served_roles` is `served`, which `answered` is checked against.

### PlannerTurn

A thread is its messages: what the stage was told (`Human`), the calls of each
model message, their results. `Consult` builds the agent with the tools of its
stage and sends the message; `CallModel` and `RunTools` are the graph's two nodes;
`ReadChunk` is the stream's reader, which sees the whole thread at each chunk and
starts from `Baseline`, what the thread held before. `Counted` is the tally of one
call, `ResultRead` of one result. The reader is behind the graph as in
`SubagentTurn`: a halt takes effect at a chunk. `plTripped` is the deadline, which
no property counts on.

### Facts

The tool calls of one message are threads: `CallRecord` and `CallAsk` start one,
`RecordFact` and `AskNext` change the store, `Payload` reads what is to be saved,
`Replace` renames it into place or `SaveFails`, and two threads may be at any two
of these. Which questions the budget allows is decided before the first is put.
`NextRun` ends or kills the process, and `Load` is what the next one reads.
`fcLoaded`, `fcPut`, `fcCrowded` and `fcRaced` are history; the last two say that
two `ask_user`, or two saves, overlapped.

### ToolChain and GutterEdit

`Stack` is the order of stages of a role, from the outermost. `Down` hands the call
to the next stage, which passes it, rewrites it, or answers it; `RunTool` is the
tool; `Up` lets the stages add their notes to the result. `tcSeen` records what
each judge saw. A text is one of the few kinds some stage tells apart (a literal
of escape sequences, an announcement, a comment), a path likewise. In `GutterEdit`
a file is a sequence of lines, each its text and its indentation; an edit is
copied from what was read with the gutter's shift added, while others land.

### Permissions

`Propose` is a message of tool calls: those `Interrupts` covers are asked about,
the others run. `Prompt` answers one message's questions (approve, remember,
accept all, reject), `AfterRound` and `NextStream` are the bound on rounds and the
stream after one, and `RunCall` is the middleware's own `Decide` when a call runs,
with the grants then in force. Grants belong to the session, agents to their tree.
A command is its segments, each as it is written and as it is meant (`sh -c npm` is
written `sh` and means `npm`). `pmRan` and `pmShown` are history.

### Memory

`mePalace` is a set of drawers; a long text has two. `RecordTask` and `FileTask`
are a task's two records, `Remember` an agent's tool; `SummaryReads` and
`SummaryWrites` are either side of a model call. `meCommand` is the other process:
what a forget has shown (`ForgetLists`, `ForgetReads`, `ForgetDeletes`), an export
or an import half done. Each process may be killed between two steps. The
collection is external: insert, get and delete by id.

### ProjectEnv and Suites

`peSync[t].pc` follows `ensure_project_env` of one tree through its commands:
`Create`, `MarkOwn`, `InstallPytest`, `ReadDeclared`, `InstallDeps`, `Stamp`, each
command with an outcome, and `EnvKill` inside any of them. A worktree's `.venv` is a
link to the main tree's unless it could not be made. In `Suites` each step writes
or removes a file or a test, makes a package of a directory, makes an environment,
or runs the test stage: `Stack` is `detect`, `Command` the profile's choice,
`Collects` what the runner documents it collects (external), `TestOutcome` what the
stage makes of it.

### Config and Session

A layer is a partial function; `DeepMerge` keeps which layer gave each setting,
`RefusedSections` is the validation, `BuildModels` resolves roles. `Launch` is a
command's `get_config`, `ReadAgain` the prompt's `reset_config` and rebuild,
`EditFile` the user. In `Session`, `StartProcess` and `Type` begin a request,
`Choose` answers the question before pending work is replaced, `Connect`, `Setup`
and `OpenRunLog` open, `ClosedOnError` is the handler around them, `CloseOrder` the
steps of `close`, each of which may be cut short; `Pruned` is the rotation. The bytes of
a run are a number, and a directory that cannot be deleted is `stuck`.

## 3. Runs

Deadlock is not checked anywhere: a process ends, and a bounded number of them is
started, so every run really stops.

| run | states | what it shows |
|---|---|---|
| `task_run` | 917,768 | two tasks, two processes, two files, a type error and a failing test that come and go; two attempts, two run errors, one refund: every verdict answers for the task's own work, attempts add up, blocks have evidence, and the run implements `TaskLifecycle` |
| `task_resume` | 1,328,719 | `TaskRun`: one task over a located failure, a missing package, an unlocated crash and a placeholder, two processes: the accounts hold under both give-backs, and every call returns. `ProjectEnv`: a main tree and a worktree, one kill, one edit: a gate runs on what its tree declares, nothing is left half built or taken from the user, a fix is tried. `Suites`: nine marker files and five test files, two of each at a time: a pass is not empty and ran the tests, a missing tool is not the coder's fault, a marker decides |
| `work_run` | 1,167,557 | `WorkLoop`: four tasks, two consults after a block, one revision: consult order, the bound on consults, and the run ends. `Memory`: two tasks, a memory of one drawer and one of two, a log of one entry, and one command beside the run. `Permissions`: an agent of the main tree and one of a worktree, two messages each of up to two calls, a deny rule, an allow rule, the floor and three modes |
| `work_restart` | 1,900,337 | `WorkLoop`: three processes, three tasks, a crash at any instant: the ledger on disk is a task lifecycle, and unfinished work is copied before it is replaced. `Session`: three sessions, a command and two kinds of prompt, an archive of three runs or four bytes. `Config`: four layers of files and environment over two settings and three roles, two edits, old and new names |
| `parallel` | 1,961,556 | batches of two over three tasks, every git step failing at will: done work has landed, the main tree keeps its base, worktrees are removed, redos are capped, and the run ends unless worktrees keep failing |
| `agent_turn` | 1,333,969 | `SubagentTurn`: two invocations over one file in one folder, every call alone and three pairs at once: refusals are true, calls are bounded, flailing is stopped, a halt is final, and every invocation returns. `ToolChain`: five roles and fifteen calls, each of which some stage has a word on. `GutterEdit`: two edits at once over files whose lines repeat |
| `model_calls` | 198,873 | `ModelCalls`: two coders and a tester on an endpoint of two slots, two attempts per call and per stream, any error at any attempt, a cancellation anywhere. `PlannerTurn`: the three stages and one consult more, messages that plan and messages that fail. `Facts`: two threads, two runs, one fact of room and two questions |
| `task_placeholder`, `task_ctrl_c`, `parallel_cancel`, `parallel_worktree`, `agent_delete` | | the findings of section 5: each checks one sentence of the source or the documentation and shows the code's counterexample |

**Bounds and why they are enough.** Two tasks are what it takes for one to inherit
what another left; no action reads more than one task's record. Two attempts and
one refund reach every exit of the attempt loop (served out, same failure twice,
refunded then exhausted, stopped by run errors) and their interleavings.
The fault sets hold one failure before, at and after the test stage, because what
matters is which stage *masks* which; the second set has the three ways a test
stage fails (located, package, crash). Four queue entries with batches of two let
a consult's tasks be dropped, worked and added to while an older consult's wait.
Three processes are enough for a copy to be overwritten by a second new plan.
Three tasks and batches of two leave a task outside the batch while its siblings
merge; two redos make the cap differ from one failure.
Two invocations are what it takes for `shared` to outlive a guard, and four calls
let a failure, a refusal and a failure follow one another, or a write, a change
and the write again. One file and two contents suffice for the beliefs, each of
which is about one file; the folder is there because `ls` and `delete` name it.
The three pairs of `Messages` are the ones where a call changes what its sibling
reads or writes.
One consult after the three stages is one on a thread that already holds a turn,
which is all a baseline is about; bounds of three calls, two planning calls and two
failures can each be the first reached. Two threads are two savers, two runs one
that loads; with room for one fact the store is full at the second.
Two agents let one be prompted while the other's message waits, and two calls per
message a grant reach a call decided earlier; one round makes the bound bite.
A memory of two drawers is the shortest that can be torn, a log of one entry the
shortest window. One worktree beside the main tree shares a `.venv`, one kill and
one edit fall between any two commands. Two markers of nine at a time are enough
for one to outrank another, and five test files differ in everything the runners'
rules read. Two edits of files let one be undone or the layers change places; a
role whose name begins another's is the ambiguous one. Three sessions fill an
archive of three, and with sizes one and three both bounds of the rotation bite.
Three agents on two slots put one in line, and two of one role let the first
answer of one arrive between two attempts of the other; two attempts have one
that is not the last, and two calls one that follows an answer.
Every constant that is a bound of the model and not of the code says so where it
is declared: `MaxTasks`, `MaxBatch`, `MaxProcesses`, `MaxRuns`, `MaxInvocations`, `MaxParallel`,
`MaxCalls`, `Messages`, and in the newer modules `PlannerConsults`, `PlannerThread`, `FactCalls`,
`FactRuns`, `PermMessages`, `MaxRecorded`, `EnvKills`, `EnvEdits`, `MaxSuiteFiles`, `ConfigEdits`, `MaxSessions`
and the sets inputs are drawn from; `MaxAttempts`, `MaxFixAttempts`, `MaxRunErrors`,
`MaxRefunds`, `MaxBlockedConsults`, `MaxRevisions`, `MaxRedos`, `Fanout`, and in
`RepeatGuard` and `SubagentTurn` every other `Max` are the code's own, made small.
`ConsultsBounded` does not depend on `MaxTasks`: it is what keeps a planner that
adds for ever from keeping the run alive. `RunEnds` and `EndsOnceForked` do
bound how many tasks one ledger holds, as each of the planner's turns has a
bounded number of tool calls.

**Properties with parts.** Where several claims answer one question they are one
property, and its parts keep their names and comments in the module:
`SettledOnEvidence`, `CallsComeBack`, `RunIsBounded`, `WorkIsOnMain`, `RedosEnd`,
`TurnIsBounded`, `WhatIsSaidIsTrue`, `RetriesHaveCause`, `PlannerGuardsAreExact`,
`AnswersAreTheUsers`, `OnlyPermittedRuns`, `UserIsAskedAndTold`, `WholeOrGone`,
`RecordsAgree`, `GateIsUpToDate`, `VenvsHaveOneOwner`, `VerdictIsTrue`,
`NothingIsLeftOpen`, `ArchiveHolds`, `WhatIsReportedIsTrue`, `RequestsAreCurrent`.
The type invariants of the modules of one run are one as well (`GateTypeOK` and so
on).

**What properties except.** Each exception is a behaviour of the code, and most
are listed in section 5. `CallsAreBounded` is not `MAX_TOTAL_CALLS`: the siblings of
the call that reached it, in the same message, may still run. `RefusalsAreTrue`
excludes a change that overlapped another call of its message (a read that started
before a sibling's write and is recorded after it is "already answered" with the
old text) and a deleted folder, which is `agent_delete`. `QuestionsAreBudgeted` and
`FactsAreOnDisk` do not speak of calls that overlapped, `GateRunsOnWhatItDeclares` of two
trees at one `.venv` at a time or an install cut short, `NoneIsLeftHalfBuilt` of a
kill inside the build, `APassRanTheTests` of a tree with a `manage.py` nor of
`x_test.py`, `EndedIsArchived` of a close that was cut short, `MainKeepsItsBase` of a kill or of a
merge git refused to undo, `NoWorktreeIsLeft` of a kill, `RepairedAsMeant` of an edit
whose file another edit of the message changed first.

**Symmetry and view** (`task_run` only). No action tells two tasks apart, so
`Permutations(Tasks)` is sound for the safety properties of that run; the run
with a liveness property uses neither. `LiveState` leaves out the locals of
`run_task` outside a call: `Begin` assigns every one of them before any action
or property reads it.

**Fairness.** `WF(CallStep)`, `WF(WorkStep)`, `WF(RunStep)`, `WF(Step)` and `WF(PlannerStep)`: the asyncio loop
drives the process's own code forward, and every subagent turn, gate command and
planner turn it waits for has a timeout or a bound of its own. For a subagent
turn `TurnEnds` is that bound, shown without counting on the deadline: what it
assumes in turn is that one model call and one tool call end, which have
timeouts. `ModelCalls` makes the same assumption of one attempt (the client's
request timeout), and that an agent makes a bounded number of calls, which is what
`CallsAreBounded` and the nudge's bound give it. Nothing is assumed of the user, of Ctrl-C, of crashes, of which result a subagent or git returns, or
of the next process being started.

`PlannerTurnEnds` assumes no deadline and no model that stops of itself: its guards
on calls and on failures end it. `Memory`, `Permissions`, `ProjectEnv`, `Suites`,
`Config`, `Session`, `Facts`, `ToolChain` and `GutterEdit` state safety only and no
fairness.

**Mutants.** Every property of a passing run has a mutant of a modelled operator
beside it in the module (`\* Mutant: ...`), a bug the code could have: the attempt
not charged, the tester's green taken for proof, the history charged to the new
turn, grants asked before deny rules, a fragment deleted by its exact id, the
marker written before the install. No action uses them.

## 4. Proofs

Eight modules hold theorems, each for every value of its component's constants.
Every safety property a passing run checks is a theorem, and so are the two
refinements; what is left to TLC is liveness. `Gate_proofs`, `Run_proofs`,
`Models_proofs`, `AgentCalls_proofs` and `Process_proofs` each hold the components
of one machine of section 2, in a section of their own, and then that machine.

| module | theorem | statement |
|---|---|---|
| `Gate_proofs` | `Invariance` | `TaskRun`'s `Spec => []IInv` |
| | `TypeCorrect`, `BudgetKept`, `StopIsResumable` | `TypeOK`, `AttemptsAddUp`, `StoppedIsResumable` |
| | `DoneOwn`, `NotVacuous`, `Evidence`, together `SettlesOnEvidence` | the three parts of `SettledOnEvidence` |
| | `FollowsLifecycle` | `Spec => TasksFollowLifecycle`, a refinement |
| | `EnvTypeCorrect`, `OneOwner`, `UpToDate` | `ProjectEnvTypeOK`, `VenvsHaveOneOwner`, `GateIsUpToDate` |
| | `SuitesTypeCorrect`, `VerdictsAreTrue` | `SuitesTypeOK`, `VerdictIsTrue` |
| | `GateImplementsItsParts`, `GateTypeCorrect` | `GateSpec => ProjectEnvSpec /\ SuitesSpec`, `GateTypeOK` |
| `WorkLoop_proofs` | `WorkTypeCorrect`, `UnblockersLeadAlways`, `WorkIsCopied` | `TypeOK`, `UnblockersLead`, `UnfinishedWorkIsCopied` |
| | `ConsultsBoundedAlways` | `ConsultsBounded`, the safety part of `RunIsBounded` |
| | `DiskFollowsLifecycle` | `Spec => LifecycleOnDisk`, a refinement |
| `ParallelLoop_proofs` | `TypeCorrect`, `LandsWork`, `KeepsBase` | `TypeOK`, `WorkIsOnMain`, `MainKeepsItsBase` |
| | `CapsRedos` | `RedosAreCapped`, the safety part of `RedosEnd` |
| `AgentCalls_proofs` | `StagesAreTrue`, `ChainTypeCorrect` | `WhatIsSaidIsTrue`, `ToolChainTypeOK` |
| | `RepairIsFaithful`, `EditTypeCorrect` | `RepairedAsMeant`, `GutterEditTypeOK` |
| | `RefusalsHold`, `HaltsHold`, `FlailingStops`, `TurnTypeCorrect` | `RefusalsAreTrue`, `HaltIsFinal`, `FlailingIsStopped`, `SubagentTurn`'s `TypeOK` |
| | `CallsStayBounded` | `CallsAreBounded`, the safety part of `TurnIsBounded` |
| | `AgentTypeCorrect` | `AgentTypeOK` |
| `Models_proofs` | `EvidenceToGiveUp`, `NoReplay`, `OneReportEndsNothing`, together `CauseToRetry` | the three parts of `RetriesHaveCause` |
| | `SlotsConserved`, `CallsTypeCorrect` | `SlotsAreConserved`, `ModelCalls`' `TypeOK` |
| | `CreditsNothingNew`, `QuestionsWithinBudget`, together `AnswersKeptApart` | the two parts of `AnswersAreTheUsers` |
| | `FileHoldsTheStore`, `FactsTypeCorrect` | `FactsAreOnDisk`, `FactsTypeOK` |
| | `GuardsAreExact`, `PlannerTypeCorrect` | `PlannerGuardsAreExact`, `PlannerTypeOK` |
| | `ModelsImplementsItsParts`, `ModelsTypeCorrect`, `ModelsAreSafe` | the invariants of the parts in `ModelsSpec`, `ModelsTypeOK`, its two safety properties |
| `Run_proofs` | `NothingDeniedRuns`, `ConsentToAllThatRan`, `NoGrantStretches`, together `PermittedAlone` | the three parts of `OnlyPermittedRuns` |
| | `UserAskedAndTold`, `PermissionsTypeCorrect` | `UserIsAskedAndTold`, `PermissionsTypeOK` |
| | `MemoriesHold`, `RecordsStayTrue`, `MemoryTypeCorrect` | `WholeOrGone`, `RecordsAgree`, `MemoryTypeOK` |
| | `RunImplementsItsParts`, `RunTypeCorrect` | `RunSpec => MemorySpec /\ PermissionsSpec`, `RunTypeOK` |
| `Process_proofs` | `SessionsAreApart`, `ArchiveIsSound`, `ReplacingIsAgreed`, `SessionTypeCorrect` | `NothingIsLeftOpen`, `ArchiveHolds`, `ReplacedOnlyIfAgreed`, `SessionTypeOK` |
| | `ReportsAreTrue`, `RequestsStayCurrent`, `ConfigTypeCorrect` | `WhatIsReportedIsTrue`, `RequestsAreCurrent`, `ConfigTypeOK` |
| | `ProcessImplementsItsParts`, `ProcessTypeCorrect` | `ProcessSpec => SessionSpec /\ ConfigSpec`, `ProcessTypeOK` |
| `RecursiveFunctions` | (lemmas only) | a function defined by recursion on `0..n` is defined there, is the only one, and agrees with any set of pairs closed under its step |

**Assumptions.** The named assumptions on the constants, no more. Bounds are
naturals, positive where the code's are. Inputs have the shape the code's have:
lists of questions, batches of calls and messages are sequences (`PermBatches`
of calls, `PlannerMessages` of names, `Messages` of calls and no longer than the
calls that run at once), edits and gutters are lengths, a tool call is a record.
Things that are different in the code are different in the model: locations and
crashes, files and folders, the main tree and the worktrees, no task and a task,
no text and a text, an unset value and a value. Of `Gate`, the scoped stages always
name a file and a package fault is a test fault; of `Permissions`, rules are about
tools one can have rules for; of `ModelCalls`, the agents are finitely many and each
has a role and an endpoint with at least one slot; of `ProjectEnv`, declaring
nothing is one of the declarations; of `Config`, the default role is builtin and a
plain setting is not a role's model. TLC evaluates each in a passing run.

**Recursion.** The library's induction theorems take an operator, which no
installed prover can instantiate; that the naturals are well founded does not.
`RecursiveFunctions` takes from it that a set of numbers closed under successor has
all of `0..n`, and what the proofs need of functions defined by recursion there. The
modules that go through a sequence (`CallsRead` and `MessagesRead` of `PlannerTurn`,
`CallsCounted` and `ResultsCounted` of `SubagentTurn`, `Answered` of `Permissions`,
`Bytes` and `Pruned` of `Session`, the merge of `Config`) do so by such a function. The
induction is then a lemma about one step of it, over a set the step stays in.

**The argument for `TaskRun`.** None of the properties is inductive. `AttemptsAddUp` bounds
what is served by what was charged, but the exit at the head compares `attempts`
with `budget`; `Accounts` adds that a refund follows an attempt that was served
(`refunds <= served`, strictly while one is judged), so giving one back cannot
take a charge of an earlier run. `DoneAnswersForItsOwn` is about the tree of
several steps ago; `Origins` says the baseline names only faults of the tree
whenever a task may inherit it, that what the call inherited was in its start
tree, and that a task with an empty record left the tree as it found it.
`Records` keeps what is being judged inside the task's record, so that empty
record is meaningful at the gate, and says a tester is only sent to a task with
one. `Marks` says which task may be in progress and when, which is all
`StoppedIsResumable` and the refinement need. `IInv` is their conjunction with
`TypeOK`; there is one lemma per action, and the two gate actions share
`OutcomeStep`, over the three ways a judgement can end.
The lemmas on `Gate` are what those steps need of the operators: a verdict of a tree is
a report, its keys are locations of the tree's faults, a passed report names
nothing, and what signs a failure is located by its keys.

**The argument for `ProjectEnv`.** Gates of several trees build, sync and run in
one virtualenv when worktrees link to it. `Standing` says what a sync may rely on
of the virtualenv it is in, at each of its steps, `Linked` that nobody builds where
a link leads, and together they give the one owner. A gate may skip its install when the
fingerprint is the tree's: `Truthful` says a fingerprint names what is installed
and `SoFar` what a sync under way has done of that. Both hold as long as no two
syncs met in one virtualenv, which is `Alone`. `SyncStep` is the one
lemma the steps of a sync share.

**The argument for `Suites`.** The verdict is about the tree it was given of, and any
change of the tree forgets it, so what has to be shown is that the test stage tells
the truth in one step, for any tree: by the command the stack chose, what its runner
collects is among the tests there are, and each exit it may print then is read as
what it is. The marker files decide the command and the tests the exit; the cases are
those of `TestOutcome`.

**The argument for `WorkLoop`.** `UnblockersLead` is about what waits, and a stop
puts the task being worked back where it was, so `Order` says it of the waiting
tasks and the current one together (`Queued`), in memory and on disk. A consult
puts its tasks in front one call after another: `Fronted` says that, while it
lasts, what waits before `frontAt` is what it asked for and nothing after it is.
That nothing is at its start needs `Linked`: a task put in front for another means
that other one is blocked, which the current task is not. `Budget` pays for a
block with two consults, its own and the one on an empty ledger that it re-arms.
`Standing` says where memory and disk agree, and that between the copy and the
save unfinished work is in both files. `AddTasksInserts` and `SetStatusKeeps` say
what the ledger's operators do to its entries; the refinement needs no more than
these and that each number has one entry (`ShownIsEntry`).

**The argument for `ParallelLoop`.** `Unlanded` says where the work of a done task is
while it has not landed: in its checkout, which still exists, inside a batch. With
`Phases` (no checkout of a task that had its turn; every task has had it at
`EndBatch`) none is left at the end. `Redos` gives each task that still waits for its
turn one more redo below the cap, so `EndBatch` finds none beyond it, and `Working`
that nothing is in progress outside a batch, so what is pending or in progress at
a fork is below the cap. `Based` carries the base over a merge that is being
checked, as long as each was undone that had to be. `PInv` is their conjunction with `TypeOK`, one lemma per action.

**The argument for the call's way down.** `ChainInv` follows one call through its
stack. Both stacks rewrite a call above the fifth stage and judge it below the fourth,
so what a judge saw is what the tool gets (`ChainJudged`); a result on its way up past
the content stage of a write that did not fail finds the text in the file
(`ChainLanded`), which is what the notes then say. `EditInv` says an edit not
yet looked at names lines of the file as they were shown, all with one gutter
(`ShownAs`); a repair takes that gutter off, and if the file is still the one that
was read its lines are at the place they were read from.

**The argument for `RepeatGuard` and `SubagentTurn`.** `RefusalsAreTrue` needs every
belief of the guard to hold of the disk, between calls and while they run:
`BeliefsHold` says what each read last gave it would give now (`ReadsHold`),
each file is as it was last written (`WritesHold`), unless a change has run and is
not recorded yet, and a call that has run found, or left, what its result says
(`RanHold`). All under the exceptions of section 3: no change overlapped a
sibling, no deleted folder is in the way. `Budget` is the turn's: no counter is at
its bound before its guard fired, and `consecutiveFailures` is the length of the run
of failures at the head of the history (`EndsInFailures`), which the counting of one
result preserves and so, by induction, the counting of a message does.

**The argument for `ModelCalls`.** `Tried` counts an agent's failures against the
attempt it is at, phase by phase, and says each of them may pass, so when an
endpoint is given up there are as many as attempts. `Seen` says a stream with an
answer has yielded and one that restarts has not. `served = answered` ties the
code's own memory of who was answered to the history that the property reads.
`SlotInv` gives each endpoint its semaphore with as many slots as its limit, split
between the free ones, the woken waiters and the agents that hold one (`Slots`); the
line has each waiter once and the woken ones are in it (`InOrder`). What
release, cancellation and wake-up do to a line is stated once, for any line, and each
action adds one agent to a side and takes it from another. `RoomInv` bounds the counters.

**The argument for `PlannerTurn`.** The reader is behind the graph and reads a thread
that holds earlier turns. `ConsultInv(a, k)` speaks of the consult that began at place
`a` of the thread and has read up to `k`: the tally is exactly the calls, planning
calls and trailing failures among the places from `a` to before `k` (`Tallied`), so a
halt is earned by the consult's own messages; the model runs only when everything
was read and no bound was reached (`Spare`), so its next message is all that can
go past one (`Bounded`), and what is unread when tools have run has no calls in it.
That the thread's earlier turns are never counted is that `a` is the last human
message (`IsBase`), which is what the first chunk starts from. Cardinalities of the
calls of a stretch of thread grow message by message and call by call; those lemmas,
and two inductions over recursive functions, are most of the proof.

**The argument for `Facts`.** `Unattended` follows what a thread still carries: a
fact marked as the user's is one the user was on record for. `Budgeted` and
`fcPut + fcRemaining = MaxQuestions` follow the one `ask_user` that may be at work.
`InStep` says that, while no two saves overlapped, at most one thread is saving and
what it will write is the store. `StoreInv` says the store, the file and every
payload on its way to it hold facts, and no more of them than fit.

**The argument for `Permissions`.** A call that ran is recorded with the decision of
that instant, so for denial it is enough that `Decide` asks the floor and the deny
rules before anything else (`DeniedIsDecided`). Consent is harder: a call nobody was
asked about when its message was read runs later, under other grants. `CInv` says
of every agent that an unanswered call of its batch is one `Interrupts` does not
cover *now*; it is preserved because grants only grow in a session
(`GrantsGrow`) and a call that need not be asked about does not become one that
must when they do (`GrantsSettle`). `SettledStays` carries that over every step
of another agent. For what the user is asked and told, `AInv` adds that a question
is about a tool its agent has, that an approved call is in the log before it runs
(`Answerable`), and that an agent is past the last round only where it raised.

**The argument for `Memory`.** `Whole` says a palace holds all drawers of each memory
it holds any of, each with an id of its own; filing keeps that because a text has the
same drawers whoever files it. A forget deletes, in a later step of another
process, what it showed: `CommandHolds` says the ids it deletes are all drawers of the
rows it showed, so it takes memories whole. `RecordsHold` keeps the log equal to the
recent window of the completed tasks (`Capped`) and each of them in the palace,
unless a failure was reported.

**The argument for `Session`.** `Opened` says the database is the session's in
progress and its log the only one attached; `Agreed` that a request which has yet
to save its plan over pending tasks was agreed to, about that plan; `Evidence` what
the close has done at each of its steps. `ArchiveFits` needs the rotation: `Pruned`
keeps the newest run and drops from the oldest those that can be deleted until both
bounds hold, shown by induction over the runs.

**The argument for `Config`.** `DeepMerge` folds the layers; by induction over them, a
merged setting has the value of the highest layer that sets it, and the layer
named for it is that one. `ConfigInv` says a process has what it built of layers it read,
with nothing in it that validation refuses, and while a request runs those layers are
the files as they are.

**The machines of several components.** A composed step is a step of one
part, and of the others nothing: each part is its own specification or rests in one of
its initial states. `GateImplementsItsParts` and its like say so as refinements of the parts
that state no fairness; of the others the inductive invariants are carried over. So
the type invariants of the machines hold, and what TLC checks in a composed run is what is
proved of the parts.

**Only model-checked**: liveness, which is beyond the prover. It is
`EveryCallReturns` in `CallsComeBack`, `RunEnds` in `RunIsBounded`, `EndsOnceForked` in
`RedosEnd`, `TurnEnds` in `TurnIsBounded`, and both parts of `EveryTurnEnds`. The safety
parts of the first four are theorems. The properties of the runs of section 5 are violated and nothing is
proved of them.

## 5. Findings

Each is a run whose one property quotes the repository; `PROJECT.json` has the
lines and the quotations.

1. *A done task may leave placeholders* (`task_placeholder`): an inherited type
   error halts the gate before the placeholder scan, and `inherited` is done.
2. *Ctrl-C inside the coder leaves unrecorded writes* (`task_ctrl_c`).
3. *An interrupted batch keeps lost work done* (`parallel_cancel`): a sibling that
   was done before the Ctrl-C stays done, and its worktree is gone. A kill does the
   same, since a task is done on disk as soon as its own gate passed.
4. *A worktree that can never be made repeats its batch for ever*
   (`parallel_worktree`): the redo cap does not count it.
5. *A write may be refused although the file is gone* (`agent_delete`): deleting a
   folder forgets nothing about the files inside.

Seen while modelling and not a run of their own: a new failure may hide behind an
inherited one, since only the first blocking stage is compared
(`loop/regressions.py`), and `drop_task` accepts a task a crash left in progress
although it says "Only a task that is still pending can be dropped"
(`loop/tools.py`); `TaskRun` and `WorkLoop` allow both. The integration gate
compares located keys, so a merge that makes a green suite fail without a
location is kept (`agent/main_agent.py`), as `ParallelLoop` has it. A regressed
merge stays where the reset is refused, since its result is not read
(`loop/parallel.py`) and the configuration template offers a rule that denies
`git reset --hard` (`config/template.py`); the next batch takes the regression into
its base, where the docstring says a wrong guess costs a redo. And a retry is
counted before its wait, so one cancelled there counts as made
(`middleware/model_retry.py`).

The components modelled later showed more of the kind; the models have each as the
code has it, and the properties of section 3 except it.

- *Configuration*: a deprecated variable beats the modern one where both are set
  (`config/layers.py`); values of a `.env` stay in the environment across the
  prompt's re-reads; a variable of a role whose name begins another's goes to one
  of the two by the order of a set; a key committed while a prompt is open is not
  noticed; a switch that does not parse raises even where a higher layer
  overrides it.
- *Environment*: worktrees sync one `.venv` at the same time, and since the
  fingerprint holds the worktree's interpreter path, installs repeat; without the
  link a worktree builds one of its own, although `loop/parallel.py` says
  otherwise; an install cut short keeps the old fingerprint, so reverting
  the file reads as unchanged over a broken environment; a kill between `venv` and
  the marker leaves a `.venv` that is taken for the user's ever after; a `.venv`
  the user makes while the prompt for `venv` waits is removed when the prompt
  is refused.
- *Session*: a transcript that cannot be closed skips the database, the usage and
  the archive; Ctrl-C at the database's close skips the archive, and during the
  opening leaves the log handler attached; an archived `ledger.json` may be an
  earlier run's.
- *Facts*: `ask_user` calls that overlap can exceed the budget.
- *Suites*: of two stacks only the first is tested; a Node project without a test
  script is not applicable though its tests are there; `manage.py` outranks every
  sign of pytest; unittest does not collect `x_test.py`.
- *Memory*: an export leaves the file of a room that became empty, and a later
  import brings back what was forgotten; filing a memory again changes whose it is,
  so a waiting `forget --added-by agent` may take what Rudra has re-filed; a summary
  is written over the AGENTS.md read before its model call.
- *Permissions*: the answers of the last approval round are asked for and not used.

## 6. What the models assume

- One coder, tester and gate at a time in `TaskRun`: the parallel driver gives
  each `run_task` its own tree, so the calls share only what `ParallelLoop` has.
- A later write never restores an earlier one byte for byte.
- Gate output is complete: the cap of fifty findings is left out.
- `WorkLoop` abstracts refusals that read a task's description into entries
  the call does not add.
- `ParallelLoop` has one process, which may be killed; `merge_abort` succeeds;
  `run_task` does not raise inside the batch; a consult picks any pending task's
  place in the next batch, the order being `WorkLoop`'s subject.
- `SubagentTurn` has one graph: no registered agent delegates. An approval the
  user is asked for is one of `Denied` or a `Check`. Two spellings of one path
  are one file, and a deadline is a choice the model's step may make at any time.
- `ModelCalls` has no durations: a backoff, a `Retry-After` and a timeout are
  steps. Every agent has the run's usage object. Whether a chunk is seen before
  the model's first answer is left free. Planner and subagents differ in nothing
  a call reads.
- `PlannerTurn` has one namespace, and a deadline that may trip at any step.
- `Permissions` has paths by class and commands by segment: that globs match and
  shells parse as the code says is not shown. MCP calls are left out.
- `ToolChain` follows one call; concurrent calls are `SubagentTurn`'s and
  `GutterEdit`'s subject.
- `Memory`'s collection does each call at once or not at all.
- `Suites` takes the collection rules of pytest, unittest, npm and cargo from their
  documentation, and `ProjectEnv` that pip installs what it reports.
- `Config` has a handful of settings for all of them; `Session` has one request at a
  time and no kill inside a rename.

## 7. Not modelled, and what is left

The MCP client, the providers, the compatibility shims and the git tools are
adapters to external code with no state a decision reads; skills are vendored
text copied once. Within modelled components: prompts, rendering, redaction,
usage counters and token budgets, the subcommands that only print, monorepo
detection, globs and shell parsing. `PROJECT.json` has the reason for each.

One hazard `PROJECT.json` lists has no property, for the reason it gives there:
findings are capped at fifty (`verify/pipeline.py:310`). Smaller ones that are not
listed, and still true: the base of a batch is one run of a main gate that may be
flaky (`loop/parallel.py:541`); the last name of a run of taken branch names is
never tried (`git/core.py:358`); a halted turn may still put its last message's
approvals to the user (`subagents/runner.py:705`).

Next, most important first:

1. `ParallelLoop` with the run that resumes after a kill, and composed with
   `TaskRun` (a redo keeps the record of the discarded attempt).
2. A refinement of `SubagentTurn`'s `Check` and `Run` by `ToolChain`, whose stages are
   now joined to it in words only, and of a planning stage of `WorkLoop` by
   `PlannerTurn`.
3. Delegates of a delegating agent: a second namespace in `SubagentTurn`.
