# A TLA+ model of the academic agent

The repository is a coding and research agent in TypeScript: an agent loop that
calls a language model and runs tools, a host that keeps the conversation in
session files and compacts it, the tools themselves, a lead agent that runs
multi-step workflows, and several front ends.  This directory models the parts
whose state is changed by several actors, or across awaits, crashes and
restarts, checks them with TLC, and proves some of the results with TLAPS for
all values of the parameters.

Paths below are relative to `src/packages/`.

## 1. Inventory

| Component (files) | State | Operations | What is hard | What makes it correct |
|---|---|---|---|---|
| Session store (`agent-host/src/session-manager.ts`) | tree of entries, leaf, label map, `flushed`, the session file | append of each entry kind, label, branch, branch with summary, compaction entry, new, open, fork in memory, fork to a file, `forkFrom` | nothing is written before the first answer; the index is kept incrementally and rebuilt at start; a kill inside a flush; forks cut entries out of parent chains | nothing flushed is lost; reopening gives the tree in memory; a fork holds its path; no line twice |
| Session runtime (`agent-host/src/agent-session-runtime-impl.ts`) | the current session | new, switch, fork, import | a fork opens the file that the store may have left unwritten; an import overwrites a file of its name | the fork continues from the selected entry; a session in memory stays there |
| File mutation queue and edit/write tools (`coding-agent/src/core/tools/file-mutation-queue.ts`, `edit.ts`, `write.ts`) | a map from file to the tail of a promise chain; the files | queue, run, read, write, abort | aliases of one file, aborts during I/O, failures, cleanup of the map | one at a time per file, first come first served, no lost update, no leak, no starvation |
| Agent and loop (`agent/src/agent.ts`, `agent-loop.ts`) | transcript, the loop's own copy, two queues, pending tool calls, the active run | prompt, continue, steer, followUp, clear, abort, reset, waitForIdle; the loop's turns, polls and tool batches | callers act at every await; tools run in parallel; everything may throw | both copies agree when the model is called; every call is answered once, in order; no message lost, repeated or reordered; the run ends |
| Compaction (`agent-host/src/compaction/compaction.ts`) | none of its own: reads the path, appends an entry | prepare (cut point, turn prefix, boundary), summarise, append | repeated compactions, split turns, entries and navigation during the summary | every message is sent or summarised; results stay with their calls; no more is kept than asked |
| Branch summarization (`compaction/branch-summarization.ts`) | none | collect the abandoned entries, summarise | the same await during navigation | the entries up to the common ancestor are covered |
| Agent session (`agent-host/src/agent-session-impl.ts`) | event queue, retry promise and counter, pending shell messages, overflow flag, controllers of compactions | prompt, steer, followUp, compact, auto-compaction, retry, shell results, navigateTree, events to store | agent events are persisted by a queue that lags behind the agent; what goes on by itself is scheduled with timeouts | file and agent agree at rest; prompt returns; retries and recoveries are bounded; nothing is forgotten |
| Credential store (`agent-host/src/auth-storage.ts`) | `auth.json`, a lock file, a cached copy per process | get, set, remove, reload, refresh under lock | several processes; synchronous writers against an asynchronous holder; stale locks; torn files | a refresh token is used once; login and logout are not undone; other credentials stay |
| Settings manager (`agent-host/src/settings-manager.ts`) | two files, modified-field marks, a write queue | setters, flush, reload | merge with outside edits; failed writes | no change is lost, nobody else's is overwritten |
| Extension runner (`agent-host/src/extensions/`) | handlers | dispatch | handlers may throw, veto, or take long | errors stay inside |
| Event stream (`ai/src/utils/event-stream.ts`) | queue, waiting consumers, final result | push, end, iterate | end without a result | events in order, each once |
| Message transformation (`ai/src/providers/transform-messages.ts`) | none | repair of orphaned tool calls | answers that failed midway | each call has one result, next to it |
| Workflow execution (`lead-agent/src/index.ts`, `orchestration/executor.ts`) | run, its steps and attempts, carried artifacts, the session's entries, a log | run, plan, do a step, accept, retry, stop, ask, abort | an aborted run goes on beside the next; a crash between a worker and its files | a step reads what is there and accepted; accepted means done; a run returns |
| Contracts, artifacts (`agent-contracts`, `artifact-core`) | `artifacts.json` of a workspace | create, update, list, load, save | each workflow has its own copy and saves it whole; torn writes | no artifact is lost |
| Literature search (`lead-agent/src/literature/`) | artifacts as a cache | look up, request, complete | a kill between creation and completion | one retrieval per query |
| Planner, intake, synthesis, workers (`lead-agent/src/`) | none | prompts and parsing | - | - |
| Bash tool, child processes, pi.exec (`coding-agent/src/core/tools/bash.ts`, `agent-host/src/exec.ts`, `utils/child-process.ts` of both packages) | the child, timers, listeners, tracked children | spawn, output, exit, timeout, abort, kill | a descendant keeps the pipes open; timers race exits | the call settles, with all its output, and says that it was stopped |
| Output accumulator (`coding-agent/src/core/tools/output-accumulator.ts`, `truncate.ts`) | a tail of the text, totals, kept bytes, a temporary file | append, finish, snapshot | chunks cut inside characters; a tail trimmed before it is shown | what is shown is the tail of everything; no byte lost |
| Read, grep, find, ls (`coding-agent/src/core/tools/`) | none | read only | - | - |
| Models, resources, packages, skills, themes (`agent-host/src/`) | loaded configuration | load, look up | - | - |
| Providers, OAuth flows (`ai/src/`) | none that outlives a request | HTTP | remote services | - |
| RPC, print, interactive modes (`coding-agent/src/modes/`), TUI, web UI | screen and input | - | what they allow concurrently | - |
| Export, migrations, telemetry, proxy | - | one-shot | - | - |

How they interact: a front end calls the agent session; the session calls
`Agent.prompt`; `Agent` runs the loop, which calls the provider through an event
stream and the tools; the loop emits events, which `Agent` folds into its
transcript and then hands to its listeners, one after another, awaited; the
session's listener puts each event in its own promise queue, whose handler appends
the message to the session store.  After `agent_end` that handler retries or
compacts.  Compaction replaces the agent's transcript by the context the store
rebuilds.  `edit` and `write` meet in the file mutation queue only.  The runtime
replaces session and store together.  The lead agent drives workers, each an agent
of its own; the runs of one session share the artifact store of its
workspace.  A provider that needs a key asks the credential store, which may refresh
a token.  The bash tool runs a child process and feeds the output accumulator.

Everything runs in one JavaScript thread.  Between two awaits a function is
atomic; at an await any other function may run.  Processes interact through the
files of sessions, credentials and settings.

## 2. Modules

| Module | Models | Checked by | Proofs |
|---|---|---|---|
| `FileMutationQueue` | the promise chains and the two tools | `MCFileMutationQueue` | `FileMutationQueueProofs` |
| `FifoLock` | what those chains promise: a lock, first come first served | the property `ChainIsFifoLock` | `FileMutationQueueProofs` |
| `SessionStore` | SessionManager, and the runtime's operations on it | `MCSessionStore` | `SessionStoreProofs` |
| `AgentRun` | Agent and its loop | `MCAgentRun` | `AgentRunProofs` |
| `ProviderContext` | transformMessages over what `AgentRun` leaves | `MCAgentRun` | `AgentRunProofs` |
| `Compaction` | compaction over a session path | `MCCompaction` | `CompactionProofs` |
| `AgentSession` | the session around the agent | `MCAgentSession` | |
| `AuthStorage` | the credential store of several processes | `MCAuthStorage` | `AuthStorageProofs` |
| `SettingsManager` | the settings of several processes | `MCSettingsManager` | `SettingsManagerProofs` |
| `LeadRuns` | the lead agent's runs and the artifact store | `MCLeadRuns` | `LeadRunsProofs` |
| `ChildProcess` | one command of the bash tool or of pi.exec | `MCChildProcess` | `BashToolProofs` |
| `OutputAccumulator` | the output of a command and `truncateTail` | `MCOutputAccumulator` | `BashToolProofs` |

An operator commented as a mutant, or standing immediately before the
definition it varies, is a plausible bug.  It is used by nothing in a
specification; replacing the definition by it must make the property
PROJECT.json pairs it with fail.

Each module states its types in `TypeOK` (`OutputAccumulator` in `OutputTypes`).  Those
of `FileMutationQueue` and `AgentRun` are proved by themselves; elsewhere they are a
conjunct of an invariant of the run
(`ReloadAgrees` of `SessionStore`, `EveryMessageAccounted`, `RefreshTokenUsedOnce`,
`RestartsBounded`, `InputsReadable`, `NothingForgotten` of `SettingsManager`,
`SnapshotIsTail`, `StoppedIsReported`), six of which are proved as well.

### 2.1 FileMutationQueue and FifoLock

`fileMutationQueues` is the Map; where the code stores a promise, the model stores
the call that will resolve it, and `prev` is the promise a call awaits.
`Enqueue` is the synchronous head of `withFileMutationQueue`, `Begin` the
continuation after `await currentQueue`, `Settle` the `finally` block that releases
the chain and deletes the entry if it is still its own.  The bodies of edit
and write are cut at their awaits: `opening` (access, or mkdir), `read`,
`writing`.  `Abort` is the signal's handler: it rejects the promise of the body at
once, so `settled` may be set while the I/O goes on, which is why `settled` and
`pc` are separate.  The text of a file is the set of calls whose change it holds:
an edit writes what it read plus its own change, a write tool its own change alone.
`FileOf` and `RealPath` describe symbolic links; the key of a missing file is
the path as given.

`FifoLock` is the abstract specification: clients ask for a lock, enter one at a
time in the order in which they asked, and leave, whether they entered or not.  The
queue implements it with `Lock == INSTANCE FifoLock WITH ...`: a client is a call,
its lock the key of the call, `pending` the calls that have not settled, `inside`
those whose body runs, and `ahead` the pending calls of the same key that came before.

Properties: `ChainIsFifoLock` (every step of the queue is a step of the lock or
leaves it alone), `FileExclusion` (one call at a time per existing file, whatever
its names), `QueueEntryIsPending` (the map's entries are those of pending calls),
`NoLostUpdate` (a reported change stays until a later write tool replaces the
file; excepted are a write that fails with the file open, which is reported as a
failure, an aborted write that lands late, and an edit that had read the file before
that, `disturbed`), `QueuedCallSettles`; violated by the
code: `ReportedChangeStays`, the same without exceptions.

A `writeFile` is one step: it ends with the whole text in the file, or fails before the
file is opened, or after, when the file is empty or holds a part (`WriteFails`).  That the
call behind an aborted one may read the file between its truncation and its last byte is
not modelled; only an aborted write in flight can show another call such a file.

Fairness: weak fairness of each call's `Step` - promise reactions run and
file-system calls complete.  Nothing is assumed of the caller or its signal.

Bounds: three calls under two names of one file, a path and a symbolic link to
it.  Three calls are enough for a holder, a waiter and one that arrives while
either settles.  Files that do not exist at first are covered by the proofs
only, which do not bound them.

### 2.2 SessionStore

`fileEntries`, `leafId`, `labelsById`, `flushed`, `sessionFile` are the fields of
SessionManager; the manager is in memory when it has no file (`persist`); `disk`
maps each file to its lines.  `byId` is a function of `fileEntries` in the code as
in the model (`ById`).  `AppendEntry` is `_appendEntry` with `_persist`: nothing is
written before an assistant message exists, everything the first time, one line
afterwards, and `flushed` is reset to false whenever no assistant message exists, as
in the code.  `Kill` ends the process between operations or inside the sequence of
`appendFileSync` calls of one operation, also in the middle of a line; a line
appended behind an incomplete one becomes one line that does not parse.  `Fork` is
the runtime's whole handler, with `createBranchedSession` and the reopening of the
file.  `Start`, `NewSession`, `SwitchSession`, `ForkFrom` and `ImportFromJsonl` are
the other ways to a manager; the file imported is an earlier or present state of
a session file, under its own name or a new one.  The order in which new label
entries are written is that of a Map, so any order.

Kinds of entries are merged as far as the store does not tell them apart: `user`
(any message not the assistant's), `assistant`, `note` (custom_message, branch_summary),
`setting`, `label`, `compaction`.  Ids are fresh: 32 random bits are taken not to collide
with what is on disk.  The migrations of old versions and the listing of sessions
are left out.  So is a kill while a file is made or replaced as a whole (`_rewriteFile`,
`forkFrom`, the copy of an import): it would leave a new file with a part of the copy, or, where
an import goes over a file of its own name, a cut file.

Properties: `Durable` (once the assistant has answered, everything is on disk),
`ReloadAgrees` (opening the file again gives the tree and the labels of the manager in
memory, and parents precede their children), `FilesOnlyGrow`, `ForkCopiesPath` (a fork at an
entry shows its path, in its order and with its labels, and writes to no other file).  All but
`FilesOnlyGrow` except files in which a line was written behind an incomplete one
(`Swallowed`); `FilesOnlyGrow` excepts the import of an older copy over the file.
`ForkCopiesPath` is about paths whose label entries all stand behind its other entries: with one
in the middle the code cuts the path (`ForkKeepsPath`).  In a session that is saved it
also wants an answer on the path, since a fork without one is not written.  Violated by the
code: `ForkKeepsPath`, `NoDuplicateLines`, `EphemeralStaysInMemory`.

Bounds: three ids, two files, three managers; only `user` and `assistant` are
appended as plain entries (`note` comes with `BranchWithSummary`; a `setting` is
appended like a `user` entry and has no effect of its own).  Three entries are
the smallest tree with a branch and a label, and the smallest path that holds a
question, a label and an answer; three managers allow a start, a fork and a
reopening after a kill.  The fork of a fork needs a fourth and is not reached.

### 2.3 AgentRun and ProviderContext

`pc` is the await at which the loop stands: `prompts` (emitting the prompts), `poll`,
`inject`, `call` (about to call the model), `partial` (the stream has begun),
`tools`, `turnEnd`, `followUp`, `end` (agent_end), `failed` (the events of
handleRunFailure), `idle`.  `context` is the loop's
`currentContext.messages`, `transcript` is `_state.messages`.  Callers act at any
of these: `Steer`, `FollowUp`, `ClearAllQueues`, `AbortRun`, `Prompt`,
`ContinueQueued`, `ContinueTranscript`, `Reset` (only when idle, as everywhere in
the repository), and the session's `DropFailedMessage` before a retry.
`batch` is the tool batch, sequential or parallel: per call whether it was prepared or
ended, whether it asked to terminate, and the results emitted so far.  A listener
that throws fails the run at the event concerned, before or after the
transcript took the message (`EmitFails`, `ToolEmitFails`); calls of a
parallel batch that were executing then become `zombies`.

`ProviderContext` extends it with the second pass of `transformMessages`, a fold over the
messages of a call of the provider: failed answers are left out, and results are
made up for calls that have none.  It is evaluated on every context `AgentRun` makes.

Left out: the streamed partial updates after the first (they replace the same
element), `newMessages` (a copy no property reads), `shouldStopAfterTurn`
(`Agent.createLoopConfig` never sets it), usage and arguments.  The events of a
refused call are one step.  Clearing one queue only is covered by
`ClearAllQueues` as to losing messages.  `sent` and `dropped` are history
variables of the properties.

Properties: `ContextIsTranscript`, `ProviderSeesAnsweredCalls` (what a provider is sent
has one result for each tool call, next to it, however the runs before it ended),
`AnsweredInOrder`, `NothingLostOrRepeated`, `QueuesAreFifo`, `RunSettles`,
`QueuedWorkRuns` (what is queued before the last poll of its queue enters the
transcript, unless the queue is cleared or the run fails or is aborted); violated by the code:
`IdleMeansQuiet`.

Fairness: `WF(Loop)` - promise continuations are run, a provider's stream
ends, a tool returns; a tool or provider that hangs for ever without honouring
the abort signal is outside the claim.  Nothing is assumed of callers, failures
or aborts.

Bounds: three messages, batches of two calls, two batches, two runs; two
messages and one batch where listeners throw and liveness is checked.  `NothingLostOrRepeated`
is checked with listeners that do not throw: one that throws when a message is
announced ends the run before the transcript takes it.  Two runs are
needed for retry and continue, two calls for any order of completion,
three messages so that a queue drained one at a time is left non-empty while
another message arrives.

### 2.4 Compaction

The state is the path from the root to the leaf.  `Prepared` is
`prepareCompaction` with `findCutPoint`, `findValidCutPoints` and
`findTurnStartIndex`; `InContext` is `buildSessionContext`; a compaction is
two steps, `StartCompaction` and `FinishCompaction`, between which an idle session
may record shell results, custom messages and settings and move its leaf
(navigateTree has no guard against it).  `misplaced` is a history variable of
the properties: the compactions appended to a path that no longer holds the leaf
they were prepared at.  A summary is the set of messages it accounts for:
those shown to the summariser and those of the previous summary when it was passed
along; that the text really does so is assumed.  `owed` counts the results
that the last answer's calls still owe; a compaction starts when none are.
Summaries that extensions supply are left out; forks are in `SessionStore`;
`Navigate` goes to entries of the path (another branch is, to compaction, a shorter path
and new entries).

Properties: `EveryMessageAccounted`, `ResultsFollowTheirCall`,
`KeepsNoMoreThanAsked` (stated with its exception: trailing tool results that
fill the budget alone leave no cut that keeps less).  `EveryMessageAccounted`
excepts paths with a misplaced compaction.  Violated by the code:
`SummaryIsCumulative`, `FirstKeptIsOnPath`.

Bounds: six entries of one token each, two of which fill the budget, and answers of up
to two calls.  Two compactions with a split turn between need five entries.

### 2.5 AuthStorage

`file` and `auth` are auth.json, `lock` its lock file, `data` and `loadError` the fields of
the AuthStorage of each process.  `LockSync` is `acquireLockSyncWithRetry` around a
synchronous section, which nothing of the same process interrupts.  It does not resolve links,
`lock()` does, so that for a link (`symlinked`) a refresh does not keep it out.  `Start`,
`StartMissing` and `CreateFile` are the constructor (another process may come between
the `existsSync` and the `writeFileSync` of `ensureFileExists`), `Login` and `Logout` are set
and remove with `persistProviderChange`.  A call of `getApiKey` whose token has expired
goes through `locking`, `refreshing` (the request is under way), `refreshed` (the answer
is there), then `releasing` or, after an error, `failing` and `reloading`.
What a refresh reads becomes `this.data`, the object it writes after its request.  `shared`
says of which call a process's `data` is that object: `SetInMemory` then changes `current` too,
and `changed` remembers which providers.
proper-lockfile is external: a lock not updated for some time is anybody's, so
`Locked` and `LockSync` may take it from a dead process, and from a living one
(`Overlaps`, which sets `raced`); the owner learns of it in `NoticeCompromised`.  `Kill` leaves an
orphaned lock, and a file that is empty or torn when it strikes inside a write.
The provider is external too: a refresh token is accepted once, and its answer may be lost
(`lost`).  A write of auth.json that fails without a kill, on a full disk, is not modelled.

Properties: `RefreshTokenUsedOnce`, `OthersUntouched` and `LogoutStays`, of what is in the file,
each unless two processes may have been at the file at once, past a lock (`raced`): one lost its lock alive, two
created the file, or it is a link.  Violated by the code: `LoginIsSaved`, and `LogoutHolds`, the promise of
`logout` to the user.

Bounds: two processes with one call each, two providers, three tokens ever issued, of which the first may
expire.  Two processes suffice for a holder and a competitor; the first token is refreshed, the
second is another provider's login meanwhile, the third what the refresh brings.  More are covered by the proofs.  No liveness is claimed: a
process may be suspended for ever with the lock.

### 2.6 AgentSession

The run is reduced to what the session sees: `run` is idle, streams an answer (`llm`) or
executes a tool, and puts its events in `events`, the `_agentEventQueue`, while
`transcript` is already ahead.  `UserStarts`, `MessageEnds`, `NothingEnded`, `Retry` and
`AgentEnds` are `_processAgentEvent` of the event at the head; `sleeping` and `compacting` are
the awaits of the handler of agent_end (`_handleRetryableError`, `_runAutoCompaction`).
`timers` are the timeouts that will call `agent.continue()`.  `Prompt` with
`PromptCompacts`, `PromptRuns`, `AfterRun` and `BecomesIdle` is `prompt` cut at its awaits;
`Steer`, `RecordBashResult`, `Abort`, `AbortCompaction` and `Compact` with
`CompactStarts` and `CompactEnds` are the other callers.  A compaction keeps the messages from
any entry that is no tool result, which covers what `Compaction` says of the cut.

`overlap` and `slowHandlers` are the surroundings, which do not change: with the first, callers
prompt or compact while a compaction runs or the session is about to go on by itself, as the
commands of the RPC mode do (`coding-agent/src/modes/rpc/rpc-mode.ts:380`, `:512`); with the
second, an extension makes an event wait while callers act.  A session with neither is
`Undisturbed`.  `unheard` holds the messages no `message_end` announced to the session.

Left out: the follow-up and display queues, messages for the next turn, silent
overflow, changes of the model, extension commands; retry and auto-compaction are
switched on.

Properties: of undisturbed sessions `ReloadAgrees` (at rest, the session's branch gives the
messages of the agent), `ResultsFollowCalls`, `RestartsBounded` and `PromptReturns` (unless a
callback made a run fail); of all sessions `NothingForgotten`: what leaves the agent is an error
taken back, covered by a compaction, or unheard.  Disturbed, the code also takes messages from
it that wait in the queue, and so reach the file, and an answer in place of one dropped
before; the property says that it takes no others.  Violated by the code:
`PromptAlwaysReturns`, `MessagesStay` and `ResultsAlwaysFollowCalls`, which are the same
without the exceptions.

Fairness: weak fairness of the run's steps, the handler, the continuations by timeout, the
manual compaction and each caller's steps - answers, tools, summaries and sleeps end,
and the event loop runs what is due.

Bounds: one caller, two prompts, one tool call, two errors, one other act, one retry, one
compaction besides those of an overflow.  Two errors are an overflow and a retryable
error, or the same twice.  Disturbed sessions, in which every call may meet every await, have
one error; it takes two prompts and one error for a retry to find an answer other than its own.

### 2.7 LeadRuns

`run[r]` holds what `runImpl` and the executor have for a run: where it is (`planning`,
`answering`, `working`, `writing`, `recording`, `ending`), its steps, attempts, artifacts it was given
(`refs`, `carried`) or found, and its copy of the artifact store.  `stored` is
artifacts.json, which every change rewrites from the copy of the run that makes it.
`Abort` rejects the promise the user waits for and stops nothing, so that runs overlap
(`mishaps`).  `WorkerEnds` is a profile worker, which waits for others.  A structured worker
creates its artifacts one after another (`StructuredWrite`) and returns (`StructuredEnds`); once the
verdict ends the attempts (`Judge`), the three files of the step (`RecordFile`) and its line in the log
(`StepEnds`) are written one after another.  These and `Finish` run without awaits that matter, so that
only a kill comes between.  A step belongs to one run: task ids are taken to be distinct, as the
clock makes them.  `Search` looks into the cache, `SearchEnds` creates and completes the artifact
of the result, `KillInSearch` strikes between the two.  Whether a plan asks,
answers directly or has steps, and the verdict of the acceptance rules, are left open.

Properties: `InputsReadable`, `AcceptedMeansDone`, `RetrievedOnce`, `RunReturns`; violated by
the code when runs overlap: `ManifestKeepsArtifacts`.

Fairness: weak fairness of the steps of all runs together - planners, workers and providers
answer or fail.

Bounds: two runs, plans of two steps, two attempts, two artifacts: a step that reads what another
found, a retry of either, a run after an aborted one, and a restart.

### 2.8 SettingsManager

`file` and `saved` are settings.json, `settings`, `loadError`, `modified`, `writeQueue` the fields
of each process for the global scope.  A setter marks its field and queues a task with the
snapshots it will write (`Set`); `Write`, `WriteFails`, and `ReadMissing` with
`Create` are one task, under the lock or, when the file is missing, with the lock
taken only for the write.  `Reload` and `ReloadEnds` are the two ends of `reload`.
`EditFile` is the user with an editor, `Kill` may cut a write short and leave the lock,
`LockGoesStale` removes it.  A write that fails or is cut short leaves the file as it was, a part
that does not parse, or nothing, which reads as no settings (`WriteError`, `WriteCut`).
`unsaved` and `dropped` are history variables of `NothingForgotten`: what a process has set and no
write has put into the file, and what of it the code has given up.  It does so in three places, each
of which the action shows: a setter after a failed load (`Set`), a task that fails when an earlier
one or a reload has cleared its mark (`TaskEnds`), and a reload that clears the mark of a task that
has failed (`ReloadEnds`).

Properties: `NothingForgotten`, `OwnChangesOnly`; violated by the code: `NothingDropped`.  No
liveness is claimed: every task is synchronous, and the queue goes on whether it fails or not.

Bounds: two processes, two fields, three values and as many queued writes: a task that fails
between two others, and a change of each field from outside.

### 2.9 OutputAccumulator

`append` and `finish` are the methods, the variables its fields; `decode` is the streaming
TextDecoder, which holds back the head of a character (external).  Bytes are `a`, a
newline, and the two bytes of a wider character; what is flushed of half a
character is U+FFFD, of three bytes.  The reference is `truncateTail` of the whole output
decoded at once.  `truncateTail` is stated by what it returns: as many whole lines from the
end as fit, or the end of the last line.  Errors of the temporary file are left out.

Properties: `SnapshotIsTail` (with the totals), `FullOutputKept`.

Bounds: two lines and two bytes are shown, so that the tail is trimmed when it is longer than
eight bytes, and for the second time when there were fourteen; all outputs of up to fourteen bytes
with at most two `a`, in chunks of up to three.

### 2.10 ChildProcess

One command: `kind` says whether the bash tool (`createLocalBashOperations`) or `execCommand`
runs it; both wait with `waitForChildProcess`.  `child` and one descendant (`helper`, in
the process group or away from it, holding the streams `held`) are the environment.
`Data`, `End`, `Exit`, `GraceEnds` and `SpawnError` are the event handlers; where the
promise settles, the caller goes on in the same turn (`Settles`) up to the closing of the
temporary file.  `Timeout`, `Abort`, `ForceKill` and `KillTracked` are the timers, the
signal's listener and the handler of SIGTERM.  `graceOver` and `stopped` are history
variables.  Signals reach the child: not modelled is a command that has changed its user, to which
`proc.kill` is refused.  Node then emits `error` within the kill (`exec.ts:55`, `:59`): the call
settles though the command still runs (`child-process.ts:61`), and without a listener, when the
forced kill comes, the error is thrown.

Properties: `UpdatesCatchUp`, `OutputComplete`, `StoppedIsReported`, `CallReturns`; violated
by the code: `ForceKillKills`.

Fairness: weak fairness of each handler and timer that ends a wait; the command owes
nothing, it may run, write and hold its pipes for ever.

Bounds: three chunks of output over both streams, one of them beyond what is shown without
a temporary file.  The chunks are not told apart, and the proofs do not bound them.

## 3. Runs

All constants and bounds are in the `.cfg` files; section 2 says why they are enough.

| Run | Shows |
|---|---|
| `file_queue` | the queue implements the first-come-first-served lock; exclusion per file, map cleanup, no lost update, and that every queued call settles, with aborts, failures and an alias |
| `store` | durability, agreement of file and memory, append-only files and forks that copy their path, over kills inside writes, reopenings, forks and imports |
| `run_safety` | the safety of a run with errors, aborts, retries and throwing callbacks, queues drained one at a time |
| `run_live` | runs settle, queued messages are delivered and the provider is sent one result per call, with listeners that throw at any event |
| `compaction` | repeated compactions lose and repeat nothing, separate no result from its call and keep no more than asked |
| `auth` | refresh tokens used once, logouts that stay and untouched neighbours, with stale locks, kills, torn files and lost answers |
| `session` | file and agent agree after retries, recoveries, compactions, aborts and shell results; restarts are bounded and prompts return; what callers that do not wait can make the agent lose |
| `session_hang` | section 4: a prompt that never returns |
| `lead` | steps read what is there and accepted, accepted means done, logged steps have their files, nothing is retrieved twice and runs return, over aborts, restarts and kills between any two writes |
| `settings` | no change is forgotten but where the code gives it up, and none overwritten, with failing and cut writes and edits from outside |
| `output` | what is shown is the tail of the whole output and no byte is lost, wherever chunks are cut |
| `child` | a call settles with all its output, says that it was stopped and leaves nothing behind, for every order of exits, pipe ends, timers and aborts |

Deadlock checking is off in every run: each system may stop (all calls done, no
more input within the bounds, all processes down).

Every property of a passing run is paired with a mutant in PROJECT.json that
breaks it.  `FifoExclusion` and the types of `FileMutationQueue` and `AgentRun` are
proved and belong to no run.

## 4. Findings

`session_hang` is a run of its own.  `agent_end` makes the session create a retry
promise when the last message is a retryable error
(`agent-host/src/agent-session-impl.ts:513`), and prompt waits for it; only the queued
handler of `agent_end` resolves it, and only for an answer it has seen end (:600).  A run
that a callback makes fail ends with an error message no `message_end` announces: the
prompt waits for ever.  The comment of `waitForRetry` (:2545) says it returns
immediately if no retry is in progress.

The modules state more of what the repository says of itself that its code
violates; TLC finds each violated when its name is put in place of the properties of the
module's configuration:

| Property | Where | In short |
|---|---|---|
| `SessionStore!ForkKeepsPath` | `agent-host/src/session-manager.ts:1178` | a fork loses what precedes a label on its path |
| `SessionStore!NoDuplicateLines` | `session-manager.ts:807` | a session opened without an answer writes its lines twice |
| `SessionStore!EphemeralStaysInMemory` | `agent-host/src/agent-session-runtime-impl.ts:193` | /new in a session kept in memory makes one on disk |
| `FileMutationQueue!ReportedChangeStays` | `coding-agent/src/core/tools/edit.ts:381` | an aborted write lands over a later change |
| `AgentRun!IdleMeansQuiet` | `agent/src/agent-loop.ts:469` | tools of a failed parallel batch run while the agent is idle |
| `Compaction!SummaryIsCumulative` | `agent-host/src/compaction/compaction.ts:599` | a split turn without complete turns drops the previous summary |
| `Compaction!FirstKeptIsOnPath` | `agent-host/src/agent-session-impl.ts:1990` | a compaction is appended to a branch that lacks its first kept entry |
| `AuthStorage!LoginIsSaved` | `agent-host/src/auth-storage.ts:269` | a login while the lock is held stays in memory only, though the screen says "Credentials saved to" (`coding-agent/src/modes/interactive/interactive-mode.ts:4572`) |
| `AuthStorage!LogoutHolds` | `auth-storage.ts:434` | a logout of the provider being refreshed fails on the lock of the refresh, which then restores the credentials in memory and in the file |
| `SettingsManager!NothingDropped` | `agent-host/src/settings-manager.ts:414`, `:478`, `:527` | a change is given up when its task fails after another task or a reload has cleared its mark, when a reload clears the mark of a failed task, or when the last load failed |
| `LeadRuns!ManifestKeepsArtifacts` | `lead-agent/src/index.ts:1555`, `artifact-core/src/index.ts:316` | an aborted run goes on beside the next, each rewrites artifacts.json from its own copy, and a third misses what the second stored (`MaxRuns = 3`) |
| `AgentSession!MessagesStay` | `agent-session-impl.ts:1639`, `:1993`, `:2499` | a compaction replaces the agent's messages by those in the file while a run started meanwhile has its own in the queue; a retry whose error went that way takes the answer before it; and what is said while `compact()` does not listen is lost altogether |
| `AgentSession!ResultsAlwaysFollowCalls` | `agent-session-impl.ts:1639`, `:2643` | a tool result is saved without its call when `compact()` ends between them; a shell result is recorded between the two while an extension makes the queue lag |
| `ChildProcess!ForceKillKills` | `agent-host/src/exec.ts:58` | the forced kill asks whether a signal was sent, not whether the command is gone |

Met while modelling, and visible in the models as exceptions or guards:

- an entry appended behind an incomplete line is lost with it
  (`session-manager.ts:817`; the exception `Swallowed`);
- a fork of a path without an answer is reopened before it was written: an
  empty session without its parent (`agent-session-runtime-impl.ts:266`;
  the guard `HasAssistant` in `ForkPersisted`);
- two names of a file that does not exist yet are two keys, and its key changes when
  it is created (`file-mutation-queue.ts:11`; `FileExclusion` speaks of existing files);
- a write that fails once the file is open leaves it empty or with a part of the text,
  and what earlier calls had written is gone (`edit.ts:381`, `write.ts:224`; `WriteFails`);
- a follow-up queued while agent_end is emitted stays in the queue until the
  next prompt (`agent/src/agent-loop.ts:234`);
- a cut moved back over a label or a setting counts as a split turn, although it
  stands on a turn boundary (`compaction/compaction.ts:331`);
- an import overwrites a session file of the same name
  (`agent-session-runtime-impl.ts:322`; the exception in `FilesOnlyGrow`);
- an empty settings.json, as a write cut short leaves it, reads as no settings, and the next
  write replaces all of them (`settings-manager.ts:315`, `:500`; `WriteCut`);
- two processes that create a missing file overwrite each other
  (`settings-manager.ts:200`; `OwnChangesOnly` speaks of files that exist, and
  `ensureFileExists` of `auth-storage.ts`; `raced`);
- what is left of auth.json by a kill inside a write is empty and reads as no
  credentials (`WriteCut`);
- `compact` disconnects before it aborts, so that the aborted answer is not saved, and
  neither is the message a failed run ends with, which no event announces
  (`agent-session-impl.ts:1639`, `agent/src/agent.ts:463`; `unheard`);
- a `compact()` that begins while agent_end waits in the queue puts the error back that the retry
  has removed: the agent refuses to continue, and the prompt waits for ever though "will
  be caught by next agent_end" (`agent-session-impl.ts:2527`; `PromptReturns` speaks of
  undisturbed sessions);
- a run beside a recovery is itself recovered: two restarts without a message between them
  (`agent-session-impl.ts:1821`; `RestartsBounded` speaks of undisturbed sessions).

Met while reading, outside the models:

- agent session: a scheduled `agent.continue()` survives `abort` and `compact`; two
  automatic compactions share one controller; an abort during the sleep before a
  retry lets the check for a compaction run beside what follows; shell results are flushed by the next
  prompt though the comments at 2636 and 2665 speak of the end of the run; print mode
  exits after `prompt` though a recovery goes on; messages for the next turn are
  cleared before the agent may refuse the prompt;
- lead agent: steps of equal order are not rejected; a torn artifacts.json makes every
  later workflow throw; the cache gives up at the first artifact without output;
  rejected artifacts become prior artifacts of the next run; a workflow stopped by a
  question is recorded as accepted (`lead-agent/src/index.ts:1495`);
- settings: a failed load at start, a held lock even, disables saving for the life of
  the process;
- output: `truncatedBy` may say "bytes" where lines decided; an early error of the
  temporary file's stream has no listener;
- child processes: a command killed by a foreign signal counts as a success; a timeout
  beyond 2^31 ms fires at once; descendants in the group survive a finished
  call; after SIGTERM the agent may start another child;
- credentials: for an auth.json that is a link the refresh locks another name than the
  synchronous sections (`auth-storage.ts:76`, `:131`; `symlinked`); a refresh counts locks as stale after 30 s, the synchronous side after the
  default 10 s; nobody calls `drainErrors`.

## 5. Proofs

TLAPS checks all proofs; no theorem bounds the sets and numbers the runs bound.

`FileMutationQueueProofs` proves `FifoExclusion`, `QueueEntryIsPending`, `FileExclusion`,
`NoLostUpdate` and `ChainIsFifoLock` for every set of calls, paths and files and every
aliasing of paths.  The inductive invariant `IInv` adds to the types: tickets are distinct and a call is
queued exactly when it has one (`TicketInv`); between a pending call and any earlier
pending one of the same key the `prev` links lead from call to call without a gap, so
a call whose predecessor has settled has no pending call before it (`ChainInv`);
the map names the latest pending call of its key (`TailInv`); and a signal that
fired inside the body has settled its promise (`AbortInv`).  `ChainInv` is what
`FifoExclusion` lacks: a step of the first call in the chain may release
only the one behind it.  A second invariant,
`FileInv`, rests on the first: calls on an existing file share a key (`KeyInv`),
files hold the changes of calls that are done (`ContentInv`), and the file is as
a pending edit read it unless an aborted write changed it since (`SnapshotInv`).  From
both follow `FileExclusion` and `NoLostUpdate`.  `ChainsAreLocks` is the refinement: the
initial states map to those of the lock, and `StepIsLockStep` maps each action under
`IInv` to `Ask`, `Enter`, `Leave` or no step.  Assumptions:
`NoCallAssumption`, `PathAssumption`, `ExistingAssumption`.

The lock itself excludes (`LockExcludes`): of two pending clients of one lock, one is ahead of
the other, and who is inside has nobody ahead (`Ordered`).

`SessionStoreProofs` proves `Durable`, `ReloadAgrees`, `FilesOnlyGrow` and `ForkCopiesPath`
for any files and ids, and for sessions, labels and kills without number.  None of them is
inductive.  The
invariant `StoreInv` says of every file, not only of the open one, that at most its last line
is incomplete and that the lines that parse are a sound tree (`GoodDisk`): an id is
that of one entry, and a parent stands before its child (`Sound`).  Of the manager it says that
its entries are such a tree and its labels those of its entries (`GoodMemory`).  `Written`
joins the two.  As long as nothing is flushed the file holds a beginning of the entries, which is
empty or was left by a kill; flushed, it holds all of them, perhaps behind such a
beginning, for the code then writes everything once more.  `Durable` follows at once.
`ReloadAgrees` needs that a list behind a beginning of itself has the index of the list
alone (`SameIndex`, `Twice`).  `FilesOnlyGrow` is shown step by step under
`GoodDisk`: only the last line of a file, if it is incomplete, is ever touched again
(`Kept`), and a file whose header loads is never started anew.  The walk of `getBranch` ends because parents precede their
children.  `ForkCopiesPath` compares two walks: one in memory, one in the new file, which may stand
behind what a kill left there.  A path is split into its entries and the labels behind them
(`LabelsSplit`), and the entries are a branch of their own (`BranchSplit`).  There is one branch to an entry (`BranchUnique`), and it depends on the
index only (`SameBranch`), which is that of memory (`ReloadFollows`).  The fork writes the path and behind it one
label entry for each label on it (`BranchedIs`), so that its branch without labels is the path
(`WithoutLabelsIs`).  The library's induction theorems are out of reach of the provers, so the lemmas on counted
indices (`Place`, `ElementsAt`), on the walk and on the first occurrence of an entry
argue by a least counterexample.  Assumptions: `IdAssumption`, `FileAssumption`,
`KindAssumption`.

`AgentRunProofs` proves the types and five properties for every number of messages, calls,
batches and runs, and for all switches but one.  `ContextIsTranscript` speaks of one
await only; `Sync` says for each await how far the loop's copy is ahead of the
transcript: by the prompts not yet emitted, by the partial answer, or behind it
by the results of the batch so far.  The lemmas on sequences (`MoveHead`, `ReplaceLast`,
`GrowConversation`) carry the steps.

- `QueuesAreFifo`, from `FifoInv`: the prompts and the polled messages stand between the
  transcript and a queue, and what is nearer the transcript is older (`InLine`); no
  message is newer than the last one sent (`NoNewer`); a queue holds its own
  kind only (`OwnKind`); and nothing is left of the prompts or of a poll at any
  await but the one that emits them (`Emptied`).
- `NothingLostOrRepeated`, from `OnceInv`: of the places a message can be in - the two queues, the pending
  prompts, the polled messages, the transcript - it is in at most one, at one
  position, and every message sent and not dropped is in one.
- `AnsweredInOrder`, from `Answered`: at each await, how many results of the last answer
  are in and in which order, and that every earlier answer has all of its own.
- `ProviderSeesAnsweredCalls`, from `ResultInv`, which allows for what `Answered` excludes,
  answers left with some results or none: each result stands
  behind its answer with nothing between but other results of it, at the place of its call.  For such a conversation each
  step of `transformMessages` keeps that what is out so far, with results made up for the pending calls, is
  answered (`PassStep`).  The `pass` is a recursive function, which a lemma shows
  to exist (`PassExists`).

`NothingLostOrRepeated` and `AnsweredInOrder` have the hypothesis `ListenerThrows = FALSE`, under which the runs check them as well: a
listener that throws when a message is announced ends the run before the
transcript takes the message, and one that throws inside a batch leaves calls without a result.
The others hold with such listeners.  Assumptions: `Modes`, `Switches`, `Bounds`.

`AuthStorageProofs` proves `RefreshTokenUsedOnce`, `LogoutStays` and `OthersUntouched` for any
processes, calls, providers and number of tokens.  `Guarded` holds as long as no two were at the
file at once (`raced`): who works under the lock has it (`LockInv`); the credentials a refresh will
write are those of the file but for what its process changed in them (`Carries`), and such a
change, like the token that has come back (`IsNew`), is a token no file has (`ReadInv`); every token in the file may be used, or was lost, or belongs to a
refresh that is about to write, and no two providers share one (`TokenInv`).  `LockInv` alone is
not enough: that the merge of a refresh is harmless needs `ReadInv`, and that the token just spent is
replaced before anybody reads it needs `TokenInv`.  Assumptions: `CallAssumption`,
`TokenAssumption`.

`CompactionProofs` proves `EveryMessageAccounted`, `ResultsFollowTheirCall` and
`KeepsNoMoreThanAsked` for any sizes, budget, number of calls and number of entries.  The first two
speak of the last compaction and are not inductive: `Navigate` may take that one off the path.  So the invariant
(`Invariance`) says of every compaction on the path that no result behind its cut answers a call
before it (`Cuts`), and that the messages before its cut are those the summaries up to it know
of (`Counts`, unless one of these was misplaced).  While a summary is awaited the path may change.
`Prepares` therefore says what a preparation promises for every path that still has the leaf
it was made at: its cut is clean, its summary covers what is before the cut, and behind that leaf stand
only entries that no call awaits.  `Owes` and `Results` say where results may come.
`PreparedCovers` and `CutClean` are what `prepareCompaction` contributes, and each action is one
lemma.  `KeepsNoMoreThanAsked` rests on the sum `TokensFrom`, a recursive function
again, which falls along the path and only at messages (`TokensFall`, `TokensAreMessages`).
Assumptions: `TokenAssumption`, `BoundAssumption`.

`BashToolProofs` proves, of `ChildProcess`, `UpdatesCatchUp`, `OutputComplete` and `StoppedIsReported` for any
number of chunks.  `PipeInv`: what was written is delivered or in a pipe, as long as the call
runs.  `SeenInv`: an exit seen is that of a dead child, and a stream whose end was seen is empty
and has no writer left; with `PipeInv` this is why a call that settles by itself has
delivered everything.  `StopInv`: of a call that was stopped the abort, the timeout or the
signal is on record, and of its process group nothing lives.  Assumption: `ChildAssumption`.

`SettingsManagerProofs` proves `NothingForgotten` and `OwnChangesOnly` for any processes,
fields, values and length of the queue.  The invariant is `Sound`, of each process by itself and of
its changes that are not given up (`Live`): each is marked with its value or held by a task
(`Remembered`), the last task holds all that are marked (`Covered`), a change whose field is marked is
what the settings say (`Current`), and tasks hold fields the process has set and no others
(`OnlyChanged`).  `Remembered` alone is not inductive: that the success of one task may clear all
marks needs `Covered`, and that a failed one leaves its change to the next setter needs `Current`.
Assumption: `BoundAssumption`.

`LeadRunsProofs` proves `InputsReadable`, `AcceptedMeansDone` and `RetrievedOnce` for any
number of objectives, steps, attempts and artifacts.  `LiveInv`: unless runs went on side by
side, one is live at a time; `StoreInv`: then its copy of the manifest is the manifest, which has what
the session, the plan and the steps so far refer to; `LogInv`: the steps before the present
one are on the log as accepted; `FilesInv`: a step on the log has its files; `SearchInv`: while a search is under way no artifact of
an earlier one is stored, for otherwise the cache had answered.  `EndKeeps`, `WorkKeeps`
and `KilledKeeps` say once what the end of a run, a step of its work and a kill keep;
each action is reduced to one of them.  Assumptions: `BoundAssumption`, `TornAssumption`
(a torn manifest is none).

`BashToolProofs` also proves `FullOutputKept` of `OutputAccumulator` for output of any length; the property is
inductive as it stands, with the types of the byte sequences.  Assumption: `LimitAssumption`.

Only model-checked: all liveness (fairness is beyond the prover); everything of `AgentSession`; and
`SnapshotIsTail`, which compares folds over the whole output with what is kept of it, that is,
needs an induction over data.

## 6. Plan

Done, in this order: `SessionStore`, `FileMutationQueue` with `FifoLock`, `AgentRun` with
`ProviderContext`, `Compaction`, `AuthStorage`, `AgentSession`, `LeadRuns`,
`SettingsManager`, `OutputAccumulator`, `ChildProcess`.

Next:

1. the follow-up and display queues and the messages for the next turn in `AgentSession`;
2. the collection of a branch summary's entries up to the common ancestor;
3. the output of ! commands (`executeBashWithOperations`) and `truncateHead`;
4. the project scope of the settings, with its fallback to the global one;
5. the teardown and rebinding of sessions by the runtime.

Abstract specifications worth stating: a persistent log of entries that
`SessionStore` implements between flushes; a conversation with a mailbox that
`AgentRun` implements and over which `AgentSession` could be stated.

Theorems worth proving next: `RestartsBounded`, `ReloadAgrees` and `ResultsFollowCalls` of
`AgentSession`, whose invariant has to say of every await how far the event queue, the
transcript and the branch are apart, as `Sync` does for the loop.

## 7. Not modelled

Front ends, rendering, HTML export, migrations, telemetry, HTTP and JSON of the
providers, OAuth logins, the model registry, loading of resources, themes and skills, package
installation, the planner's and intake's prompts, validators, the read-only tools, the agent
proxy.  They are sequential, pure I/O, or formatting, and most lines of the repository are
of this kind: generated tables of models, terminal and web components, test data.  The extension runner
is present as what handlers may do to those who wait for them: throw, refuse, take
long.  Branches for Windows are left out throughout.
