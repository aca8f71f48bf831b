# deer-mini: specifications, model checking and proofs

deer-mini is an agent service: a FastAPI process with an asyncio event loop, one
SQLite database, one Docker container per active conversation (*Thread*) and a
directory of files per Thread. A user message starts a *Run*: a task of the event
loop that lets a language model work on the Thread's files with tools. What is
hard in it is not any single function but the order of steps of several actors
(HTTP handlers, Runtime tasks, the container manager, the startup code) across
awaits, cancellations, failing storage, and process deaths. These modules state
what has to hold through all of that.

Paths below are relative to `src/backend/app/`.

## 1. The system's parts

| part | state it keeps | operations | interacts by |
|---|---|---|---|
| Admission (`services/thread_operations.py`) | per Thread: the Run holding it, exclusive writer, readers, waiting flag, `blocked` | `write`, `read`, `register_run`, `release_run`, `block` | called by every handler and by the task's done-callback |
| Coordinator (`services/run_coordinator.py`) | task table, closed flag | create, cancel, delete, restore, preview, recover, shutdown | starts and cancels Runtime tasks; calls admission, repositories, manager, streams |
| Runtime (`runtime/agent_runtime.py`) | one task per Run | `run`, `_finish_failure`, `release_sandbox` | transactions, checkpoints, sandbox lease, event stream, memory |
| Run and Thread rows (`repositories/run_lifecycle_repository.py`, `run_repository.py`, `thread_repository.py`) | two SQLite tables | start, finish, interrupt, recover_orphan | one `BEGIN IMMEDIATE` transaction each |
| Sandbox (`sandbox/manager.py`, `docker_runner.py`) | per Thread: lock, lease, container, idle time | begin_run, run, end_run, stop_thread, reap_idle, delete_thread, close | Docker daemon; mounts the Thread's directories |
| File restore (`services/file_checkpoint_service.py`, its repository, `filesystem/file_snapshots.py`) | operation journal, staging directories, backups | capture, preview, restore, recover_pending, evict | renames directories, commits messages and journal together |
| Event streams (`runtime/stream_bridge.py`, the SSE handler in `api/routes.py`) | per Run a bounded log in memory, its epoch, a cleanup task | publish, publish_end, subscribe, cleanup, close | the Runtime publishes, one handler per browser follows |
| Event journal (`runtime/event_recorder.py`, `events_repository.py`) | rows not yet written, a writer task per Run | record, write batch, close | the Runtime records, the SSE handler reads after a gap |
| Thread deletion (`services/thread_service.py`) | quarantined directories | delete, cleanup at startup | rename, row, remove |
| Memory (`memory/*`, `memory_task_repository.py`) | task ledger in SQLite, one file per memory and an index | schedule, claim, attempt, apply, retry, resolve | a model call per task; polled retries; an administrator's commands |
| Agent loop (`agents/*`, `tools/*`) | message list, todos | model call, tool calls, repair, checkpoint | called by the Runtime |
| Subagents (`subagents/*`) | child runs | execute, save, cancel | tool `task`, parent's checkpoint |
| File tools (`tools/write_file.py`, `edit_file.py`, `file_access.py`, `storage/file_io.py`) | a lock per Thread, remembered weakly; the file on disk | write_file, edit_file | called by parent and children at once; a command writes the same files |
| Model client (`model/*`) | - | streamed call, retry decision | HTTP |
| Context compression (`context_compression/*`) | snipped, summarized and cleared messages | project a view | before each model call |
| Browser client (`src/frontend`) | message list, cursor | follow, reset, reconnect, reload, cancel | HTTP and SSE |

What is hard: two requests meeting on one Thread (create against create, cancel
against restore, delete against create); a task cancelled before it ever ran, or
while an operation that must not be torn is in flight; a commit that succeeded
although a cancellation was raised; containers whose removal is not confirmed;
storage that fails on the success path and again on the failure path; a process
that dies between any two of these and has to put things right in the correct
order at its next start. `PROJECT.json` lists these hazards at their lines.

What makes each part correct:

* admission: writers exclude readers and writers, only operations that expect a
  Run stand beside one, a blocked Thread admits nobody;
* Run life cycle: one task per Thread, the two tables agree, an outcome is final,
  events sent as confirmed are true, success is durable, no Run is abandoned,
  everything ends;
* sandbox: a container that nobody accounts for never meets new work;
* file restore: messages and files switch together, whatever dies in between;
* deletion: a deleted Thread leaves nothing behind, a failed deletion loses nothing;
* streams: a follower knows every complete message before its place, sees the text
  of the current one without a hole or a repetition, is told the outcome SQLite
  holds, and is told one at all;
* event journal: rows are in order and none twice, every event is accounted for;
* memory: a proposal is applied once or reported, never lost silently;
* agent loop: each tool call has exactly one result, and it is true;
* subagents: no save of one child undoes another's, none outlives its Run;
* file tools: none loses what another wrote, and each answers truly, also of the disk;
* model client: what is shown under a message id comes of one attempt;
* context: what is left out of a request is left out whole and can be had otherwise.

## 2. Modules

| module | models | composes |
|---|---|---|
| `ThreadAdmission` | the admission entry: the abstract specification every handler has to respect | - |
| `RunLifecycle` | coordinator, Runtime task, rows, lease, startup and shutdown | extends `ThreadAdmission`: its actions are called, its specification (`EntrySpec`) is refined |
| `AtomicRestore` | what a restore promises: files and messages go back together in one step (abstract) | - |
| `FileRestore` | one Thread's directories, journal, messages: capture, preview, restore, rollback, recovery | refines `AtomicRestore` |
| `StreamBridge` | one Run's streams, the task that publishes, the handler that serves a browser, and what the browser shows | - |
| `ThreadSandbox` | the containers of the Threads: lock, lease, docker clients, reaper, close, start | - |
| `MemorySave` | one user's memories: the ledger, attempts and retries, the store's files | - |
| `AgentLoop` | the Runs of one Thread as the agent sees them, with its subagents | - |
| `EventJournal` | the recorders of one Run and the rows they write | - |
| `RestorePoints` | one Thread's restore points and objects, its creation and its deletion | `FileRestore`'s exchange is one step here |
| `ModelCall` | one call of the model with its attempts | - |
| `ContextView` | what of a conversation the model is given | extends `ModelCall`: its calls are that module's |
| `FileTools` | the calls of write_file and edit_file on one file, system call by system call | - |
| `MC...` | instances for TLC (model values as functions and symmetry sets) | |
| `RunLifecycleProofs` (and of `ThreadAdmission`), `FileRestoreProofs` (and of `FileTools`), `StreamBridgeProofs` (and of `EventJournal`), `RestorePointsProofs`, `ContextViewProofs`, `ThreadSandboxProofs`, `MemorySaveProofs`, `AgentLoopProofs` | theorems | |

### ThreadAdmission

One entry per Thread: `runOf`, `writer`, `sharing`, `readers`, `blocked`. Each
method of `ThreadOperations` is an action (`BeginWrite`/`EndWrite` are the two
halves of the context manager `write`). The entry is only ever touched without an
await, so that every action is atomic. `BlockAndEndWrite` is the finally of
`restore_thread`: it blocks the Thread and gives up the writer in one turn of the
loop. `Forget` is the end of the process, `BlockAll` what startup does for
operations it could not settle. Its own specification has callers that may do anything the
methods allow (`AdmissionExclusion` is about it); TLC checks it as the service uses it.

### RunLifecycle

One action is what runs between two awaits. `run_sync` (`runtime/async_io.py`)
shields a thread-pool operation: it is allowed to end and only then is a
cancellation raised. So an action of the task first has its effect and then looks
at `cancel` (`Proceed`); an operation that fails raises its own error instead
(`Fail`). The program counter `pc` follows `AgentRuntime.run` line by line:

    created -> load -> stopOld -> capture -> input -> start -> begin -> agent
            -> saveFinal -> release -> finish -> announce -> cleanup -> finished -> gone
    any of them -> failRelease -> failRead -> failSave -> failWrite -> cleanup

`finished` is a task whose done-callback (`Consume`) has not run, `gone` one whose
callback has. A handler of a request is the chain of its awaits, held in `at`:
`building` (the prompt template of a create), `awaitTask`, `interrupt`, `announce`,
`close` (a cancel), `stopBox`, `prepare`, `swapping` (a restore), and so on. A
guard comes from the handler's conditions; a refusal that changes nothing is no
step. A request that does not hold a Thread and only reads is left out.

`run`, `owner`, `thread`, `saved`, `fileOp` are on disk and `container` in Docker:
they survive `Crash`; everything else is forgotten (`ForgetAll`). The start is
`RemoveOldContainers`, `RecoverFiles`, one `RecoverOrphan` per inflight Run,
`Serve`, in the order of `main.lifespan`.

Data is abstracted to what the properties tell apart: `saved` is how far the
checkpoints of the Run got, `told` the set of terminal statuses published as
confirmed (with `unknown` for the event that says the status could not be
determined), `fileOp` whether a restore operation is journaled and not yet
cleaned, `learned` the Runs handed to memory extraction.

### FileRestore

One action is one durable effect of `services/file_checkpoint_service.py`: a
rename, the building or removal of a directory, a transaction. `pc` and `i` are
the place in the call and in the loop over the three areas:

    idle -> backup -> stage -> prepare -> mark -> (out -> in) x 3 -> check -> commit -> clean -> cleanRow
    an error from mark to commit -> failed -> (idle after a commit that stands | rollback)
    rollback: rbClear -> rbBuild -> (rbDrop -> rbOut -> rbIn) x 3 -> rbCheck -> rbRecord -> clean
    start: down -> (verify | rollback) -> collect -> idle

Each effect may also report an error, having taken place or not (a rename whose
`chmod` fails, a commit whose answer is lost), and the process may die between
any two (`Crash`). `tree` says which version of each area lies in each of the
five places (`live`, and in the staging directory `new`, `old`, `rollback-new`,
`rollback-old`); `history` which of their workspaces holds `.tool-results`, which
no manifest mentions; `op` is the journal row, `head` the messages and their
revision. A manifest is the version of each area, so that its fingerprint is
itself. Every edit takes a fresh version: a mixture of two states cannot pass for
a third.

`RunLifecycle` shows that nobody else holds the Thread meanwhile; so `FileRestore`
has no other actor than a writer from outside the service before the second
comparison of fingerprints (`OutsideWrite`). Renames are durable in their order
(the code calls fsync after each), the removal of a directory is one effect, and
a repeated request with a known operation number returns the row and is no step.

### StreamBridge

Three actors and the failures between them. The *publisher* follows the order of
`agents/lead_agent.py` and `runtime/agent_runtime.py`:

    pieces -> save -> whole -> (pieces ... | finish) -> announce -> end -> over
    any of the first four -> announce, when the Run fails, is cancelled or times out

`save` is the checkpoint that is awaited before `message.complete` is published;
`announce` publishes the terminal event, whose status was committed before
(`Result(s, TRUE)`) or could not be (`Result("error", FALSE)`). `CancelLate` is the
cancel of a Run whose final status was not saved by its task.

`streams` is every `_RunStream` the process ever made, so that its index is its
epoch; `current` is the one registered in `_streams` and `timer` the one a cleanup task
will release. `log` is what was published to it, `first` the number of the oldest
entry still in the buffer: an entry leaves from the left when there are too many
or, sizes being anything, at any earlier moment. `Keep` is `_get_or_create_stream`,
which a subscriber calls too: it can register a stream the publisher has left.

The *handler* is `conn`, its place being `at`:

    open -> (initial ->) choose -> loop -> finish
    loop -> gapSnapshot -> gapHistory -> loop      what left the buffer is made up for
    loop -> beat -> loop | finish                  nothing published: the row is read
    choose -> (lost ->) history -> finish          no stream is left

Each read of SQLite is an action of its own, so that everything may happen between
the read of the status and the choice of the stream. The *browser* is `lastId`,
`snap` (how many messages its last checkpoint held), `whole`, `text` and `seen`:
`Receive` is `run-stream.ts` and `useAgentRun.ts` with their duplicate check, `Reset`
is `stream.reset`, `Reload` a page loaded again. A read of SQLite that fails ends the
generator (`Disconnect`), and the browser comes back; if it fails before the endpoint
has answered, the answer is an HTTP error, and to that an EventSource does not come back
(`refused`), although the notice says that it does
(`run-stream.ts:104`: `浏览器正在自动重连`). A connection lost before a line was
received is `Disconnect` before the line is yielded. The process closes
(`CloseBridge`, `Exit`) or dies (`Crash`) and starts again, recovering an orphaned
Run (`Restart`).

### ThreadSandbox

`card` is what `_active` and `_warm_pool` hold for a Thread, `lock` its
`asyncio.Lock`. `at` is where a bash call is in `run()` and in the docker client's
`_run_process`:

    out -> check -> inspect | create -> startLaunch -> startWait -> execLaunch -> execWait -> out
    a launch or wait -> (startCancelled | execCancelled ->) kill | timeout -> destroy -> out

An operation that holds the lock for a single effect (`StopThread`, `Reap`,
`CloseThread`) is one action that finds the lock free; `delete_thread` holds it over
the caller's deletion (`DeleteBegin`, `DeleteEnd`). `reap_idle` and `close` go through
a copy of the keys (`todo`). Docker is `box` and `busy`: a removal is confirmed or
not, and one that is not may have taken place (`NotRemoved`). A client that has been
killed asks for nothing more, and one that exits by itself has its command ended:
these two are the assumptions on Docker. A second cancellation during a launch, or
the death of the process in it, leaves a client nobody waits for: its container
(`overtaken`) or command (`lateExec`) may come later. For an overtaken container
only the sweep of the next start helps, as the code has it, and the properties say so.

### MemorySave

`task` and `item` are the two tables of the ledger, `log` the versions each body file
has had, `synced` how many of them a loss of power cannot take back, `index` whether
`MEMORY.md` is up to date. `job` follows one extraction in `memory/service.py`
(asked, prepared, registered), `scan` one `run_ready` with the attempt it makes:
claim (`ClaimTx`), `Write`, `Index`, `Record`. An attempt that broke off is verified
before it is made again (`AfterError`, `Uncertain`), `RecoverInflight` does this at
the start for what a death left, and an administrator cancels, retries and resolves.
`Doubled` is an addition that meets an equal memory saved meanwhile; the operations of the
run replace a memory, so only the proofs reach it there.
`MemoryLedgerStore.upsert` and `MemoryExtractor.extract` have no caller in the service
and are left out.

### AgentLoop

`mem` is the parent's state object, `disk` the checkpoint. `at` follows `LeadAgent`:

    idle -> repair -> model -> reply -> tools -> model ... -> (abort ->) end -> idle

`batch` is `execute_tool_calls` (calls of `task` that stand together run as a group,
the others one by one, each result committed and saved), `worker[c]` a `task` call
from admission through the queue and its permit to its child's end, `lock` the
checkpoint lock all children share. A save shields itself from cancellation; one
that reports an error may have been committed, and then the next save of this Run
collides with its own step (`behind`). A cancellation between the save of a reply and
that of its results leaves calls unanswered in the checkpoint; the next Run's
`Repair` answers each. A failing save of `FinishAborted` takes the place of the
error, and of the cancellation, it came after. The ids of the calls of one reply differ and a reply writes
the todos at most once (a second is refused by the tool). `write_todos` never meets
the subagents' lock, since it is never in a group. The storage of long results is in
`ContextView`; a failure of it is a failing save here.

### EventJournal

A recorder is the one of the Run's task or that of a request which closes the Run in
its place. `record_event` publishes at once and enqueues if there is room, its writer
takes batches, tries a batch `MaxAttempts` times and gives up; an ambiguous commit is
`WriteFails` with the rows written, and `AppendBatch`, the loop of `append_batch` over the
batch, skips what is there. `close`
waits for the writer and abandons it after its time limit. A death of the process
loses the buffer with everything that could tell of it; it would show nothing, and
is left out.

### RestorePoints

`points` are the rows of `file_restore_points` with their manifests, `objects` the
content store, `seen` what the first walk of a capture has read so far and `touched`
the files it has read that were changed since, which is what comparing signatures
finds out. `moment` notes what the files were when the first walk ended: it is only
there for `SavedIsOneMoment`.

    idle -> collect -> read x files -> compare x files -> add -> tidy -> idle
    a restore: ... tidy -> confirm -> build -> prepare -> swap -> clean -> idle
    start: down -> (recover ->) idle

The exchange is one step here (`Settles`), or stays open (`StaysOpen`). Creation and
deletion of the Thread have the directory in one of two places (`place`). What they
may leave, as the code has it: a start that cannot read the rows leaves the directory
of an existing Thread set aside until the next start, and a delete whose commit was
reported as an error and took place puts back a directory without a row (`astray` in
both); a death between the `mkdir` of a create and its row leaves a directory nobody
knows; a Thread deleted again while it is set aside keeps the earlier marker.

### ModelCall and ContextView

`ModelCall` is one call: `stage` is asking, streaming, accepted, waiting or done;
`shownBy` are the attempts of which something was shown under the message id. How
long anything takes is left open, so each limit may strike wherever the code waits.

`ContextView` is the conversation: `state` is what of the checkpoint concerns the
view (the history, which is never cut, and the sets `snipped`, `summarized`,
`cleared`), `covers` what the summary's text was made from, `files` the results whose
text is on disk. `pc` follows `wrap_model_call` and the tools:

    idle -> repair -> prepare (idle clearing) -> weigh -> (compact -> summary ->) call -> wait
         -> tools -> prepare

`StartRun` saves the message of the user (`AgentRuntime.run`), `Repair` the errors that
`LeadAgent.run` puts behind a call without results; a Run that ends in between leaves a
call with messages of the user right behind it, and the next repair inserts in the
middle of the history. The results of one reply are saved together here (that some may
be missing is `AgentLoop`'s), and each is an error or not, of a tool that may be run
again or not, short or too long to be kept in its message. A stored text whose message
is never saved belongs to nobody.

Each change of what is left out is saved before it is used; a save that fails may
have taken place (`SaveFails`), and the Run ends. A message weighs 1, an uncleared
result 2, `Window` is the budget. `MaxLog` ends the conversation.

### FileTools

`write_file` (with or without `overwrite`) and `edit_file` are `mutate_file`, which runs in
a thread of the pool. `place` is where a call is in it:

    idle -> wait -> open -> (pin ->) look -> (read ->) stage -> sync -> put -> settle -> close -> ended

`pin` is the synchronisation of a directory that `write_file` made or found, `read` is of
`edit_file`, `sync`, `put` and `settle` are the three effects of `AtomicWriter.commit`. Any
step may fail instead: until the file is replaced the tool answers with an error
(`refused`), except that a directory whose entry could not be synchronised, and every error
after the replacement, ends the Run (`stopped`, the `StatePersistenceError`). `lockEntry` is
the Thread's entry in `_locks` and `lockOf` the lock object a call refers to; the entry
lasts while one of them does (`Remembered`).

The versions of the file are numbered, with what each of them is in `form`. The disk is
`synced`, the versions whose bytes are on it, `kept` and `stale`, the entries a loss of power
may leave before the directory is synchronised, and `parent`, whether the directory's own
entry is synchronised. `PowerLoss` takes any of them; a version whose bytes were not
synchronised may then be half there (`torn`). A command of the sandbox (`Command`) writes
into the file, replaces it, removes it or puts a link or a directory in its place, at any
moment, since it takes no lock. The file is in one directory that the first call may have
to make; deeper ones are made in the same way. `read_file`, `grep` and `glob` take no lock
and change nothing.

An operator whose name is that of a definition, an underscore and a few words
(`FinishTx_RunOnly`) is a seeded fault: the definition as a plausible bug would
have it. Put in the place of the original it must make TLC report the property
`PROJECT.json` names beside it; so no property here holds by the shape of the
model alone.

## 3. What TLC checks

| run | instance | distinct states | question |
|---|---|---|---|
| `life` | 1 Thread, 2 Runs, 2 requests of every kind; 1 storage failure, 1 container failure, 1 crash | 676,770 | rows, tasks, containers, events and files agree; writers are alone; nobody works on half-exchanged files; a deleted Thread is empty; the service refines `ThreadAdmission` |
| `live` | 1 Run; create, cancel, restore; 2 storage failures, under fairness | 40,556 | tasks, requests, Runs and streams end; a failed exchange nobody can name |
| `restore` | 2 edits, 2 points, 1 error, 2 deaths, under fairness | 533,327 | files and messages switch together whatever fails where; a start in which nothing fails settles what it finds; every request and start ends |
| `follow` | 1 message of 3 pieces, a buffer of 2, 1 lost connection, 1 crash, 1 failing read or status write, under fairness | 856,946 | no message skipped or taken back, no hole in the text; the browser is told an outcome, and the true one |
| `stream_release` | 1 message, no failure | - | the finding below |
| `sandbox` | 1 Thread, 2 Runs, 3 calls, 2 containers, 4 troubles, under fairness | 24,622 | no container is lost, no command has company, the reaper takes what is idle and nothing else |
| `memory` | 2 tasks with one operation each on one memory, 2 attempts, 2 troubles, under fairness | 416,430 | is every proposal applied once, or reported as what became of it |
| `agent` | 2 Runs, 2 replies (a file tool and two `task` calls, or a third and `write_todos`), 1 child at a time, 2 troubles, under fairness | 337,226 | is each call answered truly, and does no child lose or outlive anything |
| `journal` | 2 recorders of 3 events, batches of 2, a buffer of 3, 2 attempts, 1 fault, under fairness | 379,400 | are the rows in order, and missing ones counted |
| `points` | 2 files, 2 contents, 3 points made, 2 kept in 3 bytes, symmetry of files and contents | 828,362 | can every point be built, and is it one moment |
| `tools` | 3 calls of either tool, 2 lock objects, 1 command, 1 death or loss of power, symmetry of calls and locks | 2,071,804 | is no change lost, and is each answer true of the disk |
| `view` | 6 messages, a window of 5, 2 calls for a summary, 3 attempts | 1,612,849 | is what the model is given whole and complete |

Properties, by module:

* `Exclusion`: the promise of the admission entry, kept by every use the service makes of
  it (`EntrySpec`): a writer has no reader beside it, and no Run it does not expect.
* `OneTaskAnswers`, two promises: at most one task (`OneTaskPerThread`), for the row of a
  Run is terminal some time before its task has
  wound up, so "no inflight row" is not enough to start another one; the entry is.
* `RowsAgree`, three promises about the rows: at most one Run is inflight, and a Thread
  is `running` exactly while one of its Runs is (`ThreadRowAgrees`); the failure path
  re-reads the row, so that a commit that went through under a cancellation is announced
  as what it is (`ConfirmedEventsAreTrue`); the check for inflight Runs is made again
  after the await that removes the container (`DeletedIsEmpty`).
* `SuccessIsDurable`: success in the row (and in memory extraction) implies the
  final checkpoint and a returned lease.
* `FilesAreAlone`: during an exchange no task, container or reader is on the files
  (`SwapIsExclusive`), and a container no working task accounts for means a blocked
  Thread (`StrayContainerBlocks`).
* `UnsettledFilesUntouched`: nor is anybody from a failed exchange to the replay that
  settles it, even when the process could not find out that the operation is pending
  and so did not block the Thread.
* `NoRunIsAbandoned`, the other half of `OneTaskAnswers`: without storage failures an inflight row always has a task or
  a request that will close it, also when the task was cancelled before its first
  turn and none of its code ran.
* `EntrySpec`: every step of the service is a step of the admission entry.
* `EverythingEnds`: tasks, requests, Runs and streams come to an end.
* `RestoreIsAtomic`: the refinement of `AtomicRestore`. While an operation is pending
  the files the Thread *has* are those its journal leads to (`FilesNow`), not what
  lies in the directories; the commit is the one step in which they change.
* `OnlyTheShownIsDiscarded`: preview, backup and revision still agree when the
  exchange begins. `QuietStartSettlesStaged`: a process in which nothing has failed
  serves the Thread with no journal left to lead back, wherever the one before it died.
  `Serves`: the service serves again or refuses the Thread.
* `NothingSkipped`: a handler with no gap left to tell of has passed no complete
  message its browser does not know, whichever of eviction, Last-Event-ID, release,
  reconnection and restart brought it there. `ShownStays`: no snapshot is older than
  what is shown already.
* `TextIsContiguous`: the pieces of the message being written follow each other,
  although a gap, a reset and a replay may come between any two.
* `OutcomeIsTrue`: five places tell an outcome (the task, `cancel_run`, recovery, the
  handler's two ends); what is told as confirmed is in SQLite.
* `FollowerSettles`: a follower of an ended Run learns so, also when it subscribed to a
  stream nobody will ever publish to: the heartbeat reads the row. Its connections and
  reads may fail; but a request that was answered with an error it does not repeat.
* `ContainersAreAccountedFor`: while the process serves, a container that exists is on
  the card of a Thread (`NoContainerIsLost`), and the flag a process without Docker
  trusts is true (`ClearIsTrue`); both but for overtaken launches.
* `MountIsExclusive`: no command runs beside another in a Thread's container, although
  a time limit's or a cancellation's cleanup failed (`OneCommandAtATime`), and no
  container has the directory of a deleted Thread (`DeletedIsNotMounted`).
* `ActiveIsNotReaped`, `IdleIsReaped`: the reaper looks again under the lock, and an
  idle container goes in the end, however often Docker fails.
* `HistoryIsLinear`: every version of a memory was prepared against the one it
  replaced, and no operation was applied twice.
* `OutcomesAreTrue`: a saved item is in a body that survives a loss of power
  (`SuccessIsOnDisk`), an unsaved one in none (`UnsavedIsTrue`). `LedgerForgets`: a
  proposal is not thrown away before its fate is known, nor kept after (`ContentIsKept`);
  what a deleted Thread has in the ledger is cancelled,
  though its extraction registers late (`DeletedSourceIsCancelled`). `ItemsSettle`: no item is tried for ever.
* `HistoryIsAnswered`: what a model is sent has each call's results behind it, in
  order. `ResultsAreTrue`: the model is never told that a tool did not run that did,
  and the outcome of a task is the one in the checkpoint.
* `ChildrenEndWithTheRun`: a child is started once though an id is used again
  (`ChildrenStartOnce`), and a Run that ends leaves none open (`NothingIsLeftOpen`). The
  second is the stronger half: a start is counted when a task that waits is launched.
  `SubtasksAreKept`: no checkpoint takes back what an earlier one says of a task.
  `AgentEnds`: every Run ends.
* `JournalIsTrue`: rows in order, none twice, none of a deleted Thread
  (`JournalIsInOrder`); what is neither saved nor about to be is counted
  (`NothingVanishes`). `WritersEnd`: no writer stays behind.
* `PointsAreUsable`: every object a manifest names is in the store
  (`EveryPointIsWhole`), and eviction takes nothing a restore or the user still needs
  (`NeededPointsStay`). `SavedIsOneMoment`: no point puts together files of two moments.
  `FilesOutliveTheRow`: a row has its files.
* `ChangesBuildOnTheLast`: between the look (or read) a tool's change is made from and the
  change no other tool has changed the file, though lock objects come and go. Of commands
  it says nothing: one that writes in between is overwritten, as the code has it.
* `ToolsTellTheTruth`: a refused call has changed nothing (`RefusedIsUndone`); one that
  answered `done` is not taken back by a loss of power (`DoneIsDurable`), except that
  `edit_file` does not synchronise the entry of a directory which a command, or a
  `write_file` that was stopped, has left; what a tool wrote is found whole (`PlacedIsWhole`).
* `OneAnswerIsShown`: two attempts never show something under one message id, and where
  the service or a limit fails the call after a part was shown, `model.interrupted` says
  so. A local error or a cancellation has no such event: there the browser marks the part
  when it is told that the Run ended.
* `InteractionsStayWhole`: snips, summaries and clearing take whole groups, whatever
  interrupted Runs have left between them. `NothingIsLost`: what is summarized was in
  a summary's source (`SummaryCoversAll`), what is cleared is in a file
  (`ClearedIsReadable`), what the user asked last is sent (`CurrentTurnIsSent`). What
  becomes of that file later is outside the module: a command may remove it, and a
  rollback may lose it (`HistoryKept` below).

The modules hold some more formulas. The type invariants, `Bookkeeping`,
`BlockedStaysClosed`, `OutcomeIsFinal` and `CompleteIsSaved` are theorems (section 4).

**Bounds.** Threads share nothing but the process, so one Thread is enough for
every property of a Thread; two Runs because every hazard is between a Run that
winds up and the next one; two requests because each conflict is between two
(a third would only be refused by the same test). A Run is created once: a row is
never reused. `MaxDbFaults` (in `StreamBridge` a failing read of the handler as well),
`MaxBoxFaults`, `MaxCrashes` cap how often something
fails, not where: one failure at every possible place, two storage failures where
the second one hits the handling of the first (`RestoreFinish`). `StreamBridge`: one
Run and one browser, since nothing in a stream knows of another follower; three
pieces, because a hole or a repetition needs an inner one; a buffer of two, which lets
a follower keep up or be overtaken (an instance of two messages and a buffer of one
has 2,322,449 states and is clean). `ThreadSandbox`: one Thread, since each has a lock
of its own (two Threads have 3.8 million states and are clean); two containers, the
overtaken one and its successor; four troubles, for a cancellation, a second one,
a removal that fails, and its consequence. `MemorySave`: two operations on one memory
are every conflict there is; two attempts make a first and a last one (three
operations have 2.5 million states, 3.1 million if the third makes a new memory and may
be `Doubled`; their safety properties hold). `AgentLoop`: two
Runs, the interrupted one and the one that repairs; two children with one permit,
so that one waits for the other. `EventJournal`: a buffer of three and batches of two
leave one event behind a batch. `RestorePoints`: two files are the fewest that can be
of two moments; of three points two are kept, so that each kind of eviction occurs.
`FileTools`: three calls are the
fewest with which a lock object could be forgotten too early: one that leaves, one that
waits, one that comes; one command, since each is an arbitrary change at an arbitrary
moment; the calls that are left after a death meet what it left.
`ContextView`: six messages hold a call with its results, the next turn and what
follows it, or a call without results, two turns behind it and its repair; a window of five makes summaries necessary and sometimes impossible.

**Fairness.** Weak fairness of each task step and of each request step: the event
loop is FIFO and every awaited operation ends (SQLite and Docker calls have
timeouts, the agent runs under `asyncio.timeout`). Weak fairness of the startup
and of the end of the shutdown. `FileRestore`: weak fairness of the thread that
carries out a request, and of the start of a dead process. `StreamBridge`: weak
fairness of the publisher, of the handler, of the cleanup timer and of the
browser's reconnection (an EventSource reconnects by itself, except to an error
answer), of the exit of a
process that is closing and of the next start. `ThreadSandbox`: weak
fairness of a call's steps, except that a command ends (it may not: the time limit
ends it), of time, of the reaper's round; strong fairness where the reaper and `close`
wait for a Thread's lock, since `asyncio.Lock` serves waiters in their order.
`MemorySave`: an extraction, an attempt and the poll go on, time passes, a stopped
service starts again; strong fairness of an extraction's own scan, which waits for a
lock in the same way. `AgentLoop`: the parent and each child go on, since calls of the
model and children have time limits. `EventJournal`: a writer's thread goes on and a
transaction ends. No fairness for arriving requests, tool calls,
failures, crashes, commands, deletions or the decision to stop. `RunsEnd` and `StreamsEnd` make
exception of storage failures: a row whose terminal status cannot be saved stays
inflight until a cancel or a restart, as the code says.

**Deadlock** is checked in every run of the life cycle and the file restore: a service that has nothing left to do can always be stopped and started
again, so a state without a successor would be a real one. It is checked as well in `memory`,
`agent`, `journal`, `points` and `tools`, where the last state of a story is a step of its own
(`Done`, `AllAnswered`) or the process can start again; in `tools` that means that the lock
is given back on every way out. `StreamBridge` is the story of one Run, which ends when
the browser has its outcome, `ContextView` that of a conversation of `MaxLog`
messages, and in `ThreadSandbox` the containers and troubles run out: there it is not
checked.

### Finding

`EndedStreamIsReleased` (`runtime/stream_bridge.py:122`): a handler that read
`running`, and whose `subscribe` starts after the Run's stream was ended and
released, makes a new stream that nobody ends and no cleanup releases, although
the plan of 2026-09-03 promises that the stream of an ended Run is released. The
follower itself is served (`FollowerSettles`); the memory stays until shutdown.

### Formulas the code does not satisfy

Four more formulas state what one would wish. No run checks them; each can be added as a property to the configuration of its module with
these bounds, and TLC then shows how it fails.

* `CancelReportsItsCommit` (`services/run_coordinator.py:352`; `Ops = {"create",
  "cancel"}`, 1 Run, 1 request, `MaxDbFaults = 1`): a cancel that commits `interrupted`
  on a Run whose stream is already ended gets an exception from `publish` and answers
  with an error, although the row says interrupted.
* `BlockedNeedsRecovery` (`runtime/agent_runtime.py:145`; the same with
  `MaxDbFaults = 0`): a cancel that arrives while the container of a finished Run is
  being removed blocks the Thread; the retry confirms the removal, and nothing takes
  the block back before a restart.
* `SettledOnlyVerified` (`services/file_checkpoint_service.py:361` and `:389`;
  `MaxClock = 1`, 2 points, 2 faults, 1 crash): a rollback is recorded, its staging
  directory removed, and the write of `cleaned` fails; the handler overwrites
  `rolled_back` with `needs_recovery`. Every later start rolls back again in a
  directory that no longer exists, fails, and blocks the Thread, whose files are right.
* `HistoryKept` (`services/file_checkpoint_service.py:280`; `MaxClock = 1`, 2 points,
  no fault, 3 crashes): when the process dies in a rollback after the live workspace
  moved to `rollback-old`, and in its replay after that copy was removed, the only
  stored tool results left are in `rollback-new`, which the next replay removes before
  it looks for them.

## 4. What is proved

The proofs hold for every value of the constants, that is, for every number of Threads,
Runs, requests, files, messages and failures. The only assumptions are
`AdmissionAssumption`, `LifecycleAssumption`, `FileRestoreAssumption`,
`StreamAssumption`, `PointsAssumption`, `CallAssumption`, `ViewAssumption`,
`SandboxAssumption`, `MemoryAssumption`, `AgentAssumption`, `JournalAssumption` and
`FileToolsAssumption`: the
null values are not members of the sets they stand beside, the bounds are naturals, those
of messages, pieces, buffer entries, batches, attempts to write one, Runs of an agent, tool
rounds and permits positive, `PathOrder` lists at least one file,
`MaxAttempts` is from 1 to 10 (as the configuration requires), and the ids of the calls of
one reply differ, except of calls that write the todos, which are no calls of `task`.

* `AdmissionTypeCorrect`, `AdmissionExclusion`, `AdmissionBlockedStaysClosed`:
  the promise of the admission entry (in `RunLifecycleProofs`, whose service keeps to it).
  `EntryOK /\ Exclusion` is inductive.
* `LifecycleTypeCorrect`, `BooksAreRight`, `OneTask`, `ImplementsAdmission`,
  `OutcomesAreFinal`: the life cycle and its bookkeeping.
* `RowsAreRight`, `SuccessIsSaved`, `ChangesAreAlone`, `UnsettledAreAlone`,
  `NobodyIsAbandoned`: what the life cycle promises of rows, files and requests.

`OneTaskPerThread` is not inductive: nothing in it says why a new task cannot
start beside an old one. The argument is in `Bookkeeping`: a live task is
*registered* in the entry of the Thread that owns its Run (`LiveRegistered`), an
entry holds one Run, and `BeginWrite` refuses a creating request while it holds
any. `RowOwned` and `OnThread` say that rows and requests have a Thread, so that
the entry spoken of exists. The inductive invariant is

    IInv == TypeOK /\ Exclusion /\ Bookkeeping

and its preservation is proved by variable group: one lemma says what each action
does to the rows, the tasks, the requests, the streams and the entry; the last
three parts follow from those. `ImplementsAdmission` is the refinement: every
action is shown to be an action of `ThreadAdmission` or to leave its variables
alone. `OutcomesAreFinal` goes through the four
transactions: each leaves only non-terminal statuses.

The five other theorems need the whole story of a Run, `Lifecycle`: `IInv` and some
thirty parts, each the reason for another one. They fall into four groups.

* *A row has a keeper.* `TaskRow` ties the place of a task to the status of its row,
  `Silent` says that nothing runs while the process starts or is down, `Orphaned` that
  the start recovers rows in flight only; with `OneInflight` and `ThreadFollows` a
  Thread's row follows the one Run of it that is in flight (`RowsAreRight`).
* *A request has its Thread to itself.* `Holds` and `HeldFor` say which places of a
  request hold the entry and for which Run; `Closing`, `Closed` and `Ended` what a
  cancelling request knows of the Run it closes at each of its steps; `Building` that no
  upload goes to a deleted Thread.
* *A container has an owner.* `Leased`, `StrayBlocks`, `Unmounted` and `Emptied`: whose
  container may be there, and that where a request swaps files it is gone. With
  `Pending`, that a restore which is not settled leaves its Thread to nobody else, these
  give `ChangesAreAlone` and `UnsettledAreAlone`.
* *A success is on disk.* `FinalSaved`, `Durable`, `Learned`,
  `ConfirmedEventsAreTrue`: from the last save to the row, the event and the memory job
  (`SuccessIsSaved`).

`Settled`, `Heard`, `Attended` and `Recovered` are about the time in which storage does
not fail: a Run in flight has a task that will close its row, a request that waits to
close it, or a start that recovers it (`NobodyIsAbandoned`). As most
steps change no row at all, `RowsChange` says once what a step may do to the rows, and
`SteadyStep` and `StillWaitedStep` what it may do to a task and to one who waits.

`FileRestoreProofs` proves `RestoreImplementsAtomic`, `NothingUnseenIsDiscarded`,
`QuietStartsSettle` and `TypeCorrect`, for any number of edits, points, errors and deaths. The invariant
(`Inductive`) needs no word about what lies in `new`, `old`, `rollback-new` or
`rollback-old`: the code never trusts them, it compares the live files before it
records an outcome. So it says that the points the journal names exist
(`JournalOK`), that the place in the call tells the status of the row (`StatusOK`:
no rollback runs under a committed row, and a start that remembers `committed`
finds it so), and that where the row is about to become final the live files are
the compared ones (`ComparedOK`). `StepImplements` then maps each action:
`RestoreCommit` to `Restore`, the captures to `Record`, the edits to themselves,
the rest to a stutter; the ones with something to say are those that write the
row, since a status that changed between committed and not would change
`FilesNow`. `ShownOK` carries the preview's revision and files to the commit.
`QuietStartsSettle` says that recovery succeeds, and not only that it does no harm, so
here the directories matter, though only one: `RebuiltOK` says which areas a rollback has
put back and that `rollback-new` holds the others of the backup, so the comparison at its
end cannot fail; `SettledOK`, that a final status keeps telling what the live files are
until it is cleaned up, so the next start's comparison cannot fail either. What ends a
rollback of a process without failures is then only a staging directory that is gone
(`CalmOK`).

The same module proves `NoChangeIsLost`, `ToolsAreTruthful` and `ToolsHold` of `FileTools`, for
any number of calls, lock objects, commands and deaths. The first follows from three facts
about the lock: who refers to a lock object refers to the entry (`OneLock`), so only one call
is inside (`OneInside`), so what it has looked at is the last any tool has written
(`LookIsFresh`). `OneLock` is where the weak dictionary matters: an entry dropped while one
still waits would break it. The second is the order of the system calls: a staged file is
on the disk before it takes the name (`BytesFirst`), and `EntryHolds` says for a call that has
replaced the file which entries may still be found, for one that has synchronised the directory
that none of them is older than its own, and that a directory `write_file` works in is
synchronised. A step is of one of four kinds (`StepCases`: a call enters, it goes on inside the
lock, a command writes, or everything in memory is gone), so the parts do not go through all
the actions again.

`StreamBridgeProofs` proves `NothingIsSkipped`, `ShownMessagesStay`,
`OutcomeIsCommitted`, `CompleteMessagesAreSaved` and `TypeCorrect`. Neither of the first
two is inductive: where a handler goes on after a reconnection depends on the
Last-Event-ID of a browser that may have got it from another stream, long before.
The invariant

    IInv == TypeOK /\ LogsOK /\ TaskOK /\ OutcomeIsTrue /\ KnownIsSaved /\ Placed
                /\ SeenOK /\ FollowOK

says of every place the browser or its handler has reached, the cursors it has seen,
its Last-Event-ID and the handler's next entry, that the browser knows all complete
messages up to it (`Passed`) and that nothing new will be put before it
(`Settled`). `PassedStays` shows that such a place stays passed under any step in
which streams only grow at their end or die (`Grows`, shown of every action by
`StreamsGrow`) and the browser forgets nothing. What remains are the steps that move
the place: `SubscribeKeeps` (the cursor of `_resolve_cursor` was passed, or there is a
gap to tell of), `SnapshotKeeps` (what a stream calls complete is saved, so a snapshot
passes every place) and `LoopEntryKeeps`. `LogsOK` says that entries are true of
SQLite when published and stay so, since a status is written over only while the
Run is running.

`TextHasNoHole` (`TextIsContiguous`) is about the pieces of one message, which reach a
browser through several streams and reconnections. It rests on a second invariant,
`TextInv`. On the side of the service, `InOrder` says that each log holds the pieces of
a message one after the other and only such as were spoken, `Continuing` that a message
the model is still speaking ends the current stream, so that the next piece follows. On
the side of the browser the notion is that a place *divides* a stream (`Divides`): of a
message it shows, the pieces before the place are those it has, the ones after it those
to come, and the cursors it has seen are not beyond. `DividesStays` shows that a step of
the service keeps this; `SubscribeDivides` and `EntryShown` that a subscription finds
such a place and an entry moves it: an entry that was seen is dropped and was shown
before, one that was not is the next piece, or belongs to a message the browser has
whole.

`RestorePointsProofs` proves `PointsAreWhole`, `SavedMoment`, `NeededPoints`,
`FilesOutlive` and `TypeCorrect`, for any number of files, contents and points and any
limits. The invariant says where the process is when the directory is in which place
(`PlaceOK`), that a new point is younger than all others (`CountOK`), that the newest
backup is the latest made (`LatestOK`), that the points a call or an open operation
is about exist (`CallOK`, `PendingOK`), and what a capture knows (`WalkOK`): what it
has read is in the object store, and is what the files hold unless they were touched
since. `WalkOK` is the whole argument for `SavedIsOneMoment`: when the first walk ends,
every file that is untouched was read as it is now; the second walk finds every file
untouched that it passes, so what was read is what the files were at that moment,
though they may change again behind the second walk. `WhatChangesPoints` says of all
steps which of them do anything to the points, and `EvictedIsFree` that no eviction
takes a protected one.

`ContextViewProofs` proves `OneAnswer`, `WholeInteractions`, `NothingLost` and
`ViewTypeCorrect` for histories of any length. A message is left out for good, while
the history grows behind it; so the question is what growth does to the two notions
the code computes anew each time, the group of a message and the start of the current
turn. `GrownHistory` answers it: whatever came before the current turn still does, and
its group does not grow, because a message of the user lies between it and everything
new. A repair inserts instead: `GapOK` says that behind a call without results there
are only messages of the user, and that all that is left out comes before it, so
`Inserted` finds it where it was, in the groups it had. For that both notions have to
exist (`LogOK`: there is a last message of the user, and each message has one its group
starts with), which `OneMore`, `ItsResults` and `Inserted` show of each way a history
changes and so needs no induction over its length. `StateOK` says that what is left out
comes before the current turn in whole groups, `RunOK` that a summary is made of all it
will replace, and that no call is without results once the repair is saved. For `OneAnswer`, `ShownOK` ties what is visible
to the attempt under way: no attempt follows one that showed something.

`ThreadSandboxProofs` proves `ContainersAccounted`, `MountExclusive`, `ActiveNotReaped`
and `TypesHold`. The invariant names for each place of a bash call what the card of its
Thread says (`Held`, `Placed`), that no two cards name one container
(`Named`), how many commands can be in one (`Alone`), that the container on a card which
is not marked broken has none left, except while a call works on it (`Known`, `Waited`),
and what a process that stops has given back (`Stopped`, `Closed`). `Mounted` is what a
deletion relies on: while it holds the lock of a Thread, and afterwards, the card of that
Thread names no container. The lemmas that carry the proof are `WaysOut` and
`ThreadWaysOut`: however a step that may remove a container comes out, the container is
gone, or untouched with its card, or the card is marked because nobody knows.

`MemorySaveProofs` proves `HistoryStaysLinear`, `LedgerIsTrue`, `ProposalsAreKept`,
`DeletedThreadsLeaveNothing` and `TypesHold`. The parts of its invariant say what an
attempt knows where it stands: its item is `running` (`Claimed`), before the index is
written its version is the current one (`Applying`), one that finds its version in the
log was told to verify (`Verifying`), and what it is about to record is true
(`Recording`). `Unregistered` and `Located` tie a version on disk to the item that
wrote it, an item to its task. Five lemmas describe every step from one side each: what
it does to an item (`Turn`), to a file (`DiskChange`), to the scan (`ScanMove`), to the
extraction jobs (`JobMove`) and to the counters; the parts follow from these five and
not from the forty disjuncts of `Next`. The heart of it is `NeverThere`: an item
that was prepared against the version in place, and is not that version itself, has never
been in the body. If it had been, its predecessor there would be in the log twice, which
`HistoryIsLinear` and `Located` exclude. So an attempt may write without reading the whole
history, and one that finds another version in place may say `conflict`.

`AgentLoopProofs` proves `AgentHolds`, `ModelsAreSentAnswers`, `ModelsAreToldTheTruth`,
`ChildrenEnd`, `TasksAreNotLost` and `TypesHold`, for any calls, replies, limits and number
of Runs. None of the properties is inductive, and the invariant `Agent` says in two halves why
they hold:

* `Tasks` is about the children. `SubsFollow` says that the checkpoint holds the tasks as
  memory does, unless its last save is in doubt, and then at least their outcomes; `Tracked`
  says for each place of a `task` call what status its task has, and that a snapshot about to
  be saved is of its worker's making and the state of now, since the worker holds the lock;
  `Beside` and `Outs` tie the workers to the group the parent opened and the results in hand to
  the tasks; `Watched` says that while nothing has failed, a task that is open has a worker. So
  no snapshot is older than what it replaces (`TasksAreNotLost`), and a parent that ends finds
  its children ended (`NothingIsLeftOpen`).
* `History` is about the messages. `MsgsFollow`: the checkpoint's messages are a beginning of
  those in memory. `Formed`: the results behind a reply are those of its first calls, in order
  (`Ordered`), and only the last reply may lack some (`Mostly`). `InHand` and `Phased` say
  which reply is in hand and how far it is answered, `ActedSaved` and `ActedStarted` that a
  tool acts only for a reply that is saved, and only for a call that was started. `Sound` says
  of memory and checkpoint that what they report is true: with `Formed`, no result that says
  "not started" belongs to a tool that ran, and an outcome of a task is the checkpoint's.

`Repaired` is a recursive function, and what it makes of a history of any length would be an
induction. It is had without one: a set of naturals that is not empty has a least member
(`Least`), so a position at which a claim about the repaired tail fails would have a last one
(`RepairCopies`). `RepairedOpen` says what follows: everything up to the last results is as it
was, and behind them stand the missing results of the last reply, one for each call, in order
(`MissingAre`, of the set the code subtracts). `GapCloses` and `GapClaims` say that this keeps
a history `Formed` and true, both for `Repair` and for `FinishAborted`, which fills the same
gap with the outcomes it knows.

`JournalTellsTheTruth` (in `StreamBridgeProofs`, as the stream's saved events are these)
proves `JournalIsTrue` for any number of recorders and events, any sizes of buffer and batch
and any failures. Its invariant `Journal` says where an event of a recorder can be: the rows,
the batch and the buffer hold numbers that rise (`Queued`), what is saved comes before all
that waits (`SavedBefore`), and a batch is in the rows as a whole or behind all of them
(`Tried`), which is why trying it again after a commit that reported an error does no
harm. `append_batch` is a loop that looks at each event of the batch. `SavedAlready` and
`SavedBehind` say what it comes to in the two cases of `Tried`: nothing, or the batch
appended. Neither is an induction: the first event after which the rows are not what they
should be (`LeastNumber`) would have found them right before it. For `NothingVanishes`, the
numbers of a recorder that are nowhere form a set (`Lost`); each step adds at most as many
to it as it counts dropped (`Counted`).

Only model-checked:

* liveness (`EverythingEnds`, `Serves`, `FollowerSettles`, `EndedStreamIsReleased`,
  `ItemsSettle`, `IdleIsReaped`, `AgentEnds`, `WritersEnd`) and whatever speaks of
  `ENABLED`, which are out of the prover's reach.

## 5. Plan

The components with a protocol of their own are modelled, and every invariant, action
property and refinement a passing run checks is a theorem. What is left (section 6) has no
protocol. A change of the code begins in its module: the run says whether the property
still holds, the proof, which part of the invariant the change touches.

## 6. Not modelled

* Text and I/O without a protocol: the browser's rendering and notices, HTTP parsing and
  response schemas, prompt texts, the wire format of model requests, search and fetch
  tools, grep and glob, hashing, how a command's output is framed and cut, how memories
  are ranked for a prompt.
* The tools that only read (`tools/read_file.py`, grep, glob): they take no lock, and what a
  reader sees is one version, since a tool replaces a file and never writes into it.
* `storage/sqlite.py` and `infrastructure/database.py`: transactions are the steps the
  modules are made of.
* Handlers that only read rows, and those that call one modelled operation each.
* Two processes on one database do not occur (the service runs one worker).
  Multi-Thread fairness of the thread pool is not modelled: an awaited operation ends,
  how soon is not said.
