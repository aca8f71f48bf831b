----------------------------- MODULE RunLifecycle -----------------------------
(***************************************************************************)
(* The life of a Run: services/run_coordinator.py (requests), runtime/      *)
(* agent_runtime.py (the task that executes a Run), repositories/           *)
(* run_lifecycle_repository.py (its SQLite transactions), the lease of      *)
(* sandbox/manager.py and the startup and shutdown order of main.py.        *)
(*                                                                          *)
(* One action is what runs between two awaits.  An await of run_sync is the *)
(* action that carries out its operation: finish_inflight lets the          *)
(* operation end and only then raises a cancellation, so such an action     *)
(* first has its effect and then looks at `cancel`.                         *)
(*                                                                          *)
(* Bounds: Runs (every Run is created once), MaxDbFaults, MaxBoxFaults and  *)
(* MaxCrashes cap how often SQLite, Docker or the process fails.            *)
(***************************************************************************)
EXTENDS ThreadAdmission, Naturals

CONSTANTS NoThread,
          Ops,           \* the operations requests may ask for
          MaxDbFaults,   \* failing SQLite or file operations
          MaxBoxFaults,  \* failing container operations
          MaxCrashes     \* process deaths

AllOps == {"create", "cancel", "restore", "preview", "delete", "upload", "read"}

ASSUME LifecycleAssumption ==
    /\ NoThread \notin Threads
    /\ Ops \subseteq AllOps
    /\ {MaxDbFaults, MaxBoxFaults, MaxCrashes} \subseteq Nat

VARIABLES
    \* the process
    up,                                    \* its phase
    toRecover,                             \* orphans recover_orphaned_runs still has to visit
    \* SQLite and Docker, which outlive the process
    run, owner, thread,                    \* rows of runs and threads
    saved,                                 \* what the checkpoints of a Run hold
    fileOp,                                \* a restore operation not yet cleaned
    container,                             \* a container mounts the Thread's files
    \* the Runtime task of a Run
    pc, cancel, loaded, why,
    lease,                                 \* the Run the sandbox manager knows as active
    told, ended,                           \* its stream: terminal events, end marker
    learned,                               \* Runs handed to memory extraction
    \* requests
    op, at, on, target,
    faults                                 \* failures so far, by kind

dbVars == <<run, owner, thread, saved, fileOp>>
boxVars == <<container, lease>>
taskVars == <<pc, cancel, loaded, why>>
streamVars == <<told, ended>>
reqVars == <<op, at, on, target>>
procVars == <<up, toRecover>>
vars == <<entryVars, dbVars, boxVars, taskVars, streamVars, learned, reqVars, procVars, faults>>

Inflight == {"pending", "running"}
Terminal == {"success", "error", "timeout", "interrupted"}

\* Where a Runtime task is: before the agent, in it, after it, failing, ending.
WorkPc == {"stopOld", "capture", "input", "start", "begin", "agent", "saveFinal", "release"}
FailPc == {"failRelease", "failRead", "failSave", "failWrite"}
LivePc == {"created", "load", "finish", "announce", "cleanup", "finished"} \cup WorkPc \cup FailPc

Live(r) == pc[r] \in LivePc
RunsOf(t) == {r \in Runs : owner[r] = t}
InflightOn(t) == {r \in RunsOf(t) : run[r] \in Inflight}

NoFault == UNCHANGED faults
DbFault == faults.db < MaxDbFaults /\ faults' = [faults EXCEPT !.db = @ + 1]
BoxFault == faults.box < MaxBoxFaults /\ faults' = [faults EXCEPT !.box = @ + 1]

ProcessOK ==
    /\ up \in {"up", "stopping", "down", "files", "orphans"}
    /\ toRecover \subseteq Runs
RowsOK ==
    /\ run \in [Runs -> Inflight \cup Terminal \cup {"unused", "deleted"}]
    /\ owner \in [Runs -> Threads \cup {NoThread}]
    /\ thread \in [Threads -> {"idle", "running", "deleted"}]
    /\ saved \in [Runs -> {"nothing", "turn", "input", "final"}]
    /\ fileOp \in [Threads -> {"none", "pending"}]
BoxesOK ==
    /\ container \in [Threads -> BOOLEAN]
    /\ lease \in [Threads -> Runs \cup {NoRun}]
TasksOK ==
    /\ pc \in [Runs -> LivePc \cup {"none", "gone"}]
    /\ cancel \in [Runs -> BOOLEAN]
    /\ loaded \in [Runs -> BOOLEAN]
    /\ why \in [Runs -> Terminal \cup {"none"}]
StreamsOK ==
    /\ told \in [Runs -> SUBSET (Terminal \cup {"unknown"})]
    /\ ended \in [Runs -> BOOLEAN]
    /\ learned \subseteq Runs
RequestsOK ==
    /\ op \in [Requests -> Ops \cup {"none"}]
    /\ at \in [Requests -> {"idle", "building", "awaitTask", "interrupt", "announce", "close",
                            "closeFailed", "publishFailed", "stopBox", "prepare", "swapping",
                            "previewing", "uploading", "reading", "deleteBox", "deleteRow"}]
    /\ on \in [Requests -> Threads \cup {NoThread}]
    /\ target \in [Requests -> Runs \cup {NoRun}]
FaultsOK == faults \in [db : 0..MaxDbFaults, box : 0..MaxBoxFaults, crash : 0..MaxCrashes]

TypeOK ==
    /\ EntryOK
    /\ ProcessOK /\ RowsOK /\ BoxesOK /\ TasksOK /\ StreamsOK /\ RequestsOK /\ FaultsOK

Init ==
    /\ Empty
    /\ up = "up" /\ toRecover = {}
    /\ run = [r \in Runs |-> "unused"]
    /\ owner = [r \in Runs |-> NoThread]
    /\ thread = [t \in Threads |-> "idle"]
    /\ saved = [r \in Runs |-> "nothing"]
    /\ fileOp = [t \in Threads |-> "none"]
    /\ container = [t \in Threads |-> FALSE]
    /\ lease = [t \in Threads |-> NoRun]
    /\ pc = [r \in Runs |-> "none"]
    /\ cancel = [r \in Runs |-> FALSE]
    /\ loaded = [r \in Runs |-> FALSE]
    /\ why = [r \in Runs |-> "none"]
    /\ told = [r \in Runs |-> {}]
    /\ ended = [r \in Runs |-> FALSE]
    /\ learned = {}
    /\ op = [c \in Requests |-> "none"]
    /\ at = [c \in Requests |-> "idle"]
    /\ on = [c \in Requests |-> NoThread]
    /\ target = [c \in Requests |-> NoRun]
    /\ faults = [db |-> 0, box |-> 0, crash |-> 0]

-----------------------------------------------------------------------------
(* SQLite transactions on a Run and its Thread                             *)

\* One BEGIN IMMEDIATE transaction: the Run leaves one of the statuses `from`
\* and its Thread row follows; a Run in another status is left alone (the
\* method then returns False).
Move(r, from, to, threadStatus) ==
    /\ run' = [run EXCEPT ![r] = IF @ \in from THEN to ELSE @]
    /\ thread' = [thread EXCEPT ![owner[r]] = IF run[r] \in from THEN threadStatus ELSE @]

\* The operators named after a definition with an underscore are seeded faults:
\* a run with one in the place of the definition must notice it.
FinishTx_RunOnly(r, status) == Move(r, {"running"}, status, "running")
InterruptTx_RunningOnly(r) == Move(r, {"running"}, "interrupted", "idle")

StartTx(r) == Move(r, {"pending"}, "running", "running")
FinishTx(r, status) == Move(r, {"running"}, status, "idle")
InterruptTx(r) == Move(r, Inflight, "interrupted", "idle")
OrphanTx(r) == Move(r, Inflight, "error", "idle")

-----------------------------------------------------------------------------
(* The Runtime task                                                        *)

\* The except clause: any failure of the main path goes to _finish_failure.  A
\* cancellation that arrived while run_sync waited is raised once its operation
\* has succeeded; an operation that fails raises its own error instead.
Fail(r, status) ==
    /\ pc' = [pc EXCEPT ![r] = "failRelease"]
    /\ why' = [why EXCEPT ![r] = status]
    /\ cancel' = [cancel EXCEPT ![r] = FALSE]

Proceed_SwallowsCancel(r, next) ==
    IF cancel[r] THEN UNCHANGED <<pc, why, cancel>>
    ELSE pc' = [pc EXCEPT ![r] = next] /\ UNCHANGED <<why, cancel>>

Proceed(r, next) ==
    IF cancel[r] THEN Fail(r, "interrupted")
    ELSE pc' = [pc EXCEPT ![r] = next] /\ UNCHANGED <<why, cancel>>

\* The coroutine gets its first turn.  Cancelled before that, none of its code
\* runs, the finally included.
Begin(r) ==
    /\ pc[r] = "created"
    /\ pc' = [pc EXCEPT ![r] = IF cancel[r] THEN "finished" ELSE "load"]
    /\ UNCHANGED <<entryVars, dbVars, boxVars, cancel, loaded, why, streamVars, learned,
                   reqVars, procVars, faults>>

\* Ownership, step counter and current state are read.  A cancellation found
\* here leaves `state` unset; a failing ownership read ends the task at once.
Load(r) ==
    /\ pc[r] = "load"
    /\ \/ /\ NoFault
          /\ Proceed(r, "stopOld")
          /\ loaded' = [loaded EXCEPT ![r] = ~cancel[r]]
       \/ /\ DbFault
          /\ pc' = [pc EXCEPT ![r] = "finished"]
          /\ UNCHANGED <<loaded, why, cancel>>
       \/ /\ DbFault
          /\ Fail(r, "error")
          /\ UNCHANGED loaded
    /\ UNCHANGED <<entryVars, dbVars, boxVars, streamVars, learned, reqVars, procVars>>

\* stop_thread: no container means nothing is awaited.  Otherwise Docker removes
\* it, or the removal fails, or (disturbed) a cancellation is raised meanwhile
\* and the manager keeps the container on its books.
StopThread(t, disturbed) ==
    \/ /\ ~(container[t] /\ disturbed)
       /\ container' = [container EXCEPT ![t] = FALSE]
       /\ NoFault
    \/ /\ container[t] /\ ~disturbed
       /\ UNCHANGED container
       /\ BoxFault
    \/ /\ container[t] /\ disturbed
       /\ UNCHANGED <<container, faults>>

EndLease(t, r) == lease' = [lease EXCEPT ![t] = IF @ = r THEN NoRun ELSE @]

StopOrBlock_GivesRunUp(r, next) ==
    LET t == owner[r] IN
    /\ StopThread(t, cancel[r])
    /\ IF container'[t]
       THEN /\ blocked' = [blocked EXCEPT ![t] = TRUE]
            /\ runOf' = [runOf EXCEPT ![t] = NoRun]
            /\ Fail(r, "error")
            /\ UNCHANGED <<writer, sharing, readers>>
       ELSE /\ pc' = [pc EXCEPT ![r] = next]
            /\ UNCHANGED <<entryVars, cancel, why>>

\* A stop of the main path that is not confirmed blocks the Thread.
StopOrBlock(r, next) ==
    LET t == owner[r] IN
    /\ StopThread(t, cancel[r])
    /\ IF container'[t]
       THEN Block(t) /\ Fail(r, IF cancel[r] THEN "interrupted" ELSE "error")
       ELSE /\ pc' = [pc EXCEPT ![r] = next]
            /\ UNCHANGED <<entryVars, cancel, why>>

\* Containers of an earlier Run are stopped before the files are captured.
StopOld(r) ==
    /\ pc[r] = "stopOld"
    /\ StopOrBlock(r, "capture")
    /\ UNCHANGED <<dbVars, lease, loaded, streamVars, learned, reqVars, procVars>>

\* A step of the main path that stores something: it succeeds, or fails and
\* stores nothing.
Store(r, here, next, what) ==
    /\ pc[r] = here
    /\ \/ /\ NoFault
          /\ saved' = [saved EXCEPT ![r] = what]
          /\ Proceed(r, next)
       \/ /\ DbFault
          /\ Fail(r, "error")
          /\ UNCHANGED saved
    /\ UNCHANGED <<entryVars, run, owner, thread, fileOp, boxVars, loaded, streamVars, learned,
                   reqVars, procVars>>

Capture(r) == Store(r, "capture", "input", "turn")
SaveInput(r) == Store(r, "input", "start", "input")
SaveFinal_Forgotten(r) == Store(r, "saveFinal", "release", saved[r])
SaveFinal(r) == Store(r, "saveFinal", "release", "final")

Start(r) ==
    /\ pc[r] = "start"
    /\ \/ /\ NoFault
          /\ StartTx(r)
          /\ IF run[r] = "pending" THEN Proceed(r, "begin") ELSE Fail(r, "error")
       \/ /\ DbFault
          /\ Fail(r, "error")
          /\ UNCHANGED <<run, thread>>
    /\ UNCHANGED <<entryVars, owner, saved, fileOp, boxVars, loaded, streamVars, learned,
                   reqVars, procVars>>

\* begin_run resolves the workspace and registers the lease without an await;
\* run.start follows.
BeginRun(r) ==
    LET t == owner[r] IN
    /\ pc[r] = "begin"
    /\ \/ /\ lease[t] = NoRun /\ NoFault
          /\ lease' = [lease EXCEPT ![t] = r]
          /\ pc' = [pc EXCEPT ![r] = "agent"]
          /\ UNCHANGED <<why, cancel>>
       \/ /\ \/ lease[t] # NoRun /\ NoFault
             \/ DbFault
          /\ Fail(r, "error")
          /\ UNCHANGED lease
    /\ UNCHANGED <<entryVars, dbVars, container, loaded, streamVars, learned, reqVars, procVars>>

\* A tool of the agent runs a command: the first one creates the container; a
\* command that times out, fails or is cancelled has it removed.
AgentBash(r) ==
    LET t == owner[r] IN
    /\ pc[r] = "agent" /\ lease[t] = r
    /\ container[t] \/ ~cancel[r]
    /\ container' = [container EXCEPT ![t] = ~@]
    /\ UNCHANGED <<entryVars, dbVars, lease, taskVars, streamVars, learned, reqVars, procVars,
                   faults>>

\* reap_idle: a container nobody leases that could not be removed is tried again.
ReapIdle(t) ==
    /\ up \in {"up", "stopping"}
    /\ container[t] /\ lease[t] = NoRun
    /\ container' = [container EXCEPT ![t] = FALSE]
    /\ UNCHANGED <<entryVars, dbVars, lease, taskVars, streamVars, learned, reqVars, procVars,
                   faults>>

\* agent.run under asyncio.timeout: it returns, raises, times out or is
\* cancelled.
AgentEnds(r) ==
    /\ pc[r] = "agent"
    /\ \/ Proceed(r, "saveFinal")
       \/ ~cancel[r] /\ \E status \in {"error", "timeout"} : Fail(r, status)
    /\ UNCHANGED <<entryVars, dbVars, boxVars, loaded, streamVars, learned, reqVars, procVars,
                   faults>>

\* release_sandbox: end_run and stop_thread.
Release(r) ==
    /\ pc[r] = "release"
    /\ EndLease(owner[r], r)
    /\ StopOrBlock(r, "finish")
    /\ UNCHANGED <<dbVars, loaded, streamVars, learned, reqVars, procVars>>

Finish(r) ==
    /\ pc[r] = "finish"
    /\ \/ /\ NoFault
          /\ FinishTx(r, "success")
          /\ IF run[r] = "running" THEN Proceed(r, "announce") ELSE Fail(r, "error")
       \/ /\ DbFault
          /\ Fail(r, "error")
          /\ UNCHANGED <<run, thread>>
    /\ UNCHANGED <<entryVars, owner, saved, fileOp, boxVars, loaded, streamVars, learned,
                   reqVars, procVars>>

\* run.end is published, then publish() yields once: a cancellation is raised
\* there and _finish_failure announces the committed success again.
Announce(r) ==
    /\ pc[r] = "announce"
    /\ told' = [told EXCEPT ![r] = @ \cup {"success"}]
    /\ Proceed(r, "cleanup")
    /\ UNCHANGED <<entryVars, dbVars, boxVars, loaded, ended, learned, reqVars, procVars, faults>>

-----------------------------------------------------------------------------
(* _finish_failure and the finally of AgentRuntime.run.  finish_inflight    *)
(* shields both, so a second cancellation changes nothing here.             *)

ReleaseAgain(r, here, next) ==
    LET t == owner[r] IN
    /\ pc[r] = here
    /\ pc' = [pc EXCEPT ![r] = next]
    /\ EndLease(t, r)
    /\ StopThread(t, FALSE)
    /\ IF container'[t] THEN Block(t) ELSE UNCHANGED entryVars

FailRelease(r) ==
    /\ ReleaseAgain(r, "failRelease", "failRead")
    /\ UNCHANGED <<dbVars, cancel, loaded, why, streamVars, learned, reqVars, procVars>>

\* A status that is already final in SQLite is announced as it is.
FailRead(r) ==
    LET mustSave == why[r] \in {"interrupted", "timeout"} /\ loaded[r]
        onward == IF mustSave THEN "failSave" ELSE "failWrite" IN
    /\ pc[r] = "failRead"
    /\ \/ /\ NoFault
          /\ IF run[r] \in Terminal
             THEN /\ told' = [told EXCEPT ![r] = @ \cup {run[r]}]
                  /\ pc' = [pc EXCEPT ![r] = "cleanup"]
             ELSE /\ pc' = [pc EXCEPT ![r] = onward]
                  /\ UNCHANGED told
       \/ /\ DbFault
          /\ pc' = [pc EXCEPT ![r] = onward]
          /\ UNCHANGED told
    /\ UNCHANGED <<entryVars, dbVars, boxVars, cancel, loaded, why, ended, learned, reqVars,
                   procVars>>

\* An interruption whose state could not be saved is reported as an error.
FailSave(r) ==
    /\ pc[r] = "failSave"
    /\ pc' = [pc EXCEPT ![r] = "failWrite"]
    /\ \/ NoFault /\ UNCHANGED why
       \/ DbFault /\ why' = [why EXCEPT ![r] = "error"]
    /\ UNCHANGED <<entryVars, dbVars, boxVars, cancel, loaded, streamVars, learned, reqVars,
                   procVars>>

\* The terminal transaction; when it changes nothing the row is read again.
\* Whatever could not be confirmed is announced as unknown.
FailWrite(r) ==
    /\ pc[r] = "failWrite"
    /\ pc' = [pc EXCEPT ![r] = "cleanup"]
    /\ \/ /\ NoFault
          /\ CASE why[r] = "interrupted" -> InterruptTx(r)
               [] why[r] = "timeout" -> FinishTx(r, "timeout")
               [] OTHER -> OrphanTx(r)
          /\ told' = [told EXCEPT ![r] = @ \cup
                        {IF run'[r] \in Terminal THEN run'[r] ELSE "unknown"}]
       \/ /\ DbFault
          /\ told' = [told EXCEPT ![r] = @ \cup {"unknown"}]
          /\ UNCHANGED <<run, thread>>
    /\ UNCHANGED <<entryVars, owner, saved, fileOp, boxVars, cancel, loaded, why, ended, learned,
                   reqVars, procVars>>

\* The finally: release once more, close the recorder, end the stream.  A task
\* that was about to return is cancelled here all the same.
Cleanup(r) ==
    /\ ReleaseAgain(r, "cleanup", "finished")
    /\ ended' = [ended EXCEPT ![r] = TRUE]
    /\ why' = [why EXCEPT ![r] = IF @ = "none" /\ cancel[r] THEN "interrupted" ELSE @]
    /\ UNCHANGED <<dbVars, cancel, loaded, told, learned, reqVars, procVars>>

\* The done callback of the task: admission is given back, and a task that
\* returned its state is handed to memory extraction.
Consume(r) ==
    /\ pc[r] = "finished"
    /\ pc' = [pc EXCEPT ![r] = "gone"]
    /\ ReleaseRun(owner[r], r)
    /\ learned' = IF why[r] = "none" /\ "success" \in told[r] /\ up = "up"
                  THEN learned \cup {r} ELSE learned
    /\ UNCHANGED <<dbVars, boxVars, cancel, loaded, why, streamVars, reqVars, procVars, faults>>

TaskStep(r) ==
    \/ Begin(r) \/ Load(r) \/ StopOld(r) \/ Capture(r) \/ SaveInput(r) \/ Start(r)
    \/ BeginRun(r) \/ AgentEnds(r) \/ SaveFinal(r) \/ Release(r) \/ Finish(r) \/ Announce(r)
    \/ FailRelease(r) \/ FailRead(r) \/ FailSave(r) \/ FailWrite(r) \/ Cleanup(r) \/ Consume(r)

-----------------------------------------------------------------------------
(* Requests: one action per stretch between awaits.  A request that ends in *)
(* any way returns to idle; its `with` block has then given up the entry.   *)

Free(c) ==
    /\ op' = [op EXCEPT ![c] = "none"]
    /\ at' = [at EXCEPT ![c] = "idle"]
    /\ on' = [on EXCEPT ![c] = NoThread]
    /\ target' = [target EXCEPT ![c] = NoRun]

Ask(c, what, t, r, step) ==
    /\ up = "up" /\ at[c] = "idle" /\ what \in Ops
    /\ op' = [op EXCEPT ![c] = what]
    /\ at' = [at EXCEPT ![c] = step]
    /\ on' = [on EXCEPT ![c] = t]
    /\ target' = [target EXCEPT ![c] = r]

Ready_IgnoresFiles(t) == thread[t] # "deleted"

\* _owned_file_thread and _require_file_ready.
Ready(t) == thread[t] # "deleted" /\ fileOp[t] = "none"

\* Bound: no more requests create Runs than Runs has identifiers left.
UnusedLeft ==
    Cardinality({r \in Runs : run[r] = "unused"}) > Cardinality({c \in Requests : at[c] = "building"})

\* POST runs: the entry is held while the agent is put together.
CreateBegin(c, t) ==
    /\ Ask(c, "create", t, NoRun, "building")
    /\ UnusedLeft
    /\ Ready(t)
    /\ BeginWrite(t, c, FALSE)
    /\ UNCHANGED <<dbVars, boxVars, taskVars, streamVars, learned, procVars, faults>>

\* create_run, create_task and register_run follow each other without an await.
\* The unique index refuses a second inflight Run of the Thread.
CreateCommit(c) ==
    LET t == on[c] IN
    /\ at[c] = "building"
    /\ \/ /\ InflightOn(t) = {} /\ NoFault
          /\ \E r \in Runs :
                /\ run[r] = "unused"
                /\ run' = [run EXCEPT ![r] = "pending"]
                /\ owner' = [owner EXCEPT ![r] = t]
                /\ pc' = [pc EXCEPT ![r] = "created"]
                /\ RegisterRun(t, c, r)
       \/ /\ \/ InflightOn(t) # {} /\ NoFault
             \/ DbFault
          /\ EndWrite(t, c)
          /\ UNCHANGED <<run, owner, pc>>
    /\ Free(c)
    /\ UNCHANGED <<thread, saved, fileOp, boxVars, cancel, loaded, why, streamVars, learned, procVars>>

\* task.cancel() on the task of r, if it still has one that can be cancelled.
CancelTask(r) ==
    cancel' = [cancel EXCEPT ![r] = @ \/ (Live(r) /\ pc[r] # "finished")]

\* POST cancel: an inflight Run is cancelled and its task awaited; without a
\* task the request goes on to close the Run itself.
CancelBegin(c, r) ==
    /\ run[r] \in Inflight
    /\ Ask(c, "cancel", owner[r], r, IF Live(r) THEN "awaitTask" ELSE "interrupt")
    /\ CancelTask(r)
    /\ UNCHANGED <<entryVars, dbVars, boxVars, pc, loaded, why, streamVars, learned, procVars, faults>>

\* POST restore: takes the entry beside the Run, then cancels the Run.
RestoreBegin(c, t) ==
    /\ Ready(t)
    /\ BeginWrite(t, c, TRUE)
    /\ IF InflightOn(t) = {}
       THEN Ask(c, "restore", t, NoRun, "stopBox") /\ UNCHANGED cancel
       ELSE \E r \in InflightOn(t) :
              /\ Ask(c, "restore", t, r, IF Live(r) THEN "awaitTask" ELSE "interrupt")
              /\ CancelTask(r)
    /\ UNCHANGED <<dbVars, boxVars, pc, loaded, why, streamVars, learned, procVars, faults>>

\* cancel_run returns or raises.  Inside a restore it is followed by the stop
\* of the container, or ends the restore.
CancelReturns(c, succeeds) ==
    IF op[c] # "restore" THEN Free(c) /\ UNCHANGED entryVars
    ELSE IF succeeds
    THEN /\ at' = [at EXCEPT ![c] = "stopBox"]
         /\ UNCHANGED <<op, on, target, entryVars>>
    ELSE Free(c) /\ EndWrite(on[c], c)

\* The awaited task is over and its done callback has run.
CancelWoken(c) ==
    LET r == target[c] IN
    /\ at[c] = "awaitTask"
    /\ ~Live(r)
    /\ IF run[r] \in Inflight
       THEN /\ at' = [at EXCEPT ![c] = "interrupt"]
            /\ UNCHANGED <<op, on, target, entryVars>>
       ELSE CancelReturns(c, run[r] = "interrupted")
    /\ UNCHANGED <<dbVars, boxVars, taskVars, streamVars, learned, procVars, faults>>

CancelInterrupt(c) ==
    LET r == target[c] IN
    /\ at[c] = "interrupt"
    /\ \/ /\ NoFault
          /\ InterruptTx(r)
          /\ at' = [at EXCEPT ![c] = IF run[r] \in Inflight THEN "announce" ELSE "close"]
       \/ /\ DbFault
          /\ at' = [at EXCEPT ![c] = "closeFailed"]
          /\ UNCHANGED <<run, thread>>
    /\ UNCHANGED <<entryVars, owner, saved, fileOp, boxVars, taskVars, streamVars, learned,
                   op, on, target, procVars>>

\* run.interrupted goes to the stream; an ended stream refuses it.
CancelAnnounce(c) ==
    LET r == target[c] IN
    /\ at[c] = "announce"
    /\ IF ended[r]
       THEN /\ at' = [at EXCEPT ![c] = "publishFailed"]
            /\ UNCHANGED told
       ELSE /\ at' = [at EXCEPT ![c] = "close"]
            /\ told' = [told EXCEPT ![r] = @ \cup {"interrupted"}]
    /\ UNCHANGED <<entryVars, dbVars, boxVars, taskVars, ended, learned, op, on, target, procVars,
                   faults>>

\* The finally ends the stream; the row is read once more for the answer.
CancelClose(c) ==
    LET r == target[c] IN
    /\ at[c] \in {"close", "closeFailed", "publishFailed"}
    /\ ended' = [ended EXCEPT ![r] = TRUE]
    /\ CancelReturns(c, at[c] = "close" /\ run[r] = "interrupted")
    /\ UNCHANGED <<dbVars, boxVars, taskVars, told, learned, procVars, faults>>

\* A restore stops the container of the Thread; a failure blocks the Thread.
RestoreStop(c) ==
    LET t == on[c] IN
    /\ at[c] = "stopBox"
    /\ StopThread(t, FALSE)
    /\ lease' = [lease EXCEPT ![t] = IF container'[t] THEN @ ELSE NoRun]
    /\ IF container'[t]
       THEN Free(c) /\ BlockAndEndWrite(t, c)
       ELSE at' = [at EXCEPT ![c] = "prepare"] /\ UNCHANGED <<op, on, target, entryVars>>
    /\ UNCHANGED <<dbVars, taskVars, streamVars, learned, procVars>>

\* FileCheckpointService.restore, up to the durable `prepared` record: a stale
\* preview, a failed backup or build leaves nothing behind.
RestorePrepare(c) ==
    LET t == on[c] IN
    /\ at[c] = "prepare"
    /\ NoFault
    /\ \/ /\ fileOp' = [fileOp EXCEPT ![t] = "pending"]
          /\ at' = [at EXCEPT ![c] = "swapping"]
          /\ UNCHANGED <<op, on, target, entryVars>>
       \/ Free(c) /\ EndWrite(t, c) /\ UNCHANGED fileOp
    /\ UNCHANGED <<run, owner, thread, saved, boxVars, taskVars, streamVars, learned, procVars>>

\* The directories are exchanged (module FileRestore).  The operation ends
\* cleaned, or stays pending; the finally asks SQLite and blocks the Thread
\* when it is pending, unless that question fails too.
RestoreFinish(c) ==
    LET t == on[c] IN
    /\ at[c] = "swapping"
    /\ \/ /\ NoFault
          /\ fileOp' = [fileOp EXCEPT ![t] = "none"]
          /\ EndWrite(t, c)
       \/ /\ DbFault
          /\ UNCHANGED fileOp
          /\ BlockAndEndWrite(t, c)
       \/ /\ faults.db + 2 <= MaxDbFaults
          /\ faults' = [faults EXCEPT !.db = @ + 2]
          /\ UNCHANGED fileOp
          /\ EndWrite(t, c)
    /\ Free(c)
    /\ UNCHANGED <<run, owner, thread, saved, boxVars, taskVars, streamVars, learned, procVars>>

\* POST preview, POST files and GET files.
PreviewBegin(c, t) ==
    /\ Ask(c, "preview", t, NoRun, "previewing")
    /\ Ready(t)
    /\ BeginWrite(t, c, FALSE)
    /\ UNCHANGED <<dbVars, boxVars, taskVars, streamVars, learned, procVars, faults>>

PreviewEnd(c) ==
    LET t == on[c] IN
    /\ at[c] = "previewing"
    /\ StopThread(t, FALSE)
    /\ Free(c) /\ EndWrite(t, c)
    /\ UNCHANGED <<dbVars, lease, taskVars, streamVars, learned, procVars>>

UploadBegin(c, t) ==
    /\ Ask(c, "upload", t, NoRun, "uploading")
    /\ Ready(t) /\ InflightOn(t) = {}
    /\ BeginWrite(t, c, FALSE)
    /\ UNCHANGED <<dbVars, boxVars, taskVars, streamVars, learned, procVars, faults>>

UploadEnd(c) ==
    /\ at[c] = "uploading"
    /\ EndWrite(on[c], c)
    /\ Free(c)
    /\ UNCHANGED <<dbVars, boxVars, taskVars, streamVars, learned, procVars, faults>>

ReadBegin(c, t) ==
    /\ Ask(c, "read", t, NoRun, "reading")
    /\ Ready(t)
    /\ BeginRead(t, c)
    /\ UNCHANGED <<dbVars, boxVars, taskVars, streamVars, learned, procVars, faults>>

ReadEnd(c) ==
    /\ at[c] = "reading"
    /\ EndRead(on[c], c)
    /\ Free(c)
    /\ UNCHANGED <<dbVars, boxVars, taskVars, streamVars, learned, procVars, faults>>

\* DELETE thread: the manager first removes an idle container under its lock.
DeleteBegin(c, t) ==
    /\ Ask(c, "delete", t, NoRun, "deleteBox")
    /\ Ready(t)
    /\ BeginWrite(t, c, FALSE)
    /\ UNCHANGED <<dbVars, boxVars, taskVars, streamVars, learned, procVars, faults>>

DeleteBox(c) ==
    LET t == on[c] IN
    /\ at[c] = "deleteBox"
    /\ IF lease[t] # NoRun THEN UNCHANGED <<container, faults>> ELSE StopThread(t, FALSE)
    /\ IF lease[t] # NoRun \/ container'[t]
       THEN Free(c) /\ EndWrite(t, c)
       ELSE at' = [at EXCEPT ![c] = "deleteRow"] /\ UNCHANGED <<op, on, target, entryVars>>
    /\ UNCHANGED <<dbVars, lease, taskVars, streamVars, learned, procVars>>

\* The container is gone: inflight Runs are looked for again, then the row is
\* deleted and its Runs with it (module ThreadDeletion has the directories).
DeleteRow(c) ==
    LET t == on[c] IN
    /\ at[c] = "deleteRow"
    /\ \/ /\ InflightOn(t) = {} /\ NoFault
          /\ thread' = [thread EXCEPT ![t] = "deleted"]
          /\ run' = [r \in Runs |-> IF owner[r] = t THEN "deleted" ELSE run[r]]
       \/ /\ \/ InflightOn(t) # {} /\ NoFault
             \/ DbFault
          /\ UNCHANGED <<thread, run>>
    /\ Free(c) /\ EndWrite(t, c)
    /\ UNCHANGED <<owner, saved, fileOp, boxVars, taskVars, streamVars, learned, procVars>>

-----------------------------------------------------------------------------
(* The process: shutdown, death, and the startup order of main.lifespan     *)

\* Everything the process keeps in memory is gone.
ForgetAll ==
    /\ Forget
    /\ lease' = [t \in Threads |-> NoRun]
    /\ pc' = [r \in Runs |-> "none"]
    /\ cancel' = [r \in Runs |-> FALSE]
    /\ loaded' = [r \in Runs |-> FALSE]
    /\ why' = [r \in Runs |-> "none"]
    /\ told' = [r \in Runs |-> {}]
    /\ ended' = [r \in Runs |-> FALSE]
    /\ learned' = {}
    /\ op' = [c \in Requests |-> "none"]
    /\ at' = [c \in Requests |-> "idle"]
    /\ on' = [c \in Requests |-> NoThread]
    /\ target' = [c \in Requests |-> NoRun]
    /\ toRecover' = {}
    /\ up' = "down"

Crash ==
    /\ up # "down"
    /\ faults.crash < MaxCrashes /\ faults' = [faults EXCEPT !.crash = @ + 1]
    /\ ForgetAll
    /\ UNCHANGED <<dbVars, container>>

\* The server has answered its requests, then the lifespan ends: every task is
\* cancelled, and once all are gone the manager removes the containers.
Shutdown ==
    /\ up = "up"
    /\ \A c \in Requests : at[c] = "idle"
    /\ up' = "stopping"
    /\ cancel' = [r \in Runs |-> cancel[r] \/ (Live(r) /\ pc[r] # "finished")]
    /\ UNCHANGED <<entryVars, dbVars, boxVars, pc, loaded, why, streamVars, learned, reqVars,
                   toRecover, faults>>

ShutdownEnds ==
    /\ up = "stopping"
    /\ \A r \in Runs : ~Live(r)
    /\ ForgetAll
    /\ \/ /\ NoFault
          /\ container' = [t \in Threads |-> FALSE]
       \/ /\ \E t \in Threads : container[t]
          /\ BoxFault
          /\ UNCHANGED container
    /\ UNCHANGED dbVars

\* coordinator.start: the containers of an earlier process are removed before
\* anything else; if that fails the process does not start.
RemoveOldContainers ==
    /\ up = "down"
    /\ container' = [t \in Threads |-> FALSE]
    /\ up' = "files"
    /\ UNCHANGED <<entryVars, dbVars, lease, taskVars, streamVars, learned, reqVars, toRecover, faults>>

\* recover_file_operations: a pending operation is settled, or its Thread is
\* blocked for the life of this process.
RecoverFiles ==
    /\ up = "files"
    /\ \E S \in SUBSET {t \in Threads : fileOp[t] = "pending"} :
          /\ \/ S = {} /\ NoFault
             \/ S # {} /\ DbFault
          /\ BlockAll(S)
          /\ fileOp' = [t \in Threads |-> IF t \in S THEN fileOp[t] ELSE "none"]
    /\ up' = "orphans"
    /\ toRecover' = {r \in Runs : run[r] \in Inflight}
    /\ UNCHANGED <<run, owner, thread, saved, boxVars, taskVars, streamVars, learned, reqVars>>

\* recover_orphaned_runs: one Run; a failure leaves it for the next start.
RecoverOrphan(r) ==
    /\ up = "orphans" /\ r \in toRecover
    /\ toRecover' = toRecover \ {r}
    /\ \/ /\ NoFault
          /\ OrphanTx(r)
          /\ told' = [told EXCEPT ![r] = @ \cup {"error"}]
          /\ ended' = [ended EXCEPT ![r] = TRUE]
       \/ /\ DbFault
          /\ UNCHANGED <<run, thread, told, ended>>
    /\ UNCHANGED <<entryVars, owner, saved, fileOp, boxVars, taskVars, learned, reqVars, up>>

\* The lifespan yields: requests are served from here on.
Serve ==
    /\ up = "orphans" /\ toRecover = {}
    /\ up' = "up"
    /\ UNCHANGED <<entryVars, dbVars, boxVars, taskVars, streamVars, learned, reqVars, toRecover,
                   faults>>

-----------------------------------------------------------------------------
RequestStep(c) ==
    \/ CreateCommit(c) \/ CancelWoken(c) \/ CancelInterrupt(c) \/ CancelAnnounce(c)
    \/ CancelClose(c) \/ RestoreStop(c) \/ RestorePrepare(c) \/ RestoreFinish(c)
    \/ PreviewEnd(c) \/ UploadEnd(c) \/ ReadEnd(c) \/ DeleteBox(c) \/ DeleteRow(c)

RequestArrives(c) ==
    \/ \E t \in Threads :
          \/ CreateBegin(c, t) \/ RestoreBegin(c, t) \/ PreviewBegin(c, t)
          \/ UploadBegin(c, t) \/ ReadBegin(c, t) \/ DeleteBegin(c, t)
    \/ \E r \in Runs : CancelBegin(c, r)

Startup == RemoveOldContainers \/ RecoverFiles \/ (\E r \in Runs : RecoverOrphan(r)) \/ Serve

Next ==
    \/ \E r \in Runs : TaskStep(r) \/ AgentBash(r)
    \/ \E t \in Threads : ReapIdle(t)
    \/ \E c \in Requests : RequestStep(c) \/ RequestArrives(c)
    \/ Shutdown \/ ShutdownEnds \/ Crash \/ Startup

Spec == Init /\ [][Next]_vars

\* The event loop runs every ready task and wakes every handler whose await is
\* over; asyncio.timeout bounds the agent.  Nobody has to send a request, call
\* a tool, stop the service or let it fail, but a stopped one is started again.
Fairness ==
    /\ \A r \in Runs : WF_vars(TaskStep(r))
    /\ \A c \in Requests : WF_vars(RequestStep(c))
    /\ WF_vars(Startup)
    /\ WF_vars(ShutdownEnds)

FairSpec == Spec /\ Fairness

-----------------------------------------------------------------------------
(* Properties                                                              *)

\* The books of the admission agree with the tasks and the rows: a live task is
\* registered in the entry of the Thread that owns its Run, also after its row
\* became terminal; rows and requests never lose their Thread.
OnThread == \A c \in Requests : at[c] # "idle" => on[c] \in Threads
RowOwned == \A r \in Runs : run[r] # "unused" => owner[r] \in Threads
LiveRegistered == \A r \in Runs : Live(r) => owner[r] \in Threads /\ runOf[owner[r]] = r
Bookkeeping == OnThread /\ RowOwned /\ LiveRegistered

\* At most one Runtime task exists for a Thread, whichever requests, failures
\* and restarts came before: the admission entry outlives the row of the Run,
\* which is already terminal while its task still winds up.
OneTaskPerThread ==
    \A r1, r2 \in Runs : Live(r1) /\ Live(r2) /\ owner[r1] = owner[r2] => r1 = r2

\* The rows tell the truth.  A Thread has at most one inflight Run, and its status
\* is running exactly while one of its Runs is; a terminal event sent as confirmed
\* agrees with the row, whatever order commits, cancellations and failing reads
\* took; and a deleted Thread has no task, lease, container or inflight Run left.
ThreadRowAgrees ==
    \A t \in Threads :
        /\ Cardinality(InflightOn(t)) <= 1
        /\ thread[t] = "running" <=> \E r \in RunsOf(t) : run[r] = "running"
ConfirmedEventsAreTrue ==
    \A r \in Runs : told[r] \cap Terminal \subseteq {run[r]} \/ run[r] = "deleted"
DeletedIsEmpty ==
    \A t \in Threads : thread[t] = "deleted" =>
        /\ \A r \in RunsOf(t) : ~Live(r) /\ run[r] = "deleted"
        /\ lease[t] = NoRun /\ ~container[t]
RowsAgree == ThreadRowAgrees /\ ConfirmedEventsAreTrue /\ DeletedIsEmpty

\* The steps of a task that read or change the Thread's files.
Touching(r) == pc[r] \in WorkPc

\* Who changes the files of a Thread is alone with them.  While a restore exchanges
\* its directories no task works on them, no container mounts them, nothing reads
\* them and no other request holds the Thread.  And while the service runs, a
\* container that no working task accounts for means a blocked Thread: a container
\* nobody stopped never meets new work.
SwapIsExclusive ==
    \A c \in Requests : at[c] = "swapping" =>
        LET t == on[c] IN
        /\ \A r \in RunsOf(t) : ~Touching(r)
        /\ ~container[t] /\ lease[t] = NoRun
        /\ readers[t] = {} /\ writer[t] = c
StrayContainerBlocks ==
    \A t \in Threads : up = "up" /\ container[t] =>
        blocked[t] \/ \E r \in RunsOf(t) : pc[r] \in {"agent", "saveFinal", "release", "failRelease"}
FilesAreAlone == SwapIsExclusive /\ StrayContainerBlocks

\* Between a restore that did not settle and the replay that settles it, at
\* whatever start, nobody works on the half-exchanged files: also when the
\* process died, or could not even find out that the operation is pending.
UnsettledFilesUntouched ==
    \A t \in Threads : fileOp[t] = "pending" =>
        /\ \A r \in RunsOf(t) : ~Touching(r)
        /\ readers[t] = {}
        /\ writer[t] # NoRequest => op[writer[t]] = "restore"

\* Success is claimed only with the final state saved and the sandbox given
\* back, in the row and to memory extraction alike.
SuccessIsDurable ==
    /\ \A r \in Runs : run[r] = "success" => saved[r] = "final" /\ lease[owner[r]] # r
    /\ \A r \in learned : run[r] \in {"success", "deleted"} /\ saved[r] = "final"

\* Without storage failures every inflight Run has a task that will end it or
\* a request that is closing it.
NoRunIsAbandoned ==
    \A r \in Runs :
        up = "up" /\ run[r] \in Inflight /\ faults.db = 0 =>
            Live(r) \/ \E c \in Requests : target[c] = r /\ at[c] # "idle"

\* One task answers for what a Thread is doing: never two, and while SQLite works not none
\* either, unless a request is closing the Run in its place.
OneTaskAnswers == OneTaskPerThread /\ NoRunIsAbandoned

\* A Run leaves a terminal status only by being deleted with its Thread: a
\* late cancellation, a retry or a restart never rewrites an outcome.
OutcomesKept == \A r \in Runs : run[r] \in Terminal => run'[r] \in {run[r], "deleted"}
OutcomeIsFinal == [][OutcomesKept]_vars

\* Everything that is begun comes to an end: every task ends, every request is
\* answered, every Run reaches an outcome unless storage failures leave it to a
\* cancel or a restart, and somebody following the stream of a Run is released once
\* its task is over.
TasksEnd == \A r \in Runs : Live(r) ~> ~Live(r)
RequestsAnswered == \A c \in Requests : at[c] # "idle" ~> at[c] = "idle"
RunsEnd == \A r \in Runs : (run[r] \in Inflight) ~> (run[r] \notin Inflight \/ faults.db > 0)
StreamsEnd ==
    \A r \in Runs : (pc[r] = "load") ~> (ended[r] \/ up = "down" \/ faults.db > 0)
EverythingEnds == TasksEnd /\ RequestsAnswered /\ RunsEnd /\ StreamsEnd

\* cancel_run's docstring: it cancels the Run and returns its final row, doing
\* itself what a task that never ran could not do.  So a cancel that committed
\* the interruption must not fail to report it.
CancelReportsItsCommit == \A c \in Requests : at[c] # "publishFailed"

\* What write() tells a refused user: the file state of the Thread needs
\* recovery.  So once no task is winding up, a blocked Thread should have a
\* container that was not confirmed stopped or an operation that is pending.
BlockedNeedsRecovery ==
    \A t \in Threads : blocked[t] /\ (\A r \in RunsOf(t) : ~Live(r)) =>
        container[t] \/ fileOp[t] = "pending"
=============================================================================
