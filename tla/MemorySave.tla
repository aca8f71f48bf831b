------------------------------ MODULE MemorySave ------------------------------
(***************************************************************************)
(* How a user's long-term memories are saved: memory/service.py (one        *)
(* extraction after the other), memory/recovery.py (attempts and retries),  *)
(* repositories/memory_task_repository.py (the ledger in SQLite), the       *)
(* prepare and apply_operation of memory/store.py (one file per memory and  *)
(* an index), and the commands of memory/admin.py.                          *)
(*                                                                          *)
(* One user.  A body file is the history of the versions put in its place,  *)
(* of which a loss of power may take back those not yet synced; a version   *)
(* is the operation that wrote it.  Time is what it makes of the ledger: a  *)
(* retry that is due, a window that is over.  What a model proposes, and    *)
(* which of it is a duplicate, is any subset of the operations of a task.   *)
(* The lock per user of the store is held from Write to Index.              *)
(*                                                                          *)
(* Bounds: MaxTrouble caps how often files or SQLite fail, the process      *)
(* ends, or somebody cancels, retries, resolves or deletes, all told;       *)
(* MaxAttempts is max_attempts.                                             *)
(***************************************************************************)
EXTENDS Naturals, Sequences

CONSTANTS Threads, Tasks, Ops, Memories,
          ThreadOf, TaskOf, Target,   \* a task's Thread, an operation's task and memory
          Original,                   \* the version of a memory nobody here has written
          Adds,                       \* the operations that make a new memory
          NoTask, NoOp, MaxAttempts,
          MaxTrouble                  \* errors, ends of the process and commands

ASSUME MemoryAssumption ==
    /\ ThreadOf \in [Tasks -> Threads]
    /\ TaskOf \in [Ops -> Tasks]
    /\ Target \in [Ops -> Memories]
    /\ Adds \subseteq Ops
    /\ Original \notin Ops /\ NoOp \notin Ops \cup {Original} /\ NoTask \notin Tasks
    /\ MaxAttempts \in Nat \ {0} /\ MaxTrouble \in Nat

VARIABLES
    threads,   \* SQLite: the Threads that exist
    task,      \* the rows of memory_save_tasks
    item,      \* the rows of memory_save_items
    log,       \* files: the versions each body has had
    synced,    \* how many of them no loss of power takes back
    index,     \* whether MEMORY.md lists the bodies as they are
    up,        \* the process
    queue,     \* extractions of the user not yet over, oldest first
    job,       \* where the extraction of each task is
    seen,      \* the versions an extraction read before it asked the model
    plan,      \* the operations it prepared
    scan,      \* run_ready, under its lock, and the attempt it is making
    used       \* how often something failed, died or was commanded

ledgerVars == <<threads, task, item>>
fileVars == <<log, synced, index>>
jobVars == <<queue, job, seen, plan>>
vars == <<ledgerVars, fileVars, up, jobVars, scan, used>>

Versions == Ops \cup {Original, NoOp}
OpsOf(t) == {o \in Ops : TaskOf[o] = t}

Resolved == {"success", "cancelled"}
Waiting == {"pending", "waiting", "verifying"}
Statuses == Resolved \cup Waiting \cup {"running", "failed", "conflict"}

\* A row that is not there.
NoItem == [status |-> "none", next |-> "none", attempts |-> 0, manual |-> FALSE,
           payload |-> FALSE, expected |-> NoOp]
NoRow == [state |-> "none", cancel |-> FALSE, expired |-> FALSE]

\* record_version of the body in place; NoOp if there is none.
Current(m) == IF log[m] = <<>> THEN NoOp ELSE log[m][Len(log[m])]
NothingSeen == [m \in Memories |-> NoOp]
Existing == {m \in Memories : \A o \in Adds : Target[o] # m}

Saved == [kind |-> "saved", uncertain |-> FALSE, manual |-> FALSE]
Unapplied == [kind |-> "unapplied", uncertain |-> FALSE, manual |-> FALSE]
Conflict == [kind |-> "conflict", uncertain |-> FALSE, manual |-> TRUE]
Invalid == [kind |-> "invalid", uncertain |-> FALSE, manual |-> TRUE]
Error(uncertain, manual) == [kind |-> "error", uncertain |-> uncertain, manual |-> manual]
Outcomes ==
    {Saved, Unapplied, Conflict, Invalid}
        \cup [kind : {"error"}, uncertain : BOOLEAN, manual : BOOLEAN]

Free == [at |-> "free", by |-> NoTask, due |-> {}, op |-> NoOp, allow |-> FALSE,
         verify |-> FALSE, out |-> Saved]

ItemOK ==
    item \in [Ops -> [status : Statuses \cup {"none"}, next : {"none", "later", "due"},
                      attempts : Nat, manual : BOOLEAN, payload : BOOLEAN, expected : Versions]]
TaskOK ==
    task \in [Tasks -> [state : {"none", "open", "closed", "purged"}, cancel : BOOLEAN,
                        expired : BOOLEAN]]
FilesOK ==
    /\ log \in [Memories -> Seq(Ops \cup {Original})]
    /\ synced \in [Memories -> Nat]
    /\ \A m \in Memories : synced[m] <= Len(log[m])
    /\ index \in {"stale", "new", "safe"}
JobOK ==
    /\ queue \in Seq(Tasks)
    /\ job \in [Tasks -> {"none", "queued", "asking", "prepared", "scan", "over"}]
    /\ seen \in [Tasks -> [Memories -> Versions]]
    /\ plan \in [Tasks -> SUBSET Ops]
ScanOK ==
    /\ scan \in [at : {"free", "item", "write", "index", "record"},
                 by : Tasks \cup {NoTask}, due : SUBSET Ops, op : Ops \cup {NoOp},
                 allow : BOOLEAN, verify : BOOLEAN, out : Outcomes]
    /\ scan.at \in {"write", "index", "record"} => scan.op \in Ops

TypeOK ==
    /\ threads \subseteq Threads
    /\ TaskOK /\ ItemOK /\ FilesOK /\ JobOK /\ ScanOK
    /\ up \in {"up", "closing", "down"}
    /\ used \in [fault : Nat, crash : Nat, command : Nat]

Init ==
    /\ threads = Threads
    /\ task = [t \in Tasks |-> NoRow] /\ item = [o \in Ops |-> NoItem]
    /\ log = [m \in Memories |-> IF m \in Existing THEN <<Original>> ELSE <<>>]
    /\ synced = [m \in Memories |-> Len(log[m])]
    /\ index = "safe"
    /\ up = "up"
    /\ queue = <<>> /\ job = [t \in Tasks |-> "none"]
    /\ seen = [t \in Tasks |-> NothingSeen]
    /\ plan = [t \in Tasks |-> {}]
    /\ scan = Free
    /\ used = [fault |-> 0, crash |-> 0, command |-> 0]

Trouble == used.fault + used.crash + used.command < MaxTrouble
Fault == Trouble /\ used' = [used EXCEPT !.fault = @ + 1]
Command == Trouble /\ used' = [used EXCEPT !.command = @ + 1]
End == Trouble /\ used' = [used EXCEPT !.crash = @ + 1]

-----------------------------------------------------------------------------
(* The ledger: each operator is one BEGIN IMMEDIATE transaction            *)

\* _summarize: a task is closed once all its items are resolved.
Summarize(t, items, row) ==
    IF \A o \in OpsOf(t) : items[o].status \in Resolved \cup {"none"}
    THEN [row EXCEPT !.state = "closed"] ELSE row

\* The part of _finish that is about the item.
Settle(row, status, next, manual) ==
    [row EXCEPT !.status = status, !.next = next, !.manual = manual,
                !.payload = @ /\ status \notin Resolved]

FinishItem(o, status, next, manual) ==
    LET t == TaskOf[o] IN
    /\ item' = [item EXCEPT ![o] = Settle(@, status, next, manual)]
    /\ task' = [task EXCEPT ![t] = Summarize(t, item', @)]
    /\ UNCHANGED threads

\* _cancel: what is running or to be verified is left to the one who saves it.
CancelItem_Running(row) ==
    IF row.status = "none" \/ row.status \in {"success", "verifying"} THEN row
    ELSE Settle(row, "cancelled", "none", row.manual)

CancelItem(row) ==
    CASE row.status \in {"none", "success", "running"} -> row
      [] row.status = "verifying" -> [row EXCEPT !.next = "due"]
      [] OTHER -> Settle(row, "cancelled", "none", row.manual)

CancelTasks(ts) ==
    /\ item' = [o \in Ops |-> IF TaskOf[o] \in ts THEN CancelItem(item[o]) ELSE item[o]]
    /\ task' = [t \in Tasks |-> IF t \in ts
                                THEN Summarize(t, item', [task[t] EXCEPT !.cancel = TRUE])
                                ELSE task[t]]

\* recover_inflight: whoever was being saved may have been.
RecoverItem_Nothing(row) == row

RecoverItem(row) ==
    IF row.status = "running" THEN [row EXCEPT !.status = "verifying", !.next = "due"] ELSE row

RecoverInflight ==
    /\ item' = [o \in Ops |-> RecoverItem(item[o])]
    /\ UNCHANGED <<threads, task>>

\* due
Due(o) ==
    /\ item[o].status \in Waiting /\ item[o].next # "none"
    /\ item[o].next = "due" \/ task[TaskOf[o]].expired

RegisterTx_AnyThread(t) ==
    /\ task' = [task EXCEPT ![t].state = "open"]
    /\ item' = [o \in Ops |-> IF o \in plan[t]
                              THEN [NoItem EXCEPT !.status = "pending", !.next = "due",
                                                  !.payload = TRUE, !.expected = seen[t][Target[o]]]
                              ELSE item[o]]
    /\ UNCHANGED threads

RegisterTx(t) == ThreadOf[t] \in threads /\ RegisterTx_AnyThread(t)

-----------------------------------------------------------------------------
(* Extraction: MemoryService.schedule and MemoryExtractor.prepare          *)

\* A Run succeeded; its extraction goes behind the last one of the user.
Schedule(t) ==
    /\ up = "up" /\ job[t] = "none" /\ ThreadOf[t] \in threads
    /\ job' = [job EXCEPT ![t] = "queued"]
    /\ queue' = Append(queue, t)
    /\ UNCHANGED <<ledgerVars, fileVars, up, seen, plan, scan, used>>

\* snapshot, before the model is asked.
AskModel(t) ==
    /\ up # "down" /\ job[t] = "queued" /\ queue # <<>> /\ Head(queue) = t
    /\ scan.at # "index"
    /\ job' = [job EXCEPT ![t] = "asking"]
    /\ seen' = [seen EXCEPT ![t] = [m \in Memories |-> Current(m)]]
    /\ UNCHANGED <<ledgerVars, fileVars, up, queue, plan, scan, used>>

LeaveQueue(t) ==
    /\ job' = [job EXCEPT ![t] = "over"]
    /\ seen' = [seen EXCEPT ![t] = NothingSeen]
    /\ plan' = [plan EXCEPT ![t] = {}]
    /\ queue' = IF queue # <<>> /\ Head(queue) = t THEN Tail(queue) ELSE queue

\* prepare: every update is still about the version the model saw.
Fresh(t, ops) == \A o \in ops \ Adds :
    Current(Target[o]) # NoOp /\ Current(Target[o]) = seen[t][Target[o]]

Prepare(t) ==
    /\ job[t] = "asking" /\ scan.at # "index"
    /\ \E ops \in SUBSET OpsOf(t) :
        /\ ops # {} /\ Fresh(t, ops)
        /\ plan' = [plan EXCEPT ![t] = ops]
    /\ job' = [job EXCEPT ![t] = "prepared"]
    /\ UNCHANGED <<ledgerVars, fileVars, up, queue, seen, scan, used>>

\* The model fails, proposes nothing, or something that is refused.
ExtractNothing(t) ==
    /\ job[t] = "asking"
    /\ LeaveQueue(t)
    /\ UNCHANGED <<ledgerVars, fileVars, up, scan, used>>

Register(t) ==
    /\ job[t] = "prepared"
    /\ RegisterTx(t)
    /\ job' = [job EXCEPT ![t] = "scan"]
    /\ UNCHANGED <<fileVars, up, queue, seen, plan, scan, used>>

\* The Thread is gone, or SQLite fails, perhaps after the commit.
RegisterFails(t) ==
    /\ job[t] = "prepared"
    /\ \/ ThreadOf[t] \notin threads /\ UNCHANGED <<ledgerVars, used>>
       \/ Fault /\ (RegisterTx(t) \/ UNCHANGED ledgerVars)
    /\ LeaveQueue(t)
    /\ UNCHANGED <<fileVars, up, scan>>

-----------------------------------------------------------------------------
(* run_ready: one round over the items that are due, under the poll lock   *)

\* The loop, or an extraction that has registered its task.  Closed, it does nothing.
ScanBegin(by) ==
    /\ up = "up" /\ scan.at = "free"
    /\ by # NoTask => job[by] = "scan"
    /\ RecoverInflight
    /\ scan' = [scan EXCEPT !.at = "item", !.by = by, !.due = {o \in Ops : Due(o)'}]
    /\ UNCHANGED <<fileVars, up, jobVars, used>>

\* run_ready returns at once when the service is closing.
ScanRefused(t) ==
    /\ up = "closing" /\ scan.at = "free" /\ job[t] = "scan"
    /\ LeaveQueue(t)
    /\ UNCHANGED <<ledgerVars, fileVars, up, scan, used>>

\* SQLite fails before anything is claimed; the loop comes back, an extraction is over.
ScanFails(by) ==
    /\ Fault
    /\ up = "up" /\ scan.at = "free" /\ (by # NoTask => job[by] = "scan")
    /\ RecoverInflight \/ UNCHANGED ledgerVars
    /\ IF by = NoTask THEN UNCHANGED jobVars ELSE LeaveQueue(by)
    /\ UNCHANGED <<fileVars, up, scan>>

NextItem(o) == [scan EXCEPT !.at = "item", !.due = @ \ {o}, !.op = NoOp, !.allow = FALSE,
                         !.verify = FALSE, !.out = Saved]

\* claim: cancelled or out of time, nothing is written any more.
WindowClosed(o) ==
    (task[TaskOf[o]].cancel \/ task[TaskOf[o]].expired) /\ item[o].status # "verifying"

ClaimTx(o) ==
    /\ item' = [item EXCEPT ![o].status = "running", ![o].attempts = @ + 1]
    /\ UNCHANGED <<threads, task>>

Allowed(o) ==
    /\ ~task[TaskOf[o]].cancel /\ ~task[TaskOf[o]].expired
    /\ item[o].attempts < MaxAttempts

Claim(o) ==
    /\ scan.at = "item" /\ o \in scan.due /\ up = "up"
    /\ Due(o) /\ ~WindowClosed(o)
    /\ ClaimTx(o)
    /\ scan' = [scan EXCEPT !.at = "write", !.op = o, !.verify = item[o].status = "verifying",
                            !.allow = Allowed(o)]
    /\ UNCHANGED <<fileVars, up, jobVars, used>>

ClaimCloses(o) ==
    /\ scan.at = "item" /\ o \in scan.due /\ up = "up"
    /\ item[o].status \in Waiting /\ WindowClosed(o)
    /\ FinishItem(o, IF task[TaskOf[o]].cancel THEN "cancelled" ELSE "failed", "none", FALSE)
    /\ scan' = NextItem(o)
    /\ UNCHANGED <<fileVars, up, jobVars, used>>

\* The item changed since it was listed, or SQLite fails, perhaps after the commit.
ClaimSkips(o) ==
    /\ scan.at = "item" /\ o \in scan.due /\ up = "up"
    /\ \/ /\ item[o].status \notin Waiting \/ (~Due(o) /\ ~WindowClosed(o))
          /\ UNCHANGED <<ledgerVars, used>>
       \/ Fault /\ (UNCHANGED ledgerVars \/ (Due(o) /\ ~WindowClosed(o) /\ ClaimTx(o)))
    /\ scan' = NextItem(o)
    /\ UNCHANGED <<fileVars, up, jobVars>>

Ends(out) == scan' = [scan EXCEPT !.at = "record", !.out = out]

\* apply_operation, up to the replacement of the body.
Applied(o) == Current(Target[o]) = o
Matches_Any(o) == TRUE
Matches(o) == Current(Target[o]) = item[o].expected

\* An operation that makes a new memory meets one like it, whose text is left open.
Doubled(o) == Current(Target[o]) = NoOp /\ \E m \in Memories : Current(m) # NoOp

Put(m, o) ==
    /\ log' = [log EXCEPT ![m] = Append(@, o)]
    /\ index' = "stale"
    /\ UNCHANGED synced

Write ==
    LET o == scan.op IN
    /\ scan.at = "write"
    /\ \/ /\ Applied(o)
          /\ scan' = [scan EXCEPT !.at = "index"] /\ UNCHANGED fileVars
       \/ ~Applied(o) /\ ~Matches(o) /\ Ends(Conflict) /\ UNCHANGED fileVars
       \/ ~Applied(o) /\ Matches(o) /\ ~scan.allow /\ Ends(Unapplied) /\ UNCHANGED fileVars
       \/ /\ ~Applied(o) /\ Matches(o) /\ scan.allow /\ Doubled(o)
          /\ Ends(Conflict) /\ UNCHANGED fileVars
       \/ /\ ~Applied(o) /\ Matches(o) /\ scan.allow /\ Put(Target[o], o)
          /\ scan' = [scan EXCEPT !.at = "index"]
    /\ UNCHANGED <<ledgerVars, up, jobVars, used>>

\* Directory, body or budgets cannot be read or are refused; the replacement fails,
\* or its directory is not synced: only then what is in place is uncertain.
WriteFails ==
    LET o == scan.op IN
    /\ scan.at = "write" /\ Fault
    /\ \/ \E manual \in BOOLEAN : Ends(Error(FALSE, manual)) /\ UNCHANGED fileVars
       \/ Ends(Error(TRUE, FALSE)) /\ UNCHANGED fileVars
       \/ ~Applied(o) /\ Matches(o) /\ scan.allow /\ Ends(Invalid) /\ UNCHANGED fileVars
       \/ ~Applied(o) /\ Matches(o) /\ scan.allow /\ Ends(Error(TRUE, FALSE)) /\ Put(Target[o], o)
    /\ UNCHANGED <<ledgerVars, up, jobVars>>

\* confirm_durable and the index; one that may not write only compares it.
Confirm(m) == synced' = [synced EXCEPT ![m] = Len(log[m])]

Index ==
    LET m == Target[scan.op] IN
    /\ scan.at = "index"
    /\ Confirm(m)
    /\ IF scan.allow \/ index # "stale"
       THEN index' = "safe" /\ Ends(Saved)
       ELSE UNCHANGED index /\ Ends(Error(TRUE, FALSE))
    /\ UNCHANGED <<log, ledgerVars, up, jobVars, used>>

IndexFails ==
    LET m == Target[scan.op] IN
    /\ scan.at = "index" /\ Fault
    /\ \/ UNCHANGED <<synced, index>>
       \/ Confirm(m) /\ UNCHANGED index
       \/ Confirm(m) /\ scan.allow /\ index' = IF index = "stale" THEN "new" ELSE index
    /\ \E manual \in BOOLEAN : Ends(Error(TRUE, manual))
    /\ UNCHANGED <<log, ledgerVars, up, jobVars>>

\* _attempt: what the outcome makes of the item, and when it is tried again.
Uncertain_Stage(o) == scan.out.uncertain
Uncertain(o) == scan.out.uncertain \/ scan.verify \/ ~scan.allow

AfterError(o) ==
    LET uncertain == Uncertain(o)
        late == task[TaskOf[o]].expired
        more == scan.allow /\ item[o].attempts < MaxAttempts
        again == CASE scan.out.manual -> "none"
                   [] more /\ ~late -> "later"
                   [] scan.allow /\ uncertain -> "due"
                   [] OTHER -> "none"
    IN  <<IF uncertain THEN "verifying" ELSE IF again = "later" THEN "waiting" ELSE "failed", again>>

AfterAttempt(o) ==
    CASE scan.out.kind = "saved" -> <<"success", "none">>
      [] scan.out.kind = "unapplied" -> <<"failed", "none">>
      [] scan.out.kind = "conflict" -> <<"conflict", "none">>
      [] scan.out.kind = "invalid" -> <<"failed", "none">>
      [] OTHER -> AfterError(o)

\* finish: what was cancelled meanwhile is cancelled, unless it was or may have been saved.
FinishTx(o) ==
    LET result == AfterAttempt(o) IN
    IF task[TaskOf[o]].cancel /\ result[1] \notin {"success", "verifying"}
    THEN FinishItem(o, "cancelled", "none", scan.out.manual)
    ELSE FinishItem(o, result[1], result[2], scan.out.manual)

Record ==
    /\ scan.at = "record"
    /\ FinishTx(scan.op)
    /\ scan' = NextItem(scan.op)
    /\ UNCHANGED <<fileVars, up, jobVars, used>>

\* The item stays `running` unless the commit went through.
RecordFails ==
    /\ scan.at = "record" /\ Fault
    /\ FinishTx(scan.op) \/ UNCHANGED ledgerVars
    /\ scan' = NextItem(scan.op)
    /\ UNCHANGED <<fileVars, up, jobVars>>

\* A service that is closing begins no further attempt.
ScanEnds ==
    /\ scan.at = "item" /\ (scan.due = {} \/ up = "closing")
    /\ IF scan.by = NoTask THEN UNCHANGED jobVars ELSE LeaveQueue(scan.by)
    /\ scan' = Free
    /\ UNCHANGED <<ledgerVars, fileVars, up, used>>

-----------------------------------------------------------------------------
(* Readers, operators, time                                                *)

\* catalog, for the context of a Run: an index that is not right is written again.
Catalog ==
    /\ up # "down" /\ scan.at # "index" /\ index = "stale"
    /\ index' = "safe"
    /\ UNCHANGED <<log, synced, ledgerVars, up, jobVars, scan, used>>

\* ThreadRepository.delete, with cancel_source_tasks in its transaction.
DeleteThread(th) ==
    /\ th \in threads /\ Command
    /\ threads' = threads \ {th}
    /\ CancelTasks({t \in Tasks : ThreadOf[t] = th /\ task[t].state = "open"})
    /\ UNCHANGED <<fileVars, up, jobVars, scan>>

Known(t) == task[t].state \in {"open", "closed"}

CancelTask(t) ==
    /\ Known(t) /\ Command
    /\ CancelTasks({t})
    /\ UNCHANGED <<threads, fileVars, up, jobVars, scan>>

Retriable(o) == item[o].status \in {"failed", "verifying"} /\ ~item[o].manual

\* retry: a new window and all attempts for what failed in an ordinary way.
Retry(t) ==
    /\ Known(t) /\ ~task[t].cancel /\ ThreadOf[t] \in threads /\ Command
    /\ \A o \in OpsOf(t) : item[o].status \notin {"running", "pending", "waiting"}
    /\ \E o \in OpsOf(t) : Retriable(o)
    /\ task' = [task EXCEPT ![t].state = "open", ![t].expired = FALSE]
    /\ item' = [o \in Ops |->
                  IF TaskOf[o] = t /\ Retriable(o)
                  THEN [item[o] EXCEPT !.next = "due", !.attempts = 0,
                                       !.status = IF @ = "verifying" THEN @ ELSE "pending"]
                  ELSE item[o]]
    /\ UNCHANGED <<threads, fileVars, up, jobVars, scan>>

\* resolve_conflict: the memory stays as it is, the old item is given up.
ResolveConflict(o) ==
    /\ item[o].status = "conflict" /\ Command
    /\ FinishItem(o, "cancelled", "none", FALSE)
    /\ UNCHANGED <<fileVars, up, jobVars, scan>>

\* cleanup and cleanup_expired_history: what has been closed for 30 days is forgotten.
Cleanup(t) ==
    /\ task[t].state = "closed"
    /\ \A o \in OpsOf(t) : item[o].status \in Resolved \cup {"none"}
    /\ task' = [task EXCEPT ![t].state = "purged"]
    /\ item' = [o \in Ops |-> IF TaskOf[o] = t THEN NoItem ELSE item[o]]
    /\ UNCHANGED <<threads, fileVars, up, jobVars, scan, used>>

RetryDue(o) ==
    /\ item[o].next = "later"
    /\ item' = [item EXCEPT ![o].next = "due"]
    /\ UNCHANGED <<threads, task, fileVars, up, jobVars, scan, used>>

Expire(t) ==
    /\ task[t].state = "open" /\ ~task[t].expired
    /\ task' = [task EXCEPT ![t].expired = TRUE]
    /\ UNCHANGED <<threads, item, fileVars, up, jobVars, scan, used>>

-----------------------------------------------------------------------------
(* The process                                                             *)

\* stop_accepting
Close ==
    /\ up = "up" /\ End
    /\ up' = "closing"
    /\ UNCHANGED <<ledgerVars, fileVars, jobVars, scan>>

ForgetJobs ==
    /\ job' = [t \in Tasks |-> IF job[t] = "none" THEN "none" ELSE "over"]
    /\ queue' = <<>>
    /\ seen' = [t \in Tasks |-> NothingSeen] /\ plan' = [t \in Tasks |-> {}]

\* shutdown, once the operations in flight have ended: extractions are cancelled.
Exit ==
    /\ up = "closing" /\ scan.at = "free"
    /\ up' = "down"
    /\ ForgetJobs
    /\ UNCHANGED <<ledgerVars, fileVars, scan, used>>

\* What a loss of power leaves of the bodies; one that loses versions is no longer what
\* the index lists.
Leftover(m) == {SubSeq(log[m], 1, n) : n \in synced[m]..Len(log[m])}

LosePower ==
    /\ log' \in {left \in [Memories -> UNION {Leftover(m) : m \in Memories}] :
                   \A m \in Memories : left[m] \in Leftover(m)}
    /\ index' \in IF log' # log \/ index = "new" THEN {"stale", "new"} ELSE {index}
    /\ UNCHANGED synced

Crash ==
    /\ up # "down" /\ End
    /\ up' = "down"
    /\ LosePower
    /\ scan' = Free
    /\ ForgetJobs
    /\ UNCHANGED ledgerVars

\* The start first marks what was being saved as to be verified.
Start ==
    /\ up = "down" /\ up' = "up"
    /\ RecoverInflight
    /\ UNCHANGED <<fileVars, jobVars, scan, used>>

-----------------------------------------------------------------------------
Extract(t) ==
    \/ AskModel(t) \/ Prepare(t) \/ ExtractNothing(t) \/ Register(t) \/ RegisterFails(t)
    \/ ScanRefused(t)

Attempt ==
    \/ \E o \in Ops : Claim(o) \/ ClaimCloses(o) \/ ClaimSkips(o)
    \/ Write \/ WriteFails \/ Index \/ IndexFails \/ Record \/ RecordFails
    \/ ScanEnds

Operator ==
    \/ \E t \in Tasks : CancelTask(t) \/ Retry(t) \/ Cleanup(t)
    \/ \E o \in Ops : ResolveConflict(o)
    \/ \E th \in Threads : DeleteThread(th)

Time == (\E o \in Ops : RetryDue(o)) \/ (\E t \in Tasks : Expire(t))

Next ==
    \/ \E t \in Tasks : Schedule(t) \/ Extract(t)
    \/ \E by \in Tasks \cup {NoTask} : ScanBegin(by) \/ ScanFails(by)
    \/ Attempt
    \/ Catalog \/ Operator \/ Time
    \/ Close \/ Exit \/ Crash \/ Start

Spec == Init /\ [][Next]_vars

\* The event loop goes on with every task, asyncio.Lock serves those who wait for it in
\* turn, the loop polls, time passes and a stopped service is started again.  Nobody owes
\* a failure, an end, a command or a deletion.
FairSpec ==
    /\ Spec
    /\ WF_vars(\E t \in Tasks : Extract(t)) /\ SF_vars(\E t \in Tasks : ScanBegin(t))
    /\ WF_vars(ScanBegin(NoTask)) /\ WF_vars(Attempt)
    /\ \A o \in Ops : WF_vars(RetryDue(o))
    /\ WF_vars(Exit) /\ WF_vars(Start)

-----------------------------------------------------------------------------
(* Properties                                                              *)

\* Every version of a memory was prepared against the one it replaced, and no operation
\* was applied twice: no retry, death or command overwrites what the one who proposed it
\* had not read (apply_operation).
HistoryIsLinear ==
    \A m \in Memories : \A i \in DOMAIN log[m] :
        LET o == log[m][i] IN
        o \in Ops =>
            /\ \A j \in DOMAIN log[m] : log[m][j] = o => i = j
            /\ item[o].status # "none" =>
                   item[o].expected = IF i = 1 THEN NoOp ELSE log[m][i - 1]

\* What the ledger says of an item is true.  "文件曾存在或 replace 返回并不独立证明持久化"
\* (store.py): an item reported as saved is in a body that survives a loss of power.  What
\* it calls not saved was not: an item that waits or failed is in no body, and one that was
\* given up is not the current version, unless a loss of power brought it back.
SuccessIsOnDisk ==
    \A o \in Ops : item[o].status = "success" =>
        \E i \in 1..synced[Target[o]] : log[Target[o]][i] = o
UnsavedIsTrue ==
    \A o \in Ops :
        /\ item[o].status \in {"pending", "waiting", "failed"} =>
               \A i \in DOMAIN log[Target[o]] : log[Target[o]][i] # o
        /\ item[o].status \in {"cancelled", "conflict"} /\ used.crash = 0 =>
               Current(Target[o]) # o
OutcomesAreTrue == SuccessIsOnDisk /\ UnsavedIsTrue

\* A proposal is not thrown away before its fate is known, and not kept once it is.
ContentIsKept ==
    \A o \in Ops : item[o].status # "none" =>
        (item[o].payload <=> item[o].status \notin Resolved)

\* Whatever a deleted Thread has in the ledger is cancelled, though its extraction may
\* register late.
DeletedSourceIsCancelled ==
    \A t \in Tasks : ThreadOf[t] \notin threads /\ task[t].state = "open" => task[t].cancel

\* The ledger forgets what it must and nothing else: the content of a proposal with its fate,
\* and the work of a Thread with the Thread, in whatever order retries, deaths and late
\* extractions come (_finish, _cancel, cancel_source_tasks).
LedgerForgets == ContentIsKept /\ DeletedSourceIsCancelled

\* Every item is saved, refused, or left to an operator; none is tried for ever or forgotten.
InProgress(o) ==
    \/ item[o].status \in {"pending", "waiting", "running"}
    \/ item[o].status = "verifying" /\ item[o].next # "none"
ItemsSettle == \A o \in Ops : InProgress(o) ~> ~InProgress(o)
=============================================================================
