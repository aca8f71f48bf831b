---------------------------- MODULE MemorySaveProofs ----------------------------
(***************************************************************************)
(* What holds of saved memories for any number of Threads, tasks,           *)
(* operations and memories, any number of attempts, and any failures.       *)
(*                                                                          *)
(* IInv is inductive.  It says what an attempt knows at each of its places  *)
(* (Claimed, Applying, Verifying, Recording), that an operation is neither  *)
(* in the ledger nor in a file before its task is registered                *)
(* (Unregistered), and where a version can be (Located).  Turn is what any  *)
(* step may make of one item, DiskChange of the files: most parts follow    *)
(* from these two.                                                          *)
(***************************************************************************)
EXTENDS MemorySave, SequenceTheorems, TLAPS

ItemRows == [status : Statuses \cup {"none"}, next : {"none", "later", "due"},
             attempts : Nat, manual : BOOLEAN, payload : BOOLEAN, expected : Versions]
TaskRows == [state : {"none", "open", "closed", "purged"}, cancel : BOOLEAN, expired : BOOLEAN]

ThreadsOK == threads \subseteq Threads
UpOK == up \in {"up", "closing", "down"}
UsedOK == used \in [fault : Nat, crash : Nat, command : Nat]

InLog(o) == \E i \in DOMAIN log[Target[o]] : log[Target[o]][i] = o
OnDisk(o) == \E i \in 1..synced[Target[o]] : log[Target[o]][i] = o

\* The operations of an extraction are of its task.
PlanIsOwn == \A t \in Tasks : \A o \in plan[t] : TaskOf[o] = t

\* Before its task is registered an operation is nowhere; a task is registered once.
Early == {"none", "queued", "asking", "prepared"}
Unregistered ==
    \A o \in Ops : job[TaskOf[o]] \in Early => item[o].status = "none" /\ ~InLog(o)

\* A version is in the body of its memory, what nobody here wrote at the beginning only.
Located ==
    \A m \in Memories : \A i \in DOMAIN log[m] :
        /\ log[m][i] \in Ops => Target[log[m][i]] = m
        /\ log[m][i] = Original => i = 1

\* What an attempt knows at its places; without a process there is none.
Claimed == scan.at \in {"write", "index", "record"} => item[scan.op].status = "running"
Idle == up = "down" => scan.at = "free"
Applying == scan.at = "index" => Current(Target[scan.op]) = scan.op
Verifying == scan.at = "write" /\ InLog(scan.op) => scan.verify
Recording ==
    scan.at = "record" =>
        /\ scan.out.kind = "saved" => OnDisk(scan.op)
        /\ scan.out.kind \in {"unapplied", "invalid"} => ~InLog(scan.op)
        /\ scan.out.kind = "conflict" => Current(Target[scan.op]) # scan.op
        /\ scan.out.kind = "error" /\ ~Uncertain(scan.op) => ~InLog(scan.op)

Types == ThreadsOK /\ TaskOK /\ ItemOK /\ FilesOK /\ JobOK /\ ScanOK /\ UpOK /\ UsedOK

IInv ==
    /\ Types
    /\ PlanIsOwn /\ Unregistered /\ Located
    /\ Idle /\ Claimed /\ Applying /\ Verifying /\ Recording
    /\ HistoryIsLinear /\ SuccessIsOnDisk /\ UnsavedIsTrue
    /\ ContentIsKept /\ DeletedSourceIsCancelled

-----------------------------------------------------------------------------
(* Rows                                                                    *)

\* What _finish makes of an item.
LEMMA SettleRow ==
  ASSUME NEW row \in ItemRows, NEW status \in Statuses, NEW next \in {"none", "later", "due"},
         NEW manual \in BOOLEAN
  PROVE  /\ Settle(row, status, next, manual) \in ItemRows
         /\ Settle(row, status, next, manual).status = status
         /\ Settle(row, status, next, manual).expected = row.expected
         /\ Settle(row, status, next, manual).payload <=> row.payload /\ status \notin Resolved
<1> DEFINE s == Settle(row, status, next, manual)
<1>1. s = [row EXCEPT !.status = status, !.next = next, !.manual = manual,
                      !.payload = row.payload /\ status \notin Resolved]
  BY DEF Settle, ItemRows
<1>2. s.payload <=> row.payload /\ status \notin Resolved
  BY <1>1 DEF ItemRows
<1> QED  BY <1>1, <1>2 DEF ItemRows

\* What _cancel makes of it.
LEMMA CancelRow ==
  ASSUME NEW row \in ItemRows
  PROVE  /\ CancelItem(row) \in ItemRows
         /\ CancelItem(row).expected = row.expected
         /\ \/ CancelItem(row).status = row.status /\ CancelItem(row).payload = row.payload
            \/ /\ row.status \in {"pending", "waiting", "failed", "conflict", "cancelled"}
               /\ CancelItem(row).status = "cancelled" /\ ~CancelItem(row).payload
<1> USE DEF Statuses, Waiting, Resolved
<1>1. CASE row.status \in {"none", "success", "running"}
  BY <1>1 DEF CancelItem
<1>2. CASE row.status = "verifying"
  BY <1>2 DEF CancelItem, ItemRows
<1>3. CASE row.status \in {"pending", "waiting", "failed", "conflict", "cancelled"}
  <2>1. CancelItem(row) = Settle(row, "cancelled", "none", row.manual)
    BY <1>3 DEF CancelItem
  <2>2. row.manual \in BOOLEAN
    BY DEF ItemRows
  <2> DEFINE s == Settle(row, "cancelled", "none", row.manual)
  <2>3. s \in ItemRows /\ s.status = "cancelled" /\ s.expected = row.expected
    BY <2>2, SettleRow
  <2>4. s.payload <=> row.payload /\ "cancelled" \notin Resolved
    BY <2>2, SettleRow
  <2>5. ~s.payload
    BY <2>4
  <2> QED  BY <1>3, <2>1, <2>3, <2>5
<1> QED  BY <1>1, <1>2, <1>3 DEF ItemRows

\* What recover_inflight makes of it.
LEMMA RecoverRow ==
  ASSUME NEW row \in ItemRows
  PROVE  /\ RecoverItem(row) \in ItemRows
         /\ RecoverItem(row).expected = row.expected
         /\ RecoverItem(row).payload = row.payload
         /\ \/ RecoverItem(row).status = row.status /\ row.status # "running"
            \/ RecoverItem(row).status = "verifying" /\ row.status = "running"
BY DEF RecoverItem, ItemRows, Statuses, Waiting, Resolved

\* A row that is not there is an admissible one.
LEMMA NoItemRow == NoItem \in ItemRows
BY DEF NoItem, ItemRows, Versions

\* A summary may close a task.
LEMMA SummaryRow ==
  ASSUME NEW t, NEW items, NEW row \in TaskRows
  PROVE  /\ Summarize(t, items, row) \in TaskRows
         /\ Summarize(t, items, row).cancel = row.cancel
         /\ Summarize(t, items, row).expired = row.expired
         /\ Summarize(t, items, row).state \in {row.state, "closed"}
BY DEF Summarize, TaskRows

\* What an attempt can come to.
LEMMA KindsOfOutcomes ==
  ASSUME NEW out \in Outcomes
  PROVE  /\ out.kind \in {"saved", "unapplied", "conflict", "invalid", "error"}
         /\ out.manual \in BOOLEAN /\ out.uncertain \in BOOLEAN
<1>1. CASE out = Saved
  BY <1>1 DEF Saved
<1>2. CASE out = Unapplied
  BY <1>2 DEF Unapplied
<1>3. CASE out = Conflict
  BY <1>3 DEF Conflict
<1>4. CASE out = Invalid
  BY <1>4 DEF Invalid
<1>5. CASE out \in [kind : {"error"}, uncertain : BOOLEAN, manual : BOOLEAN]
  BY <1>5
<1> QED  BY <1>1, <1>2, <1>3, <1>4, <1>5 DEF Outcomes

\* How an attempt ends is a status of the ledger.
LEMMA AttemptEnds ==
  ASSUME NEW o \in Ops, ItemOK, ScanOK
  PROVE  /\ AfterAttempt(o)[1] \in {"success", "failed", "conflict", "waiting", "verifying"}
         /\ AfterAttempt(o)[2] \in {"none", "later", "due"}
BY DEF AfterAttempt, AfterError

\* An operation that is not in the file is not the version in place.
LEMMA CurrentIsInLog ==
  ASSUME NEW o \in Ops, log \in [Memories -> Seq(Ops \cup {Original})], ~InLog(o)
  PROVE  Current(Target[o]) # o
<1> DEFINE m == Target[o]
<1>1. m \in Memories /\ log[m] \in Seq(Ops \cup {Original}) /\ o # NoOp
  BY MemoryAssumption
<1>2. CASE log[m] = <<>>
  BY <1>1, <1>2 DEF Current
<1>3. CASE log[m] # <<>>
  <2>1. Len(log[m]) \in DOMAIN log[m]
    BY <1>1, <1>3, EmptySeq
  <2> QED  BY <1>3, <2>1 DEF Current, InLog
<1> QED  BY <1>2, <1>3

-----------------------------------------------------------------------------
(* Items                                                                   *)

\* The transaction that ends an item leaves the others alone.
Finished(o, status) ==
    /\ item' \in [Ops -> ItemRows]
    /\ \A q \in Ops : q # o => item'[q] = item[q]
    /\ item'[o].status = status /\ item'[o].expected = item[o].expected
    /\ item'[o].payload <=> item[o].payload /\ status \notin Resolved

LEMMA FinishedItem ==
  ASSUME ItemOK, NEW o \in Ops, NEW status \in Statuses, NEW next \in {"none", "later", "due"},
         NEW manual \in BOOLEAN, FinishItem(o, status, next, manual)
  PROVE  Finished(o, status)
<1>1. item[o] \in ItemRows
  BY DEF ItemOK, ItemRows
<1>2. item' = [item EXCEPT ![o] = Settle(item[o], status, next, manual)]
  BY DEF FinishItem
<1>3. Settle(item[o], status, next, manual) \in ItemRows
  BY <1>1, SettleRow
<1>4. item' \in [Ops -> ItemRows] /\ item'[o] = Settle(item[o], status, next, manual)
  BY <1>2, <1>3 DEF ItemOK, ItemRows
<1>5. \A q \in Ops : q # o => item'[q] = item[q]
  BY <1>2 DEF ItemOK
<1> QED  BY <1>1, <1>4, <1>5, SettleRow DEF Finished

\* What any step may make of an item.
SameFate(o) ==
    /\ item'[o].status = item[o].status
    /\ item'[o].payload = item[o].payload /\ item'[o].expected = item[o].expected
Registered(o) ==
    /\ job[TaskOf[o]] = "prepared" /\ job'[TaskOf[o]] \notin Early
    /\ item[o].status = "none" /\ item'[o].status = "pending" /\ item'[o].payload
Moved(o) ==
    /\ item'[o].payload = item[o].payload /\ item'[o].expected = item[o].expected
    /\ \/ item[o].status \in Waiting /\ item'[o].status = "running" /\ scan.at = "item"
       \/ item[o].status \in {"pending", "waiting"} /\ item'[o].status = "failed"
       \/ item[o].status = "running" /\ item'[o].status = "verifying" /\ scan.at = "free"
       \/ item[o].status = "failed" /\ item'[o].status = "pending"
Cancelled(o) ==
    /\ item[o].status \in {"pending", "waiting", "failed", "conflict", "cancelled"}
    /\ item'[o].status = "cancelled" /\ ~item'[o].payload
    /\ item'[o].expected = item[o].expected
Purged(o) == item[o].status \in Resolved \cup {"none"} /\ item'[o] = NoItem

\* What is recorded of an attempt is true of the files.
Told(o, status) ==
    /\ status \in {"success", "failed", "conflict", "waiting", "verifying", "cancelled"}
    /\ status = "success" => OnDisk(o)
    /\ status \in {"failed", "waiting"} => ~InLog(o)
    /\ status \in {"cancelled", "conflict"} => Current(Target[o]) # o
Recorded(o) ==
    /\ scan.at = "record" /\ o = scan.op /\ scan'.at = "item"
    /\ Told(o, item'[o].status)
    /\ item'[o].expected = item[o].expected
    /\ item'[o].payload <=> item[o].payload /\ item'[o].status \notin Resolved

Turn(o) ==
    \/ SameFate(o) \/ Registered(o) \/ Moved(o) \/ Cancelled(o) \/ Purged(o) \/ Recorded(o)
ItemTurns == item' \in [Ops -> ItemRows] /\ \A o \in Ops : Turn(o)

\* A registration makes new rows of the operations of its task.
LEMMA RegisterTurns ==
  ASSUME ItemOK, JobOK, PlanIsOwn, Unregistered, NEW t \in Tasks, job[t] = "prepared",
         job'[t] \notin Early, RegisterTx(t)
  PROVE  ItemTurns
<1> DEFINE new(o) == [NoItem EXCEPT !.status = "pending", !.next = "due", !.payload = TRUE,
                                    !.expected = seen[t][Target[o]]]
<1>1. \A o \in Ops : seen[t][Target[o]] \in Versions
  BY MemoryAssumption DEF JobOK
<1>2. ASSUME NEW o \in Ops
      PROVE  new(o) \in ItemRows /\ new(o).status = "pending" /\ new(o).payload
  BY <1>1 DEF NoItem, ItemRows, Statuses, Waiting
<1>3. item' = [o \in Ops |-> IF o \in plan[t] THEN new(o) ELSE item[o]]
  BY DEF RegisterTx, RegisterTx_AnyThread
<1> HIDE DEF new
<1>4. item' \in [Ops -> ItemRows]
  BY <1>2, <1>3 DEF ItemOK, ItemRows
<1>5. ASSUME NEW o \in Ops, o \in plan[t] PROVE Registered(o)
  <2>1. TaskOf[o] = t /\ item[o].status = "none"
    BY <1>5 DEF PlanIsOwn, Unregistered, Early
  <2>2. item'[o] = new(o)
    BY <1>3, <1>5
  <2> QED  BY <1>2, <2>1, <2>2 DEF Registered
<1>6. ASSUME NEW o \in Ops, o \notin plan[t] PROVE SameFate(o)
  BY <1>3, <1>6 DEF SameFate
<1> QED  BY <1>4, <1>5, <1>6 DEF ItemTurns, Turn

\* Whoever was being saved is to be verified.
LEMMA RecoverTurns ==
  ASSUME ItemOK, RecoverInflight, scan.at = "free" PROVE ItemTurns
<1>1. ASSUME NEW o \in Ops PROVE item'[o] \in ItemRows /\ (SameFate(o) \/ Moved(o))
  <2>1. item[o] \in ItemRows /\ item'[o] = RecoverItem(item[o])
    BY DEF ItemOK, ItemRows, RecoverInflight
  <2> QED  BY <2>1, RecoverRow DEF SameFate, Moved
<1>2. item' \in [Ops -> ItemRows]
  BY <1>1 DEF RecoverInflight
<1> QED  BY <1>1, <1>2 DEF ItemTurns, Turn

\* Cancelled tasks.
LEMMA CancelTurns ==
  ASSUME ItemOK, NEW ts, CancelTasks(ts) PROVE ItemTurns
<1>1. ASSUME NEW o \in Ops PROVE item'[o] \in ItemRows /\ (SameFate(o) \/ Cancelled(o))
  <2>1. item[o] \in ItemRows /\ item'[o] \in {item[o], CancelItem(item[o])}
    BY DEF ItemOK, ItemRows, CancelTasks
  <2> QED  BY <2>1, CancelRow DEF SameFate, Cancelled
<1>2. item' \in [Ops -> ItemRows]
  BY <1>1 DEF CancelTasks
<1> QED  BY <1>1, <1>2 DEF ItemTurns, Turn

\* A claim.
LEMMA ClaimTurns ==
  ASSUME ItemOK, NEW o \in Ops, ClaimTx(o), item[o].status \in Waiting, scan.at = "item"
  PROVE  ItemTurns
<1> DEFINE new == [item[o] EXCEPT !.status = "running", !.attempts = @ + 1]
<1>1. item[o] \in ItemRows
  BY DEF ItemOK, ItemRows
<1>2. /\ new \in ItemRows /\ new.status = "running"
      /\ new.payload = item[o].payload /\ new.expected = item[o].expected
  <2>1. new = [item[o] EXCEPT !.status = "running", !.attempts = item[o].attempts + 1]
    BY <1>1 DEF ItemRows
  <2>2. item[o].attempts + 1 \in Nat
    BY <1>1 DEF ItemRows
  <2> QED  BY <1>1, <2>1, <2>2 DEF ItemRows, Statuses
<1>3. item' = [item EXCEPT ![o] = new]
  BY <1>1 DEF ClaimTx, ItemRows
<1> HIDE DEF new
<1>4. item' \in [Ops -> ItemRows] /\ item'[o] = new /\ \A q \in Ops : q # o => item'[q] = item[q]
  BY <1>2, <1>3 DEF ItemOK, ItemRows
<1> QED  BY <1>2, <1>4 DEF ItemTurns, Turn, Moved, SameFate

\* A retry.
LEMMA RetryTurns ==
  ASSUME ItemOK, NEW t \in Tasks, Retry(t) PROVE ItemTurns
<1> DEFINE new(o) == [item[o] EXCEPT !.next = "due", !.attempts = 0,
                                     !.status = IF @ = "verifying" THEN @ ELSE "pending"]
<1>1. item' = [o \in Ops |-> IF TaskOf[o] = t /\ Retriable(o) THEN new(o) ELSE item[o]]
  BY DEF Retry
<1>2. ASSUME NEW o \in Ops, Retriable(o)
      PROVE  /\ new(o) \in ItemRows
             /\ new(o).payload = item[o].payload /\ new(o).expected = item[o].expected
             /\ \/ item[o].status = "verifying" /\ new(o).status = "verifying"
                \/ item[o].status = "failed" /\ new(o).status = "pending"
  <2>1. item[o] \in ItemRows /\ item[o].status \in {"failed", "verifying"}
    BY <1>2 DEF ItemOK, ItemRows, Retriable
  <2> QED  BY <2>1 DEF ItemRows, Statuses, Waiting
<1> HIDE DEF new
<1>3. item' \in [Ops -> ItemRows]
  BY <1>1, <1>2 DEF ItemOK, ItemRows
<1>4. ASSUME NEW o \in Ops PROVE SameFate(o) \/ Moved(o)
  <2>1. CASE TaskOf[o] = t /\ Retriable(o)
    <3>1. item'[o] = new(o)
      BY <1>1, <2>1
    <3> QED  BY <1>2, <2>1, <3>1 DEF SameFate, Moved
  <2>2. CASE ~(TaskOf[o] = t /\ Retriable(o))
    BY <1>1, <2>2 DEF SameFate
  <2> QED  BY <2>1, <2>2
<1> QED  BY <1>3, <1>4 DEF ItemTurns, Turn

\* What the record of an attempt says is what Recording knows.
LEMMA RecordTurns ==
  ASSUME ItemOK, ScanOK, Located, Recording, scan.at = "record", FilesOK,
         FinishTx(scan.op), scan'.at = "item"
  PROVE  ItemTurns
<1> DEFINE o == scan.op
           result == AfterAttempt(o)
<1>1. o \in Ops
  BY DEF ScanOK
<1>2. /\ result[1] \in {"success", "failed", "conflict", "waiting", "verifying"}
      /\ result[2] \in {"none", "later", "due"}
  BY <1>1, AttemptEnds
<1>3. scan.out.manual \in BOOLEAN
  BY KindsOfOutcomes DEF ScanOK
<1>4. ~InLog(o) => Current(Target[o]) # o
  BY <1>1, CurrentIsInLog DEF FilesOK
<1>5. Told(o, result[1])
  <2>1. scan.out.kind \in {"saved", "unapplied", "conflict", "invalid", "error"}
    BY KindsOfOutcomes DEF ScanOK
  <2>2. CASE scan.out.kind = "saved"
    BY <2>2 DEF Recording, AfterAttempt, Told
  <2>3. CASE scan.out.kind \in {"unapplied", "invalid"}
    BY <1>4, <2>3 DEF Recording, AfterAttempt, Told
  <2>4. CASE scan.out.kind = "conflict"
    BY <2>4 DEF Recording, AfterAttempt, Told
  <2>5. CASE scan.out.kind = "error"
    <3>1. Uncertain(o) => result[1] = "verifying"
      BY <2>5 DEF AfterAttempt, AfterError
    <3>2. ~Uncertain(o) => result[1] \in {"waiting", "failed"}
      BY <2>5 DEF AfterAttempt, AfterError
    <3> QED  BY <2>5, <3>1, <3>2 DEF Recording, Told
  <2> QED  BY <2>1, <2>2, <2>3, <2>4, <2>5
<1>6. result[1] \notin {"success", "verifying"} => Told(o, "cancelled")
  BY <1>2, <1>4, <1>5 DEF Told
<1>7. PICK status \in Statuses, next \in {"none", "later", "due"} :
         FinishItem(o, status, next, scan.out.manual) /\ Told(o, status)
  <2> HIDE DEF o, result
  <2>1. CASE task[TaskOf[o]].cancel /\ result[1] \notin {"success", "verifying"}
    <3>1. FinishItem(o, "cancelled", "none", scan.out.manual)
      BY <2>1 DEF FinishTx, o, result
    <3> QED  BY <1>6, <2>1, <3>1 DEF Statuses, Resolved
  <2>2. CASE ~(task[TaskOf[o]].cancel /\ result[1] \notin {"success", "verifying"})
    <3>1. FinishItem(o, result[1], result[2], scan.out.manual)
      BY <2>2 DEF FinishTx, o, result
    <3> QED  BY <1>2, <1>5, <3>1 DEF Statuses, Resolved, Waiting
  <2> QED  BY <2>1, <2>2
<1>8. Finished(o, status)
  BY <1>1, <1>3, <1>7, FinishedItem
<1> HIDE DEF o
<1>9. Recorded(o)
  BY <1>7, <1>8 DEF Finished, Recorded, o
<1> QED  BY <1>8, <1>9 DEF Finished, ItemTurns, Turn, SameFate

\* Any step makes of an item what Turn says.
LEMMA StepTurns == IInv /\ [Next]_vars => ItemTurns
<1> SUFFICES ASSUME IInv, [Next]_vars PROVE ItemTurns
  OBVIOUS
<1> /\ TaskOK /\ ItemOK /\ FilesOK /\ JobOK /\ ScanOK
    /\ PlanIsOwn /\ Unregistered /\ Located /\ Idle /\ Recording
  BY DEF IInv, Types
<1>1. UNCHANGED item => ItemTurns
  BY DEF ItemTurns, Turn, SameFate, ItemOK, ItemRows
<1>2. ASSUME NEW t \in Tasks, Schedule(t) \/ AskModel(t) \/ Prepare(t) \/ ExtractNothing(t)
                              \/ ScanRefused(t) \/ Expire(t)
      PROVE  ItemTurns
  BY <1>1, <1>2 DEF Schedule, AskModel, Prepare, ExtractNothing, ScanRefused, Expire, ledgerVars
<1>3. ASSUME NEW t \in Tasks, Register(t) PROVE ItemTurns
  <2>1. job[t] = "prepared" /\ job'[t] \notin Early /\ RegisterTx(t)
    BY <1>3 DEF Register, JobOK, Early
  <2> QED  BY <2>1, RegisterTurns
<1>4. ASSUME NEW t \in Tasks, RegisterFails(t) PROVE ItemTurns
  <2>1. job[t] = "prepared" /\ job'[t] \notin Early /\ (RegisterTx(t) \/ UNCHANGED item)
    BY <1>4 DEF RegisterFails, LeaveQueue, JobOK, Early, ledgerVars
  <2> QED  BY <1>1, <2>1, RegisterTurns
<1>5. ASSUME NEW by \in Tasks \cup {NoTask}, ScanBegin(by) \/ ScanFails(by) PROVE ItemTurns
  <2>1. scan.at = "free" /\ (RecoverInflight \/ UNCHANGED item)
    BY <1>5 DEF ScanBegin, ScanFails, ledgerVars
  <2> QED  BY <1>1, <2>1, RecoverTurns
<1>6. CASE Start
  <2>1. scan.at = "free" /\ RecoverInflight
    BY <1>6 DEF Start, Idle
  <2> QED  BY <2>1, RecoverTurns
<1>7. ASSUME NEW o \in Ops, Claim(o) \/ ClaimSkips(o) PROVE ItemTurns
  <2>1. scan.at = "item" /\ (UNCHANGED item \/ (Due(o) /\ ClaimTx(o)))
    BY <1>7 DEF Claim, ClaimSkips, ledgerVars
  <2> QED  BY <1>1, <2>1, ClaimTurns DEF Due
<1>8. ASSUME NEW o \in Ops, ClaimCloses(o) PROVE ItemTurns
  <2>1. PICK status \in {"cancelled", "failed"} : FinishItem(o, status, "none", FALSE)
    BY <1>8 DEF ClaimCloses
  <2>2. Finished(o, status)
    BY <2>1, FinishedItem DEF Statuses, Resolved
  <2>3. item[o].status \in {"pending", "waiting"}
    BY <1>8 DEF ClaimCloses, WindowClosed, Waiting
  <2>4. item[o].payload \in BOOLEAN
    BY DEF ItemOK
  <2>5. Cancelled(o) \/ Moved(o)
    <3>1. CASE status = "cancelled"
      BY <2>2, <2>3, <3>1 DEF Finished, Cancelled, Resolved
    <3>2. CASE status = "failed"
      <4>1. item'[o].payload <=> item[o].payload
        BY <2>2, <3>2 DEF Finished, Resolved
      <4>2. item'[o].payload \in BOOLEAN
        BY <2>2 DEF Finished, ItemRows
      <4>3. item'[o].payload = item[o].payload
        BY <2>4, <4>1, <4>2
      <4> QED  BY <2>2, <2>3, <3>2, <4>3 DEF Finished, Moved
    <3> QED  BY <2>1, <3>1, <3>2
  <2> QED  BY <2>2, <2>5 DEF Finished, ItemTurns, Turn, SameFate
<1>9. ASSUME NEW o \in Ops, ResolveConflict(o) PROVE ItemTurns
  <2>1. FinishItem(o, "cancelled", "none", FALSE) /\ item[o].status = "conflict"
    BY <1>9 DEF ResolveConflict
  <2>2. Finished(o, "cancelled")
    BY <2>1, FinishedItem DEF Statuses, Resolved
  <2> QED  BY <2>1, <2>2 DEF Finished, ItemTurns, Turn, SameFate, Cancelled, Resolved
<1>10. CASE Write \/ WriteFails \/ Index \/ IndexFails \/ ScanEnds \/ Catalog \/ Close \/ Exit
            \/ Crash
  BY <1>1, <1>10 DEF Write, WriteFails, Index, IndexFails, ScanEnds, Catalog, Close, Exit, Crash,
     ledgerVars
<1>11. CASE Record \/ RecordFails
  <2>1. /\ scan.at = "record" /\ scan'.at = "item"
        /\ FinishTx(scan.op) \/ UNCHANGED item
    BY <1>11 DEF Record, RecordFails, NextItem, ledgerVars, ScanOK
  <2> QED  BY <1>1, <2>1, RecordTurns
<1>12. ASSUME NEW t \in Tasks, CancelTask(t) PROVE ItemTurns
  <2>1. CancelTasks({t})
    BY <1>12 DEF CancelTask
  <2> QED  BY <2>1, CancelTurns
<1>13. ASSUME NEW th \in Threads, DeleteThread(th) PROVE ItemTurns
  <2>1. CancelTasks({t \in Tasks : ThreadOf[t] = th /\ task[t].state = "open"})
    BY <1>13 DEF DeleteThread
  <2> QED  BY <2>1, CancelTurns
<1>14. ASSUME NEW t \in Tasks, Retry(t) PROVE ItemTurns
  BY <1>14, RetryTurns
<1>15. ASSUME NEW t \in Tasks, Cleanup(t) PROVE ItemTurns
  <2>1. item' = [o \in Ops |-> IF TaskOf[o] = t THEN NoItem ELSE item[o]]
    BY <1>15 DEF Cleanup
  <2>2. item' \in [Ops -> ItemRows]
    BY <2>1, NoItemRow DEF ItemOK, ItemRows
  <2>3. ASSUME NEW o \in Ops PROVE Purged(o) \/ SameFate(o)
    <3>1. CASE TaskOf[o] # t
      BY <2>1, <3>1 DEF SameFate
    <3>2. CASE TaskOf[o] = t
      <4>1. item[o].status \in Resolved \cup {"none"}
        BY <1>15, <3>2 DEF Cleanup, OpsOf
      <4> QED  BY <2>1, <3>2, <4>1 DEF Purged
    <3> QED  BY <3>1, <3>2
  <2> QED  BY <2>2, <2>3 DEF ItemTurns, Turn
<1>16. ASSUME NEW o \in Ops, RetryDue(o) PROVE ItemTurns
  <2>1. item' = [item EXCEPT ![o].next = "due"]
    BY <1>16 DEF RetryDue
  <2>2. item' \in [Ops -> ItemRows]
    BY <2>1 DEF ItemOK, ItemRows
  <2>3. \A q \in Ops : SameFate(q)
    BY <2>1 DEF ItemOK, SameFate
  <2> QED  BY <2>2, <2>3 DEF ItemTurns, Turn
<1>17. CASE UNCHANGED vars
  BY <1>1, <1>17 DEF vars, ledgerVars
<1> QED
  BY <1>2, <1>3, <1>4, <1>5, <1>6, <1>7, <1>8, <1>9, <1>10, <1>11, <1>12, <1>13, <1>14, <1>15,
     <1>16, <1>17 DEF Next, Extract, Attempt, Operator, Time

-----------------------------------------------------------------------------
(* Types                                                                   *)

\* Threads are only deleted.
LEMMA ThreadsOKKeeps == IInv /\ [Next]_vars => ThreadsOK'
<1> SUFFICES ASSUME IInv, [Next]_vars PROVE ThreadsOK'
  OBVIOUS
<1> ThreadsOK
  BY DEF IInv, Types
<1>1. UNCHANGED threads => ThreadsOK'
  BY DEF ThreadsOK
<1>2. ASSUME NEW t \in Tasks, Schedule(t) \/ AskModel(t) \/ Prepare(t) \/ ExtractNothing(t) \/
    Register(t) \/ RegisterFails(t) \/ ScanRefused(t) \/ CancelTask(t) \/ Retry(t) \/
    Cleanup(t) \/ Expire(t) PROVE ThreadsOK'
  BY <1>2, <1>1 DEF Schedule, AskModel, Prepare, ExtractNothing, Register, RegisterTx,
      RegisterTx_AnyThread, RegisterFails, ScanRefused, CancelTask, Retry, Cleanup, Expire,
      ledgerVars
<1>3. ASSUME NEW by \in Tasks \cup {NoTask}, ScanBegin(by) \/ ScanFails(by) PROVE ThreadsOK'
  BY <1>3, <1>1 DEF ScanBegin, RecoverInflight, ScanFails, ledgerVars
<1>4. ASSUME NEW o \in Ops, Claim(o) \/ ClaimCloses(o) \/ ClaimSkips(o) \/ ResolveConflict(o)
    \/ RetryDue(o) PROVE ThreadsOK'
  BY <1>4, <1>1 DEF Claim, ClaimTx, ClaimCloses, FinishItem, ClaimSkips, ResolveConflict,
      RetryDue, ledgerVars
<1>5. CASE Write \/ WriteFails \/ Index \/ IndexFails \/ Record \/ RecordFails \/ ScanEnds \/
    Catalog \/ Close \/ Exit \/ Crash \/ Start
  BY <1>5, <1>1 DEF Write, WriteFails, Index, IndexFails, Record, FinishTx, FinishItem,
      RecordFails, ScanEnds, Catalog, Close, Exit, Crash, Start, RecoverInflight, ledgerVars
<1>6. CASE UNCHANGED vars
  BY <1>6, <1>1 DEF vars, ledgerVars
<1> USE MemoryAssumption DEF ThreadsOK, ledgerVars
<1>7. ASSUME NEW th \in Threads, DeleteThread(th) PROVE ThreadsOK'
  BY <1>7 DEF DeleteThread
<1> QED  BY <1>2, <1>3, <1>4, <1>5, <1>6, <1>7 DEF Next, Extract, Attempt, Operator, Time

\* What is up.
LEMMA UpOKKeeps == IInv /\ [Next]_vars => UpOK'
<1> SUFFICES ASSUME IInv, [Next]_vars PROVE UpOK'
  OBVIOUS
<1> UpOK
  BY DEF IInv, Types
<1>1. UNCHANGED up => UpOK'
  BY DEF UpOK
<1>2. ASSUME NEW t \in Tasks, Schedule(t) \/ AskModel(t) \/ Prepare(t) \/ ExtractNothing(t) \/
    Register(t) \/ RegisterFails(t) \/ ScanRefused(t) \/ CancelTask(t) \/ Retry(t) \/
    Cleanup(t) \/ Expire(t) PROVE UpOK'
  BY <1>2, <1>1 DEF Schedule, AskModel, Prepare, ExtractNothing, Register, RegisterFails,
      ScanRefused, CancelTask, Retry, Cleanup, Expire
<1>3. ASSUME NEW by \in Tasks \cup {NoTask}, ScanBegin(by) \/ ScanFails(by) PROVE UpOK'
  BY <1>3, <1>1 DEF ScanBegin, ScanFails
<1>4. ASSUME NEW o \in Ops, Claim(o) \/ ClaimCloses(o) \/ ClaimSkips(o) \/ ResolveConflict(o)
    \/ RetryDue(o) PROVE UpOK'
  BY <1>4, <1>1 DEF Claim, ClaimCloses, ClaimSkips, ResolveConflict, RetryDue
<1>5. CASE Write \/ WriteFails \/ Index \/ IndexFails \/ Record \/ RecordFails \/ ScanEnds \/
    Catalog
  BY <1>5, <1>1 DEF Write, WriteFails, Index, IndexFails, Record, RecordFails, ScanEnds, Catalog
<1>6. ASSUME NEW th \in Threads, DeleteThread(th) PROVE UpOK'
  BY <1>6, <1>1 DEF DeleteThread
<1>7. CASE UNCHANGED vars
  BY <1>7, <1>1 DEF vars
<1> USE MemoryAssumption DEF UpOK
<1>8. CASE Close \/ Exit
  BY <1>8 DEF Close, Exit
<1>9. CASE Crash
  BY <1>9 DEF Crash
<1>10. CASE Start
  BY <1>10 DEF Start
<1> QED  BY <1>2, <1>3, <1>4, <1>5, <1>6, <1>7, <1>8, <1>9, <1>10 DEF Next, Extract, Attempt,
    Operator, Time

\* A trouble is counted.
LEMMA Counted ==
  ASSUME UsedOK, Fault \/ Command \/ End
  PROVE  UsedOK' /\ used'.crash >= used.crash /\ (End => used'.crash > 0)
BY DEF UsedOK, Fault, Command, End, Trouble

\* No step takes back an end of the process.
UsedMove == UsedOK' /\ used'.crash >= used.crash

\* The counts.
LEMMA StepCounts == IInv /\ [Next]_vars => UsedMove
<1> SUFFICES ASSUME IInv, [Next]_vars PROVE UsedMove
  OBVIOUS
<1> UsedOK
  BY DEF IInv, Types
<1>1. UNCHANGED used => UsedMove
  BY DEF UsedMove, UsedOK
<1>2. ASSUME NEW t \in Tasks, Schedule(t) \/ AskModel(t) \/ Prepare(t) \/ ExtractNothing(t) \/
    Register(t) \/ ScanRefused(t) \/ Cleanup(t) \/ Expire(t) PROVE UsedMove
  BY <1>2, <1>1 DEF Schedule, AskModel, Prepare, ExtractNothing, Register, ScanRefused,
      Cleanup, Expire
<1>3. ASSUME NEW by \in Tasks \cup {NoTask}, ScanBegin(by) PROVE UsedMove
  BY <1>3, <1>1 DEF ScanBegin
<1>4. ASSUME NEW o \in Ops, Claim(o) \/ ClaimCloses(o) \/ RetryDue(o) PROVE UsedMove
  BY <1>4, <1>1 DEF Claim, ClaimCloses, RetryDue
<1>5. CASE Write \/ Index \/ Record \/ ScanEnds \/ Catalog \/ Exit \/ Start
  BY <1>5, <1>1 DEF Write, Index, Record, ScanEnds, Catalog, Exit, Start
<1>6. CASE UNCHANGED vars
  BY <1>6, <1>1 DEF vars
<1> USE MemoryAssumption DEF UsedOK, UsedMove
<1>7. ASSUME NEW t \in Tasks, RegisterFails(t) PROVE UsedMove
  <2>1. UNCHANGED used \/ Fault \/ Command \/ End
    BY <1>7 DEF RegisterFails
  <2> QED  BY <1>1, <2>1, Counted DEF UsedMove
<1>8. ASSUME NEW t \in Tasks, CancelTask(t) PROVE UsedMove
  <2>1. UNCHANGED used \/ Fault \/ Command \/ End
    BY <1>8 DEF CancelTask
  <2> QED  BY <1>1, <2>1, Counted DEF UsedMove
<1>9. ASSUME NEW t \in Tasks, Retry(t) PROVE UsedMove
  <2>1. UNCHANGED used \/ Fault \/ Command \/ End
    BY <1>9 DEF Retry
  <2> QED  BY <1>1, <2>1, Counted DEF UsedMove
<1>10. ASSUME NEW by \in Tasks \cup {NoTask}, ScanFails(by) PROVE UsedMove
  <2>1. UNCHANGED used \/ Fault \/ Command \/ End
    BY <1>10 DEF ScanFails
  <2> QED  BY <1>1, <2>1, Counted DEF UsedMove
<1>11. ASSUME NEW o \in Ops, ClaimSkips(o) PROVE UsedMove
  <2>1. UNCHANGED used \/ Fault \/ Command \/ End
    BY <1>11 DEF ClaimSkips
  <2> QED  BY <1>1, <2>1, Counted DEF UsedMove
<1>12. ASSUME NEW o \in Ops, ResolveConflict(o) PROVE UsedMove
  <2>1. UNCHANGED used \/ Fault \/ Command \/ End
    BY <1>12 DEF ResolveConflict
  <2> QED  BY <1>1, <2>1, Counted DEF UsedMove
<1>13. CASE WriteFails
  <2>1. UNCHANGED used \/ Fault \/ Command \/ End
    BY <1>13 DEF WriteFails
  <2> QED  BY <1>1, <2>1, Counted DEF UsedMove
<1>14. CASE IndexFails
  <2>1. UNCHANGED used \/ Fault \/ Command \/ End
    BY <1>14 DEF IndexFails
  <2> QED  BY <1>1, <2>1, Counted DEF UsedMove
<1>15. CASE RecordFails
  <2>1. UNCHANGED used \/ Fault \/ Command \/ End
    BY <1>15 DEF RecordFails
  <2> QED  BY <1>1, <2>1, Counted DEF UsedMove
<1>16. CASE Close
  <2>1. UNCHANGED used \/ Fault \/ Command \/ End
    BY <1>16 DEF Close
  <2> QED  BY <1>1, <2>1, Counted DEF UsedMove
<1>17. CASE Crash
  <2>1. UNCHANGED used \/ Fault \/ Command \/ End
    BY <1>17 DEF Crash
  <2> QED  BY <1>1, <2>1, Counted DEF UsedMove
<1>18. ASSUME NEW th \in Threads, DeleteThread(th) PROVE UsedMove
  <2>1. UNCHANGED used \/ Fault \/ Command \/ End
    BY <1>18 DEF DeleteThread
  <2> QED  BY <1>1, <2>1, Counted DEF UsedMove
<1> QED  BY <1>2, <1>3, <1>4, <1>5, <1>6, <1>7, <1>8, <1>9, <1>10, <1>11, <1>12, <1>13, <1>14,
    <1>15, <1>16, <1>17, <1>18 DEF Next, Extract, Attempt, Operator, Time

\* The transaction that ends an item keeps the rows of the tasks.
LEMMA FinishedTask ==
  ASSUME TaskOK, NEW o \in Ops, NEW status, NEW next, NEW manual,
         FinishItem(o, status, next, manual)
  PROVE  /\ TaskOK'
         /\ \A t \in Tasks : /\ task'[t].cancel = task[t].cancel
                             /\ task'[t].expired = task[t].expired
                             /\ task'[t].state \in {task[t].state, "closed"}
<1> DEFINE t == TaskOf[o]
           new == Summarize(t, item', task[t])
<1>1. t \in Tasks /\ task \in [Tasks -> TaskRows]
  BY MemoryAssumption DEF TaskOK, TaskRows
<1>2. task' = [task EXCEPT ![t] = new]
  BY <1>1 DEF FinishItem
<1>3. new \in TaskRows /\ new.cancel = task[t].cancel /\ new.expired = task[t].expired
      /\ new.state \in {task[t].state, "closed"}
  BY <1>1, SummaryRow
<1> HIDE DEF t, new
<1>4. task' \in [Tasks -> TaskRows]
  BY <1>1, <1>2, <1>3
<1>5. \A q \in Tasks : task'[q] = IF q = t THEN new ELSE task[q]
  BY <1>1, <1>2
<1> QED  BY <1>3, <1>4, <1>5 DEF TaskOK, TaskRows

\* One row changed.
LEMMA ChangedTask ==
  ASSUME TaskOK, NEW t \in Tasks, NEW row \in TaskRows, task' = [task EXCEPT ![t] = row]
  PROVE  TaskOK' /\ \A q \in Tasks : task'[q] = IF q = t THEN row ELSE task[q]
<1>1. task \in [Tasks -> TaskRows]
  BY DEF TaskOK, TaskRows
<1>2. task' \in [Tasks -> TaskRows]
  BY <1>1
<1> QED  BY <1>1, <1>2 DEF TaskOK, TaskRows

\* Whether an attempt ends is told by its one transaction.
LEMMA FinishIsFinishItem ==
  ASSUME NEW o, FinishTx(o)
  PROVE  \E status, next, manual : FinishItem(o, status, next, manual)
<1>1. CASE task[TaskOf[o]].cancel /\ AfterAttempt(o)[1] \notin {"success", "verifying"}
  BY <1>1 DEF FinishTx
<1>2. CASE ~(task[TaskOf[o]].cancel /\ AfterAttempt(o)[1] \notin {"success", "verifying"})
  BY <1>2 DEF FinishTx
<1> QED  BY <1>1, <1>2

\* Cancelling keeps the rows of the tasks.
LEMMA CancelledTasks ==
  ASSUME TaskOK, NEW ts, CancelTasks(ts)
  PROVE  /\ TaskOK'
         /\ \A t \in Tasks : IF t \in ts THEN /\ task'[t].cancel
                                              /\ task'[t].state \in {task[t].state, "closed"}
                                         ELSE task'[t] = task[t]
<1> DEFINE row(t) == [task[t] EXCEPT !.cancel = TRUE]
           new(t) == Summarize(t, item', row(t))
<1>1. task' = [t \in Tasks |-> IF t \in ts THEN new(t) ELSE task[t]]
  BY DEF CancelTasks
<1>2. \A t \in Tasks : task[t] \in TaskRows
  BY DEF TaskOK, TaskRows
<1>3. ASSUME NEW t \in Tasks
      PROVE  row(t) \in TaskRows /\ row(t).cancel /\ row(t).state = task[t].state
  BY <1>2 DEF TaskRows
<1> HIDE DEF row
<1>4. ASSUME NEW t \in Tasks
      PROVE  new(t) \in TaskRows /\ new(t).cancel /\ new(t).state \in {task[t].state, "closed"}
  BY <1>3, SummaryRow
<1> HIDE DEF new
<1>5. task' \in [Tasks -> TaskRows]
  BY <1>1, <1>2, <1>4
<1>6. TaskOK'
  BY <1>5 DEF TaskOK, TaskRows
<1> QED  BY <1>1, <1>4, <1>6

\* The rows of the tasks.
LEMMA TaskOKKeeps == IInv /\ [Next]_vars => TaskOK'
<1> SUFFICES ASSUME IInv, [Next]_vars PROVE TaskOK'
  OBVIOUS
<1> TaskOK /\ ScanOK
  BY DEF IInv, Types
<1>1. UNCHANGED task => TaskOK'
  BY DEF TaskOK
<1>2. ASSUME NEW t \in Tasks, Schedule(t) \/ AskModel(t) \/ Prepare(t) \/ ExtractNothing(t) \/
    ScanRefused(t) PROVE TaskOK'
  BY <1>2, <1>1 DEF Schedule, AskModel, Prepare, ExtractNothing, ScanRefused, ledgerVars
<1>3. ASSUME NEW by \in Tasks \cup {NoTask}, ScanBegin(by) \/ ScanFails(by) PROVE TaskOK'
  BY <1>3, <1>1 DEF ScanBegin, RecoverInflight, ScanFails, ledgerVars
<1>4. ASSUME NEW o \in Ops, Claim(o) \/ ClaimSkips(o) \/ RetryDue(o) PROVE TaskOK'
  BY <1>4, <1>1 DEF Claim, ClaimTx, ClaimSkips, RetryDue, ledgerVars
<1>5. CASE Write \/ WriteFails \/ Index \/ IndexFails \/ ScanEnds \/ Catalog \/ Close \/ Exit
    \/ Crash \/ Start
  BY <1>5, <1>1 DEF Write, WriteFails, Index, IndexFails, ScanEnds, Catalog, Close, Exit,
      Crash, Start, RecoverInflight, ledgerVars
<1>6. CASE UNCHANGED vars
  BY <1>6, <1>1 DEF vars, ledgerVars
<1> USE MemoryAssumption DEF TaskOK, ScanOK, ledgerVars
<1>7. ASSUME NEW t \in Tasks, Register(t) PROVE TaskOK'
  <2> DEFINE row == [task[t] EXCEPT !.state = "open"]
  <2>1. task' = [task EXCEPT ![t] = row]
    BY <1>7 DEF Register, RegisterTx, RegisterTx_AnyThread, TaskOK
  <2>2. task[t] \in TaskRows
    BY DEF TaskOK, TaskRows
  <2>3. row \in TaskRows /\ row.cancel = task[t].cancel
    BY <2>2 DEF TaskRows
  <2> HIDE DEF row
  <2> QED  BY <2>1, <2>3, ChangedTask
<1>8. ASSUME NEW t \in Tasks, RegisterFails(t) PROVE TaskOK'
  <2>1. UNCHANGED task \/ task' = [task EXCEPT ![t].state = "open"]
    BY <1>8 DEF RegisterFails, RegisterTx, RegisterTx_AnyThread
  <2> QED  BY <1>1, <2>1
<1>9. ASSUME NEW t \in Tasks, CancelTask(t) PROVE TaskOK'
  <2>1. CancelTasks({t})
    BY <1>9 DEF CancelTask
  <2> QED  BY <2>1, CancelledTasks
<1>10. ASSUME NEW t \in Tasks, Retry(t) PROVE TaskOK'
  <2> DEFINE row == [task[t] EXCEPT !.state = "open", !.expired = FALSE]
  <2>1. task' = [task EXCEPT ![t] = row]
    BY <1>10 DEF Retry, TaskOK
  <2>2. task[t] \in TaskRows
    BY DEF TaskOK, TaskRows
  <2>3. row \in TaskRows /\ row.cancel = task[t].cancel
    BY <2>2 DEF TaskRows
  <2> HIDE DEF row
  <2> QED  BY <2>1, <2>3, ChangedTask
<1>11. ASSUME NEW t \in Tasks, Cleanup(t) PROVE TaskOK'
  <2> DEFINE row == [task[t] EXCEPT !.state = "purged"]
  <2>1. task' = [task EXCEPT ![t] = row]
    BY <1>11 DEF Cleanup, TaskOK
  <2>2. task[t] \in TaskRows
    BY DEF TaskOK, TaskRows
  <2>3. row \in TaskRows /\ row.cancel = task[t].cancel
    BY <2>2 DEF TaskRows
  <2> HIDE DEF row
  <2> QED  BY <2>1, <2>3, ChangedTask
<1>12. ASSUME NEW t \in Tasks, Expire(t) PROVE TaskOK'
  <2> DEFINE row == [task[t] EXCEPT !.expired = TRUE]
  <2>1. task' = [task EXCEPT ![t] = row]
    BY <1>12 DEF Expire, TaskOK
  <2>2. task[t] \in TaskRows
    BY DEF TaskOK, TaskRows
  <2>3. row \in TaskRows /\ row.cancel = task[t].cancel
    BY <2>2 DEF TaskRows
  <2> HIDE DEF row
  <2> QED  BY <2>1, <2>3, ChangedTask
<1>13. ASSUME NEW o \in Ops, ClaimCloses(o) PROVE TaskOK'
  <2>1. \E status, next, manual : FinishItem(o, status, next, manual)
    BY <1>13 DEF ClaimCloses
  <2> QED  BY <2>1, FinishedTask
<1>14. ASSUME NEW o \in Ops, ResolveConflict(o) PROVE TaskOK'
  <2>1. \E status, next, manual : FinishItem(o, status, next, manual)
    BY <1>14 DEF ResolveConflict
  <2> QED  BY <2>1, FinishedTask
<1>15. CASE Record
  <2>1. FinishTx(scan.op) \/ UNCHANGED task
    BY <1>15 DEF Record, ledgerVars
  <2>2. scan.op \in Ops
    BY <1>15 DEF Record, ScanOK
  <2> QED  BY <1>1, <2>1, <2>2, FinishedTask, FinishIsFinishItem
<1>16. CASE RecordFails
  <2>1. FinishTx(scan.op) \/ UNCHANGED task
    BY <1>16 DEF RecordFails, ledgerVars
  <2>2. scan.op \in Ops
    BY <1>16 DEF RecordFails, ScanOK
  <2> QED  BY <1>1, <2>1, <2>2, FinishedTask, FinishIsFinishItem
<1>17. ASSUME NEW th \in Threads, DeleteThread(th) PROVE TaskOK'
  <2>1. CancelTasks({t \in Tasks : ThreadOf[t] = th /\ task[t].state = "open"})
    BY <1>17 DEF DeleteThread
  <2> QED  BY <2>1, CancelledTasks
<1> QED  BY <1>2, <1>3, <1>4, <1>5, <1>6, <1>7, <1>8, <1>9, <1>10, <1>11, <1>12, <1>13, <1>14,
    <1>15, <1>16, <1>17 DEF Next, Extract, Attempt, Operator, Time

-----------------------------------------------------------------------------
(* Files                                                                   *)

\* What any step may make of the files: an attempt puts its version in place of the one it was
\* prepared against, or makes what is in place durable; an end of the process may take back
\* versions that are not durable yet.
Kept == UNCHANGED <<log, synced>>
Replaced ==
    LET o == scan.op IN
    /\ scan.at = "write" /\ ~Applied(o) /\ Matches(o) /\ synced' = synced
    /\ scan'.at # "write"
    /\ Len(log'[Target[o]]) = Len(log[Target[o]]) + 1
    /\ log'[Target[o]][Len(log[Target[o]]) + 1] = o
    /\ \A m \in Memories : m # Target[o] => log'[m] = log[m]
    /\ \A i \in 1..Len(log[Target[o]]) : log'[Target[o]][i] = log[Target[o]][i]
Confirmed ==
    /\ scan.at = "index" /\ log' = log
    /\ synced' = [synced EXCEPT ![Target[scan.op]] = Len(log[Target[scan.op]])]
Cut ==
    /\ used'.crash > 0 /\ scan'.at = "free" /\ synced' = synced
    /\ \A m \in Memories : /\ Len(log'[m]) \in synced[m]..Len(log[m])
                           /\ \A i \in 1..Len(log'[m]) : log'[m][i] = log[m][i]

DiskChange == FilesOK' /\ (Kept \/ (UNCHANGED item /\ (Replaced \/ Confirmed \/ Cut)))

\* A version put in its place.
LEMMA PutChange ==
  ASSUME FilesOK, NEW o \in Ops, o = scan.op, scan.at = "write", ~Applied(o), Matches(o),
         scan'.at # "write", Put(Target[o], o), UNCHANGED item
  PROVE  DiskChange /\ Current(Target[o])' = o
<1> DEFINE m == Target[o]
           s == log[m]
<1>1. m \in Memories /\ s \in Seq(Ops \cup {Original}) /\ o \in Ops \cup {Original}
  BY MemoryAssumption DEF FilesOK
<1>2. /\ Append(s, o) \in Seq(Ops \cup {Original}) /\ Len(Append(s, o)) = Len(s) + 1
      /\ Append(s, o)[Len(s) + 1] = o /\ Append(s, o) # <<>>
      /\ \A i \in 1..Len(s) : Append(s, o)[i] = s[i]
  BY <1>1, AppendProperties
<1>3. log' = [log EXCEPT ![m] = Append(s, o)] /\ synced' = synced /\ index' = "stale"
  BY DEF Put
<1>4. /\ log' \in [Memories -> Seq(Ops \cup {Original})] /\ log'[m] = Append(s, o)
      /\ \A q \in Memories : q # m => log'[q] = log[q]
  BY <1>1, <1>2, <1>3 DEF FilesOK
<1>5. ASSUME NEW q \in Memories PROVE synced'[q] <= Len(log'[q])
  <2>1. Len(s) \in Nat /\ synced[q] \in Nat /\ synced[q] <= Len(log[q]) /\ synced'[q] = synced[q]
    BY <1>1, <1>3 DEF FilesOK
  <2> QED  BY <1>2, <1>4, <2>1
<1>6. FilesOK'
  <2>1. synced' \in [Memories -> Nat] /\ index' \in {"stale", "new", "safe"}
    BY <1>3 DEF FilesOK
  <2> QED  BY <1>4, <1>5, <2>1 DEF FilesOK
<1>7. Current(m)' = o
  <2>1. log'[m] # <<>> /\ Len(log'[m]) = Len(s) + 1
    BY <1>1, <1>2, <1>4
  <2> QED  BY <1>2, <2>1, <1>4 DEF Current
<1>8. Replaced
  BY <1>2, <1>3, <1>4 DEF Replaced
<1> QED  BY <1>6, <1>7, <1>8 DEF DiskChange

\* A body made durable.
LEMMA ConfirmChange ==
  ASSUME FilesOK, ScanOK, scan.at = "index", Confirm(Target[scan.op]), log' = log,
         index' \in {"stale", "new", "safe"}, UNCHANGED item
  PROVE  DiskChange /\ synced'[Target[scan.op]] = Len(log[Target[scan.op]])
<1> DEFINE m == Target[scan.op]
<1>1. m \in Memories /\ log[m] \in Seq(Ops \cup {Original}) /\ Len(log[m]) \in Nat
  BY MemoryAssumption DEF FilesOK, ScanOK
<1>2. synced' = [synced EXCEPT ![m] = Len(log[m])]
  BY DEF Confirm
<1> HIDE DEF m
<1>3. synced' \in [Memories -> Nat] /\ synced'[m] = Len(log[m])
      /\ \A q \in Memories : synced'[q] = IF q = m THEN Len(log[m]) ELSE synced[q]
  BY <1>1, <1>2 DEF FilesOK
<1>4. FilesOK'
  BY <1>1, <1>3 DEF FilesOK
<1> QED  BY <1>2, <1>3, <1>4 DEF DiskChange, Confirmed, m

\* A loss of power.
LEMMA CutChange ==
  ASSUME FilesOK, LosePower, used'.crash > 0, scan'.at = "free", UNCHANGED item
  PROVE  FilesOK' /\ Cut
<1>1. ASSUME NEW m \in Memories
      PROVE  /\ log'[m] \in Seq(Ops \cup {Original}) /\ Len(log'[m]) \in synced[m]..Len(log[m])
             /\ \A i \in 1..Len(log'[m]) : log'[m][i] = log[m][i]
  <2>1. log[m] \in Seq(Ops \cup {Original}) /\ Len(log[m]) \in Nat /\ synced[m] \in Nat
        /\ synced[m] <= Len(log[m])
    BY DEF FilesOK
  <2>2. PICK n \in synced[m]..Len(log[m]) : log'[m] = SubSeq(log[m], 1, n)
    BY DEF LosePower, Leftover
  <2>3. n \in Nat /\ n <= Len(log[m])
    BY <2>1, <2>2
  <2>4. \A i \in 1..n : i \in 1..Len(log[m])
    BY <2>1, <2>3
  <2>5. /\ SubSeq(log[m], 1, n) \in Seq(Ops \cup {Original}) /\ Len(SubSeq(log[m], 1, n)) = n
        /\ \A i \in 1..n : SubSeq(log[m], 1, n)[i] = log[m][i]
    BY <2>1, <2>3, <2>4, SubSeqProperties
  <2> QED  BY <2>2, <2>5
<1>2. DOMAIN log' = Memories /\ log' = [m \in DOMAIN log' |-> log'[m]]
  BY DEF LosePower
<1>3. log' \in [Memories -> Seq(Ops \cup {Original})]
  BY <1>1, <1>2
<1>4. synced' = synced /\ index' \in {"stale", "new", "safe"}
  BY DEF LosePower, FilesOK
<1>5. \A m \in Memories : synced[m] <= Len(log'[m])
  BY <1>1 DEF FilesOK
<1> QED  BY <1>1, <1>3, <1>4, <1>5 DEF FilesOK, Cut

\* Any step makes of the files what DiskChange says.
LEMMA StepDisk == IInv /\ [Next]_vars => DiskChange
<1> SUFFICES ASSUME IInv, [Next]_vars PROVE DiskChange
  OBVIOUS
<1> FilesOK /\ ScanOK /\ UsedOK
  BY DEF IInv, Types
<1>1. UNCHANGED fileVars => DiskChange
  BY DEF DiskChange, Kept, FilesOK, fileVars
<1>2. ASSUME NEW t \in Tasks,
             \/ Schedule(t) \/ Extract(t) \/ CancelTask(t) \/ Retry(t) \/ Cleanup(t) \/ Expire(t)
      PROVE  DiskChange
  BY <1>1, <1>2 DEF Schedule, Extract, AskModel, Prepare, ExtractNothing, Register, RegisterFails,
     ScanRefused, CancelTask, Retry, Cleanup, Expire
<1>3. ASSUME NEW by \in Tasks \cup {NoTask}, ScanBegin(by) \/ ScanFails(by) PROVE DiskChange
  BY <1>1, <1>3 DEF ScanBegin, ScanFails
<1>4. ASSUME NEW o \in Ops,
             Claim(o) \/ ClaimCloses(o) \/ ClaimSkips(o) \/ ResolveConflict(o) \/ RetryDue(o)
      PROVE  DiskChange
  BY <1>1, <1>4 DEF Claim, ClaimCloses, ClaimSkips, ResolveConflict, RetryDue
<1>5. CASE Record \/ RecordFails \/ ScanEnds \/ Close \/ Exit \/ Start
  BY <1>1, <1>5 DEF Record, RecordFails, ScanEnds, Close, Exit, Start
<1>6. CASE Write \/ WriteFails
  <2>1. scan.op \in Ops /\ scan.at = "write" /\ UNCHANGED item
    BY <1>6 DEF Write, WriteFails, ScanOK, ledgerVars
  <2>2. \/ UNCHANGED fileVars
        \/ ~Applied(scan.op) /\ Matches(scan.op) /\ Put(Target[scan.op], scan.op)
    BY <1>6 DEF Write, WriteFails
  <2>3. (\E out : Ends(out)) \/ scan' = [scan EXCEPT !.at = "index"]
    BY <1>6 DEF Write, WriteFails
  <2>4. scan'.at # "write"
    BY <2>3 DEF Ends, ScanOK
  <2> QED  BY <1>1, <2>1, <2>2, <2>4, PutChange
<1>7. CASE Index \/ IndexFails
  <2>1. scan.op \in Ops /\ scan.at = "index" /\ UNCHANGED item /\ log' = log
    BY <1>7 DEF Index, IndexFails, ScanOK, ledgerVars
  <2>2. index' \in {"stale", "new", "safe"}
    BY <1>7 DEF Index, IndexFails, FilesOK
  <2>3. synced' = synced \/ Confirm(Target[scan.op])
    BY <1>7 DEF Index, IndexFails
  <2>4. CASE synced' = synced
    BY <2>1, <2>2, <2>4 DEF DiskChange, Kept, FilesOK
  <2> QED  BY <2>1, <2>2, <2>3, <2>4, ConfirmChange
<1>8. CASE Catalog
  BY <1>8 DEF Catalog, DiskChange, Kept, FilesOK
<1>9. CASE Crash
  <2>1. LosePower /\ End /\ UNCHANGED item /\ scan'.at = "free"
    BY <1>9 DEF Crash, ledgerVars, Free
  <2>2. used'.crash > 0
    BY <2>1, Counted
  <2>3. FilesOK' /\ Cut
    BY <2>1, <2>2, CutChange
  <2> QED  BY <2>1, <2>3 DEF DiskChange
<1>10. ASSUME NEW th \in Threads, DeleteThread(th) PROVE DiskChange
  BY <1>1, <1>10 DEF DeleteThread
<1>11. CASE UNCHANGED vars
  BY <1>1, <1>11 DEF vars
<1> QED
  BY <1>2, <1>3, <1>4, <1>5, <1>6, <1>7, <1>8, <1>9, <1>10, <1>11 DEF Next, Attempt, Operator, Time

-----------------------------------------------------------------------------
(* Attempts                                                                *)

\* Where any step may take an attempt.
Rests == UNCHANGED scan
Leaves == scan'.at \in {"free", "item"}
Begins ==
    LET o == scan'.op IN
    /\ scan.at = "item" /\ scan'.at = "write" /\ UNCHANGED log
    /\ item[o].status \in Waiting /\ item'[o].status = "running"
    /\ scan'.verify <=> item[o].status = "verifying"
Places ==
    /\ scan.at = "write" /\ scan'.at = "index" /\ scan'.op = scan.op
    /\ Current(Target[scan.op])' = scan.op /\ UNCHANGED item
Comes ==
    LET o == scan.op IN
    /\ scan.at \in {"write", "index"} /\ scan'.at = "record" /\ UNCHANGED item
    /\ scan'.op = o /\ scan'.allow = scan.allow /\ scan'.verify = scan.verify
    /\ scan'.out.kind = "saved" =>
           scan.at = "index" /\ log' = log /\ synced'[Target[o]] = Len(log[Target[o]])
    /\ scan'.out.kind \in {"unapplied", "invalid", "conflict"} =>
           scan.at = "write" /\ log' = log /\ ~Applied(o)
    /\ scan'.out.kind \in {"unapplied", "invalid"} => Matches(o)
    /\ scan'.out.kind = "error" => scan'.out.uncertain \/ (scan.at = "write" /\ log' = log)

ScanMove == ScanOK' /\ (Rests \/ Leaves \/ Begins \/ Places \/ Comes)

\* An attempt comes to an end.
LEMMA EndsScan ==
  ASSUME ScanOK, NEW out \in Outcomes, scan.at \in {"write", "index"}, Ends(out)
  PROVE  /\ ScanOK' /\ scan'.at = "record" /\ scan'.out = out
         /\ scan'.op = scan.op /\ scan'.allow = scan.allow /\ scan'.verify = scan.verify
BY DEF ScanOK, Ends

\* What an attempt can come to, by name.
LEMMA NamedOutcomes ==
  /\ \A u, x \in BOOLEAN : /\ Error(u, x) \in Outcomes /\ Error(u, x).kind = "error"
                           /\ Error(u, x).uncertain = u
  /\ Saved \in Outcomes /\ Saved.kind = "saved"
  /\ Unapplied \in Outcomes /\ Unapplied.kind = "unapplied"
  /\ Conflict \in Outcomes /\ Conflict.kind = "conflict"
  /\ Invalid \in Outcomes /\ Invalid.kind = "invalid"
BY DEF Error, Outcomes, Saved, Unapplied, Conflict, Invalid

\* A round goes to its next item.
LEMMA NextScan ==
  ASSUME ScanOK, NEW o, scan' = NextItem(o) PROVE ScanOK' /\ scan'.at = "item"
<1>1. Saved \in Outcomes
  BY NamedOutcomes
<1>2. scan.due \ {o} \in SUBSET Ops
  BY DEF ScanOK
<1> QED  BY <1>1, <1>2 DEF ScanOK, NextItem

\* A round begins with what is due, an attempt with what is claimed.
LEMMA ClaimScan ==
  ASSUME ScanOK, ItemOK, NEW o \in Ops, NEW allow \in BOOLEAN, NEW verify \in BOOLEAN,
         scan' = [scan EXCEPT !.at = "write", !.op = o, !.verify = verify, !.allow = allow]
  PROVE  ScanOK' /\ scan'.at = "write" /\ scan'.op = o /\ scan'.verify = verify
BY DEF ScanOK

\* Any step moves an attempt as ScanMove says.
LEMMA StepScan == IInv /\ [Next]_vars => ScanMove
<1> SUFFICES ASSUME IInv, [Next]_vars PROVE ScanMove
  OBVIOUS
<1> ItemOK /\ FilesOK /\ ScanOK
  BY DEF IInv, Types
<1>1. UNCHANGED scan => ScanMove
  BY DEF ScanMove, Rests, ScanOK
<1>2. ASSUME NEW t \in Tasks,
             \/ Schedule(t) \/ Extract(t) \/ CancelTask(t) \/ Retry(t) \/ Cleanup(t) \/ Expire(t)
      PROVE  ScanMove
  BY <1>1, <1>2 DEF Schedule, Extract, AskModel, Prepare, ExtractNothing, Register, RegisterFails,
     ScanRefused, CancelTask, Retry, Cleanup, Expire
<1>3. ASSUME NEW o \in Ops, ResolveConflict(o) \/ RetryDue(o) PROVE ScanMove
  BY <1>1, <1>3 DEF ResolveConflict, RetryDue
<1>4. CASE Catalog \/ Close \/ Exit \/ Start
  BY <1>1, <1>4 DEF Catalog, Close, Exit, Start
<1>5. ASSUME NEW by \in Tasks \cup {NoTask}, ScanBegin(by) \/ ScanFails(by) PROVE ScanMove
  <2>1. CASE ScanBegin(by)
    <3> DEFINE due == {o \in Ops : Due(o)'}
    <3>1. scan' = [scan EXCEPT !.at = "item", !.by = by, !.due = due]
      BY <2>1 DEF ScanBegin
    <3>2. due \in SUBSET Ops
      OBVIOUS
    <3> HIDE DEF due
    <3>3. ScanOK' /\ scan'.at = "item"
      BY <3>1, <3>2 DEF ScanOK
    <3> QED  BY <3>3 DEF ScanMove, Leaves
  <2>2. CASE ScanFails(by)
    BY <1>1, <2>2 DEF ScanFails
  <2> QED  BY <1>5, <2>1, <2>2
<1>6. ASSUME NEW o \in Ops, Claim(o) PROVE ScanMove
  <2> DEFINE verify == item[o].status = "verifying"
  <2>1. scan' = [scan EXCEPT !.at = "write", !.op = o, !.verify = verify, !.allow = Allowed(o)]
    BY <1>6 DEF Claim
  <2>2. Allowed(o) \in BOOLEAN /\ verify \in BOOLEAN
    BY DEF Allowed
  <2>3. ScanOK' /\ scan'.at = "write" /\ scan'.op = o /\ scan'.verify = verify
    <3> HIDE DEF verify
    <3> QED  BY <2>1, <2>2, ClaimScan
  <2>4. item' = [item EXCEPT ![o].status = "running", ![o].attempts = @ + 1]
    BY <1>6 DEF Claim, ClaimTx
  <2>5. item'[o].status = "running"
    BY <2>4 DEF ItemOK
  <2>6. scan.at = "item" /\ UNCHANGED log /\ item[o].status \in Waiting
    BY <1>6 DEF Claim, fileVars, Due
  <2> QED  BY <2>3, <2>5, <2>6 DEF ScanMove, Begins
<1>7. ASSUME NEW o \in Ops, ClaimCloses(o) \/ ClaimSkips(o) PROVE ScanMove
  BY <1>7, NextScan DEF ClaimCloses, ClaimSkips, ScanMove, Leaves
<1>8. CASE Record \/ RecordFails
  BY <1>8, NextScan DEF Record, RecordFails, ScanMove, Leaves
<1>9. CASE ScanEnds \/ Crash
  <2>1. scan' = Free
    BY <1>9 DEF ScanEnds, Crash
  <2>2. Free \in [at : {"free"}, by : {NoTask}, due : SUBSET Ops, op : {NoOp},
                  allow : BOOLEAN, verify : BOOLEAN, out : Outcomes]
    BY NamedOutcomes DEF Free
  <2> QED  BY <2>1, <2>2 DEF ScanMove, Leaves, ScanOK
<1>10. CASE Write \/ WriteFails
  <2> DEFINE o == scan.op
  <2>1. scan.at = "write" /\ o \in Ops /\ UNCHANGED item
    BY <1>10 DEF Write, WriteFails, ScanOK, ledgerVars
  <2> HIDE DEF o
  <2>2. CASE /\ scan' = [scan EXCEPT !.at = "index"]
             /\ \/ Applied(o) /\ UNCHANGED fileVars
                \/ ~Applied(o) /\ Matches(o) /\ Put(Target[o], o)
    <3>1. ScanOK' /\ scan'.at = "index" /\ scan'.op = o
      BY <2>1, <2>2 DEF ScanOK, o
    <3>2. Current(Target[o])' = o
      BY <2>1, <2>2, <3>1, PutChange DEF o, Applied, Current, fileVars
    <3> QED  BY <2>1, <3>1, <3>2 DEF ScanMove, Places, o
  <2>3. CASE \E u, x \in BOOLEAN : Ends(Error(u, x)) /\ (u \/ UNCHANGED fileVars)
    <3>1. PICK u, x \in BOOLEAN : Ends(Error(u, x)) /\ (u \/ UNCHANGED fileVars)
      BY <2>3
    <3>2. Error(u, x) \in Outcomes /\ Error(u, x).kind = "error" /\ Error(u, x).uncertain = u
      BY NamedOutcomes
    <3>3. /\ ScanOK' /\ scan'.at = "record" /\ scan'.out = Error(u, x)
          /\ scan'.op = o /\ scan'.allow = scan.allow /\ scan'.verify = scan.verify
      BY <2>1, <3>1, <3>2, EndsScan DEF o
    <3> QED  BY <2>1, <3>1, <3>2, <3>3 DEF ScanMove, Comes, fileVars, o
  <2>4. CASE \E out \in {Conflict, Unapplied, Invalid} :
               /\ Ends(out) /\ ~Applied(o) /\ UNCHANGED fileVars
               /\ out # Conflict => Matches(o)
    <3>1. PICK out \in {Conflict, Unapplied, Invalid} :
            /\ Ends(out) /\ ~Applied(o) /\ UNCHANGED fileVars
            /\ out # Conflict => Matches(o)
      BY <2>4
    <3>2. out \in Outcomes /\ out.kind \in {"unapplied", "invalid", "conflict"}
          /\ (out.kind # "conflict" => out # Conflict)
      BY NamedOutcomes
    <3>3. /\ ScanOK' /\ scan'.at = "record" /\ scan'.out = out
          /\ scan'.op = o /\ scan'.allow = scan.allow /\ scan'.verify = scan.verify
      BY <2>1, <3>1, <3>2, EndsScan DEF o
    <3> QED  BY <2>1, <3>1, <3>2, <3>3 DEF ScanMove, Comes, fileVars, o
  <2>5. CASE Write
    BY <2>2, <2>4, <2>5, NamedOutcomes DEF Write, o
  <2>6. CASE WriteFails
    BY <2>3, <2>4, <2>6, NamedOutcomes DEF WriteFails, o
  <2> QED  BY <1>10, <2>5, <2>6
<1>11. CASE Index \/ IndexFails
  <2> DEFINE o == scan.op
  <2>1. scan.at = "index" /\ o \in Ops /\ UNCHANGED item /\ UNCHANGED log
    BY <1>11 DEF Index, IndexFails, ScanOK, ledgerVars
  <2> HIDE DEF o
  <2>2. CASE \E x \in BOOLEAN : Ends(Error(TRUE, x))
    <3>1. PICK x \in BOOLEAN : Ends(Error(TRUE, x))
      BY <2>2
    <3>2. /\ Error(TRUE, x) \in Outcomes /\ Error(TRUE, x).kind = "error"
          /\ Error(TRUE, x).uncertain
      BY NamedOutcomes
    <3>3. /\ ScanOK' /\ scan'.at = "record" /\ scan'.out = Error(TRUE, x)
          /\ scan'.op = o /\ scan'.allow = scan.allow /\ scan'.verify = scan.verify
      BY <2>1, <3>1, <3>2, EndsScan DEF o
    <3> QED  BY <2>1, <3>2, <3>3 DEF ScanMove, Comes, o
  <2>3. CASE Ends(Saved) /\ Confirm(Target[o]) /\ index' = "safe"
    <3>1. synced'[Target[o]] = Len(log[Target[o]])
      BY <2>1, <2>3, ConfirmChange DEF o
    <3>2. /\ ScanOK' /\ scan'.at = "record" /\ scan'.out = Saved
          /\ scan'.op = o /\ scan'.allow = scan.allow /\ scan'.verify = scan.verify
      BY <2>1, <2>3, NamedOutcomes, EndsScan DEF o
    <3> QED  BY <2>1, <3>1, <3>2, NamedOutcomes DEF ScanMove, Comes, o
  <2>4. CASE Index
    BY <2>2, <2>3, <2>4 DEF Index, o
  <2>5. CASE IndexFails
    BY <2>2, <2>5 DEF IndexFails
  <2> QED  BY <1>11, <2>4, <2>5
<1>12. ASSUME NEW th \in Threads, DeleteThread(th) PROVE ScanMove
  BY <1>1, <1>12 DEF DeleteThread
<1>13. CASE UNCHANGED vars
  BY <1>1, <1>13 DEF vars
<1> QED
  BY <1>2, <1>3, <1>4, <1>5, <1>6, <1>7, <1>8, <1>9, <1>10, <1>11, <1>12, <1>13
     DEF Next, Attempt, Operator, Time

-----------------------------------------------------------------------------
(* Extractions                                                             *)

\* An extraction does not go back before its registration, and proposes for its own task only.
EarlyStays == \A t \in Tasks : job'[t] \in Early => job[t] \in Early
JobMove == JobOK' /\ PlanIsOwn' /\ EarlyStays

\* The version in place is a version.
LEMMA CurrentVersion ==
  ASSUME FilesOK, NEW m \in Memories PROVE Current(m) \in Versions
<1>1. log[m] \in Seq(Ops \cup {Original})
  BY DEF FilesOK
<1>2. CASE log[m] = <<>>
  BY <1>2 DEF Current, Versions
<1>3. CASE log[m] # <<>>
  <2>1. Len(log[m]) \in DOMAIN log[m]
    BY <1>1, <1>3, EmptySeq
  <2>2. log[m][Len(log[m])] \in Ops \cup {Original}
    BY <1>1, <2>1
  <2> QED  BY <1>3, <2>2 DEF Current, Versions
<1> QED  BY <1>2, <1>3

\* An extraction is over.
LEMMA LeaveMove ==
  ASSUME JobOK, PlanIsOwn, NEW t \in Tasks, LeaveQueue(t) PROVE JobMove
<1>1. queue' \in Seq(Tasks)
  <2>1. CASE queue # <<>>
    BY <2>1, HeadTailProperties DEF LeaveQueue, JobOK
  <2>2. CASE queue = <<>>
    BY <2>2 DEF LeaveQueue, JobOK
  <2> QED  BY <2>1, <2>2
<1>2. NothingSeen \in [Memories -> Versions]
  BY DEF NothingSeen, Versions
<1>3. /\ job' = [job EXCEPT ![t] = "over"]
      /\ seen' = [seen EXCEPT ![t] = NothingSeen]
      /\ plan' = [plan EXCEPT ![t] = {}]
  BY DEF LeaveQueue
<1>4. JobOK'
  BY <1>1, <1>2, <1>3 DEF JobOK
<1>5. PlanIsOwn'
  BY <1>3 DEF JobOK, PlanIsOwn
<1>6. EarlyStays
  BY <1>3 DEF JobOK, EarlyStays, Early
<1> QED  BY <1>4, <1>5, <1>6 DEF JobMove

\* All extractions end with the process.
LEMMA ForgetMove ==
  ASSUME JobOK, PlanIsOwn, ForgetJobs PROVE JobMove
<1>1. NothingSeen \in [Memories -> Versions] /\ <<>> \in Seq(Tasks)
  BY EmptySeq DEF NothingSeen, Versions
<1>2. JobOK'
  BY <1>1 DEF JobOK, ForgetJobs
<1>3. PlanIsOwn'
  BY DEF ForgetJobs, PlanIsOwn
<1>4. EarlyStays
  BY DEF JobOK, EarlyStays, Early, ForgetJobs
<1> QED  BY <1>2, <1>3, <1>4 DEF JobMove

\* Any step moves the extractions as JobMove says.
LEMMA StepJobs == IInv /\ [Next]_vars => JobMove
<1> SUFFICES ASSUME IInv, [Next]_vars PROVE JobMove
  OBVIOUS
<1> JobOK /\ FilesOK /\ ScanOK /\ PlanIsOwn
  BY DEF IInv, Types
<1>1. UNCHANGED <<job, plan, queue, seen>> => JobMove
  BY DEF JobMove, JobOK, PlanIsOwn, EarlyStays
<1>2. ASSUME NEW t \in Tasks, CancelTask(t) \/ Retry(t) \/ Cleanup(t) \/ Expire(t) PROVE JobMove
  BY <1>2, <1>1 DEF CancelTask, Retry, Cleanup, Expire, jobVars
<1>3. ASSUME NEW by \in Tasks \cup {NoTask}, ScanBegin(by) PROVE JobMove
  BY <1>3, <1>1 DEF ScanBegin, jobVars
<1>4. ASSUME NEW o \in Ops, Claim(o) \/ ClaimCloses(o) \/ ClaimSkips(o) \/ ResolveConflict(o)
    \/ RetryDue(o) PROVE JobMove
  BY <1>4, <1>1 DEF Claim, ClaimCloses, ClaimSkips, ResolveConflict, RetryDue, jobVars
<1>5. CASE Write \/ WriteFails \/ Index \/ IndexFails \/ Record \/ RecordFails \/ Catalog \/
    Close \/ Start
  BY <1>5, <1>1 DEF Write, WriteFails, Index, IndexFails, Record, RecordFails, Catalog, Close,
      Start, jobVars
<1>6. ASSUME NEW th \in Threads, DeleteThread(th) PROVE JobMove
  BY <1>6, <1>1 DEF DeleteThread, jobVars
<1>7. CASE UNCHANGED vars
  BY <1>7, <1>1 DEF vars, jobVars
<1> USE MemoryAssumption DEF JobOK, FilesOK, ScanOK, PlanIsOwn, JobMove, jobVars
<1>8. ASSUME NEW t \in Tasks, Schedule(t) PROVE JobMove
  <2>1. Append(queue, t) \in Seq(Tasks)
    BY AppendProperties DEF JobOK
  <2>2. /\ job[t] = "none" /\ job' = [job EXCEPT ![t] = "queued"]
        /\ queue' = Append(queue, t) /\ UNCHANGED <<seen, plan>>
    BY <1>8 DEF Schedule
  <2> QED  BY <2>1, <2>2 DEF JobMove, JobOK, PlanIsOwn, EarlyStays, Early
<1>9. ASSUME NEW t \in Tasks, AskModel(t) PROVE JobMove
  <2>1. [m \in Memories |-> Current(m)] \in [Memories -> Versions]
    BY CurrentVersion
  <2>2. /\ job[t] = "queued" /\ job' = [job EXCEPT ![t] = "asking"]
        /\ seen' = [seen EXCEPT ![t] = [m \in Memories |-> Current(m)]]
        /\ UNCHANGED <<queue, plan>>
    BY <1>9 DEF AskModel
  <2> QED  BY <2>1, <2>2 DEF JobMove, JobOK, PlanIsOwn, EarlyStays, Early
<1>10. ASSUME NEW t \in Tasks, Prepare(t) PROVE JobMove
  <2>1. PICK ops \in SUBSET OpsOf(t) : plan' = [plan EXCEPT ![t] = ops]
    BY <1>10 DEF Prepare
  <2>2. ops \in SUBSET Ops /\ \A o \in ops : TaskOf[o] = t
    BY DEF OpsOf
  <2>3. job[t] = "asking" /\ job' = [job EXCEPT ![t] = "prepared"] /\ UNCHANGED <<queue, seen>>
    BY <1>10 DEF Prepare
  <2>4. JobOK'
    BY <2>1, <2>2, <2>3 DEF JobOK
  <2>5. PlanIsOwn'
    BY <2>1, <2>2 DEF PlanIsOwn, JobOK
  <2> QED  BY <2>3, <2>4, <2>5 DEF JobMove, JobOK, EarlyStays, Early
<1>11. ASSUME NEW t \in Tasks, ExtractNothing(t) PROVE JobMove
  BY <1>11, LeaveMove DEF ExtractNothing
<1>12. ASSUME NEW t \in Tasks, Register(t) PROVE JobMove
  <2>1. job' = [job EXCEPT ![t] = "scan"] /\ UNCHANGED <<queue, seen, plan>>
    BY <1>12 DEF Register
  <2> QED  BY <2>1 DEF JobMove, JobOK, PlanIsOwn, EarlyStays, Early
<1>13. ASSUME NEW t \in Tasks, RegisterFails(t) PROVE JobMove
  BY <1>13, LeaveMove DEF RegisterFails
<1>14. ASSUME NEW t \in Tasks, ScanRefused(t) PROVE JobMove
  BY <1>14, LeaveMove DEF ScanRefused
<1>15. ASSUME NEW by \in Tasks \cup {NoTask}, ScanFails(by) PROVE JobMove
  <2>1. UNCHANGED jobVars \/ (by \in Tasks /\ LeaveQueue(by))
    BY <1>15 DEF ScanFails
  <2> QED  BY <1>1, <2>1, LeaveMove DEF jobVars
<1>16. CASE ScanEnds
  <2>1. UNCHANGED jobVars \/ (scan.by \in Tasks /\ LeaveQueue(scan.by))
    BY <1>16 DEF ScanEnds, ScanOK
  <2> QED  BY <1>1, <2>1, LeaveMove DEF jobVars
<1>17. CASE Exit
  BY <1>17, ForgetMove DEF Exit
<1>18. CASE Crash
  BY <1>18, ForgetMove DEF Crash
<1> QED  BY <1>2, <1>3, <1>4, <1>5, <1>6, <1>7, <1>8, <1>9, <1>10, <1>11, <1>12, <1>13, <1>14,
    <1>15, <1>16, <1>17, <1>18 DEF Next, Extract, Attempt, Operator, Time

-----------------------------------------------------------------------------
(* What the steps preserve                                                 *)

\* A version comes into a body by being put there, and does not leave it once it is durable.
LEMMA Growth ==
  ASSUME FilesOK, ScanOK, DiskChange, NEW o \in Ops
  PROVE  /\ InLog(o)' => InLog(o) \/ (Replaced /\ o = scan.op)
         /\ OnDisk(o) => OnDisk(o)'
<1> DEFINE m == Target[o]
<1>1. m \in Memories
  BY MemoryAssumption
<1>2. /\ log[m] \in Seq(Ops \cup {Original}) /\ log'[m] \in Seq(Ops \cup {Original})
      /\ Len(log[m]) \in Nat /\ Len(log'[m]) \in Nat
      /\ DOMAIN log[m] = 1..Len(log[m]) /\ DOMAIN log'[m] = 1..Len(log'[m])
      /\ synced[m] \in Nat /\ synced[m] <= Len(log[m])
  BY <1>1 DEF FilesOK, DiskChange
<1>3. CASE Kept
  BY <1>3 DEF Kept, InLog, OnDisk
<1>4. CASE Confirmed
  <2>1. scan.op \in Ops /\ Target[scan.op] \in Memories /\ log' = log
    BY <1>4, MemoryAssumption DEF Confirmed, ScanOK
  <2>2. synced'[m] \in {synced[m], Len(log[m])}
    BY <1>1, <1>4, <2>1 DEF Confirmed, FilesOK
  <2>3. \A i \in 1..synced[m] : i \in 1..synced'[m]
    BY <1>2, <2>2
  <2> QED  BY <2>1, <2>3 DEF InLog, OnDisk
<1>5. CASE Cut
  <2>1. /\ synced'[m] = synced[m] /\ Len(log'[m]) \in synced[m]..Len(log[m])
        /\ \A i \in 1..Len(log'[m]) : log'[m][i] = log[m][i]
    BY <1>1, <1>5 DEF Cut
  <2>2. \A i \in 1..Len(log'[m]) : i \in 1..Len(log[m])
    BY <1>2, <2>1
  <2>3. \A i \in 1..synced[m] : i \in 1..Len(log'[m])
    BY <1>2, <2>1
  <2> QED  BY <1>2, <2>1, <2>2, <2>3 DEF InLog, OnDisk
<1>6. CASE Replaced
  <2>1. CASE m # Target[scan.op]
    BY <1>1, <1>6, <2>1 DEF Replaced, InLog, OnDisk
  <2>2. CASE m = Target[scan.op]
    <3>1. /\ Len(log'[m]) = Len(log[m]) + 1 /\ log'[m][Len(log[m]) + 1] = scan.op
          /\ \A i \in 1..Len(log[m]) : log'[m][i] = log[m][i]
          /\ synced' = synced
      BY <1>6, <2>2 DEF Replaced
    <3>2. \A i \in 1..Len(log'[m]) : i \in 1..Len(log[m]) \/ i = Len(log[m]) + 1
      BY <1>2, <3>1
    <3>3. InLog(o)' => InLog(o) \/ o = scan.op
      BY <1>2, <3>1, <3>2 DEF InLog
    <3>4. \A i \in 1..synced[m] : i \in 1..Len(log[m])
      BY <1>2
    <3>5. OnDisk(o) => OnDisk(o)'
      BY <3>1, <3>4 DEF OnDisk
    <3> QED  BY <1>6, <3>3, <3>5
  <2> QED  BY <2>1, <2>2
<1> QED  BY <1>3, <1>4, <1>5, <1>6 DEF DiskChange

\* An item that is prepared against the version in place, and is not it, has never been in the
\* body: that is what makes it safe to save it again, or to call it not saved.
LEMMA NeverThere ==
  ASSUME FilesOK, Located, HistoryIsLinear, NEW o \in Ops, item[o].status # "none",
         ~Applied(o), Matches(o)
  PROVE  ~InLog(o)
<1> DEFINE m == Target[o]
           n == Len(log[m])
<1> SUFFICES ASSUME NEW i \in DOMAIN log[m], log[m][i] = o PROVE FALSE
  BY DEF InLog
<1>1. /\ m \in Memories /\ log[m] \in Seq(Ops \cup {Original}) /\ n \in Nat
      /\ DOMAIN log[m] = 1..n /\ o # Original
  BY MemoryAssumption DEF FilesOK
<1>2. i \in Nat /\ 1 <= i /\ i <= n /\ log[m] # <<>>
  BY <1>1
<1>3. n \in DOMAIN log[m] /\ log[m][n] \in Ops \cup {Original} /\ Current(m) = log[m][n]
  BY <1>1, <1>2 DEF Current
<1>4. item[o].expected = log[m][n]
  BY <1>3 DEF Matches
<1>5. item[o].expected = IF i = 1 THEN NoOp ELSE log[m][i - 1]
  BY <1>1 DEF HistoryIsLinear
<1>6. i # 1
  BY <1>3, <1>4, <1>5, MemoryAssumption
<1>7. log[m][i - 1] = log[m][n] /\ i - 1 \in DOMAIN log[m] /\ i - 1 # n
  BY <1>1, <1>2, <1>4, <1>5, <1>6
<1>8. CASE log[m][n] \in Ops
  BY <1>1, <1>3, <1>7, <1>8 DEF HistoryIsLinear
<1>9. CASE log[m][n] = Original
  <2>1. n = 1 /\ i - 1 = 1
    BY <1>1, <1>3, <1>7, <1>9 DEF Located
  <2> QED  BY <1>7, <2>1
<1> QED  BY <1>3, <1>8, <1>9

\* Whose version is put in its place is in the ledger, and was in no body.
LEMMA Putting ==
  ASSUME IInv, Replaced
  PROVE  /\ scan.op \in Ops /\ item[scan.op].status = "running"
         /\ ~InLog(scan.op) /\ item[scan.op].expected = Current(Target[scan.op])
<1>1. scan.op \in Ops /\ item[scan.op].status = "running"
  BY DEF IInv, Types, ScanOK, Claimed, Replaced
<1>2. ~Applied(scan.op) /\ Matches(scan.op)
  BY DEF Replaced
<1> QED  BY <1>1, <1>2, NeverThere DEF IInv, Types, Matches

\* Before its task is registered an operation is nowhere.
LEMMA UnregisteredKeeps == IInv /\ [Next]_vars => Unregistered'
<1> SUFFICES ASSUME IInv, [Next]_vars, NEW o \in Ops, job'[TaskOf[o]] \in Early
             PROVE  item'[o].status = "none" /\ ~InLog(o)'
  BY DEF Unregistered
<1>1. ItemTurns /\ DiskChange /\ JobMove
  BY StepTurns, StepDisk, StepJobs
<1>2. TaskOf[o] \in Tasks /\ job[TaskOf[o]] \in Early
  BY <1>1, MemoryAssumption DEF JobMove, EarlyStays
<1>3. item[o].status = "none" /\ ~InLog(o)
  BY <1>2 DEF IInv, Unregistered
<1>4. ~InLog(o)'
  <2>1. Replaced => o # scan.op
    BY <1>3, Putting
  <2> QED  BY <1>1, <1>3, <2>1, Growth DEF IInv, Types
<1>5. item'[o].status = "none"
  <2>1. ~Registered(o) /\ ~Moved(o) /\ ~Cancelled(o)
    BY <1>3 DEF Registered, Moved, Cancelled, Waiting
  <2>2. ~Recorded(o)
    BY <1>3 DEF Recorded, IInv, Claimed
  <2>3. Turn(o)
    BY <1>1 DEF ItemTurns
  <2> QED  BY <1>3, <2>1, <2>2, <2>3 DEF Turn, SameFate, Purged, NoItem
<1> QED  BY <1>4, <1>5

\* A version is in the body of its memory.
LEMMA LocatedKeeps == IInv /\ [Next]_vars => Located'
<1> SUFFICES ASSUME IInv, [Next]_vars, NEW m \in Memories, NEW i \in DOMAIN log'[m]
             PROVE  /\ log'[m][i] \in Ops => Target[log'[m][i]] = m
                    /\ log'[m][i] = Original => i = 1
  BY DEF Located
<1>1. DiskChange /\ Located /\ FilesOK /\ ScanOK
  BY StepDisk DEF IInv, Types
<1>2. /\ log'[m] \in Seq(Ops \cup {Original}) /\ log[m] \in Seq(Ops \cup {Original})
      /\ DOMAIN log'[m] = 1..Len(log'[m]) /\ DOMAIN log[m] = 1..Len(log[m])
      /\ Len(log[m]) \in Nat
  BY <1>1 DEF DiskChange, FilesOK
<1>3. CASE i \in DOMAIN log[m] /\ log'[m][i] = log[m][i]
  BY <1>1, <1>3 DEF Located
<1>4. CASE Kept \/ Confirmed
  <2>1. log' = log
    BY <1>4 DEF Kept, Confirmed
  <2> QED  BY <1>3, <2>1
<1>5. CASE Cut
  <2>1. i \in 1..Len(log'[m]) /\ Len(log'[m]) \in synced[m]..Len(log[m]) /\ log'[m][i] = log[m][i]
    BY <1>2, <1>5 DEF Cut
  <2>2. i \in 1..Len(log[m])
    BY <1>1, <1>2, <2>1 DEF FilesOK
  <2> QED  BY <1>2, <1>3, <2>1, <2>2
<1>6. CASE Replaced
  <2>1. CASE m # Target[scan.op]
    <3>1. log'[m] = log[m]
      BY <1>6, <2>1 DEF Replaced
    <3> QED  BY <1>3, <3>1
  <2>2. CASE m = Target[scan.op]
    <3>1. /\ Len(log'[m]) = Len(log[m]) + 1 /\ log'[m][Len(log[m]) + 1] = scan.op
          /\ \A j \in 1..Len(log[m]) : log'[m][j] = log[m][j]
      BY <1>6, <2>2 DEF Replaced
    <3>2. i \in 1..Len(log[m]) \/ i = Len(log[m]) + 1
      BY <1>2, <3>1
    <3>3. CASE i \in 1..Len(log[m])
      BY <1>2, <1>3, <3>1, <3>3
    <3>4. CASE i = Len(log[m]) + 1
      <4>1. log'[m][i] = scan.op /\ scan.op \in Ops
        BY <1>6, <3>1, <3>4, Putting
      <4> QED  BY <2>2, <4>1, MemoryAssumption
    <3> QED  BY <3>2, <3>3, <3>4
  <2> QED  BY <2>1, <2>2
<1> QED  BY <1>1, <1>4, <1>5, <1>6 DEF DiskChange

\* Without a process there is no attempt.
LEMMA IdleKeeps == IInv /\ [Next]_vars => Idle'
<1> SUFFICES ASSUME IInv, [Next]_vars PROVE Idle'
  OBVIOUS
<1> UpOK /\ ScanOK /\ Idle
  BY DEF IInv, Types
<1>1. UNCHANGED <<scan, up>> => Idle'
  BY DEF Idle
<1>2. ASSUME NEW t \in Tasks, Schedule(t) \/ AskModel(t) \/ Prepare(t) \/ ExtractNothing(t) \/
    Register(t) \/ RegisterFails(t) \/ ScanRefused(t) \/ CancelTask(t) \/ Retry(t) \/
    Cleanup(t) \/ Expire(t) PROVE Idle'
  BY <1>2, <1>1 DEF Schedule, AskModel, Prepare, ExtractNothing, Register, RegisterFails,
      ScanRefused, CancelTask, Retry, Cleanup, Expire
<1>3. ASSUME NEW by \in Tasks \cup {NoTask}, ScanFails(by) PROVE Idle'
  BY <1>3, <1>1 DEF ScanFails
<1>4. ASSUME NEW o \in Ops, ResolveConflict(o) \/ RetryDue(o) PROVE Idle'
  BY <1>4, <1>1 DEF ResolveConflict, RetryDue
<1>5. CASE Catalog
  BY <1>5, <1>1 DEF Catalog
<1>6. ASSUME NEW th \in Threads, DeleteThread(th) PROVE Idle'
  BY <1>6, <1>1 DEF DeleteThread
<1>7. CASE UNCHANGED vars
  BY <1>7, <1>1 DEF vars
<1> USE MemoryAssumption DEF UpOK, ScanOK, Idle, Free
<1>8. ASSUME NEW by \in Tasks \cup {NoTask}, ScanBegin(by) PROVE Idle'
  BY <1>8 DEF ScanBegin
<1>9. ASSUME NEW o \in Ops, Claim(o) \/ ClaimCloses(o) \/ ClaimSkips(o) PROVE Idle'
  BY <1>9 DEF Claim, ClaimCloses, ClaimSkips
<1>10. CASE Write \/ WriteFails \/ Index
  BY <1>10 DEF Write, WriteFails, Index
<1>11. CASE IndexFails \/ Record \/ RecordFails
  BY <1>11 DEF IndexFails, Record, RecordFails
<1>12. CASE ScanEnds \/ Close \/ Exit
  BY <1>12 DEF ScanEnds, Close, Exit
<1>13. CASE Crash \/ Start
  BY <1>13 DEF Crash, Start
<1> QED  BY <1>2, <1>3, <1>4, <1>5, <1>6, <1>7, <1>8, <1>9, <1>10, <1>11, <1>12, <1>13 DEF
    Next, Extract, Attempt, Operator, Time

\* What is attempted is marked as running.
LEMMA ClaimedKeeps == IInv /\ [Next]_vars => Claimed'
<1> SUFFICES ASSUME IInv, [Next]_vars PROVE Claimed'
  OBVIOUS
<1>1. ItemTurns /\ ScanMove /\ ScanOK /\ Claimed
  BY StepTurns, StepScan DEF IInv, Types
<1>2. CASE Rests
  <2>1. SUFFICES ASSUME scan.at \in {"write", "index", "record"}
                 PROVE  item'[scan.op].status = "running"
    BY <1>2 DEF Rests, Claimed
  <2>2. scan.op \in Ops /\ item[scan.op].status = "running"
    BY <1>1, <2>1 DEF ScanOK, Claimed
  <2>3. Turn(scan.op)
    BY <1>1, <2>2 DEF ItemTurns
  <2>4. ~Recorded(scan.op)
    BY <1>2 DEF Recorded, Rests
  <2> QED
    BY <2>1, <2>2, <2>3, <2>4
       DEF Turn, SameFate, Registered, Moved, Cancelled, Purged, Waiting, Resolved
<1>3. CASE Leaves
  BY <1>3 DEF Leaves, Claimed
<1>4. CASE Begins
  BY <1>4 DEF Begins, Claimed
<1>5. CASE Places \/ Comes
  BY <1>1, <1>5 DEF Places, Comes, Claimed
<1> QED  BY <1>1, <1>2, <1>3, <1>4, <1>5 DEF ScanMove

\* What an attempt has put in place stays while it confirms it.
LEMMA ApplyingKeeps == IInv /\ [Next]_vars => Applying'
<1> SUFFICES ASSUME IInv, [Next]_vars, scan'.at = "index"
             PROVE  Current(Target[scan.op])' = scan'.op
  BY DEF Applying, Current
<1>1. DiskChange /\ ScanMove /\ Applying
  BY StepDisk, StepScan DEF IInv
<1>2. CASE Rests
  <2>1. scan.at = "index" /\ scan'.op = scan.op
    BY <1>2 DEF Rests
  <2>2. log' = log
    BY <1>1, <1>2, <2>1 DEF DiskChange, Kept, Replaced, Confirmed, Cut
  <2> QED  BY <1>1, <2>1, <2>2 DEF Applying, Current
<1>3. CASE Places
  BY <1>3 DEF Places, Current
<1>4. ~Leaves /\ ~Begins /\ ~Comes
  BY DEF Leaves, Begins, Comes
<1> QED  BY <1>1, <1>2, <1>3, <1>4 DEF ScanMove

\* What may already be in the body is saved as what is to be verified.
LEMMA VerifyingKeeps == IInv /\ [Next]_vars => Verifying'
<1> SUFFICES ASSUME IInv, [Next]_vars, scan'.at = "write", NEW o, o = scan'.op, InLog(o)'
             PROVE  scan'.verify
  BY DEF Verifying, InLog
<1>1. DiskChange /\ ScanMove /\ Verifying /\ UnsavedIsTrue
  BY StepDisk, StepScan DEF IInv
<1>2. CASE Rests
  <2>1. scan.at = "write" /\ scan.op = o /\ scan'.verify = scan.verify
    BY <1>2 DEF Rests
  <2>2. log' = log
    BY <1>1, <2>1 DEF DiskChange, Kept, Replaced, Confirmed, Cut
  <2> QED  BY <1>1, <2>1, <2>2 DEF Verifying, InLog
<1>3. CASE Begins
  <2>1. /\ o \in Ops /\ item[o].status \in Waiting /\ log' = log
        /\ scan'.verify <=> item[o].status = "verifying"
    BY <1>1, <1>3 DEF Begins, ScanMove, ScanOK
  <2>2. InLog(o)
    BY <2>1 DEF InLog
  <2> QED  BY <1>1, <2>1, <2>2 DEF UnsavedIsTrue, InLog, Waiting
<1>4. ~Leaves /\ ~Places /\ ~Comes
  BY DEF Leaves, Places, Comes
<1> QED  BY <1>1, <1>2, <1>3, <1>4 DEF ScanMove

\* What an attempt is about to record is true.
LEMMA RecordingKeeps == IInv /\ [Next]_vars => Recording'
<1> SUFFICES ASSUME IInv, [Next]_vars, scan'.at = "record" PROVE Recording'
  BY DEF Recording
<1>1. DiskChange /\ ScanMove /\ Recording /\ Verifying /\ FilesOK /\ ScanOK
  BY StepDisk, StepScan DEF IInv, Types
<1>2. CASE Rests
  <2>1. scan.at = "record" /\ scan' = scan
    BY <1>2 DEF Rests
  <2>2. log' = log /\ synced' = synced
    BY <1>1, <2>1 DEF DiskChange, Kept, Replaced, Confirmed, Cut
  <2> QED  BY <1>1, <2>1, <2>2 DEF Recording, InLog, OnDisk, Current, Uncertain
<1>3. CASE Comes
  <2>1. PICK o \in Ops :
          /\ scan.at \in {"write", "index"} /\ scan.op = o
          /\ scan'.op = o /\ scan'.allow = scan.allow /\ scan'.verify = scan.verify
    BY <1>1, <1>3 DEF Comes, ScanOK
  <2>2. item[o].status = "running" /\ Located /\ HistoryIsLinear
    BY <2>1 DEF IInv, Claimed
  <2>3. log' = log => (InLog(o)' <=> InLog(o))
    BY DEF InLog
  <2>4. scan'.out.kind = "saved" => OnDisk(o)'
    <3>1. SUFFICES ASSUME scan'.out.kind = "saved" PROVE OnDisk(o)'
      OBVIOUS
    <3>2. scan.at = "index" /\ log' = log /\ synced'[Target[o]] = Len(log[Target[o]])
      BY <1>3, <2>1, <3>1 DEF Comes
    <3>3. Current(Target[o]) = o
      BY <2>1, <3>2 DEF IInv, Applying
    <3>4. /\ log[Target[o]] \in Seq(Ops \cup {Original})
          /\ log[Target[o]] # <<>> /\ log[Target[o]][Len(log[Target[o]])] = o
      BY <1>1, <2>1, <3>3, MemoryAssumption DEF Current, FilesOK
    <3>5. Len(log[Target[o]]) \in 1..Len(log[Target[o]])
      BY <3>4, EmptySeq
    <3> QED  BY <3>2, <3>4, <3>5 DEF OnDisk
  <2>5. scan'.out.kind \in {"unapplied", "invalid"} => ~InLog(o)'
    <3>1. SUFFICES ASSUME scan'.out.kind \in {"unapplied", "invalid"} PROVE ~InLog(o)'
      OBVIOUS
    <3>2. log' = log /\ ~Applied(o) /\ Matches(o)
      BY <1>3, <2>1, <3>1 DEF Comes
    <3>3. ~InLog(o)
      BY <1>1, <2>1, <2>2, <3>2, NeverThere
    <3> QED  BY <2>3, <3>2, <3>3
  <2>6. scan'.out.kind = "conflict" => Current(Target[o])' # o
    BY <1>3, <2>1 DEF Comes, Applied, Current
  <2>7. scan'.out.kind = "error" /\ ~Uncertain(o)' => ~InLog(o)'
    <3>1. SUFFICES ASSUME scan'.out.kind = "error", ~scan'.out.uncertain, ~scan'.verify
                   PROVE  ~InLog(o)'
      BY DEF Uncertain
    <3>2. scan.at = "write" /\ log' = log
      BY <1>3, <2>1, <3>1 DEF Comes
    <3>3. ~InLog(o)
      BY <1>1, <2>1, <3>1, <3>2 DEF Verifying
    <3> QED  BY <2>3, <3>2, <3>3
  <2> QED  BY <2>1, <2>4, <2>5, <2>6, <2>7 DEF Recording, InLog, OnDisk, Current, Uncertain
<1>4. ~Leaves /\ ~Places /\ ~Begins
  BY DEF Leaves, Places, Begins
<1> QED  BY <1>1, <1>2, <1>3, <1>4 DEF ScanMove

\* What is saved stays on disk.
LEMMA SuccessKeeps == IInv /\ [Next]_vars => SuccessIsOnDisk'
<1> SUFFICES ASSUME IInv, [Next]_vars, NEW o \in Ops, item'[o].status = "success" PROVE OnDisk(o)'
  BY DEF SuccessIsOnDisk, OnDisk
<1>1. ItemTurns /\ DiskChange /\ FilesOK /\ ScanOK
  BY StepTurns, StepDisk DEF IInv, Types
<1>2. Turn(o)
  BY <1>1 DEF ItemTurns
<1>3. OnDisk(o)
  <2>1. item[o].status = "success" \/ Recorded(o)
    BY <1>2 DEF Turn, SameFate, Registered, Moved, Cancelled, Purged, NoItem
  <2>2. CASE item[o].status = "success"
    BY <2>2 DEF IInv, SuccessIsOnDisk, OnDisk
  <2>3. CASE Recorded(o)
    BY <2>3 DEF Recorded, Told
  <2> QED  BY <2>1, <2>2, <2>3
<1> QED  BY <1>1, <1>3, Growth

\* What is called not saved is not saved.
LEMMA UnsavedKeeps == IInv /\ [Next]_vars => UnsavedIsTrue'
<1> SUFFICES ASSUME IInv, [Next]_vars, NEW o \in Ops
             PROVE  /\ item'[o].status \in {"pending", "waiting", "failed"} => ~InLog(o)'
                    /\ item'[o].status \in {"cancelled", "conflict"} /\ used'.crash = 0 =>
                           Current(Target[o])' # o
  BY DEF UnsavedIsTrue, InLog, Current
<1>1. ItemTurns /\ DiskChange /\ UsedMove /\ FilesOK /\ ScanOK /\ UsedOK /\ UnsavedIsTrue
  BY StepTurns, StepDisk, StepCounts DEF IInv, Types
<1>2. Turn(o)
  BY <1>1 DEF ItemTurns
<1>3. ~InLog(o) => Current(Target[o]) # o
  BY <1>1, CurrentIsInLog DEF FilesOK
<1>4. item'[o].status \in {"pending", "waiting", "failed"} => ~InLog(o)
  <2>1. item[o].status \in {"pending", "waiting", "failed"} => ~InLog(o)
    BY <1>1 DEF UnsavedIsTrue, InLog
  <2>2. CASE Registered(o)
    BY <2>2, MemoryAssumption DEF Registered, IInv, Unregistered, Early
  <2>3. CASE Recorded(o)
    BY <2>3 DEF Recorded, Told
  <2>4. CASE SameFate(o) \/ Moved(o) \/ Cancelled(o) \/ Purged(o)
    BY <2>1, <2>4 DEF SameFate, Moved, Cancelled, Purged, NoItem, Waiting
  <2> QED  BY <1>2, <2>2, <2>3, <2>4 DEF Turn
<1>5. item'[o].status \in {"cancelled", "conflict"} /\ used'.crash = 0 => Current(Target[o]) # o
  <2>1. SUFFICES ASSUME item'[o].status \in {"cancelled", "conflict"}, used'.crash = 0
                 PROVE  Current(Target[o]) # o
    OBVIOUS
  <2>2. used.crash = 0
    BY <1>1, <2>1 DEF UsedMove, UsedOK
  <2>3. item[o].status \in {"cancelled", "conflict"} => Current(Target[o]) # o
    BY <1>1, <2>2 DEF UnsavedIsTrue
  <2>4. item[o].status \in {"pending", "waiting", "failed"} => Current(Target[o]) # o
    BY <1>1, <1>3 DEF UnsavedIsTrue, InLog
  <2>5. CASE Recorded(o)
    BY <2>1, <2>5 DEF Recorded, Told
  <2>6. CASE SameFate(o) \/ Registered(o) \/ Moved(o) \/ Cancelled(o) \/ Purged(o)
    BY <2>1, <2>3, <2>4, <2>6 DEF SameFate, Registered, Moved, Cancelled, Purged, NoItem
  <2> QED  BY <1>2, <2>5, <2>6 DEF Turn
<1>6. Replaced /\ UNCHANGED item =>
          item'[scan.op].status = "running" /\ scan.op \in Ops
  BY Putting
<1>7. item'[o].status \in {"pending", "waiting", "failed"} => ~InLog(o)'
  <2>1. InLog(o)' => InLog(o) \/ (Replaced /\ o = scan.op)
    BY <1>1, Growth
  <2>2. Replaced => UNCHANGED item \/ Kept
    BY <1>1 DEF DiskChange
  <2>3. Kept => (InLog(o)' <=> InLog(o))
    BY DEF Kept, InLog
  <2> QED  BY <1>4, <1>6, <2>1, <2>2, <2>3
<1>8. ASSUME item'[o].status \in {"cancelled", "conflict"}, used'.crash = 0
      PROVE  Current(Target[o])' # o
  <2>1. CASE Kept \/ Confirmed
    <3>1. log' = log
      BY <2>1 DEF Kept, Confirmed
    <3> QED  BY <1>5, <1>8, <3>1 DEF Current
  <2>2. CASE Cut
    BY <1>8, <2>2 DEF Cut
  <2>3. CASE Replaced /\ UNCHANGED item
    <3>1. o # scan.op
      BY <1>6, <1>8, <2>3
    <3>2. CASE Target[o] # Target[scan.op]
      <4>1. log'[Target[o]] = log[Target[o]]
        BY <2>3, <3>2, MemoryAssumption DEF Replaced
      <4> QED  BY <1>5, <1>8, <4>1 DEF Current
    <3>3. CASE Target[o] = Target[scan.op]
      <4>1. /\ Len(log'[Target[o]]) = Len(log[Target[o]]) + 1
            /\ log'[Target[o]][Len(log[Target[o]]) + 1] = scan.op
        BY <2>3, <3>3 DEF Replaced
      <4>2. log'[Target[o]] # <<>>
        BY <1>1, <4>1, MemoryAssumption DEF FilesOK
      <4> QED  BY <3>1, <4>1, <4>2 DEF Current
    <3> QED  BY <3>2, <3>3
  <2> QED  BY <1>1, <2>1, <2>2, <2>3 DEF DiskChange
<1> QED  BY <1>7, <1>8

\* What was prepared against a version stays so as long as it is in the ledger.
LEMMA ExpectedStays ==
  ASSUME IInv, ItemTurns, NEW o \in Ops, InLog(o), item'[o].status # "none"
  PROVE  item[o].status # "none" /\ item'[o].expected = item[o].expected
<1>1. Turn(o)
  BY DEF ItemTurns
<1>2. ~Registered(o)
  BY MemoryAssumption DEF Registered, IInv, Unregistered, Early
<1>3. CASE SameFate(o) \/ Moved(o) \/ Cancelled(o) \/ Purged(o)
  BY <1>3 DEF SameFate, Moved, Cancelled, Purged, NoItem, Waiting
<1>4. CASE Recorded(o)
  BY <1>4 DEF Recorded, IInv, Claimed
<1> QED  BY <1>1, <1>2, <1>3, <1>4 DEF Turn

\* What was there before the step is in its place as HistoryIsLinear says.
Linear(m, i) ==
    LET o == log[m][i] IN
    o \in Ops =>
        /\ \A j \in DOMAIN log[m] : log[m][j] = o => i = j
        /\ item[o].status # "none" => item[o].expected = IF i = 1 THEN NoOp ELSE log[m][i - 1]

\* A body that has not grown is still linear.
LEMMA LinearStays ==
  ASSUME IInv, ItemTurns, NEW m \in Memories, log'[m] \in Seq(Ops \cup {Original}),
         Len(log'[m]) <= Len(log[m]), \A i \in 1..Len(log'[m]) : log'[m][i] = log[m][i],
         NEW i \in DOMAIN log'[m]
  PROVE  Linear(m, i)'
<1>1. /\ log[m] \in Seq(Ops \cup {Original}) /\ DOMAIN log[m] = 1..Len(log[m])
      /\ DOMAIN log'[m] = 1..Len(log'[m]) /\ Len(log[m]) \in Nat /\ Len(log'[m]) \in Nat
  BY DEF IInv, Types, FilesOK
<1>2. \A j \in DOMAIN log'[m] : j \in DOMAIN log[m] /\ log'[m][j] = log[m][j]
  BY <1>1
<1>3. i # 1 => i - 1 \in DOMAIN log'[m]
  BY <1>1
<1> SUFFICES ASSUME NEW o \in Ops, o = log[m][i] PROVE Linear(m, i)'
  BY <1>2 DEF Linear
<1>4. i \in DOMAIN log[m] /\ log'[m][i] = o
  BY <1>2
<1>5. Linear(m, i)
  BY <1>4 DEF Linear, IInv, HistoryIsLinear
<1>6. InLog(o)
  BY <1>4 DEF IInv, Located, InLog
<1>7. \A j \in DOMAIN log'[m] : log'[m][j] = o => i = j
  BY <1>2, <1>5 DEF Linear
<1>8. item'[o].status # "none" => item'[o].expected = IF i = 1 THEN NoOp ELSE log'[m][i - 1]
  <2>1. item'[o].status # "none" =>
            item[o].status # "none" /\ item'[o].expected = item[o].expected
    BY <1>6, ExpectedStays
  <2> QED  BY <1>2, <1>3, <1>5, <2>1 DEF Linear
<1> QED  BY <1>4, <1>7, <1>8 DEF Linear

\* A version put in place follows the one it was prepared against.
LEMMA LinearGrows ==
  ASSUME IInv, DiskChange, Replaced, UNCHANGED item, NEW m \in Memories, m = Target[scan.op],
         NEW i \in DOMAIN log'[m]
  PROVE  Linear(m, i)'
<1>1. PICK p \in Ops : /\ p = scan.op /\ m = Target[p] /\ ~InLog(p)
                       /\ item[p].expected = Current(m)
  BY Putting
<1> DEFINE n == Len(log[m])
<1>2. /\ log[m] \in Seq(Ops \cup {Original}) /\ DOMAIN log[m] = 1..n /\ n \in Nat
      /\ log'[m] \in Seq(Ops \cup {Original}) /\ DOMAIN log'[m] = 1..Len(log'[m])
  BY DEF IInv, Types, FilesOK, DiskChange
<1>3. /\ Len(log'[m]) = n + 1 /\ log'[m][n + 1] = p
      /\ \A j \in 1..n : log'[m][j] = log[m][j]
  BY <1>1 DEF Replaced
<1>4. \A j \in 1..n : log'[m][j] # p
  BY <1>1, <1>2, <1>3 DEF InLog
<1>5. DOMAIN log'[m] = 1..(n + 1)
  BY <1>2, <1>3
<1>6. CASE i = n + 1
  <2>1. \A j \in DOMAIN log'[m] : log'[m][j] = p => i = j
    BY <1>2, <1>4, <1>5, <1>6
  <2>2. item[p].expected = IF i = 1 THEN NoOp ELSE log'[m][i - 1]
    <3>1. CASE n = 0
      <4>1. log[m] = <<>>
        BY <1>2, <3>1, EmptySeq
      <4> QED  BY <1>1, <1>6, <3>1, <4>1 DEF Current
    <3>2. CASE n # 0
      <4>1. n \in 1..n /\ i - 1 = n /\ i # 1 /\ log[m] # <<>>
        BY <1>2, <1>6, <3>2
      <4> QED  BY <1>1, <1>3, <4>1 DEF Current
    <3> QED  BY <3>1, <3>2
  <2> QED  BY <1>3, <1>6, <2>1, <2>2 DEF Linear
<1>7. CASE i \in 1..n
  <2>1. log'[m][i] = log[m][i] /\ i \in DOMAIN log[m]
    BY <1>2, <1>3, <1>7
  <2>2. Linear(m, i)
    BY <2>1 DEF Linear, IInv, HistoryIsLinear
  <2>3. \A j \in DOMAIN log'[m] : log'[m][j] = log'[m][i] => j \in 1..n
    BY <1>2, <1>3, <1>4, <1>5, <1>7
  <2>4. i # 1 => log'[m][i - 1] = log[m][i - 1]
    <3>1. i # 1 => i - 1 \in 1..n
      BY <1>2, <1>7
    <3> QED  BY <1>3, <3>1
  <2>5. log'[m][i] \in Ops => \A j \in DOMAIN log'[m] : log'[m][j] = log'[m][i] => i = j
    BY <1>2, <1>3, <2>1, <2>2, <2>3 DEF Linear
  <2> QED  BY <2>1, <2>2, <2>4, <2>5 DEF Linear
<1> QED  BY <1>2, <1>5, <1>6, <1>7

\* The bodies keep the order in which they were prepared.
LEMMA HistoryKeeps == IInv /\ [Next]_vars => HistoryIsLinear'
<1> SUFFICES ASSUME IInv, [Next]_vars, NEW m \in Memories, NEW i \in DOMAIN log'[m]
             PROVE  Linear(m, i)'
  BY DEF HistoryIsLinear, Linear
<1>1. ItemTurns /\ DiskChange
  BY StepTurns, StepDisk
<1>2. /\ log'[m] \in Seq(Ops \cup {Original}) /\ log[m] \in Seq(Ops \cup {Original})
      /\ Len(log[m]) \in Nat /\ synced[m] \in Nat
  BY <1>1 DEF DiskChange, FilesOK, IInv, Types
<1>3. CASE log'[m] = log[m]
  BY <1>1, <1>2, <1>3, LinearStays
<1>4. CASE Kept \/ Confirmed
  BY <1>3, <1>4 DEF Kept, Confirmed
<1>5. CASE Cut
  <2>1. Len(log'[m]) <= Len(log[m]) /\ \A j \in 1..Len(log'[m]) : log'[m][j] = log[m][j]
    BY <1>2, <1>5 DEF Cut
  <2> QED  BY <1>1, <1>2, <2>1, LinearStays
<1>6. CASE Replaced /\ UNCHANGED item
  <2>1. CASE m = Target[scan.op]
    BY <1>1, <1>6, <2>1, LinearGrows
  <2>2. CASE m # Target[scan.op]
    BY <1>3, <1>6, <2>2 DEF Replaced
  <2> QED  BY <2>1, <2>2
<1> QED  BY <1>1, <1>4, <1>5, <1>6 DEF DiskChange

\* The content of a proposal is dropped with its last word.
LEMMA ContentKeeps == IInv /\ [Next]_vars => ContentIsKept'
<1> SUFFICES ASSUME IInv, [Next]_vars, NEW o \in Ops, item'[o].status # "none"
             PROVE  item'[o].payload <=> item'[o].status \notin Resolved
  BY DEF ContentIsKept
<1>1. ItemTurns /\ ContentIsKept /\ Claimed
  BY StepTurns DEF IInv
<1>2. Turn(o)
  BY <1>1 DEF ItemTurns
<1> USE DEF Resolved, Waiting
<1>3. CASE SameFate(o)
  BY <1>1, <1>3 DEF SameFate, ContentIsKept
<1>4. CASE Registered(o)
  BY <1>4 DEF Registered
<1>5. CASE Moved(o)
  BY <1>1, <1>5 DEF Moved, ContentIsKept
<1>6. CASE Cancelled(o)
  BY <1>6 DEF Cancelled
<1>7. CASE Purged(o)
  BY <1>7 DEF Purged, NoItem
<1>8. CASE Recorded(o)
  <2>1. item[o].payload
    BY <1>1, <1>8 DEF Recorded, Claimed, ContentIsKept
  <2> QED  BY <1>8, <2>1 DEF Recorded
<1> QED  BY <1>2, <1>3, <1>4, <1>5, <1>6, <1>7, <1>8 DEF Turn

\* A task of a Thread that is gone does not stay open uncancelled.
LEMMA DeletedKeeps == IInv /\ [Next]_vars => DeletedSourceIsCancelled'
<1> SUFFICES ASSUME IInv, [Next]_vars PROVE DeletedSourceIsCancelled'
  OBVIOUS
<1> ThreadsOK /\ TaskOK /\ ScanOK /\ DeletedSourceIsCancelled
  BY DEF IInv, Types
<1>1. UNCHANGED <<task, threads>> => DeletedSourceIsCancelled'
  BY DEF DeletedSourceIsCancelled
<1>2. ASSUME NEW t \in Tasks, Schedule(t) \/ AskModel(t) \/ Prepare(t) \/ ExtractNothing(t) \/
    ScanRefused(t) PROVE DeletedSourceIsCancelled'
  BY <1>2, <1>1 DEF Schedule, AskModel, Prepare, ExtractNothing, ScanRefused, ledgerVars
<1>3. ASSUME NEW by \in Tasks \cup {NoTask}, ScanBegin(by) \/ ScanFails(by) PROVE
    DeletedSourceIsCancelled'
  BY <1>3, <1>1 DEF ScanBegin, RecoverInflight, ScanFails, ledgerVars
<1>4. ASSUME NEW o \in Ops, Claim(o) \/ ClaimSkips(o) \/ RetryDue(o) PROVE
    DeletedSourceIsCancelled'
  BY <1>4, <1>1 DEF Claim, ClaimTx, ClaimSkips, RetryDue, ledgerVars
<1>5. CASE Write \/ WriteFails \/ Index \/ IndexFails \/ ScanEnds \/ Catalog \/ Close \/ Exit
    \/ Crash \/ Start
  BY <1>5, <1>1 DEF Write, WriteFails, Index, IndexFails, ScanEnds, Catalog, Close, Exit,
      Crash, Start, RecoverInflight, ledgerVars
<1>6. CASE UNCHANGED vars
  BY <1>6, <1>1 DEF vars, ledgerVars
<1> USE MemoryAssumption DEF ThreadsOK, TaskOK, ScanOK, DeletedSourceIsCancelled, ledgerVars
<1>7. ASSUME NEW t \in Tasks, Register(t) PROVE DeletedSourceIsCancelled'
  <2> DEFINE row == [task[t] EXCEPT !.state = "open"]
  <2>1. task' = [task EXCEPT ![t] = row] /\ ThreadOf[t] \in threads /\ threads' = threads
    BY <1>7 DEF Register, RegisterTx, RegisterTx_AnyThread, TaskOK
  <2>2. task[t] \in TaskRows
    BY DEF TaskOK, TaskRows
  <2>3. row \in TaskRows /\ row.cancel = task[t].cancel
    BY <2>2 DEF TaskRows
  <2> HIDE DEF row
  <2> QED  BY <2>1, <2>3, ChangedTask
<1>8. ASSUME NEW t \in Tasks, RegisterFails(t) PROVE DeletedSourceIsCancelled'
  <2>1. \/ UNCHANGED <<threads, task>>
        \/ /\ ThreadOf[t] \in threads /\ UNCHANGED threads
           /\ task' = [task EXCEPT ![t].state = "open"]
    BY <1>8 DEF RegisterFails, RegisterTx, RegisterTx_AnyThread, ledgerVars
  <2> QED  BY <1>1, <2>1
<1>9. ASSUME NEW t \in Tasks, CancelTask(t) PROVE DeletedSourceIsCancelled'
  <2>1. CancelTasks({t}) /\ UNCHANGED threads
    BY <1>9 DEF CancelTask
  <2> QED  BY <2>1, CancelledTasks
<1>10. ASSUME NEW t \in Tasks, Retry(t) PROVE DeletedSourceIsCancelled'
  <2> DEFINE row == [task[t] EXCEPT !.state = "open", !.expired = FALSE]
  <2>1. task' = [task EXCEPT ![t] = row] /\ ThreadOf[t] \in threads /\ threads' = threads
    BY <1>10 DEF Retry, TaskOK
  <2>2. task[t] \in TaskRows
    BY DEF TaskOK, TaskRows
  <2>3. row \in TaskRows /\ row.cancel = task[t].cancel
    BY <2>2 DEF TaskRows
  <2> HIDE DEF row
  <2> QED  BY <2>1, <2>3, ChangedTask
<1>11. ASSUME NEW t \in Tasks, Cleanup(t) PROVE DeletedSourceIsCancelled'
  BY <1>11 DEF Cleanup
<1>12. ASSUME NEW t \in Tasks, Expire(t) PROVE DeletedSourceIsCancelled'
  BY <1>12 DEF Expire
<1>13. ASSUME NEW o \in Ops, ClaimCloses(o) PROVE DeletedSourceIsCancelled'
  <2>1. (\E status, next, manual : FinishItem(o, status, next, manual)) /\ UNCHANGED threads
    BY <1>13 DEF ClaimCloses, FinishItem
  <2> QED  BY <2>1, FinishedTask
<1>14. ASSUME NEW o \in Ops, ResolveConflict(o) PROVE DeletedSourceIsCancelled'
  <2>1. (\E status, next, manual : FinishItem(o, status, next, manual)) /\ UNCHANGED threads
    BY <1>14 DEF ResolveConflict, FinishItem
  <2> QED  BY <2>1, FinishedTask
<1>15. CASE Record
  <2>1. FinishTx(scan.op) \/ UNCHANGED ledgerVars
    BY <1>15 DEF Record
  <2>2. scan.op \in Ops
    BY <1>15 DEF Record, ScanOK
  <2>3. CASE FinishTx(scan.op)
    <3>1. PICK status, next, manual : FinishItem(scan.op, status, next, manual)
      BY <2>3, FinishIsFinishItem
    <3>2. UNCHANGED threads
      BY <3>1 DEF FinishItem
    <3> QED  BY <2>2, <3>1, <3>2, FinishedTask
  <2> QED  BY <1>1, <2>1, <2>3 DEF ledgerVars
<1>16. CASE RecordFails
  <2>1. FinishTx(scan.op) \/ UNCHANGED ledgerVars
    BY <1>16 DEF RecordFails
  <2>2. scan.op \in Ops
    BY <1>16 DEF RecordFails, ScanOK
  <2>3. CASE FinishTx(scan.op)
    <3>1. PICK status, next, manual : FinishItem(scan.op, status, next, manual)
      BY <2>3, FinishIsFinishItem
    <3>2. UNCHANGED threads
      BY <3>1 DEF FinishItem
    <3> QED  BY <2>2, <3>1, <3>2, FinishedTask
  <2> QED  BY <1>1, <2>1, <2>3 DEF ledgerVars
<1>17. ASSUME NEW th \in Threads, DeleteThread(th) PROVE DeletedSourceIsCancelled'
  <2>1. /\ CancelTasks({t \in Tasks : ThreadOf[t] = th /\ task[t].state = "open"})
        /\ threads' = threads \ {th}
    BY <1>17 DEF DeleteThread
  <2> QED  BY <2>1, CancelledTasks
<1> QED  BY <1>2, <1>3, <1>4, <1>5, <1>6, <1>7, <1>8, <1>9, <1>10, <1>11, <1>12, <1>13, <1>14,
    <1>15, <1>16, <1>17 DEF Next, Extract, Attempt, Operator, Time

-----------------------------------------------------------------------------
(* The invariant                                                           *)

\* A body nobody here has written.
LEMMA OneVersion ==
  /\ <<Original>> \in Seq(Ops \cup {Original}) /\ Len(<<Original>>) \in Nat
  /\ \A i \in DOMAIN <<Original>> : <<Original>>[i] = Original /\ i = 1
OBVIOUS

\* The program begins in it.
LEMMA InitIInv == Init => IInv
<1> SUFFICES ASSUME Init PROVE IInv
  OBVIOUS
<1> USE MemoryAssumption DEF Init
<1>1. ASSUME NEW m \in Memories
      PROVE  /\ log[m] \in Seq(Ops \cup {Original}) /\ Len(log[m]) \in Nat
             /\ \A i \in DOMAIN log[m] : log[m][i] = Original /\ i = 1
  <2>1. CASE m \in Existing
    <3>1. log[m] = <<Original>>
      BY <2>1
    <3> QED  BY <3>1, OneVersion
  <2>2. CASE m \notin Existing
    <3>1. log[m] = <<>>
      BY <2>2
    <3> QED  BY <3>1, EmptySeq
  <2> QED  BY <2>1, <2>2
<1>2. NoItem \in ItemRows /\ NoRow \in TaskRows
  BY NoItemRow DEF NoRow, TaskRows
<1>3. ItemOK /\ TaskOK
  BY <1>2 DEF ItemOK, TaskOK, ItemRows, TaskRows
<1>4. FilesOK
  BY <1>1 DEF FilesOK
<1>5. NothingSeen \in [Memories -> Versions] /\ <<>> \in Seq(Tasks)
  BY EmptySeq DEF NothingSeen, Versions
<1>6. JobOK
  BY <1>5 DEF JobOK
<1>7. ScanOK
  BY NamedOutcomes DEF ScanOK, Free
<1>8. Types
  BY <1>3, <1>4, <1>6, <1>7 DEF Types, ThreadsOK, UpOK, UsedOK
<1>9. \A o \in Ops : ~InLog(o) /\ item[o].status = "none" /\ item[o] = NoItem
  BY <1>1 DEF InLog, NoItem
<1>10. PlanIsOwn /\ Unregistered /\ Located
  BY <1>1, <1>9 DEF PlanIsOwn, Unregistered, Located
<1>11. Idle /\ Claimed /\ Applying /\ Verifying /\ Recording
  BY DEF Idle, Claimed, Applying, Verifying, Recording, Free
<1>12. HistoryIsLinear
  BY <1>1 DEF HistoryIsLinear
<1>13. SuccessIsOnDisk /\ UnsavedIsTrue /\ ContentIsKept
  BY <1>9 DEF SuccessIsOnDisk, UnsavedIsTrue, ContentIsKept
<1>14. DeletedSourceIsCancelled
  BY DEF DeletedSourceIsCancelled, NoRow
<1> QED  BY <1>8, <1>10, <1>11, <1>12, <1>13, <1>14 DEF IInv

\* No step leaves it.
LEMMA IInvStep == IInv /\ [Next]_vars => IInv'
<1> SUFFICES ASSUME IInv, [Next]_vars PROVE IInv'
  OBVIOUS
<1>1. ItemOK'
  BY StepTurns DEF ItemTurns, ItemOK, ItemRows
<1>2. Types'
  BY <1>1, ThreadsOKKeeps, TaskOKKeeps, StepDisk, StepJobs, StepScan, UpOKKeeps, StepCounts
     DEF Types, DiskChange, JobMove, ScanMove, UsedMove
<1>3. PlanIsOwn' /\ Unregistered' /\ Located'
  BY StepJobs, UnregisteredKeeps, LocatedKeeps DEF JobMove
<1>4. Idle' /\ Claimed' /\ Applying' /\ Verifying' /\ Recording'
  BY IdleKeeps, ClaimedKeeps, ApplyingKeeps, VerifyingKeeps, RecordingKeeps
<1>5. HistoryIsLinear' /\ SuccessIsOnDisk' /\ UnsavedIsTrue'
  BY HistoryKeeps, SuccessKeeps, UnsavedKeeps
<1>6. ContentIsKept' /\ DeletedSourceIsCancelled'
  BY ContentKeeps, DeletedKeeps
<1> QED  BY <1>2, <1>3, <1>4, <1>5, <1>6 DEF IInv

\* IInv holds in every state of the memory service, the process coming and going as it may.
THEOREM MemoryInvariant == Spec => []IInv
BY InitIInv, IInvStep, PTL DEF Spec

\* Every variable keeps its type, and an attempt under way has an operation.
THEOREM TypesHold == Spec => []TypeOK
<1>1. IInv => TypeOK
  BY DEF IInv, Types, TypeOK, ThreadsOK, UpOK, UsedOK
<1> QED  BY <1>1, MemoryInvariant, PTL

\* No retry, end of the process or command applies an operation twice, or overwrites a version
\* its proposal had not been made against (apply_operation).
THEOREM HistoryStaysLinear == Spec => []HistoryIsLinear
<1>1. IInv => HistoryIsLinear
  BY DEF IInv
<1> QED  BY <1>1, MemoryInvariant, PTL

\* What the ledger says was saved is in a body that survives a loss of power; what it says was
\* not saved, was not.
THEOREM LedgerIsTrue == Spec => []OutcomesAreTrue
<1>1. IInv => OutcomesAreTrue
  BY DEF IInv, OutcomesAreTrue
<1> QED  BY <1>1, MemoryInvariant, PTL

\* The content of a proposal is there exactly until its fate is known (_finish, _cancel).
THEOREM ProposalsAreKept == Spec => []ContentIsKept
<1>1. IInv => ContentIsKept
  BY DEF IInv
<1> QED  BY <1>1, MemoryInvariant, PTL

\* Whatever an extraction registers late, and whoever retries it: nothing of a Thread that is
\* gone is left to be saved (cancel_source_tasks).
THEOREM DeletedThreadsLeaveNothing == Spec => []DeletedSourceIsCancelled
<1>1. IInv => DeletedSourceIsCancelled
  BY DEF IInv
<1> QED  BY <1>1, MemoryInvariant, PTL

\* The ledger forgets a proposal with its fate and the work of a Thread with the Thread,
\* and neither before (_finish, _cancel, cancel_source_tasks).
THEOREM LedgerForgetsInTime == Spec => []LedgerForgets
<1>1. IInv => LedgerForgets
  BY DEF IInv, LedgerForgets
<1> QED  BY <1>1, MemoryInvariant, PTL
=============================================================================
