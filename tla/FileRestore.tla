----------------------------- MODULE FileRestore -----------------------------
(***************************************************************************)
(* FileCheckpointService.restore, _rollback and recover_pending of          *)
(* services/file_checkpoint_service.py with the transactions of             *)
(* repositories/file_checkpoint_repository.py: three directories of one     *)
(* Thread are exchanged by renames under a journal, and the messages change *)
(* with the journal in one transaction.                                     *)
(*                                                                          *)
(* One action is one durable effect: a rename, the removal or the building  *)
(* of a directory, a transaction.  The process may die between any two      *)
(* (Crash); an effect may also report an error, having taken place or not   *)
(* (Fault).  The admission of the Thread keeps everybody else away from a   *)
(* request (module RunLifecycle), so edits happen only between requests,    *)
(* except for writers outside the service, which the second comparison of   *)
(* fingerprints is there to notice (OutsideWrite).                          *)
(*                                                                          *)
(* A manifest is the version of each area, and its fingerprint is itself.   *)
(* Bounds: MaxClock edits, MaxPoints restore points (module RestorePoints   *)
(* evicts them), MaxFaults errors, MaxCrashes deaths.                       *)
(***************************************************************************)
EXTENDS Naturals, Sequences

CONSTANTS Gone, MaxClock, MaxPoints, MaxFaults, MaxCrashes

\* AREAS, in the order they are exchanged.
AreaOrder == <<"uploads", "workspace", "outputs">>
Areas == {"uploads", "workspace", "outputs"}

\* The live directories and the four inside the staging directory of an operation.
Places == {"live", "new", "old", "rbNew", "rbOld"}

Versions == 0..MaxClock

ASSUME FileRestoreAssumption ==
    /\ {MaxClock, MaxPoints, MaxFaults, MaxCrashes} \subseteq Nat
    /\ Gone \notin Nat

VARIABLES
    \* on disk
    tree,     \* the version of each area in each place
    history,  \* the places whose workspace holds .tool-results
    stage,    \* the staging directory exists
    \* in SQLite
    head,     \* the current messages and their revision
    points,   \* the restore points, oldest first
    op,       \* the journal of the latest operation
    \* in the client
    shown,    \* the preview the user confirms
    \* in the process
    pc, i,    \* the next step; the area it is about
    by,       \* whether a request or the start of the process takes it
    seen,     \* the status recover_pending has read
    calm,     \* nothing has failed in this process
    clock, faults, crashes

diskVars == <<tree, history, stage>>
dbVars == <<head, points, op>>
countVars == <<calm, faults, crashes>>
vars == <<tree, history, stage, head, points, op, shown, pc, i, by, seen, calm, clock, faults,
          crashes>>

Settled == {"committed", "rolled_back"}
Statuses == Settled \cup {"none", "prepared", "applying", "needs_recovery"}
Pending == ~op.cleaned

Live == tree["live"]
Area == AreaOrder[i]
FilesOf(p) == points[p].files

\* The steps of a request, of a rollback, of a cleanup, and of a start.
Pcs == {"idle", "backup", "stage", "prepare", "mark", "out", "in", "check", "commit", "failed",
        "rbClear", "rbBuild", "rbDrop", "rbOut", "rbIn", "rbCheck", "rbRecord", "rbFailed",
        "clean", "cleanRow", "verify", "collect", "closed", "down"}

Manifests == [Areas -> Versions]

TypeOK ==
    /\ tree \in [Places -> [Areas -> Versions \cup {Gone}]]
    /\ history \subseteq Places
    /\ stage \in BOOLEAN
    /\ head \in [messages : Versions, revision : Nat]
    /\ points \in Seq([files : Manifests, messages : Versions])
    /\ op \in [status : Statuses, cleaned : BOOLEAN, target : Nat, recovery : Nat, revision : Nat]
    /\ shown \in [point : Nat, files : Manifests, revision : Nat]
    /\ pc \in Pcs
    /\ i \in 1..3
    /\ by \in {"request", "start"}
    /\ seen \in Statuses
    /\ calm \in BOOLEAN
    /\ clock \in Versions
    /\ faults \in 0..MaxFaults /\ crashes \in 0..MaxCrashes

Empty == [a \in Areas |-> Gone]

\* A Thread with files and with tool results its Runs have stored.
Init ==
    /\ tree = [p \in Places |-> [a \in Areas |-> IF p = "live" THEN 0 ELSE Gone]]
    /\ history = {"live"}
    /\ stage = FALSE
    /\ head = [messages |-> 0, revision |-> 0]
    /\ points = <<>>
    /\ op = [status |-> "none", cleaned |-> TRUE, target |-> 0, recovery |-> 0, revision |-> 0]
    /\ shown = [point |-> 0, files |-> [a \in Areas |-> 0], revision |-> 0]
    /\ pc = "idle" /\ i = 1 /\ by = "request" /\ seen = "none"
    /\ calm = TRUE /\ clock = 0 /\ faults = 0 /\ crashes = 0

NoFault == UNCHANGED countVars
Fault ==
    /\ faults < MaxFaults
    /\ faults' = faults + 1
    /\ calm' = FALSE
    /\ UNCHANGED crashes

\* The next step; the local variables end with the call.
Goto(next) ==
    /\ pc' = next
    /\ IF next \in {"idle", "closed", "down"}
       THEN i' = 1 /\ by' = "request" /\ seen' = "none"
       ELSE UNCHANGED <<i, by, seen>>

\* An error leaves the loop over the areas.
Quit(next) == pc' = next /\ i' = 1 /\ UNCHANGED <<by, seen>>

-----------------------------------------------------------------------------
(* Between requests                                                        *)

Ready == pc = "idle" /\ ~Pending

Edit == clock < MaxClock /\ clock' = clock + 1
WriteLive(a) == tree' = [tree EXCEPT !["live"][a] = clock']

\* A tool of a Run or an upload changes a file.
WriteFile(a) ==
    /\ Ready /\ Edit
    /\ WriteLive(a)
    /\ UNCHANGED <<history, stage, dbVars, shown, pc, i, by, seen, countVars>>

\* A Run saves its state: the head moves and its revision counts.
SaveState ==
    /\ Ready /\ Edit
    /\ head' = [messages |-> clock', revision |-> head.revision + 1]
    /\ UNCHANGED <<diskVars, points, op, shown, pc, i, by, seen, countVars>>

Record == points' = Append(points, [files |-> Live, messages |-> head.messages])

\* capture_turn: the point and the checkpoint it names are one transaction, and
\* that checkpoint becomes the head.
CaptureTurn ==
    /\ Ready /\ Len(points) < MaxPoints
    /\ Record
    /\ head' = [head EXCEPT !.revision = @ + 1]
    /\ UNCHANGED <<diskVars, op, shown, pc, i, by, seen, clock, countVars>>

Preview(p) ==
    /\ Ready
    /\ shown' = [point |-> p, files |-> Live, revision |-> head.revision]
    /\ UNCHANGED <<diskVars, dbVars, pc, i, by, seen, clock, countVars>>

-----------------------------------------------------------------------------
(* restore()                                                               *)

\* The preview is taken again and must be what the user confirmed.
RestoreBegin ==
    /\ Ready /\ shown.point # 0 /\ Len(points) < MaxPoints
    /\ head.revision = shown.revision /\ Live = shown.files
    /\ Goto("backup")
    /\ UNCHANGED <<diskVars, dbVars, shown, clock, countVars>>

\* Somebody outside the service writes before the backup has read the files.
OutsideWrite(a) ==
    /\ pc = "backup" /\ Edit
    /\ WriteLive(a)
    /\ UNCHANGED <<history, stage, dbVars, shown, pc, i, by, seen, countVars>>

RestoreBackup_Unchecked ==
    /\ pc = "backup"
    /\ Record /\ NoFault /\ Goto("stage")
    /\ UNCHANGED <<diskVars, head, op, shown, clock>>

\* The recovery point: its checkpoint does not become the head.
RestoreBackup ==
    /\ pc = "backup"
    /\ \/ Record /\ NoFault /\ Goto(IF Live = shown.files THEN "stage" ELSE "idle")
       \/ Fault /\ Goto("idle") /\ (Record \/ UNCHANGED points)
    /\ UNCHANGED <<diskVars, head, op, shown, clock>>

\* _build reads the history from the first of these places that has one.
HistoryFound == history \cap {"live", "old", "rbOld"} # {}
Build(place, files) ==
    /\ tree' = [tree EXCEPT ![place] = files]
    /\ history' = IF HistoryFound THEN history \cup {place} ELSE history

\* A fresh staging directory with the target's files.  What a failure leaves of
\* it is removed, unless that fails as well.
RestoreStage ==
    /\ pc = "stage"
    /\ \/ /\ stage' = TRUE
          /\ tree' = [p \in Places |-> IF p = "live" THEN Live
                                       ELSE IF p = "new" THEN FilesOf(shown.point) ELSE Empty]
          /\ history' = {p \in {"live", "new"} : "live" \in history}
          /\ NoFault /\ Goto("prepare")
       \/ /\ stage' \in BOOLEAN
          /\ tree' = [p \in Places |-> IF p = "live" THEN Live ELSE Empty]
          /\ history' = history \cap {"live"}
          /\ Fault /\ Goto("idle")
    /\ UNCHANGED <<dbVars, shown, clock>>

\* _remove(stage), everything in it included.
RemoveStage ==
    /\ stage' = FALSE
    /\ tree' = [p \in Places |-> IF p = "live" THEN Live ELSE Empty]
    /\ history' = history \cap {"live"}

Prepare ==
    op' = [status |-> "prepared", cleaned |-> FALSE, target |-> shown.point,
           recovery |-> Len(points), revision |-> shown.revision]

\* The journal row.  A commit that reports an error may have taken place.
RestorePrepare ==
    /\ pc = "prepare"
    /\ \/ Prepare /\ NoFault /\ Goto("mark") /\ UNCHANGED diskVars
       \/ /\ Prepare \/ UNCHANGED op
          /\ RemoveStage \/ UNCHANGED diskVars
          /\ Fault /\ Goto("idle")
    /\ UNCHANGED <<head, points, shown, clock>>

SetStatus(status) == op' = [op EXCEPT !.status = status, !.cleaned = FALSE]

RestoreMark ==
    /\ pc = "mark"
    /\ \/ SetStatus("applying") /\ NoFault /\ Goto("out")
       \/ (SetStatus("applying") \/ UNCHANGED op) /\ Fault /\ Goto("failed")
    /\ UNCHANGED <<diskVars, head, points, shown, clock>>

\* _move_directory: one rename, which takes the history of a workspace along.
Move(from, to) ==
    /\ tree' = [tree EXCEPT ![from][Area] = Gone, ![to][Area] = tree[from][Area]]
    /\ history' = IF Area = "workspace"
                  THEN (history \ {from, to}) \cup {p \in {to} : from \in history}
                  ELSE history
    /\ UNCHANGED stage

NextArea_Stays(again, done) ==
    pc' = (IF i < 3 THEN again ELSE pc) /\ i' = (IF i < 3 THEN i + 1 ELSE i) /\ UNCHANGED <<by, seen>>

\* The loop over the areas, which have all been visited after the third.
NextArea(again, done) ==
    pc' = (IF i < 3 THEN again ELSE done) /\ i' = (i % 3) + 1 /\ UNCHANGED <<by, seen>>

\* A step of the exchange that moves a directory: an error is reported before
\* or after the rename.
MoveOut ==
    /\ pc = "out"
    /\ \/ Move("live", "old") /\ NoFault /\ Goto("in")
       \/ (Move("live", "old") \/ UNCHANGED diskVars) /\ Fault /\ Quit("failed")
    /\ UNCHANGED <<dbVars, shown, clock>>

MoveIn ==
    /\ pc = "in"
    /\ \/ Move("new", "live") /\ NoFault /\ NextArea("out", "check")
       \/ (Move("new", "live") \/ UNCHANGED diskVars) /\ Fault /\ Quit("failed")
    /\ UNCHANGED <<dbVars, shown, clock>>

RestoreCheck ==
    /\ pc = "check"
    /\ \/ NoFault /\ Goto(IF Live = FilesOf(op.target) THEN "commit" ELSE "failed")
       \/ Fault /\ Goto("failed")
    /\ UNCHANGED <<diskVars, dbVars, shown, clock>>

CommitTx ==
    /\ head' = [messages |-> points[op.target].messages, revision |-> head.revision + 1]
    /\ op' = [op EXCEPT !.status = "committed"]

\* commit_restore: the messages and the journal change in one transaction.
RestoreCommit ==
    /\ pc = "commit"
    /\ \/ NoFault
          /\ IF head.revision = op.revision /\ op.status = "applying"
             THEN CommitTx /\ Goto("clean")
             ELSE Goto("failed") /\ UNCHANGED <<head, op>>
       \/ (CommitTx \/ UNCHANGED <<head, op>>) /\ Fault /\ Goto("failed")
    /\ UNCHANGED <<diskVars, points, shown, clock>>

\* The except clause asks the journal what happened: a commit stands.
RestoreFailed ==
    /\ pc = "failed"
    /\ \/ NoFault /\ Goto(IF op.status = "committed" THEN "idle" ELSE "rbClear")
       \/ Fault /\ Goto("idle")
    /\ UNCHANGED <<diskVars, dbVars, shown, clock>>

-----------------------------------------------------------------------------
(* _rollback, of a request or of a start                                    *)

\* What an earlier rollback has built is removed, whatever it holds.
RemoveBuilt ==
    /\ tree' = [tree EXCEPT !["rbNew"] = Empty]
    /\ history' = history \ {"rbNew"}
    /\ UNCHANGED stage

RollbackClear ==
    /\ pc = "rbClear"
    /\ \/ RemoveBuilt /\ NoFault /\ Goto("rbBuild")
       \/ (RemoveBuilt \/ UNCHANGED diskVars) /\ Fault /\ Goto("rbFailed")
    /\ UNCHANGED <<dbVars, shown, clock>>

RollbackBuild ==
    /\ pc = "rbBuild"
    /\ \/ /\ NoFault
          /\ IF stage
             THEN Build("rbNew", FilesOf(op.recovery)) /\ Goto("rbDrop")
             ELSE Goto("rbFailed") /\ UNCHANGED <<tree, history>>
       \/ Fault /\ Goto("rbFailed") /\ UNCHANGED <<tree, history>>
    /\ UNCHANGED <<stage, dbVars, shown, clock>>

\* _remove(rollback-old/area).
RemoveDiscarded ==
    /\ tree' = [tree EXCEPT !["rbOld"][Area] = Gone]
    /\ history' = IF Area = "workspace" THEN history \ {"rbOld"} ELSE history
    /\ UNCHANGED stage

RollbackDrop ==
    /\ pc = "rbDrop"
    /\ \/ RemoveDiscarded /\ NoFault /\ Goto("rbOut")
       \/ (RemoveDiscarded \/ UNCHANGED diskVars) /\ Fault /\ Quit("rbFailed")
    /\ UNCHANGED <<dbVars, shown, clock>>

\* What is live steps aside; an interrupted rollback may have left nothing there.
StepAside == IF Live[Area] # Gone THEN Move("live", "rbOld") ELSE UNCHANGED diskVars

RollbackOut ==
    /\ pc = "rbOut"
    /\ \/ StepAside /\ NoFault /\ Goto("rbIn")
       \/ (StepAside \/ UNCHANGED diskVars) /\ Fault /\ Quit("rbFailed")
    /\ UNCHANGED <<dbVars, shown, clock>>

RollbackIn ==
    /\ pc = "rbIn"
    /\ \/ Move("rbNew", "live") /\ NoFault /\ NextArea("rbDrop", "rbCheck")
       \/ (Move("rbNew", "live") \/ UNCHANGED diskVars) /\ Fault /\ Quit("rbFailed")
    /\ UNCHANGED <<dbVars, shown, clock>>

RollbackCheck ==
    /\ pc = "rbCheck"
    /\ \/ NoFault /\ Goto(IF Live = FilesOf(op.recovery) THEN "rbRecord" ELSE "rbFailed")
       \/ Fault /\ Goto("rbFailed")
    /\ UNCHANGED <<diskVars, dbVars, shown, clock>>

RollbackRecord ==
    /\ pc = "rbRecord"
    /\ \/ SetStatus("rolled_back") /\ NoFault /\ Goto("clean")
       \/ (SetStatus("rolled_back") \/ UNCHANGED op) /\ Fault /\ Goto("rbFailed")
    /\ UNCHANGED <<diskVars, head, points, shown, clock>>

\* A request writes needs_recovery whatever the row says by now; a start keeps
\* a status that was final when it began.  A start that cannot write ends the
\* process.
RollbackFailed ==
    LET status == IF by = "start" /\ seen \in Settled THEN seen ELSE "needs_recovery" IN
    /\ pc = "rbFailed"
    /\ \/ SetStatus(status) /\ NoFault /\ Goto(IF by = "start" THEN "collect" ELSE "idle")
       \/ /\ SetStatus(status) \/ UNCHANGED op
          /\ Fault /\ Goto(IF by = "start" THEN "down" ELSE "idle")
    /\ UNCHANGED <<diskVars, head, points, shown, clock>>

-----------------------------------------------------------------------------
(* _cleanup                                                                *)

\* After a commit its failure ends the request; in a rollback or a start it is
\* one more failure of those.
CleanFails ==
    /\ Fault
    /\ Goto(IF by = "request" /\ op.status = "committed" THEN "idle" ELSE "rbFailed")

Clean ==
    /\ pc = "clean"
    /\ \/ RemoveStage /\ NoFault /\ Goto("cleanRow")
       \/ (RemoveStage \/ UNCHANGED diskVars) /\ CleanFails
    /\ UNCHANGED <<dbVars, shown, clock>>

MarkClean == op' = [op EXCEPT !.cleaned = TRUE]

CleanRow ==
    /\ pc = "cleanRow"
    /\ \/ MarkClean /\ NoFault /\ Goto(IF by = "start" THEN "collect" ELSE "idle")
       \/ (MarkClean \/ UNCHANGED op) /\ CleanFails
    /\ UNCHANGED <<diskVars, head, points, shown, clock>>

-----------------------------------------------------------------------------
(* Death of the process and recover_pending                                *)

Crash ==
    /\ pc \notin {"idle", "closed", "down"}
    /\ crashes < MaxCrashes /\ crashes' = crashes + 1
    /\ Goto("down")
    /\ UNCHANGED <<diskVars, dbVars, shown, clock, calm, faults>>

\* An orderly stop between requests.
Stop ==
    /\ pc \in {"idle", "closed"}
    /\ Goto("down")
    /\ UNCHANGED <<diskVars, dbVars, shown, clock, countVars>>

Start_TrustsSettled ==
    /\ pc = "down"
    /\ pc' = IF Pending THEN "rbClear" ELSE "collect"
    /\ by' = "start" /\ seen' = op.status /\ i' = 1 /\ calm' = TRUE
    /\ UNCHANGED <<diskVars, dbVars, shown, clock, faults, crashes>>

Start_OnlyApplying ==
    /\ pc = "down"
    /\ pc' = IF ~Pending \/ op.status = "prepared" THEN "collect"
             ELSE IF op.status \in Settled THEN "verify" ELSE "rbClear"
    /\ by' = "start" /\ seen' = op.status /\ i' = 1 /\ calm' = TRUE
    /\ UNCHANGED <<diskVars, dbVars, shown, clock, faults, crashes>>

\* A final status only has to be verified and cleaned; any other is rolled back.
Start ==
    /\ pc = "down"
    /\ pc' = IF ~Pending THEN "collect" ELSE IF op.status \in Settled THEN "verify" ELSE "rbClear"
    /\ by' = "start" /\ seen' = op.status /\ i' = 1 /\ calm' = TRUE
    /\ UNCHANGED <<diskVars, dbVars, shown, clock, faults, crashes>>

Claimed == FilesOf(IF op.status = "committed" THEN op.target ELSE op.recovery)

Verify ==
    /\ pc = "verify"
    /\ \/ NoFault /\ Goto(IF Live = Claimed THEN "clean" ELSE "rbFailed")
       \/ Fault /\ Goto("rbFailed")
    /\ UNCHANGED <<diskVars, dbVars, shown, clock>>

\* _collect_unprepared_staging: a failure blocks the Thread.
Collect ==
    /\ pc = "collect"
    /\ \/ (IF Pending THEN UNCHANGED diskVars ELSE RemoveStage) /\ NoFault /\ Goto("idle")
       \/ (UNCHANGED diskVars \/ (~Pending /\ RemoveStage)) /\ Fault /\ Goto("closed")
    /\ UNCHANGED <<dbVars, shown, clock>>

-----------------------------------------------------------------------------
Step ==
    \/ RestoreBackup \/ RestoreStage \/ RestorePrepare \/ RestoreMark \/ MoveOut \/ MoveIn
    \/ RestoreCheck \/ RestoreCommit \/ RestoreFailed
    \/ RollbackClear \/ RollbackBuild \/ RollbackDrop \/ RollbackOut \/ RollbackIn
    \/ RollbackCheck \/ RollbackRecord \/ RollbackFailed
    \/ Clean \/ CleanRow \/ Start \/ Verify \/ Collect

Next ==
    \/ \E a \in Areas : WriteFile(a) \/ OutsideWrite(a)
    \/ SaveState \/ CaptureTurn
    \/ \E p \in DOMAIN points : Preview(p)
    \/ RestoreBegin
    \/ Step
    \/ Stop \/ Crash

Spec == Init /\ [][Next]_vars

\* The thread that carries out a request goes on; a dead process is started again.
FairSpec == Spec /\ WF_vars(Step)

-----------------------------------------------------------------------------
(* Properties                                                              *)

\* The files the Thread has: while an operation is pending, those its journal
\* can be led to, whatever lies in the directories meanwhile.
FilesNow == IF Pending THEN Claimed ELSE Live

Atomic == INSTANCE AtomicRestore WITH files <- FilesNow, messages <- head.messages

\* Files and messages are restored together in one step, the commit, or not at
\* all: renames, failures, deaths and replays are invisible.
RestoreIsAtomic == Atomic!Spec

\* A restore discards only what the user was shown: until it commits, the
\* backup and the revision it was taken at are those of the preview.
OnlyTheShownIsDiscarded ==
    /\ pc \in {"stage", "prepare"} =>
          FilesOf(Len(points)) = shown.files /\ head.revision = shown.revision
    /\ op.status = "applying" => FilesOf(op.recovery) = shown.files /\ head.revision = shown.revision

\* Recovery succeeds: whatever failed in earlier processes and wherever they died, a
\* process in which nothing has failed serves with no operation left to lead back, unless
\* the staging directory it would rebuild in is lost (recover_pending, _rollback).
QuietStartSettlesStaged == pc = "idle" /\ calm => ~Pending \/ ~stage

\* recover_pending's comment: a final status is only verified and cleaned again;
\* it is never led back to a rollback whose staging directory is already gone.
SettledOnlyVerified ==
    [][op.status \in Settled /\ Pending /\ ~stage => op'.status = op.status]_vars

\* docs/file-checkpoints.md: the tool results of the workspace are kept across
\* a restore.
HistoryKept == Ready => "live" \in history

\* Every request and every start comes to an end.
Serves == []<>(pc \in {"idle", "closed"})
=============================================================================
