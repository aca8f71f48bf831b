-------------------------- MODULE FileRestoreProofs --------------------------
(***************************************************************************)
(* Proof that the journaled exchange of FileRestore implements the one-step *)
(* restore of AtomicRestore, for any number of edits, points, errors and    *)
(* deaths of the process.  At its end, that the file tools of FileTools lose *)
(* no change and answer truly, for any number of calls, commands and deaths. *)
(***************************************************************************)
EXTENDS FileRestore, FileTools, SequenceTheorems, TLAPS

\* The steps of a request up to the end of its exchange; those of a rollback
\* up to its record; those that find the files led to what the journal claims.
SwapPcs == {"out", "in", "check", "commit"}
RequestPcs == {"backup", "stage", "prepare", "mark", "failed"} \cup SwapPcs
RollbackPcs == {"rbClear", "rbBuild", "rbDrop", "rbOut", "rbIn", "rbCheck", "rbRecord"}
CleanPcs == {"clean", "cleanRow"}

\* What the journal names exists, and without a pending operation the live
\* directories are all there.
JournalOK ==
    /\ op.status # "none" => op.target \in DOMAIN points /\ op.recovery \in DOMAIN points
    /\ Pending => op.status # "none"
    /\ shown.point \in 0..Len(points)
    /\ ~Pending => Live \in Manifests

\* Before the journal row: the latest point is the backup of the live files.
BackupOK ==
    /\ pc \in {"backup", "stage", "prepare"} => ~Pending /\ shown.point # 0
    /\ pc \in {"stage", "prepare"} => points # <<>> /\ FilesOf(Len(points)) = Live

\* Where the process is tells what the journal says ...
StatusOK ==
    /\ pc \in RequestPcs \cup {"idle"} => by = "request"
    /\ pc = "mark" => Pending /\ op.status = "prepared"
    /\ pc \in SwapPcs => Pending /\ op.status = "applying"
    /\ pc = "failed" => Pending /\ op.status \in {"prepared", "applying", "committed"}
    /\ pc \in RollbackPcs => Pending /\ op.status # "committed"
    /\ pc \in CleanPcs => Pending /\ op.status \in Settled
    /\ pc = "verify" => Pending /\ by = "start" /\ op.status \in Settled
    /\ pc = "rbFailed" => op.status # "none" /\ (by = "request" => op.status # "committed")
    /\ by = "start" => (seen = "committed" <=> op.status = "committed")

\* ... and where the files have been compared.
ComparedOK ==
    /\ pc = "commit" => Live = FilesOf(op.target)
    /\ pc = "rbRecord" => Live = FilesOf(op.recovery)
    /\ pc \in CleanPcs => Live = Claimed
    /\ pc = "rbFailed" /\ ~Pending => Live = Claimed

IInv == TypeOK /\ JournalOK /\ BackupOK /\ StatusOK /\ ComparedOK

-----------------------------------------------------------------------------
(* Facts about the helpers                                                 *)

\* The three numbers of a loop name the three areas.
LEMMA AreaIsOne == ASSUME TypeOK PROVE Area \in Areas
  BY DEF TypeOK, Area, AreaOrder, Areas

LEMMA PointNumbers == ASSUME TypeOK PROVE DOMAIN points = 1..Len(points) /\ Len(points) \in Nat
  BY LenProperties DEF TypeOK

\* What a restore point holds.
LEMMA PointType ==
    ASSUME TypeOK, NEW p \in DOMAIN points
    PROVE  FilesOf(p) \in Manifests /\ points[p].messages \in Versions
<1> DEFINE R == [files : Manifests, messages : Versions]
<1>1. points \in Seq(R)
  BY DEF TypeOK
<1>2. points[p] \in R
  BY <1>1, PointNumbers, ElementOfSeq
<1> QED
  BY <1>2 DEF FilesOf

\* A manifest is a directory tree in which nothing is gone.
LEMMA TreesType ==
    /\ Manifests \subseteq [Areas -> Versions \cup {Gone}]
    /\ Empty \in [Areas -> Versions \cup {Gone}]
  BY DEF Manifests, Empty

\* A recorded point keeps the earlier ones, and is the last.
LEMMA RecordPoint ==
    ASSUME TypeOK, Record, Live \in Manifests
    PROVE  /\ points' \in Seq([files : Manifests, messages : Versions])
           /\ Len(points') = Len(points) + 1
           /\ \A p \in DOMAIN points : points'[p] = points[p]
           /\ points'[Len(points) + 1].files = Live
           /\ DOMAIN points \subseteq DOMAIN points' /\ points' # <<>>
<1> DEFINE R == [files : Manifests, messages : Versions]
           new == [files |-> Live, messages |-> head.messages]
<1>1. points \in Seq(R) /\ new \in R
  BY DEF TypeOK, Record
<1>2. points' = Append(points, new)
  BY DEF Record
<1> QED
  BY <1>1, <1>2, AppendProperties

\* A rename keeps the places and their areas.
LEMMA MoveType ==
    ASSUME TypeOK, NEW from \in Places, NEW to \in Places, Move(from, to)
    PROVE  /\ tree' \in [Places -> [Areas -> Versions \cup {Gone}]]
           /\ history' \subseteq Places
           /\ stage' = stage
<1> DEFINE T == [Places -> [Areas -> Versions \cup {Gone}]]
           left == [tree EXCEPT ![from] = [@ EXCEPT ![Area] = Gone]]
<1>1. Area \in Areas
  BY AreaIsOne
<1>2. tree \in T /\ tree[from][Area] \in Versions \cup {Gone}
  BY <1>1 DEF TypeOK
<1>3. left \in T
  BY <1>1, <1>2
<1>4. [left EXCEPT ![to] = [@ EXCEPT ![Area] = tree[from][Area]]] \in T
  BY <1>1, <1>2, <1>3
<1>5. tree' = [left EXCEPT ![to] = [@ EXCEPT ![Area] = tree[from][Area]]]
  BY DEF Move
<1>6. history' \subseteq Places /\ stage' = stage
  BY DEF TypeOK, Move
<1> QED
  BY <1>4, <1>5, <1>6

LEMMA GotoType ==
    ASSUME TypeOK, NEW next \in Pcs, Goto(next)
    PROVE  pc' \in Pcs /\ i' \in 1..3 /\ by' \in {"request", "start"} /\ seen' \in Statuses
  BY DEF TypeOK, Goto, Statuses

LEMMA InitIInv == ASSUME Init PROVE IInv
<1>1. tree \in [Places -> [Areas -> Versions \cup {Gone}]] /\ history \subseteq Places
  BY FileRestoreAssumption DEF FileRestoreAssumption, Init, Places, Versions
<1>2. points \in Seq([files : Manifests, messages : Versions]) /\ points = <<>>
  BY DEF Init
<1>3. /\ head \in [messages : Versions, revision : Nat]
      /\ shown \in [point : Nat, files : Manifests, revision : Nat]
      /\ op \in [status : Statuses, cleaned : BOOLEAN, target : Nat, recovery : Nat, revision : Nat]
  BY FileRestoreAssumption DEF FileRestoreAssumption, Init, Manifests, Versions, Statuses
<1>4. clock \in Versions /\ faults \in 0..MaxFaults /\ crashes \in 0..MaxCrashes
  BY FileRestoreAssumption DEF FileRestoreAssumption, Init, Versions
<1>5. TypeOK
  <2>1. pc \in Pcs /\ i \in 1..3 /\ by \in {"request", "start"} /\ seen \in Statuses
    BY DEF Init, Statuses, Pcs
  <2>2. stage \in BOOLEAN /\ calm \in BOOLEAN
    BY DEF Init
  <2> QED
    BY <1>1, <1>2, <1>3, <1>4, <2>1, <2>2 DEF TypeOK
<1>6. Live \in Manifests
  BY FileRestoreAssumption DEF FileRestoreAssumption, Init, Live, Manifests, Places, Versions
<1>7. JournalOK
  BY <1>2, <1>6 DEF Init, JournalOK, Pending
<1>8. BackupOK /\ StatusOK /\ ComparedOK
  BY DEF Init, BackupOK, StatusOK, ComparedOK, Pending, RequestPcs, SwapPcs, RollbackPcs, CleanPcs
<1> QED
  BY <1>5, <1>7, <1>8 DEF IInv

-----------------------------------------------------------------------------
(* What a step does to the types                                           *)

DiskType ==
    /\ tree \in [Places -> [Areas -> Versions \cup {Gone}]]
    /\ history \subseteq Places
    /\ stage \in BOOLEAN

DbType ==
    /\ head \in [messages : Versions, revision : Nat]
    /\ points \in Seq([files : Manifests, messages : Versions])
    /\ op \in [status : Statuses, cleaned : BOOLEAN, target : Nat, recovery : Nat, revision : Nat]
    /\ shown \in [point : Nat, files : Manifests, revision : Nat]

ProcessType ==
    /\ pc \in Pcs
    /\ i \in 1..3
    /\ by \in {"request", "start"}
    /\ seen \in Statuses
    /\ calm \in BOOLEAN
    /\ clock \in Versions
    /\ faults \in 0..MaxFaults /\ crashes \in 0..MaxCrashes

LEMMA DiskStep == ASSUME IInv, [Next]_vars PROVE DiskType'
<1> USE DEF IInv
<1>0. DiskType
  BY DEF TypeOK, DiskType
<1>1. ASSUME UNCHANGED diskVars PROVE DiskType'
  BY <1>0, <1>1 DEF diskVars, DiskType
<1>2. ASSUME NEW a \in Areas, WriteFile(a) \/ OutsideWrite(a) PROVE DiskType'
  <2>1. clock' \in Versions
    BY <1>2, FileRestoreAssumption DEF WriteFile, OutsideWrite, Edit, TypeOK, Versions, FileRestoreAssumption
  <2>2. tree' = [tree EXCEPT !["live"] = [@ EXCEPT ![a] = clock']] /\ UNCHANGED <<history, stage>>
    BY <1>2 DEF WriteFile, OutsideWrite, WriteLive
  <2> QED
    BY <1>0, <2>1, <2>2 DEF DiskType, Places
<1>3. ASSUME RemoveStage PROVE DiskType'
  BY <1>0, <1>3 DEF DiskType, RemoveStage, Empty, Live, Places
<1>4. CASE RestoreStage
  <2>1. FilesOf(shown.point) \in Manifests
    <3>1. shown.point \in DOMAIN points
      BY <1>4, PointNumbers DEF TypeOK, JournalOK, BackupOK, RestoreStage
    <3> QED
      BY <3>1, PointType
  <2>2. Live \in [Areas -> Versions \cup {Gone}]
    BY <1>0 DEF DiskType, Live, Places
  <2>3. \E files \in [Areas -> Versions \cup {Gone}] :
            tree' = [p \in Places |-> IF p = "live" THEN Live ELSE IF p = "new" THEN files ELSE Empty]
    BY <1>4, <2>1, TreesType DEF RestoreStage
  <2>4. history' \subseteq Places /\ stage' \in BOOLEAN
    BY <1>0, <1>4 DEF DiskType, RestoreStage, Places
  <2> QED
    BY <2>2, <2>3, <2>4, TreesType DEF DiskType
<1>5. ASSUME NEW from \in Places, NEW to \in Places, Move(from, to) PROVE DiskType'
  BY <1>5, <1>0, MoveType DEF DiskType
<1>6. CASE MoveOut \/ MoveIn \/ RollbackOut \/ RollbackIn
  BY <1>1, <1>5, <1>6 DEF MoveOut, MoveIn, RollbackOut, StepAside, RollbackIn, Places
<1>7. CASE RollbackClear
  <2>1. ASSUME RemoveBuilt PROVE DiskType'
    BY <1>0, <2>1 DEF DiskType, RemoveBuilt, Empty, Places
  <2> QED
    BY <1>1, <1>7, <2>1 DEF RollbackClear
<1>8. CASE RollbackBuild
  <2>1. FilesOf(op.recovery) \in Manifests
    BY <1>8, PointType DEF JournalOK, StatusOK, RollbackPcs, RollbackBuild
  <2> QED
    BY <1>0, <1>8, <2>1, TreesType DEF DiskType, RollbackBuild, Build, Places
<1>9. CASE RollbackDrop
  <2>1. ASSUME RemoveDiscarded PROVE DiskType'
    <3>1. tree' = [tree EXCEPT !["rbOld"] = [@ EXCEPT ![Area] = Gone]]
      BY <2>1 DEF RemoveDiscarded
    <3>2. history' \subseteq Places /\ UNCHANGED stage
      BY <1>0, <2>1 DEF RemoveDiscarded, DiskType
    <3> QED
      BY <1>0, <3>1, <3>2, AreaIsOne DEF DiskType, Places
  <2> QED
    BY <1>1, <1>9, <2>1 DEF RollbackDrop
<1>10. CASE Clean \/ Collect \/ RestorePrepare
  BY <1>1, <1>3, <1>10 DEF Clean, Collect, RestorePrepare
<1>11. ASSUME \/ SaveState \/ CaptureTurn \/ (\E p \in DOMAIN points : Preview(p)) \/ RestoreBegin
              \/ RestoreBackup \/ RestoreMark \/ RestoreCheck \/ RestoreCommit \/ RestoreFailed
              \/ RollbackCheck \/ RollbackRecord \/ RollbackFailed \/ CleanRow \/ Start \/ Verify
              \/ Stop \/ Crash \/ UNCHANGED vars
       PROVE  DiskType'
  BY <1>1, <1>11
     DEF SaveState, CaptureTurn, Preview, RestoreBegin, RestoreBackup, RestoreMark, RestoreCheck,
         RestoreCommit, RestoreFailed, RollbackCheck, RollbackRecord, RollbackFailed, CleanRow,
         Start, Verify, Stop, Crash, vars, diskVars
<1> QED
  BY <1>2, <1>4, <1>6, <1>7, <1>8, <1>9, <1>10, <1>11 DEF Next, Step

\* What a step does to the database: the records are of their types.
LEMMA DbStep == ASSUME IInv, [Next]_vars PROVE DbType'
<1> USE DEF IInv
<1>0. DbType
  BY DEF TypeOK, DbType
<1>1. ASSUME UNCHANGED dbVars, UNCHANGED shown PROVE DbType'
  BY <1>0, <1>1 DEF dbVars, DbType
<1>2. ASSUME Record, ~Pending,
             head' = head \/ head' = [head EXCEPT !.revision = @ + 1], UNCHANGED <<op, shown>>
      PROVE  DbType'
  <2>1. points' \in Seq([files : Manifests, messages : Versions])
    BY <1>2, RecordPoint DEF JournalOK
  <2>2. head' \in [messages : Versions, revision : Nat]
    BY <1>0, <1>2 DEF DbType
  <2> QED
    BY <1>0, <1>2, <2>1, <2>2 DEF DbType
<1>3. CASE CaptureTurn \/ RestoreBackup
  <2>1. ~Pending
    BY <1>3 DEF CaptureTurn, Ready, RestoreBackup, BackupOK
  <2> QED
    BY <1>1, <1>2, <1>3, <2>1 DEF CaptureTurn, RestoreBackup, dbVars
<1>4. CASE SaveState
  <2>1. clock' \in Versions
    BY <1>4, FileRestoreAssumption DEF SaveState, Edit, TypeOK, Versions, FileRestoreAssumption
  <2> QED
    BY <1>0, <1>4, <2>1 DEF DbType, SaveState
<1>5. ASSUME NEW p \in DOMAIN points, Preview(p) PROVE DbType'
  <2>1. p \in Nat
    BY PointNumbers
  <2>2. Live \in Manifests
    BY <1>5 DEF JournalOK, Preview, Ready
  <2> QED
    BY <1>0, <1>5, <2>1, <2>2 DEF DbType, Preview, dbVars
<1>6. ASSUME UNCHANGED <<head, points, shown>>,
             \/ op' = op \/ Prepare \/ MarkClean
             \/ \E status \in Statuses : SetStatus(status)
      PROVE  DbType'
  <2>1. op' \in [status : Statuses, cleaned : BOOLEAN, target : Nat, recovery : Nat, revision : Nat]
    <3>1. CASE Prepare
      BY <1>0, <3>1, PointNumbers DEF DbType, Prepare, Statuses
    <3>2. CASE op' = op \/ MarkClean
      BY <1>0, <3>2 DEF DbType, MarkClean
    <3>3. ASSUME NEW status \in Statuses, SetStatus(status)
          PROVE  op' \in [status : Statuses, cleaned : BOOLEAN, target : Nat, recovery : Nat,
                          revision : Nat]
      BY <1>0, <3>3 DEF DbType, SetStatus
    <3> QED
      BY <1>6, <3>1, <3>2, <3>3
  <2> QED
    BY <1>0, <1>6, <2>1 DEF DbType
<1>7. CASE RestorePrepare \/ RestoreMark \/ RollbackRecord \/ RollbackFailed \/ CleanRow
  BY <1>6, <1>7 DEF RestorePrepare, RestoreMark, RollbackRecord, RollbackFailed, CleanRow,
                    Statuses, Settled
<1>8. CASE RestoreCommit
  <2>1. ASSUME CommitTx PROVE DbType'
    <3>1. points[op.target].messages \in Versions
      BY <1>8, PointType DEF JournalOK, StatusOK, RestoreCommit, SwapPcs
    <3> QED
      BY <1>0, <1>8, <2>1, <3>1 DEF DbType, CommitTx, RestoreCommit, Statuses, Settled
  <2> QED
    BY <1>1, <1>8, <2>1 DEF RestoreCommit, dbVars
<1>9. ASSUME \/ \E a \in Areas : WriteFile(a) \/ OutsideWrite(a)
             \/ RestoreBegin \/ RestoreStage \/ MoveOut \/ MoveIn \/ RestoreCheck \/ RestoreFailed
             \/ RollbackClear \/ RollbackBuild \/ RollbackDrop \/ RollbackOut \/ RollbackIn
             \/ RollbackCheck \/ Clean \/ Start \/ Verify \/ Collect \/ Stop \/ Crash
             \/ UNCHANGED vars
      PROVE  DbType'
  BY <1>1, <1>9
     DEF WriteFile, OutsideWrite, RestoreBegin, RestoreStage, MoveOut, MoveIn, RestoreCheck,
         RestoreFailed, RollbackClear, RollbackBuild, RollbackDrop, RollbackOut, RollbackIn,
         RollbackCheck, Clean, Start, Verify, Collect, Stop, Crash, vars, dbVars
<1> QED
  BY <1>3, <1>4, <1>5, <1>7, <1>8, <1>9 DEF Next, Step

\* The helpers that choose the next step choose one of the steps.
LEMMA CountStep == ASSUME TypeOK, NoFault \/ Fault
                   PROVE  calm' \in BOOLEAN /\ faults' \in 0..MaxFaults /\ crashes' \in 0..MaxCrashes
<1>1. MaxFaults \in Nat /\ faults \in 0..MaxFaults /\ crashes \in 0..MaxCrashes
  BY FileRestoreAssumption DEF FileRestoreAssumption, TypeOK
<1>2. CASE NoFault
  BY <1>2 DEF TypeOK, NoFault, countVars
<1>3. CASE Fault
  <2>1. calm' \in BOOLEAN
    BY <1>3 DEF Fault
  <2>2. crashes' \in 0..MaxCrashes
    BY <1>1, <1>3 DEF Fault
  <2>3. faults' \in 0..MaxFaults
    BY <1>1, <1>3 DEF Fault
  <2> QED
    BY <2>1, <2>2, <2>3
<1> QED
  BY <1>2, <1>3

PlaceType == pc \in Pcs /\ i \in 1..3 /\ by \in {"request", "start"} /\ seen \in Statuses

LEMMA GoesOn ==
    ASSUME TypeOK, NEW next \in Pcs, NEW again \in Pcs,
           \/ Goto(next) \/ Quit(next) \/ NextArea(again, next)
           \/ UNCHANGED <<pc, i, by, seen>>
    PROVE  PlaceType'
  BY DEF TypeOK, PlaceType, Goto, Quit, NextArea, Statuses

LEMMA ProcessStep == ASSUME IInv, [Next]_vars PROVE ProcessType'
<1> USE DEF IInv
<1>1. PlaceType'
  <2>1. ASSUME \/ \E a \in Areas : WriteFile(a) \/ OutsideWrite(a)
               \/ SaveState \/ CaptureTurn \/ (\E p \in DOMAIN points : Preview(p))
               \/ RestoreBegin \/ Stop \/ Crash \/ UNCHANGED vars
        PROVE  PlaceType'
    BY <2>1, GoesOn DEF WriteFile, OutsideWrite, SaveState, CaptureTurn, Preview, RestoreBegin,
                        Stop, Crash, vars, Pcs
  <2>2. CASE \/ RestoreBackup \/ RestoreStage \/ RestorePrepare \/ RestoreMark \/ MoveOut \/ MoveIn
             \/ RestoreCheck \/ RestoreCommit \/ RestoreFailed
    BY <2>2, GoesOn DEF RestoreBackup, RestoreStage, RestorePrepare, RestoreMark, MoveOut, MoveIn,
                        RestoreCheck, RestoreCommit, RestoreFailed, Pcs
  <2>3. CASE \/ RollbackClear \/ RollbackBuild \/ RollbackDrop \/ RollbackOut \/ RollbackIn
             \/ RollbackCheck \/ RollbackRecord \/ RollbackFailed
    BY <2>3, GoesOn DEF RollbackClear, RollbackBuild, RollbackDrop, RollbackOut, RollbackIn,
                        RollbackCheck, RollbackRecord, RollbackFailed, Pcs
  <2>4. CASE Clean \/ CleanRow \/ Verify \/ Collect
    BY <2>4, GoesOn DEF Clean, CleanFails, CleanRow, Verify, Collect, Pcs
  <2>5. CASE Start
    BY <2>5 DEF Start, PlaceType, TypeOK, Pcs
  <2> QED
    BY <2>1, <2>2, <2>3, <2>4, <2>5 DEF Next, Step
<1>2. calm' \in BOOLEAN /\ faults' \in 0..MaxFaults /\ crashes' \in 0..MaxCrashes
  <2>1. ASSUME UNCHANGED countVars PROVE NoFault
    BY <2>1 DEF NoFault
  <2>2. CASE Start \/ Crash
    <3>1. MaxCrashes \in Nat /\ calm \in BOOLEAN
          /\ faults \in 0..MaxFaults /\ crashes \in 0..MaxCrashes
      BY FileRestoreAssumption DEF FileRestoreAssumption, TypeOK
    <3> QED
      <4>1. calm' \in BOOLEAN
        BY <2>2, <3>1 DEF Start, Crash
      <4>2. faults' \in 0..MaxFaults
        BY <2>2, <3>1 DEF Start, Crash
      <4>3. crashes' \in 0..MaxCrashes
        BY <2>2, <3>1 DEF Start, Crash
      <4> QED
        BY <4>1, <4>2, <4>3
  <2>3. NoFault \/ Fault \/ Start \/ Crash
    BY DEF Next, Step, NoFault, WriteFile, OutsideWrite, SaveState, CaptureTurn, Preview,
           RestoreBegin, Stop, vars, countVars, RestoreBackup, RestoreStage, RestorePrepare,
           RestoreMark, MoveOut, MoveIn, RestoreCheck, RestoreCommit, RestoreFailed,
           RollbackClear, RollbackBuild, RollbackDrop, RollbackOut, RollbackIn, RollbackCheck,
           RollbackRecord, RollbackFailed, Clean, CleanFails, CleanRow, Verify, Collect
  <2> QED
    BY <2>2, <2>3, CountStep
<1>3. clock' \in Versions
  <2>1. clock' = clock \/ Edit
    BY DEF Next, Step, WriteFile, OutsideWrite, SaveState, CaptureTurn, Preview,
           RestoreBegin, Stop, Crash, Start, vars, RestoreBackup, RestoreStage, RestorePrepare,
           RestoreMark, MoveOut, MoveIn, RestoreCheck, RestoreCommit, RestoreFailed,
           RollbackClear, RollbackBuild, RollbackDrop, RollbackOut, RollbackIn, RollbackCheck,
           RollbackRecord, RollbackFailed, Clean, CleanRow, Verify, Collect
  <2> QED
    BY <2>1, FileRestoreAssumption DEF Edit, TypeOK, Versions, FileRestoreAssumption
<1> QED
  BY <1>1, <1>2, <1>3 DEF ProcessType, PlaceType

LEMMA TypeStep == ASSUME IInv, [Next]_vars PROVE TypeOK'
  BY DiskStep, DbStep, ProcessStep DEF TypeOK, DiskType, DbType, ProcessType

-----------------------------------------------------------------------------
(* What a step does to the invariant                                       *)

\* The files an operation claims are those of a restore point.
LEMMA ClaimedType == ASSUME TypeOK, JournalOK, op.status # "none" PROVE Claimed \in Manifests
  BY PointType DEF JournalOK, Claimed

LEMMA JournalStep == ASSUME IInv, [Next]_vars PROVE JournalOK'
<1> USE DEF IInv
<1>1. ASSUME UNCHANGED <<dbVars, shown>>, Live' = Live \/ Live' \in Manifests \/ Pending
      PROVE  JournalOK'
  BY <1>1 DEF JournalOK, Pending, dbVars
<1>2. ASSUME NEW a \in Areas, WriteFile(a) \/ OutsideWrite(a) PROVE JournalOK'
  <2>1. clock' \in Versions
    BY <1>2, FileRestoreAssumption DEF WriteFile, OutsideWrite, Edit, TypeOK, Versions, FileRestoreAssumption
  <2>2. ~Pending
    BY <1>2 DEF WriteFile, OutsideWrite, Ready, BackupOK
  <2>3. Live' = [Live EXCEPT ![a] = clock']
    BY <1>2 DEF WriteFile, OutsideWrite, WriteLive, Live, TypeOK, Places
  <2>4. Live' \in Manifests
    BY <2>1, <2>2, <2>3 DEF JournalOK, Manifests
  <2> QED
    BY <1>1, <1>2, <2>4 DEF WriteFile, OutsideWrite
<1>3. CASE CaptureTurn \/ RestoreBackup
  <2>1. ~Pending
    BY <1>3 DEF CaptureTurn, Ready, RestoreBackup, BackupOK
  <2>2. UNCHANGED <<op, shown, tree>>
    BY <1>3 DEF CaptureTurn, RestoreBackup, diskVars
  <2>3. CASE UNCHANGED points
    BY <2>2, <2>3 DEF JournalOK, Pending, Live
  <2>4. CASE Record
    <3>1. DOMAIN points \subseteq DOMAIN points' /\ Len(points') = Len(points) + 1
      BY <2>1, <2>4, RecordPoint DEF JournalOK
    <3> QED
      BY <2>1, <2>2, <3>1, PointNumbers DEF JournalOK, Pending, Live
  <2> QED
    BY <1>3, <2>3, <2>4 DEF CaptureTurn, RestoreBackup
<1>4. ASSUME NEW p \in DOMAIN points, Preview(p) PROVE JournalOK'
  BY <1>4, PointNumbers DEF Preview, JournalOK, Pending, Live, diskVars, dbVars
<1>5. CASE SaveState
  BY <1>5 DEF SaveState, JournalOK, Pending, Live, diskVars
<1>6. ASSUME Prepare, pc = "prepare", UNCHANGED <<points, shown>> PROVE JournalOK'
  <2>1. shown.point \in DOMAIN points /\ Len(points) \in DOMAIN points
    BY <1>6, PointNumbers, EmptySeq DEF JournalOK, BackupOK
  <2> QED
    BY <1>6, <2>1 DEF Prepare, JournalOK, Pending
<1>7. ASSUME NEW status \in Statuses \ {"none"}, op.status # "none", UNCHANGED <<points, shown>>,
             SetStatus(status) \/ (CommitTx /\ Pending)
      PROVE  JournalOK'
  BY <1>7 DEF TypeOK, JournalOK, SetStatus, CommitTx, Pending
<1>8. ASSUME MarkClean, pc \in CleanPcs, UNCHANGED <<tree, points, shown>> PROVE JournalOK'
  <2>1. Live \in Manifests
    BY <1>8, ClaimedType DEF StatusOK, ComparedOK, Settled
  <2> QED
    BY <1>8, <2>1 DEF TypeOK, JournalOK, MarkClean, Pending, Live
<1>9. CASE RestorePrepare
  <2>1. CASE Prepare
    BY <1>6, <1>9, <2>1 DEF RestorePrepare
  <2>2. CASE UNCHANGED op
    <3>1. Live' = Live
      BY <1>9 DEF RestorePrepare, RemoveStage, diskVars, Live, Places
    <3> QED
      BY <1>1, <1>9, <2>2, <3>1 DEF RestorePrepare, dbVars
  <2> QED
    BY <1>9, <2>1, <2>2 DEF RestorePrepare
<1>10. CASE RestoreMark \/ RollbackRecord
  <2>1. op.status # "none"
    BY <1>10 DEF RestoreMark, RollbackRecord, StatusOK, JournalOK, RollbackPcs
  <2> QED
    BY <1>1, <1>7, <1>10, <2>1 DEF RestoreMark, RollbackRecord, Statuses, Settled, diskVars, dbVars, Live
<1>11. CASE RollbackFailed
  <2>1. op.status # "none"
    BY <1>11 DEF RollbackFailed, StatusOK
  <2> QED
    BY <1>1, <1>7, <1>11, <2>1 DEF RollbackFailed, Statuses, Settled, diskVars, dbVars, Live
<1>12. CASE RestoreCommit
  <2>1. Pending /\ op.status # "none"
    BY <1>12 DEF RestoreCommit, StatusOK, SwapPcs
  <2> QED
    BY <1>1, <1>7, <1>12, <2>1 DEF RestoreCommit, Statuses, Settled, dbVars
<1>13. CASE CleanRow
  BY <1>1, <1>8, <1>13 DEF CleanRow, CleanPcs, diskVars, dbVars, Live
<1>14. CASE MoveOut \/ MoveIn \/ RollbackClear \/ RollbackBuild \/ RollbackDrop \/ RollbackOut
            \/ RollbackIn \/ Clean
  <2>1. Pending
    BY <1>14 DEF MoveOut, MoveIn, RollbackClear, RollbackBuild, RollbackDrop, RollbackOut,
                 RollbackIn, Clean, StatusOK, SwapPcs, RollbackPcs, CleanPcs
  <2> QED
    BY <1>1, <1>14, <2>1
       DEF MoveOut, MoveIn, RollbackClear, RollbackBuild, RollbackDrop, RollbackOut, RollbackIn, Clean
<1>15. CASE RestoreStage \/ Collect
  <2>1. Live' = Live
    BY <1>15 DEF RestoreStage, Collect, RemoveStage, diskVars, Live, Places
  <2> QED
    BY <1>1, <1>15, <2>1 DEF RestoreStage, Collect
<1>16. CASE \/ RestoreBegin \/ RestoreCheck \/ RestoreFailed \/ RollbackCheck \/ Start \/ Verify
            \/ Stop \/ Crash \/ UNCHANGED vars
  BY <1>1, <1>16 DEF RestoreBegin, RestoreCheck, RestoreFailed, RollbackCheck, Start, Verify, Stop,
                     Crash, vars, diskVars, dbVars, Live
<1> QED
  BY <1>2, <1>3, <1>4, <1>5, <1>9, <1>10, <1>11, <1>12, <1>13, <1>14, <1>15, <1>16 DEF Next, Step

LEMMA BackupStep == ASSUME IInv, [Next]_vars PROVE BackupOK'
<1> USE DEF IInv
<1>1. ASSUME pc' \notin {"backup", "stage", "prepare"} PROVE BackupOK'
  BY <1>1 DEF BackupOK
<1>2. CASE RestoreBegin
  BY <1>2 DEF RestoreBegin, Ready, Goto, BackupOK, Pending, dbVars
<1>3. ASSUME NEW a \in Areas, WriteFile(a) \/ OutsideWrite(a) PROVE BackupOK'
  BY <1>3 DEF WriteFile, OutsideWrite, Ready, BackupOK, Pending, dbVars
<1>4. CASE RestoreBackup
  <2>1. ~Pending /\ shown.point # 0
    BY <1>4 DEF RestoreBackup, BackupOK
  <2>2. ASSUME Record PROVE points' # <<>> /\ points'[Len(points')].files = Live
    BY <2>1, <2>2, RecordPoint DEF JournalOK
  <2>3. pc' = "idle" \/ (pc' = "stage" /\ Record)
    BY <1>4 DEF RestoreBackup, Goto
  <2> QED
    BY <1>1, <1>4, <2>1, <2>2, <2>3 DEF RestoreBackup, BackupOK, Pending, FilesOf, Live, diskVars
<1>5. CASE RestoreStage
  <2>1. Live' = Live
    BY <1>5 DEF RestoreStage, Live, Places
  <2> QED
    BY <1>5, <2>1 DEF RestoreStage, Goto, BackupOK, Pending, FilesOf, dbVars
<1>6. CASE SaveState \/ CaptureTurn \/ \E p \in DOMAIN points : Preview(p)
  BY <1>1, <1>6 DEF SaveState, CaptureTurn, Preview, Ready
<1>7. CASE RestorePrepare \/ RestoreMark \/ RestoreCheck \/ RestoreCommit \/ RestoreFailed
  BY <1>1, <1>7 DEF RestorePrepare, RestoreMark, RestoreCheck, RestoreCommit, RestoreFailed, Goto
<1>8. CASE MoveOut \/ MoveIn \/ RollbackDrop \/ RollbackOut \/ RollbackIn
  BY <1>1, <1>8 DEF MoveOut, MoveIn, RollbackDrop, RollbackOut, RollbackIn, Goto, Quit, NextArea
<1>9. CASE RollbackClear \/ RollbackBuild \/ RollbackCheck \/ RollbackRecord \/ RollbackFailed
  BY <1>1, <1>9 DEF RollbackClear, RollbackBuild, RollbackCheck, RollbackRecord, RollbackFailed, Goto
<1>10. CASE Clean \/ CleanRow \/ Start \/ Verify \/ Collect \/ Stop \/ Crash
  BY <1>1, <1>10 DEF Clean, CleanRow, CleanFails, Start, Verify, Collect, Stop, Crash, Goto
<1>11. CASE UNCHANGED vars
  BY <1>11 DEF vars, diskVars, dbVars, BackupOK, Pending, FilesOf, Live
<1> QED
  BY <1>2, <1>3, <1>4, <1>5, <1>6, <1>7, <1>8, <1>9, <1>10, <1>11 DEF Next, Step

LEMMA StatusStep == ASSUME IInv, [Next]_vars PROVE StatusOK'
<1> USE DEF IInv
<1>1. CASE UNCHANGED vars
  BY <1>1 DEF vars, dbVars, StatusOK, Pending
<1>2. ASSUME NEW a \in Areas, WriteFile(a) \/ OutsideWrite(a) PROVE StatusOK'
  BY <1>2 DEF WriteFile, OutsideWrite, StatusOK, Pending, dbVars
<1>3. CASE SaveState \/ CaptureTurn \/ \E p \in DOMAIN points : Preview(p)
  BY <1>3 DEF SaveState, CaptureTurn, Preview, StatusOK, Pending, dbVars
<1>4. CASE RestoreBegin \/ RestoreBackup \/ RestoreStage
  BY <1>4 DEF RestoreBegin, RestoreBackup, RestoreStage, Ready, Goto, StatusOK, Pending, dbVars,
              RequestPcs, SwapPcs, RollbackPcs, CleanPcs
<1>5. CASE RestorePrepare
  BY <1>5 DEF RestorePrepare, Prepare, Goto, StatusOK, Pending,
              RequestPcs, SwapPcs, RollbackPcs, CleanPcs
<1>6. CASE RestoreMark
  BY <1>6 DEF TypeOK, RestoreMark, SetStatus, Goto, StatusOK, Pending,
              RequestPcs, SwapPcs, RollbackPcs, CleanPcs
<1>7. CASE MoveOut \/ MoveIn
  BY <1>7 DEF MoveOut, MoveIn, Goto, Quit, NextArea, StatusOK, Pending, dbVars,
              RequestPcs, SwapPcs, RollbackPcs, CleanPcs
<1>8. CASE RestoreCheck \/ RestoreFailed
  BY <1>8 DEF RestoreCheck, RestoreFailed, Goto, StatusOK, Pending, dbVars,
              RequestPcs, SwapPcs, RollbackPcs, CleanPcs
<1>9. CASE RestoreCommit
  BY <1>9 DEF TypeOK, RestoreCommit, CommitTx, Goto, StatusOK, Pending, Settled,
              RequestPcs, SwapPcs, RollbackPcs, CleanPcs
<1>10. CASE RollbackClear \/ RollbackBuild \/ RollbackCheck
  BY <1>10 DEF RollbackClear, RollbackBuild, RollbackCheck, Goto, StatusOK, Pending, JournalOK, dbVars,
               RequestPcs, SwapPcs, RollbackPcs, CleanPcs
<1>11. CASE RollbackDrop \/ RollbackOut \/ RollbackIn
  BY <1>11 DEF RollbackDrop, RollbackOut, RollbackIn, Goto, Quit, NextArea, StatusOK, Pending,
               JournalOK, dbVars, RequestPcs, SwapPcs, RollbackPcs, CleanPcs
<1>12. CASE RollbackRecord
  BY <1>12 DEF TypeOK, RollbackRecord, SetStatus, Goto, StatusOK, Pending, Settled, JournalOK,
               RequestPcs, SwapPcs, RollbackPcs, CleanPcs
<1>13. CASE RollbackFailed
  BY <1>13 DEF TypeOK, RollbackFailed, SetStatus, Goto, StatusOK, Pending, Settled,
               RequestPcs, SwapPcs, RollbackPcs, CleanPcs
<1>14. CASE Clean \/ CleanRow
  BY <1>14 DEF TypeOK, Clean, CleanRow, CleanFails, MarkClean, Goto, StatusOK, Pending, Settled, dbVars,
               RequestPcs, SwapPcs, RollbackPcs, CleanPcs
<1>15. CASE Start \/ Verify \/ Collect \/ Stop \/ Crash
  BY <1>15 DEF TypeOK, Start, Verify, Collect, Stop, Crash, Goto, StatusOK, Pending, Settled, dbVars,
               JournalOK, RequestPcs, SwapPcs, RollbackPcs, CleanPcs
<1> QED
  BY <1>1, <1>2, <1>3, <1>4, <1>5, <1>6, <1>7, <1>8, <1>9, <1>10, <1>11, <1>12, <1>13, <1>14, <1>15
     DEF Next, Step

LEMMA ComparedStep == ASSUME IInv, [Next]_vars PROVE ComparedOK'
<1> USE DEF IInv
<1>1. ASSUME pc' \notin {"commit", "rbRecord", "rbFailed"} \cup CleanPcs PROVE ComparedOK'
  BY <1>1 DEF ComparedOK
<1>2. CASE UNCHANGED vars
  BY <1>2 DEF vars, diskVars, dbVars, ComparedOK, Pending, Claimed, FilesOf, Live
<1>3. ASSUME \/ \E a \in Areas : WriteFile(a) \/ OutsideWrite(a)
             \/ SaveState \/ CaptureTurn \/ \E p \in DOMAIN points : Preview(p)
      PROVE  ComparedOK'
  BY <1>1, <1>3 DEF WriteFile, OutsideWrite, SaveState, CaptureTurn, Preview, Ready, CleanPcs
<1>4. CASE \/ RestoreBegin \/ RestoreBackup \/ RestoreStage \/ RestorePrepare \/ RestoreMark
           \/ RestoreFailed
  BY <1>1, <1>4 DEF RestoreBegin, RestoreBackup, RestoreStage, RestorePrepare, RestoreMark,
                    RestoreFailed, Goto, CleanPcs
<1>5. CASE MoveOut \/ MoveIn
  BY <1>1, <1>5 DEF MoveOut, MoveIn, Goto, Quit, NextArea, CleanPcs
<1>6. CASE RestoreCheck \/ RollbackCheck \/ Verify
  BY <1>6 DEF RestoreCheck, RollbackCheck, Verify, Goto, ComparedOK, StatusOK, RollbackPcs, SwapPcs,
              CleanPcs, Pending, Claimed, FilesOf, Live, diskVars, dbVars
<1>7. CASE RestoreCommit
  <2>1. Pending /\ Live = FilesOf(op.target)
    BY <1>7 DEF RestoreCommit, StatusOK, SwapPcs, ComparedOK
  <2>2. pc' = "failed" \/ (pc' = "clean" /\ CommitTx)
    BY <1>7 DEF RestoreCommit, Goto
  <2>3. UNCHANGED <<tree, points>>
    BY <1>7 DEF RestoreCommit, diskVars
  <2>4. ASSUME CommitTx PROVE Claimed' = FilesOf(op.target) /\ Live' = Live
    BY <2>3, <2>4 DEF TypeOK, CommitTx, Claimed, FilesOf, Live
  <2> QED
    BY <1>1, <2>1, <2>2, <2>4 DEF ComparedOK, CleanPcs
<1>8. CASE RollbackClear \/ RollbackBuild
  BY <1>8 DEF RollbackClear, RollbackBuild, Goto, ComparedOK, StatusOK, RollbackPcs, CleanPcs,
              Pending, dbVars
<1>9. CASE RollbackDrop \/ RollbackOut \/ RollbackIn
  BY <1>9 DEF RollbackDrop, RollbackOut, RollbackIn, Goto, Quit, NextArea, ComparedOK, StatusOK,
              RollbackPcs, CleanPcs, Pending, dbVars
<1>10. CASE RollbackRecord
  <2>1. Pending /\ Live = FilesOf(op.recovery)
    BY <1>10 DEF RollbackRecord, StatusOK, RollbackPcs, ComparedOK
  <2>2. UNCHANGED <<tree, points>>
    BY <1>10 DEF RollbackRecord, diskVars
  <2>3. \/ pc' = "clean" /\ SetStatus("rolled_back")
        \/ pc' = "rbFailed" /\ (op' = op \/ SetStatus("rolled_back"))
    BY <1>10 DEF RollbackRecord, Goto
  <2>4. ASSUME SetStatus("rolled_back") PROVE Pending' /\ Claimed' = FilesOf(op.recovery)
    BY <2>2, <2>4 DEF TypeOK, SetStatus, Pending, Claimed, FilesOf
  <2> QED
    BY <2>1, <2>2, <2>3, <2>4 DEF ComparedOK, CleanPcs, Pending, Live
<1>11. CASE RollbackFailed
  BY <1>1, <1>11 DEF RollbackFailed, Goto, CleanPcs
<1>12. CASE Clean
  <2>1. Live' = Live
    BY <1>12 DEF Clean, RemoveStage, Live, Places, diskVars
  <2> QED
    BY <1>1, <1>12, <2>1 DEF Clean, CleanFails, Goto, ComparedOK, CleanPcs, Claimed, FilesOf, Pending, dbVars
<1>13. CASE CleanRow
  <2>1. Live = Claimed
    BY <1>13 DEF CleanRow, ComparedOK, CleanPcs
  <2>2. op' = op \/ MarkClean
    BY <1>13 DEF CleanRow, CleanFails
  <2>3. Claimed' = Claimed /\ Live' = Live
    BY <1>13, <2>2 DEF TypeOK, CleanRow, MarkClean, Claimed, FilesOf, Live, diskVars
  <2>4. pc' \in {"idle", "collect", "rbFailed"}
    BY <1>13 DEF CleanRow, CleanFails, Goto
  <2> QED
    BY <2>1, <2>3, <2>4 DEF ComparedOK, CleanPcs
<1>14. CASE Start \/ Collect \/ Stop \/ Crash
  BY <1>1, <1>14 DEF Start, Collect, Stop, Crash, Goto, CleanPcs
<1> QED
  BY <1>2, <1>3, <1>4, <1>5, <1>6, <1>7, <1>8, <1>9, <1>10, <1>11, <1>12, <1>13, <1>14 DEF Next, Step

-----------------------------------------------------------------------------
(* The theorems                                                            *)

\* The inductive invariant: the journal names points that exist, the step the
\* process is at tells what its row says, and a step that relies on a comparison
\* of the files still has the files it compared.
THEOREM Inductive == Spec => []IInv
<1>1. Init => IInv
  BY InitIInv
<1>2. IInv /\ [Next]_vars => IInv'
  BY TypeStep, JournalStep, BackupStep, StatusStep, ComparedStep DEF IInv
<1> QED
  BY <1>1, <1>2, PTL DEF Spec

\* Every variable keeps its type, whatever fails and whenever the process dies.
THEOREM TypeCorrect == Spec => []TypeOK
<1>1. IInv => TypeOK
  BY DEF IInv
<1> QED
  BY <1>1, Inductive, PTL

\* One step of the exchange is one step of the abstract restore, or none.
LEMMA StepImplements == ASSUME IInv, [Next]_vars PROVE [Atomic!Next]_(Atomic!vars)
<1> USE DEF IInv
<1>1. ASSUME FilesNow' = FilesNow, UNCHANGED <<head, points, clock>> PROVE UNCHANGED Atomic!vars
  BY <1>1 DEF Atomic!vars
\* What leaves the journal alone, and the files wherever no operation is pending.
<1>2. ASSUME UNCHANGED <<op, points>>, Pending \/ Live' = Live PROVE FilesNow' = FilesNow
  BY <1>2 DEF FilesNow, Claimed, FilesOf, Pending
<1>3. ASSUME NEW a \in Areas, WriteFile(a) \/ OutsideWrite(a) PROVE Atomic!WriteFile(a)
  <2>1. ~Pending /\ UNCHANGED <<op, head, points>> /\ clock' = clock + 1
    BY <1>3 DEF WriteFile, OutsideWrite, Ready, BackupOK, Edit, dbVars
  <2>2. Live' = [Live EXCEPT ![a] = clock']
    BY <1>3 DEF WriteFile, OutsideWrite, WriteLive, Live, TypeOK, Places
  <2>3. FilesNow = Live /\ FilesNow' = Live'
    BY <2>1 DEF FilesNow, Pending
  <2> QED
    BY <2>1, <2>2, <2>3 DEF Atomic!WriteFile
<1>4. CASE SaveState
  <2>1. FilesNow' = FilesNow
    BY <1>4 DEF SaveState, FilesNow, Claimed, FilesOf, Pending, Live, diskVars
  <2>2. Atomic!SaveState
    BY <1>4, <2>1 DEF SaveState, Edit, Atomic!SaveState
  <2> QED
    BY <2>2 DEF Atomic!Next
<1>5. CASE CaptureTurn \/ RestoreBackup
  <2>1. ~Pending /\ UNCHANGED <<op, tree, clock>> /\ head'.messages = head.messages
    BY <1>5 DEF TypeOK, CaptureTurn, Ready, RestoreBackup, BackupOK, diskVars
  <2>2. FilesNow = Live /\ FilesNow' = FilesNow
    BY <2>1 DEF FilesNow, Pending, Live
  <2>3. CASE UNCHANGED points
    BY <2>1, <2>2, <2>3 DEF Atomic!vars
  <2>4. CASE Record
    BY <2>1, <2>2, <2>4 DEF Record, Atomic!Record, Atomic!Here, Atomic!Next
  <2> QED
    BY <1>5, <2>3, <2>4 DEF CaptureTurn, RestoreBackup
<1>6. CASE RestorePrepare
  <2>1. UNCHANGED <<head, points, clock>> /\ ~Pending /\ FilesOf(Len(points)) = Live
    BY <1>6 DEF RestorePrepare, BackupOK
  <2>2. CASE Prepare
    BY <1>1, <2>1, <2>2 DEF Prepare, FilesNow, Claimed, FilesOf, Pending
  <2>3. CASE UNCHANGED op
    <3>1. Live' = Live
      BY <1>6 DEF RestorePrepare, RemoveStage, diskVars, Live, Places
    <3> QED
      BY <1>1, <1>2, <2>1, <2>3, <3>1
  <2> QED
    BY <1>6, <2>2, <2>3 DEF RestorePrepare
\* A status that is written neither makes nor unmakes a commit.
<1>7. ASSUME NEW status, SetStatus(status), op.status = "committed" <=> status = "committed",
             Pending \/ Live = Claimed, UNCHANGED <<head, points, clock>>
      PROVE  UNCHANGED Atomic!vars
  <2>1. Pending' /\ Claimed' = Claimed
    BY <1>7 DEF TypeOK, SetStatus, Pending, Claimed, FilesOf
  <2> QED
    BY <1>1, <1>7, <2>1 DEF FilesNow
<1>8. CASE RestoreMark \/ RollbackRecord
  <2>1. Pending /\ op.status # "committed" /\ UNCHANGED <<head, points, clock, tree>>
    BY <1>8 DEF RestoreMark, RollbackRecord, StatusOK, RollbackPcs, diskVars
  <2>2. op' = op \/ SetStatus("applying") \/ SetStatus("rolled_back")
    BY <1>8 DEF RestoreMark, RollbackRecord
  <2> QED
    BY <1>1, <1>2, <1>7, <2>1, <2>2
<1>9. CASE RollbackFailed
  <2> DEFINE status == IF by = "start" /\ seen \in Settled THEN seen ELSE "needs_recovery"
  <2>1. op.status = "committed" <=> status = "committed"
    BY <1>9 DEF RollbackFailed, StatusOK, TypeOK, Settled
  <2>2. (Pending \/ Live = Claimed) /\ UNCHANGED <<head, points, clock, tree>>
    BY <1>9 DEF RollbackFailed, ComparedOK, diskVars
  <2>3. op' = op \/ SetStatus(status)
    BY <1>9 DEF RollbackFailed
  <2>4. Live' = Live
    BY <2>2 DEF Live
  <2> QED
    BY <1>1, <1>2, <1>7, <2>1, <2>2, <2>3, <2>4
<1>10. CASE RestoreCommit
  <2>1. Pending /\ UNCHANGED <<points, clock, tree>>
    BY <1>10 DEF RestoreCommit, StatusOK, SwapPcs, diskVars
  <2>2. CASE UNCHANGED <<head, op>>
    BY <1>1, <1>2, <2>1, <2>2
  <2>3. CASE CommitTx
    <3>1. op.target \in DOMAIN points
      BY <1>10 DEF RestoreCommit, StatusOK, SwapPcs, JournalOK
    <3>2. FilesNow' = points[op.target].files /\ head'.messages = points[op.target].messages
      BY <2>1, <2>3 DEF TypeOK, CommitTx, FilesNow, Claimed, FilesOf, Pending
    <3>3. Atomic!Restore(op.target)
      BY <2>1, <3>2 DEF Atomic!Restore
    <3> QED
      BY <3>1, <3>3 DEF Atomic!Next
  <2> QED
    BY <1>10, <2>2, <2>3 DEF RestoreCommit
<1>11. CASE CleanRow
  <2>1. Pending /\ Live = Claimed /\ UNCHANGED <<head, points, clock, tree>>
    BY <1>11 DEF CleanRow, StatusOK, ComparedOK, CleanPcs, diskVars
  <2>2. op' = op \/ MarkClean
    BY <1>11 DEF CleanRow
  <2>3. ASSUME MarkClean PROVE FilesNow' = FilesNow
    BY <2>1, <2>3 DEF TypeOK, MarkClean, FilesNow, Pending, Live
  <2> QED
    BY <1>1, <1>2, <2>1, <2>2, <2>3
<1>12. CASE \/ MoveOut \/ MoveIn \/ RollbackClear \/ RollbackBuild \/ RollbackDrop \/ RollbackOut
            \/ RollbackIn \/ Clean
  <2>1. Pending
    BY <1>12 DEF MoveOut, MoveIn, RollbackClear, RollbackBuild, RollbackDrop, RollbackOut,
                 RollbackIn, Clean, StatusOK, SwapPcs, RollbackPcs, CleanPcs
  <2>2. UNCHANGED <<dbVars, clock>>
    BY <1>12 DEF MoveOut, MoveIn, RollbackClear, RollbackBuild, RollbackDrop, RollbackOut,
                 RollbackIn, Clean
  <2> QED
    BY <1>1, <1>2, <2>1, <2>2 DEF dbVars
<1>13. CASE RestoreStage \/ Collect
  <2>1. Live' = Live
    BY <1>13 DEF RestoreStage, Collect, RemoveStage, diskVars, Live, Places
  <2> QED
    BY <1>1, <1>2, <1>13, <2>1 DEF RestoreStage, Collect, dbVars
<1>14. CASE \/ (\E p \in DOMAIN points : Preview(p)) \/ RestoreBegin \/ RestoreCheck \/ RestoreFailed
            \/ RollbackCheck \/ Start \/ Verify \/ Stop \/ Crash \/ UNCHANGED vars
  <2>1. UNCHANGED <<tree, dbVars, clock>>
    BY <1>14 DEF Preview, RestoreBegin, RestoreCheck, RestoreFailed, RollbackCheck, Start, Verify,
                 Stop, Crash, vars, diskVars, dbVars
  <2> QED
    BY <1>1, <1>2, <2>1 DEF dbVars, Live
<1> QED
  <2>1. (\E a \in Areas : WriteFile(a) \/ OutsideWrite(a)) => Atomic!Next
    BY <1>3 DEF Atomic!Next
  <2> QED
    BY <2>1, <1>4, <1>5, <1>6, <1>8, <1>9, <1>10, <1>11, <1>12, <1>13, <1>14 DEF Next, Step

\* Restoring is atomic: through the renames, the failures, the deaths of the
\* process and the recovery at its start, files and messages go back together to
\* what one restore point recorded, or stay.
THEOREM RestoreImplementsAtomic == Spec => RestoreIsAtomic
<1>1. Init => Atomic!Init
  BY DEF Init, Atomic!Init, FilesNow, Pending, Live, Places
<1>2. IInv /\ [Next]_vars => [Atomic!Next]_(Atomic!vars)
  BY StepImplements
<1> QED
  BY <1>1, <1>2, Inductive, PTL DEF Spec, RestoreIsAtomic, Atomic!Spec

-----------------------------------------------------------------------------
(* Nothing is discarded that the user was not shown                        *)

\* From the check of the preview to the end of the exchange: the revision is that
\* of the preview, and so are the files the backup has read.
ShownOK ==
    /\ pc = "backup" => head.revision = shown.revision
    /\ pc \in {"stage", "prepare"} =>
          FilesOf(Len(points)) = shown.files /\ head.revision = shown.revision
    /\ op.status \in {"prepared", "applying"} =>
          /\ Pending
          /\ FilesOf(op.recovery) = shown.files /\ head.revision = shown.revision

LEMMA ShownStep == ASSUME IInv, ShownOK, [Next]_vars PROVE ShownOK'
<1> USE DEF IInv
<1>1. ASSUME pc' \notin {"backup", "stage", "prepare"}, UNCHANGED <<op, head, points, shown>>
      PROVE  ShownOK'
  BY <1>1 DEF ShownOK, Pending, FilesOf
<1>2. ASSUME pc' \notin {"backup", "stage", "prepare"}, op'.status \notin {"prepared", "applying"}
      PROVE  ShownOK'
  BY <1>2 DEF ShownOK
<1>3. CASE UNCHANGED vars
  BY <1>3 DEF vars, ShownOK, Pending, FilesOf
<1>4. CASE SaveState \/ CaptureTurn \/ \E p \in DOMAIN points : Preview(p)
  <2>1. op' = op /\ ~Pending /\ pc' = "idle"
    BY <1>4 DEF SaveState, CaptureTurn, Preview, Ready, dbVars
  <2> QED
    BY <1>2, <2>1 DEF ShownOK
<1>5. CASE RestoreBegin
  BY <1>5 DEF RestoreBegin, Ready, Goto, ShownOK, dbVars
<1>6. ASSUME NEW a \in Areas, WriteFile(a) \/ OutsideWrite(a) PROVE ShownOK'
  BY <1>6 DEF WriteFile, OutsideWrite, Ready, ShownOK, FilesOf, Pending, dbVars
<1>7. CASE RestoreBackup
  <2>1. ~Pending /\ head.revision = shown.revision /\ UNCHANGED <<head, op, shown>>
    BY <1>7 DEF RestoreBackup, BackupOK, ShownOK
  <2>2. ASSUME Record PROVE FilesOf(Len(points))' = Live
    BY <2>1, <2>2, RecordPoint DEF JournalOK, FilesOf
  <2>3. pc' = "idle" \/ (pc' = "stage" /\ Record /\ Live = shown.files)
    BY <1>7 DEF RestoreBackup, Goto
  <2> QED
    BY <2>1, <2>2, <2>3 DEF ShownOK
<1>8. CASE RestoreStage
  BY <1>8 DEF RestoreStage, Goto, ShownOK, BackupOK, Pending, FilesOf, dbVars
<1>9. CASE RestorePrepare
  BY <1>1, <1>9 DEF RestorePrepare, Prepare, Goto, ShownOK, Pending, FilesOf
<1>10. CASE RestoreMark
  <2>1. ASSUME SetStatus("applying") PROVE ShownOK'
    BY <1>10, <2>1 DEF TypeOK, StatusOK, RestoreMark, SetStatus, Goto, ShownOK, Pending, FilesOf
  <2> QED
    BY <1>1, <1>10, <2>1 DEF RestoreMark, Goto
<1>11. CASE RestoreCommit
  <2>1. pc' \in {"clean", "failed"} /\ UNCHANGED <<points, shown>>
    BY <1>11 DEF RestoreCommit, Goto
  <2>2. CommitTx \/ UNCHANGED <<head, op>>
    BY <1>11 DEF RestoreCommit
  <2>3. CommitTx => op'.status = "committed"
    BY DEF TypeOK, CommitTx
  <2> QED
    BY <1>1, <1>2, <2>1, <2>2, <2>3
<1>12. CASE RollbackRecord \/ RollbackFailed
  <2>1. pc' \in {"clean", "collect", "idle", "down", "rbFailed"} /\ UNCHANGED <<head, points, shown>>
    BY <1>12 DEF RollbackRecord, RollbackFailed, Goto
  <2>2. \/ op' = op
        \/ op'.status \notin {"prepared", "applying"}
    BY <1>12 DEF TypeOK, RollbackRecord, RollbackFailed, SetStatus, Settled
  <2> QED
    BY <1>1, <1>2, <2>1, <2>2
<1>13. CASE CleanRow
  <2>1. pc' \in {"collect", "idle", "rbFailed"} /\ op'.status = op.status /\ op.status \in Settled
    BY <1>13 DEF TypeOK, CleanRow, CleanFails, MarkClean, Goto, StatusOK, CleanPcs
  <2> QED
    BY <1>2, <2>1 DEF Settled
<1>14. CASE RestoreCheck \/ RestoreFailed \/ MoveOut \/ MoveIn
  BY <1>1, <1>14 DEF RestoreCheck, RestoreFailed, MoveOut, MoveIn, Goto, Quit, NextArea, dbVars
<1>15. CASE RollbackClear \/ RollbackBuild \/ RollbackDrop \/ RollbackOut \/ RollbackIn \/ RollbackCheck
  BY <1>1, <1>15 DEF RollbackClear, RollbackBuild, RollbackDrop, RollbackOut, RollbackIn,
                     RollbackCheck, Goto, Quit, NextArea, dbVars
<1>16. CASE Clean \/ Start \/ Verify \/ Collect \/ Stop \/ Crash
  BY <1>1, <1>16 DEF Clean, CleanFails, Start, Verify, Collect, Stop, Crash, Goto, dbVars
<1> QED
  BY <1>3, <1>4, <1>5, <1>6, <1>7, <1>8, <1>9, <1>10, <1>11, <1>12, <1>13, <1>14, <1>15, <1>16
     DEF Next, Step

\* A restore replaces exactly the files and the messages the user was shown: the
\* backup it keeps is of them, and the revision has not moved since.
THEOREM NothingUnseenIsDiscarded == Spec => []OnlyTheShownIsDiscarded
<1>1. Init => ShownOK
  BY DEF Init, ShownOK
<1>2. IInv /\ ShownOK /\ [Next]_vars => ShownOK'
  BY ShownStep
<1>3. ShownOK => OnlyTheShownIsDiscarded
  BY DEF ShownOK, OnlyTheShownIsDiscarded
<1> QED
  BY <1>1, <1>2, <1>3, Inductive, PTL DEF Spec
-----------------------------------------------------------------------------
(* A start in which nothing fails settles what it finds                    *)

\* The numbers of a loop over the areas, which has begun or not.
LoopPcs == {"out", "in", "rbDrop", "rbOut", "rbIn"}
IndexOK == pc \notin LoopPcs => i = 1

\* A final status that is not cleaned up yet says what the live files are, and
\* only a final status is kept by the start that reads it.
SettledOK ==
    /\ Pending /\ op.status \in Settled => Live = Claimed
    /\ pc \in RollbackPcs => op.status \notin Settled
    /\ by = "start" /\ seen \in Settled => op.status = seen

\* The areas a rollback has put back, and those it has still to put back.
Back == FilesOf(op.recovery)
RebuiltOK ==
    /\ pc \in {"rbDrop", "rbOut", "rbIn"} => \A k \in 1..3 :
          IF k < i THEN Live[AreaOrder[k]] = Back[AreaOrder[k]]
          ELSE tree["rbNew"][AreaOrder[k]] = Back[AreaOrder[k]]
    /\ pc = "rbCheck" => Live = Back

\* Where nothing has failed, only a lost staging directory ends a rollback early.
CalmOK ==
    calm => /\ pc = "failed" => op.status # "committed"
            /\ pc = "rbFailed" => ~stage
            /\ pc \in {"collect", "idle"} => ~Pending \/ ~stage

Quiet == IndexOK /\ SettledOK /\ RebuiltOK /\ CalmOK

LEMMA InitQuiet == ASSUME Init PROVE Quiet
  BY DEF Init, Quiet, IndexOK, SettledOK, RebuiltOK, CalmOK, Pending, Settled, RollbackPcs

\* A loop begins at the first area, and what ends it resets its number.
LEMMA IndexStep == ASSUME IInv, IndexOK, [Next]_vars PROVE IndexOK'
<1> USE DEF IInv, IndexOK, LoopPcs
<1>1. ASSUME UNCHANGED <<pc, i>> PROVE IndexOK'
  BY <1>1
<1>2. ASSUME NEW next, Goto(next), pc \notin LoopPcs PROVE IndexOK'
  BY <1>2 DEF Goto
<1>3. ASSUME NEW next \in LoopPcs, Goto(next) PROVE IndexOK'
  BY <1>3 DEF Goto
<1>4. ASSUME NEW next, Quit(next) PROVE IndexOK'
  BY <1>4 DEF Quit
<1>5. ASSUME NEW again \in LoopPcs, NEW done, NextArea(again, done) PROVE IndexOK'
  <2>1. CASE i < 3
    BY <1>5, <2>1 DEF NextArea
  <2>2. CASE i = 3
    BY <1>5, <2>2 DEF NextArea
  <2> QED BY <2>1, <2>2 DEF TypeOK
<1>6. CASE \/ \E a \in Areas : WriteFile(a) \/ OutsideWrite(a)
           \/ SaveState \/ CaptureTurn \/ (\E p \in DOMAIN points : Preview(p)) \/ UNCHANGED vars
  BY <1>1, <1>6 DEF WriteFile, OutsideWrite, SaveState, CaptureTurn, Preview, vars
<1>7. CASE \/ RestoreBegin \/ RestoreBackup \/ RestoreStage \/ RestorePrepare \/ RestoreMark
           \/ RestoreCheck \/ RestoreCommit \/ RestoreFailed
  BY <1>2, <1>7 DEF RestoreBegin, Ready, RestoreBackup, RestoreStage, RestorePrepare, RestoreMark,
                    RestoreCheck, RestoreCommit, RestoreFailed
<1>8. CASE MoveOut \/ MoveIn
  BY <1>3, <1>4, <1>5, <1>8 DEF MoveOut, MoveIn
<1>9. CASE RollbackClear \/ RollbackBuild \/ RollbackCheck \/ RollbackRecord \/ RollbackFailed
  BY <1>2, <1>9 DEF RollbackClear, RollbackBuild, RollbackCheck, RollbackRecord, RollbackFailed
<1>10. CASE RollbackDrop \/ RollbackOut \/ RollbackIn
  BY <1>3, <1>4, <1>5, <1>10 DEF RollbackDrop, RollbackOut, RollbackIn
<1>11. CASE Clean \/ CleanRow \/ Verify \/ Collect \/ Stop
  BY <1>2, <1>11 DEF Clean, CleanRow, CleanFails, Verify, Collect, Stop
<1>12. CASE Start \/ Crash
  BY <1>12 DEF Start, Crash, Goto
<1> QED
  BY <1>6, <1>7, <1>8, <1>9, <1>10, <1>11, <1>12 DEF Next, Step

\* What is final was compared before it was written, and nobody writes to the live
\* directories until it is cleaned up.
LEMMA SettledStep == ASSUME IInv, SettledOK, [Next]_vars PROVE SettledOK'
<1> USE DEF IInv
<1> DEFINE Files == Pending /\ op.status \in Settled => Live = Claimed
           NotFinal == pc \in RollbackPcs => op.status \notin Settled
           Kept == by = "start" /\ seen \in Settled => op.status = seen
<1>1. ASSUME UNCHANGED <<op, points, tree>> PROVE Files'
  BY <1>1 DEF SettledOK, Pending, Claimed, FilesOf, Live
<1>2. ASSUME ~Pending' \/ op'.status \notin Settled PROVE Files'
  BY <1>2 DEF Pending
<1>3. ASSUME pc' \notin RollbackPcs, UNCHANGED <<op, by, seen>> \/ by' # "start" PROVE NotFinal' /\ Kept'
  BY <1>3 DEF SettledOK
<1>4. ASSUME op'.status \notin Settled, seen' \notin Settled \/ by' # "start" PROVE NotFinal' /\ Kept'
  BY <1>4
<1>5. CASE UNCHANGED vars
  <2>1. UNCHANGED <<op, points, tree, pc, by, seen>>
    BY <1>5 DEF vars
  <2>2. Files'
    BY <1>1, <2>1
  <2>3. NotFinal' /\ Kept'
    BY <2>1 DEF SettledOK
  <2> QED BY <2>2, <2>3 DEF SettledOK
<1>6. CASE \/ \E a \in Areas : WriteFile(a) \/ OutsideWrite(a)
           \/ SaveState \/ CaptureTurn \/ (\E p \in DOMAIN points : Preview(p))
           \/ RestoreBegin \/ RestoreBackup \/ RestoreStage
  <2>1. ~Pending /\ op' = op /\ pc' \notin RollbackPcs
    BY <1>6 DEF WriteFile, OutsideWrite, SaveState, CaptureTurn, Preview, RestoreBegin,
                RestoreBackup, RestoreStage, Ready, BackupOK, Goto, dbVars, RollbackPcs
  <2>2. UNCHANGED <<by, seen>> \/ by' # "start"
    BY <1>6 DEF WriteFile, OutsideWrite, SaveState, CaptureTurn, Preview, RestoreBegin,
                RestoreBackup, RestoreStage, Goto
  <2>3. ~Pending'
    BY <2>1 DEF Pending
  <2>4. Files'
    BY <1>2, <2>3
  <2>5. NotFinal' /\ Kept'
    BY <1>3, <2>1, <2>2
  <2> QED BY <2>4, <2>5 DEF SettledOK
<1>7. CASE RestorePrepare \/ RestoreMark
  <2>1. by = "request"
    BY <1>7 DEF RestorePrepare, RestoreMark, StatusOK, RequestPcs
  <2>2. by' # "start" /\ pc' \notin RollbackPcs
    BY <1>7, <2>1 DEF RestorePrepare, RestoreMark, Goto, RollbackPcs
  <2>3. NotFinal' /\ Kept'
    BY <1>3, <2>2
  <2>4. ASSUME UNCHANGED op PROVE ~Pending' \/ op'.status \notin Settled
    BY <1>7, <2>4 DEF RestorePrepare, RestoreMark, BackupOK, StatusOK, Pending, Settled
  <2>5. ASSUME op' # op PROVE op'.status \notin Settled
    <3>1. Prepare \/ SetStatus("applying")
      BY <1>7, <2>5 DEF RestorePrepare, RestoreMark
    <3>2. Prepare => op'.status = "prepared"
      BY DEF Prepare
    <3>3. SetStatus("applying") => op'.status = "applying"
      BY DEF TypeOK, SetStatus
    <3> QED BY <3>1, <3>2, <3>3 DEF Settled
  <2>6. ~Pending' \/ op'.status \notin Settled
    BY <2>4, <2>5
  <2> QED BY <1>2, <2>3, <2>6 DEF SettledOK
<1>8. CASE MoveOut \/ MoveIn \/ RestoreCheck
  <2>1. op.status \notin Settled /\ op' = op /\ by = "request"
    BY <1>8 DEF MoveOut, MoveIn, RestoreCheck, StatusOK, RequestPcs, SwapPcs, Settled, dbVars
  <2>2. by' # "start"
    BY <1>8, <2>1 DEF MoveOut, MoveIn, RestoreCheck, Goto, Quit, NextArea
  <2>3. NotFinal' /\ Kept'
    BY <1>4, <2>1, <2>2
  <2> QED BY <1>2, <2>1, <2>3 DEF SettledOK
<1>9. CASE RestoreCommit
  <2>1. Live = FilesOf(op.target) /\ by = "request" /\ op.status \notin Settled
    BY <1>9 DEF RestoreCommit, ComparedOK, StatusOK, RequestPcs, SwapPcs, Settled
  <2>2. by' # "start" /\ pc' \notin RollbackPcs
    BY <1>9, <2>1 DEF RestoreCommit, Goto, RollbackPcs
  <2>3. UNCHANGED <<tree, points>>
    BY <1>9 DEF RestoreCommit, diskVars
  <2>4. CASE CommitTx
    <3>1. Claimed' = FilesOf(op.target) /\ Live' = Live
      BY <2>3, <2>4 DEF TypeOK, CommitTx, Claimed, FilesOf, Live
    <3>2. Files'
      BY <2>1, <3>1
    <3> QED BY <1>3, <2>2, <3>2 DEF SettledOK
  <2>5. CASE UNCHANGED op
    BY <1>2, <1>3, <2>1, <2>2, <2>5 DEF SettledOK
  <2> QED BY <1>9, <2>4, <2>5 DEF RestoreCommit
<1>10. CASE RestoreFailed
  <2>1. by = "request" /\ UNCHANGED <<op, points, tree>>
    BY <1>10 DEF RestoreFailed, StatusOK, RequestPcs, diskVars, dbVars
  <2>2. by' # "start"
    BY <1>10, <2>1 DEF RestoreFailed, Goto
  <2>3. pc' \in RollbackPcs => op.status \notin Settled
    BY <1>10 DEF RestoreFailed, StatusOK, Goto, RollbackPcs, Settled
  <2> QED BY <1>1, <2>1, <2>2, <2>3 DEF SettledOK
<1>11. CASE RollbackClear \/ RollbackBuild \/ RollbackDrop \/ RollbackOut \/ RollbackIn \/ RollbackCheck
  <2>1. op.status \notin Settled /\ op' = op
    BY <1>11 DEF RollbackClear, RollbackBuild, RollbackDrop, RollbackOut, RollbackIn, RollbackCheck,
                 SettledOK, RollbackPcs, dbVars
  <2>2. UNCHANGED <<by, seen>>
    BY <1>11 DEF RollbackClear, RollbackBuild, RollbackDrop, RollbackOut, RollbackIn, RollbackCheck,
                 Goto, Quit, NextArea
  <2>3. Kept'
    BY <2>1, <2>2 DEF SettledOK
  <2> QED BY <1>2, <2>1, <2>3 DEF SettledOK
<1>12. CASE RollbackRecord
  <2>1. Live = FilesOf(op.recovery) /\ op.status \notin Settled
    BY <1>12 DEF RollbackRecord, ComparedOK, SettledOK, RollbackPcs
  <2>2. pc' \notin RollbackPcs /\ UNCHANGED <<by, seen, tree, points>>
    BY <1>12 DEF RollbackRecord, Goto, RollbackPcs, diskVars
  <2>3. ~(by = "start" /\ seen \in Settled)
    BY <2>1 DEF SettledOK
  <2>4. NotFinal' /\ Kept'
    BY <2>2, <2>3
  <2>5. CASE SetStatus("rolled_back")
    <3>1. Claimed' = FilesOf(op.recovery) /\ Live' = Live
      BY <2>2, <2>5 DEF TypeOK, SetStatus, Claimed, FilesOf, Live
    <3> QED BY <2>1, <2>4, <3>1 DEF SettledOK
  <2>6. CASE UNCHANGED op
    BY <1>2, <2>1, <2>4, <2>6 DEF SettledOK
  <2> QED BY <1>12, <2>5, <2>6 DEF RollbackRecord
<1>13. CASE RollbackFailed
  <2> DEFINE status == IF by = "start" /\ seen \in Settled THEN seen ELSE "needs_recovery"
  <2>1. op' = op \/ SetStatus(status)
    BY <1>13 DEF RollbackFailed
  <2>2. UNCHANGED <<tree, points>> /\ pc' \in {"collect", "idle", "down"}
    BY <1>13 DEF RollbackFailed, Goto, diskVars
  <2>3. UNCHANGED <<by, seen>> \/ by' # "start"
    BY <1>13 DEF RollbackFailed, Goto
  <2>4. CASE op' = op
    BY <1>1, <1>3, <2>2, <2>3, <2>4 DEF SettledOK, RollbackPcs
  <2>5. CASE SetStatus(status) /\ by = "start" /\ seen \in Settled
    <3>1. op.status = seen /\ op'.status = seen
      BY <2>5 DEF SettledOK, TypeOK, SetStatus
    <3>2. Live = Claimed
      BY <1>13, <2>5, <3>1 DEF RollbackFailed, SettledOK, ComparedOK
    <3>3. Claimed' = Claimed /\ Live' = Live
      BY <2>2, <2>5, <3>1 DEF TypeOK, SetStatus, Claimed, FilesOf, Live
    <3>4. NotFinal' /\ Kept'
      BY <2>2, <2>3, <2>5, <3>1 DEF RollbackPcs
    <3> QED BY <3>2, <3>3, <3>4 DEF SettledOK
  <2>6. CASE SetStatus(status) /\ ~(by = "start" /\ seen \in Settled)
    <3>1. op'.status \notin Settled
      BY <2>6 DEF TypeOK, SetStatus, Settled
    <3>2. seen' \notin Settled \/ by' # "start"
      BY <2>3, <2>6
    <3> QED BY <1>2, <1>4, <3>1, <3>2 DEF SettledOK
  <2> QED BY <2>1, <2>4, <2>5, <2>6
<1>14. CASE Clean \/ Collect \/ Verify
  <2>1. op' = op /\ points' = points
    BY <1>14 DEF Clean, Collect, Verify, dbVars
  <2>2. Live' = Live
    BY <1>14 DEF Clean, Collect, Verify, RemoveStage, diskVars, Live, Places
  <2>3. Files'
    BY <2>1, <2>2 DEF SettledOK, Pending, Claimed, FilesOf
  <2>4. pc' \notin RollbackPcs /\ (UNCHANGED <<by, seen>> \/ by' # "start")
    BY <1>14 DEF Clean, CleanFails, Collect, Verify, Goto, RollbackPcs
  <2> QED BY <1>3, <2>1, <2>3, <2>4 DEF SettledOK
<1>15. CASE CleanRow
  <2>1. pc' \notin RollbackPcs /\ (UNCHANGED <<by, seen>> \/ by' # "start")
    BY <1>15 DEF CleanRow, CleanFails, Goto, RollbackPcs
  <2>2. UNCHANGED <<tree, points>>
    BY <1>15 DEF CleanRow, diskVars
  <2>3. CASE op' = op
    BY <1>1, <1>3, <2>1, <2>2, <2>3 DEF SettledOK
  <2>4. CASE MarkClean
    <3>1. ~Pending' /\ op'.status = op.status
      BY <2>4 DEF TypeOK, MarkClean, Pending
    <3>2. NotFinal' /\ Kept'
      BY <2>1, <3>1 DEF SettledOK
    <3> QED BY <1>2, <3>1, <3>2 DEF SettledOK
  <2> QED BY <1>15, <2>3, <2>4 DEF CleanRow
<1>16. CASE Start \/ Stop \/ Crash
  <2>1. UNCHANGED <<op, points, tree>>
    BY <1>16 DEF Start, Stop, Crash, diskVars, dbVars
  <2>2. NotFinal' /\ Kept'
    BY <1>16, <2>1 DEF Start, Stop, Crash, Goto, RollbackPcs
  <2> QED BY <1>1, <2>1, <2>2 DEF SettledOK
<1> QED
  BY <1>5, <1>6, <1>7, <1>8, <1>9, <1>10, <1>11, <1>12, <1>13, <1>14, <1>15, <1>16 DEF Next, Step

\* The areas are three, and two trees are the same that agree on each.
LEMMA SameTree ==
    ASSUME NEW T, NEW f \in [Areas -> T], NEW g \in [Areas -> T],
           \A k \in 1..3 : f[AreaOrder[k]] = g[AreaOrder[k]]
    PROVE  f = g
<1>1. \A a \in Areas : \E k \in 1..3 : a = AreaOrder[k]
  BY DEF Areas, AreaOrder
<1>2. \A a \in Areas : f[a] = g[a]
  BY <1>1
<1> QED
  BY <1>2

\* What a rollback has built is the backup, and each area of it comes back in turn.
LEMMA RebuiltStep == ASSUME IInv, IndexOK, RebuiltOK, [Next]_vars PROVE RebuiltOK'
<1> USE DEF IInv
<1> DEFINE Loop == {"rbDrop", "rbOut", "rbIn"}
<1>1. ASSUME pc' \notin Loop \cup {"rbCheck"} PROVE RebuiltOK'
  BY <1>1 DEF RebuiltOK
<1>2. CASE \/ \E a \in Areas : WriteFile(a) \/ OutsideWrite(a)
           \/ SaveState \/ CaptureTurn \/ (\E p \in DOMAIN points : Preview(p)) \/ RestoreBegin
           \/ RestoreBackup \/ RestoreStage \/ RestorePrepare \/ RestoreMark
  BY <1>1, <1>2 DEF WriteFile, OutsideWrite, SaveState, CaptureTurn, Preview, RestoreBegin, Ready,
                    RestoreBackup, RestoreStage, RestorePrepare, RestoreMark, Goto
<1>3. CASE MoveOut \/ MoveIn \/ RestoreCheck \/ RestoreCommit \/ RestoreFailed
  BY <1>1, <1>3 DEF MoveOut, MoveIn, RestoreCheck, RestoreCommit, RestoreFailed, Goto, Quit, NextArea
<1>4. CASE RollbackClear \/ RollbackCheck \/ RollbackRecord \/ RollbackFailed
  BY <1>1, <1>4 DEF RollbackClear, RollbackCheck, RollbackRecord, RollbackFailed, Goto
<1>5. CASE Clean \/ CleanRow \/ Start \/ Verify \/ Collect \/ Stop \/ Crash
  BY <1>1, <1>5 DEF Clean, CleanFails, CleanRow, Start, Verify, Collect, Stop, Crash, Goto
<1>6. CASE UNCHANGED vars
  BY <1>6 DEF vars, RebuiltOK, Live, Back, FilesOf
<1>7. CASE RollbackBuild
  <2>1. CASE pc' = "rbDrop"
    <3>1. Build("rbNew", Back) /\ UNCHANGED <<op, points>>
      BY <1>7, <2>1 DEF RollbackBuild, Goto, Back, dbVars
    <3>2. tree'["rbNew"] = Back /\ Back' = Back
      BY <3>1 DEF TypeOK, Build, Places, Back, FilesOf
    <3>3. i' = 1
      BY <1>7, <2>1 DEF RollbackBuild, Goto, IndexOK, LoopPcs
    <3> QED BY <2>1, <3>2, <3>3 DEF RebuiltOK
  <2> QED BY <1>1, <1>7, <2>1 DEF RollbackBuild, Goto
<1>8. CASE RollbackDrop \/ RollbackOut
  <2>1. CASE pc' = "rbFailed"
    BY <1>1, <2>1
  <2>2. CASE pc' # "rbFailed"
    <3>1. /\ pc' \in {"rbOut", "rbIn"} /\ pc \in Loop /\ i' = i /\ UNCHANGED <<op, points>>
          /\ RemoveDiscarded \/ StepAside
      BY <1>8, <2>2 DEF RollbackDrop, RollbackOut, Goto, Quit, dbVars
    <3>2. Back' = Back
      BY <3>1 DEF Back, FilesOf
    <3>3. tree'["rbNew"] = tree["rbNew"]
      BY <3>1 DEF TypeOK, RemoveDiscarded, StepAside, Move, diskVars, Places
    <3>4. \A k \in 1..3 : k < i => Live'[AreaOrder[k]] = Live[AreaOrder[k]]
      <4> SUFFICES ASSUME NEW k \in 1..3, k < i PROVE Live'[AreaOrder[k]] = Live[AreaOrder[k]]
        OBVIOUS
      <4>1. AreaOrder[k] # Area /\ AreaOrder[k] \in Areas
        BY DEF TypeOK, Area, AreaOrder, Areas
      <4>2. CASE RemoveDiscarded \/ UNCHANGED diskVars
        BY <4>2 DEF TypeOK, RemoveDiscarded, diskVars, Live, Places
      <4>3. CASE Move("live", "rbOld")
        BY <4>1, <4>3 DEF TypeOK, Move, Live, Places
      <4> QED BY <3>1, <4>2, <4>3 DEF StepAside
    <3> QED BY <3>1, <3>2, <3>3, <3>4 DEF RebuiltOK
  <2> QED BY <2>1, <2>2
<1>9. CASE RollbackIn
  <2>1. CASE pc' = "rbFailed"
    BY <1>1, <2>1
  <2>2. CASE pc' # "rbFailed"
    <3>1. /\ Move("rbNew", "live") /\ NextArea("rbDrop", "rbCheck") /\ UNCHANGED <<op, points>>
          /\ pc = "rbIn"
      BY <1>9, <2>2 DEF RollbackIn, Quit, dbVars
    <3>2. Back' = Back /\ op.status # "none"
      BY <1>9, <3>1 DEF Back, FilesOf, StatusOK, JournalOK, RollbackPcs
    <3>3. Area \in Areas /\ i \in 1..3
      BY AreaIsOne DEF TypeOK
    <3>4. /\ \A a \in Areas : a # Area => Live'[a] = Live[a] /\ tree'["rbNew"][a] = tree["rbNew"][a]
          /\ Live'[Area] = tree["rbNew"][Area]
      BY <3>1, <3>3 DEF TypeOK, Move, Live, Places
    <3>5. \A k \in 1..3 : AreaOrder[k] \in Areas /\ (k # i => AreaOrder[k] # Area)
      BY <3>3 DEF Area, AreaOrder, Areas
    <3>6. /\ \A k \in 1..3 : k <= i => Live'[AreaOrder[k]] = Back[AreaOrder[k]]
          /\ \A k \in 1..3 : k > i => tree'["rbNew"][AreaOrder[k]] = Back[AreaOrder[k]]
      BY <3>1, <3>3, <3>4, <3>5 DEF RebuiltOK, Area
    <3>7. CASE i < 3
      <4>1. pc' = "rbDrop" /\ i' = i + 1
        BY <3>1, <3>3, <3>7 DEF NextArea
      <4> QED BY <3>2, <3>3, <3>6, <4>1 DEF RebuiltOK
    <3>8. CASE i = 3
      <4>1. pc' = "rbCheck"
        BY <3>1, <3>8 DEF NextArea
      <4>2. \A k \in 1..3 : Live'[AreaOrder[k]] = Back'[AreaOrder[k]]
        BY <3>2, <3>6, <3>8
      <4>3. Live' \in [Areas -> Versions \cup {Gone}]
        BY DiskStep DEF DiskType, Live, Places
      <4>4. Back' \in [Areas -> Versions \cup {Gone}]
        BY <3>2, PointType, TreesType DEF JournalOK, Back
      <4>5. Live' = Back'
        BY <4>2, <4>3, <4>4, SameTree
      <4> QED BY <4>1, <4>5 DEF RebuiltOK
    <3> QED BY <3>3, <3>7, <3>8
  <2> QED BY <2>1, <2>2
<1> QED
  BY <1>2, <1>3, <1>4, <1>5, <1>6, <1>7, <1>8, <1>9 DEF Next, Step

\* In a process in which nothing has failed no comparison fails, so only a rollback
\* without a staging directory is given up.
LEMMA CalmStep == ASSUME IInv, Quiet, [Next]_vars PROVE CalmOK'
<1> USE DEF IInv, Quiet
<1>1. ASSUME Fault PROVE CalmOK'
  BY <1>1 DEF Fault, CalmOK
<1>2. ASSUME pc' \notin {"failed", "rbFailed", "collect", "idle"} PROVE CalmOK'
  BY <1>2 DEF CalmOK
<1>3. ASSUME pc' \in {"idle", "collect"}, ~Pending' PROVE CalmOK'
  BY <1>3 DEF CalmOK
<1>4. CASE UNCHANGED vars
  BY <1>4 DEF vars, diskVars, dbVars, countVars, CalmOK, Pending
<1>5. CASE \/ \E a \in Areas : WriteFile(a) \/ OutsideWrite(a)
           \/ SaveState \/ CaptureTurn \/ (\E p \in DOMAIN points : Preview(p))
  <2>1. ~Pending' /\ pc' \in {"idle", "backup"}
    BY <1>5 DEF WriteFile, OutsideWrite, SaveState, CaptureTurn, Preview, Ready, BackupOK, Pending,
                dbVars
  <2> QED BY <1>2, <1>3, <2>1
<1>6. CASE RestoreBegin \/ RestoreMark \/ RollbackClear \/ RollbackRecord \/ Clean \/ RestoreStage
           \/ RestorePrepare
  BY <1>1, <1>2, <1>6 DEF RestoreBegin, RestoreMark, RollbackClear, RollbackRecord, Clean, CleanFails,
                          RestoreStage, RestorePrepare, Goto
<1>7. CASE MoveOut \/ MoveIn \/ RollbackDrop \/ RollbackOut \/ RollbackIn
  BY <1>1, <1>2, <1>7 DEF MoveOut, MoveIn, RollbackDrop, RollbackOut, RollbackIn, Goto, NextArea
<1>8. CASE RestoreBackup
  <2>1. ~Pending'
    BY <1>8 DEF RestoreBackup, BackupOK, Pending
  <2>2. Fault \/ pc' \in {"stage", "idle"}
    BY <1>8 DEF RestoreBackup, Goto
  <2> QED BY <1>1, <1>2, <1>3, <2>1, <2>2
<1>9. CASE RestoreCheck \/ RestoreCommit
  <2>1. op.status = "applying"
    BY <1>9 DEF RestoreCheck, RestoreCommit, StatusOK, SwapPcs
  <2>2. Fault \/ pc' \in {"commit", "clean"} \/ (pc' = "failed" /\ op' = op)
    BY <1>9 DEF RestoreCheck, RestoreCommit, Goto, dbVars
  <2>3. CASE pc' = "failed" /\ op' = op
    BY <2>1, <2>3 DEF CalmOK
  <2> QED BY <1>1, <1>2, <2>2, <2>3
<1>10. CASE RestoreFailed
  <2>1. CASE Fault
    BY <1>1, <2>1
  <2>2. CASE NoFault
    <3>1. op.status = "committed" => ~calm
      BY <1>10 DEF RestoreFailed, CalmOK
    <3>2. calm' = calm
      BY <2>2 DEF NoFault, countVars
    <3>3. CASE op.status = "committed"
      BY <3>1, <3>2, <3>3 DEF CalmOK
    <3>4. CASE op.status # "committed"
      <4>1. pc' = "rbClear" \/ Fault
        BY <1>10, <3>4 DEF RestoreFailed, Goto
      <4> QED BY <1>1, <1>2, <4>1
    <3> QED BY <3>3, <3>4
  <2> QED BY <1>10, <2>1, <2>2 DEF RestoreFailed
<1>11. CASE RollbackBuild
  <2>1. Fault \/ pc' = "rbDrop" \/ (pc' = "rbFailed" /\ ~stage /\ stage' = stage)
    BY <1>11 DEF RollbackBuild, Goto
  <2>2. CASE pc' = "rbFailed" /\ ~stage /\ stage' = stage
    BY <2>2 DEF CalmOK
  <2> QED BY <1>1, <1>2, <2>1, <2>2
<1>12. CASE RollbackCheck
  <2>1. Live = FilesOf(op.recovery)
    BY <1>12 DEF RollbackCheck, RebuiltOK, Back
  <2>2. Fault \/ pc' = "rbRecord"
    BY <1>12, <2>1 DEF RollbackCheck, Goto
  <2> QED BY <1>1, <1>2, <2>2
<1>13. CASE RollbackFailed
  <2>1. Fault \/ (NoFault /\ pc' \in {"collect", "idle"} /\ stage' = stage)
    BY <1>13 DEF RollbackFailed, Goto, diskVars
  <2>2. calm => ~stage
    BY <1>13 DEF RollbackFailed, CalmOK
  <2>3. CASE NoFault /\ pc' \in {"collect", "idle"} /\ stage' = stage
    BY <2>2, <2>3 DEF NoFault, countVars, CalmOK
  <2> QED BY <1>1, <2>1, <2>3
<1>14. CASE CleanRow
  <2>1. Fault \/ (pc' \in {"collect", "idle"} /\ MarkClean)
    BY <1>14 DEF CleanRow, CleanFails, Goto
  <2>2. MarkClean => ~Pending'
    BY DEF TypeOK, MarkClean, Pending
  <2> QED BY <1>1, <1>3, <2>1, <2>2
<1>15. CASE Start
  <2>1. pc' \in {"verify", "rbClear"} \/ (pc' = "collect" /\ ~Pending')
    BY <1>15 DEF Start, Pending, dbVars
  <2> QED BY <1>2, <1>3, <2>1
<1>16. CASE Verify
  <2>1. Live = Claimed
    BY <1>16 DEF Verify, StatusOK, SettledOK
  <2>2. Fault \/ pc' = "clean"
    BY <1>16, <2>1 DEF Verify, Goto
  <2> QED BY <1>1, <1>2, <2>2
<1>17. CASE Collect
  <2>1. CASE Fault
    BY <1>1, <2>1
  <2>2. CASE NoFault /\ (IF Pending THEN UNCHANGED diskVars ELSE RemoveStage) /\ Goto("idle")
    <3>1. op' = op /\ calm' = calm /\ pc' = "idle" /\ pc = "collect"
      BY <1>17, <2>2 DEF Collect, NoFault, countVars, dbVars, Goto
    <3>2. calm => ~Pending \/ ~stage
      BY <3>1 DEF CalmOK
    <3>3. Pending => stage' = stage
      BY <2>2 DEF diskVars
    <3> QED BY <3>1, <3>2, <3>3 DEF CalmOK, Pending
  <2> QED BY <1>17, <2>1, <2>2 DEF Collect
<1>18. CASE Stop \/ Crash
  BY <1>2, <1>18 DEF Stop, Crash, Goto
<1> QED
  BY <1>4, <1>5, <1>6, <1>7, <1>8, <1>9, <1>10, <1>11, <1>12, <1>13, <1>14, <1>15, <1>16, <1>17,
     <1>18 DEF Next, Step

\* Recovery succeeds.  Whatever failed in earlier processes and wherever they died, a
\* process in which nothing fails has no operation left to lead back when it serves
\* again, unless the directory it would rebuild the files in is lost.
THEOREM QuietStartsSettle == Spec => []QuietStartSettlesStaged
<1>1. Init => Quiet
  BY InitQuiet
<1>2. IInv /\ Quiet /\ [Next]_vars => Quiet'
  <2> SUFFICES ASSUME IInv, Quiet, [Next]_vars PROVE Quiet'
    OBVIOUS
  <2>1. IndexOK /\ SettledOK /\ RebuiltOK
    BY DEF Quiet
  <2> QED BY <2>1, IndexStep, SettledStep, RebuiltStep, CalmStep DEF Quiet
<1>3. Quiet => QuietStartSettlesStaged
  BY DEF Quiet, CalmOK, QuietStartSettlesStaged
<1> QED
  BY <1>1, <1>2, <1>3, Inductive, PTL DEF Spec

-----------------------------------------------------------------------------
(* The tools that change the same files while a Run works (FileTools):     *)
(* what holds of their lock, of what they look at, and of the disk         *)

\* Every call that refers to a lock object refers to the one in _locks, and who is inside
\* refers to it: so nobody else is.
OneLock ==
    /\ \A c \in ToolCalls : lockOf[c] # NoLock => lockOf[c] = lockEntry
    /\ \A c \in ToolCalls : place[c] \in Inside \cup {"wait"} => lockOf[c] # NoLock
OneInside == \A c, d \in ToolCalls : place[c] \in Inside /\ place[d] \in Inside => c = d

\* A call has made no version before it replaces the file, and then it has.
Before == {"idle", "wait", "open", "pin", "look", "read", "stage", "sync", "put"}
PlacedOnce ==
    /\ \A c \in ToolCalls : place[c] \in Before => placed[c] = 0
    /\ \A c \in ToolCalls : place[c] \in {"settle", "close"} => placed[c] > 0
    /\ \A c \in ToolCalls : reply[c] # "none" => place[c] = "ended"
    /\ \A c \in ToolCalls : reply[c] = "done" => placed[c] > 0
    /\ RefusedIsUndone

\* What a call has looked at is what the tools have written last.
LookIsFresh ==
    \A c, d \in ToolCalls : place[c] \in {"stage", "sync", "put"} => placed[d] <= looked[c]

\* A staged file is on the disk before it takes the name.
BytesFirst ==
    /\ \A c \in ToolCalls : place[c] = "put" => c \in drafts
    /\ \A c \in ToolCalls : placed[c] > 0 => placed[c] \in synced
    /\ PlacedIsWhole

\* Which versions a loss of power may leave once a call has replaced the file, and once the
\* directory is synchronised.
NotBefore(c, v) == v >= placed[c] \/ (kind[c] = "edit" /\ v = 0)
Pinned == {"look", "read", "stage", "sync", "put", "settle", "close"}
EntryHolds ==
    /\ \A c \in ToolCalls : place[c] \in {"settle", "close"} \/ reply[c] = "done" =>
           \A v \in kept : NotBefore(c, v)
    /\ \A c \in ToolCalls : place[c] = "close" \/ reply[c] = "done" =>
           \A v \in stale : NotBefore(c, v)
    /\ \A c \in ToolCalls : kind[c] # "edit" /\ (place[c] \in Pinned \/ reply[c] = "done") =>
           parent = "kept"

ToolsInv ==
    /\ ToolsTypeOK /\ OneLock /\ OneInside /\ PlacedOnce /\ LookIsFresh /\ BytesFirst
    /\ EntryHolds /\ ChangesBuildOnTheLast
-----------------------------------------------------------------------------
(* What the parts of a step do                                             *)

\* A call goes on, or ends and lets its lock object go.
LEMMA GoKeeps ==
  ASSUME ToolsTypeOK, OneLock, NEW c \in ToolCalls, place[c] \in Inside, NEW p \in Inside, Go(c, p)
  PROVE  /\ lockEntry' \in LockObjects \cup {NoLock}
         /\ lockOf' \in [ToolCalls -> LockObjects \cup {NoLock}]
         /\ place' \in [ToolCalls -> Inside \cup {"idle", "wait", "ended", "gone"}]
         /\ reply' \in [ToolCalls -> {"none", "done", "refused", "stopped"}]
         /\ OneLock'
  BY DEF Go, lockVars, ToolsTypeOK, OneLock

LEMMA LeaveKeeps ==
  ASSUME ToolsTypeOK, OneLock, NEW c \in ToolCalls, NEW r \in {"done", "refused", "stopped"},
         Leave(c, r)
  PROVE  /\ lockEntry' \in LockObjects \cup {NoLock}
         /\ lockOf' \in [ToolCalls -> LockObjects \cup {NoLock}]
         /\ place' \in [ToolCalls -> Inside \cup {"idle", "wait", "ended", "gone"}]
         /\ reply' \in [ToolCalls -> {"none", "done", "refused", "stopped"}]
         /\ OneLock'
<1>1. /\ lockOf' \in [ToolCalls -> LockObjects \cup {NoLock}]
      /\ place' \in [ToolCalls -> Inside \cup {"idle", "wait", "ended", "gone"}]
      /\ reply' \in [ToolCalls -> {"none", "done", "refused", "stopped"}]
  BY DEF Leave, ToolsTypeOK
<1>2. lockEntry' = IF \E d \in ToolCalls : lockOf'[d] = lockEntry THEN lockEntry ELSE NoLock
  BY DEF Leave, Remembered
<1>3. ASSUME NEW d \in ToolCalls, lockOf'[d] # NoLock PROVE lockOf'[d] = lockEntry'
  <2>1. d # c /\ lockOf'[d] = lockOf[d]
    BY <1>3 DEF Leave, ToolsTypeOK
  <2> QED  BY <1>2, <1>3, <2>1 DEF OneLock
<1>4. ASSUME NEW d \in ToolCalls, place'[d] \in Inside \cup {"wait"} PROVE lockOf'[d] # NoLock
  BY <1>4 DEF Leave, ToolsTypeOK, OneLock, Inside
<1> QED  BY <1>1, <1>2, <1>3, <1>4 DEF OneLock, ToolsTypeOK

\* A step inside mutate_file is the one or the other.
Inner(c) ==
    \/ OpenParent(c) \/ PinParent(c) \/ Look(c) \/ Read(c) \/ Stage(c)
    \/ SyncDraft(c) \/ Put(c) \/ SyncEntry(c) \/ CloseFiles(c)

LEMMA GoesOrLeaves ==
  ASSUME NEW c \in ToolCalls, Inner(c)
  PROVE  /\ place[c] \in Inside
         /\ (\E p \in Inside : Go(c, p)) \/ (\E r \in {"done", "refused", "stopped"} : Leave(c, r))
<1>1. CASE OpenParent(c)  BY <1>1 DEF OpenParent, Inside
<1>2. CASE PinParent(c)  BY <1>2 DEF PinParent, Inside
<1>3. CASE Look(c)  BY <1>3 DEF Look, Inside
<1>4. CASE Read(c)  BY <1>4 DEF Read, Inside
<1>5. CASE Stage(c)  BY <1>5 DEF Stage, Inside
<1>6. CASE SyncDraft(c)  BY <1>6 DEF SyncDraft, Inside
<1>7. CASE Put(c)  BY <1>7 DEF Put, Inside
<1>8. CASE SyncEntry(c)  BY <1>8 DEF SyncEntry, Inside
<1>9. CASE CloseFiles(c)  BY <1>9 DEF CloseFiles, Inside
<1> QED  BY <1>1, <1>2, <1>3, <1>4, <1>5, <1>6, <1>7, <1>8, <1>9 DEF Inner

LEMMA InnerLocks ==
  ASSUME ToolsTypeOK, OneLock, NEW c \in ToolCalls, Inner(c)
  PROVE  /\ lockEntry' \in LockObjects \cup {NoLock}
         /\ lockOf' \in [ToolCalls -> LockObjects \cup {NoLock}]
         /\ place' \in [ToolCalls -> Inside \cup {"idle", "wait", "ended", "gone"}]
         /\ reply' \in [ToolCalls -> {"none", "done", "refused", "stopped"}]
         /\ OneLock'
  BY GoesOrLeaves, GoKeeps, LeaveKeeps

\* The versions so far stay what they are.
LEMMA VersionsGrow ==
  ASSUME ToolsTypeOK, NEW f \in Forms, NewVersion(f)
  PROVE  /\ latest \in Nat /\ latest' = latest + 1 /\ now' = latest'
         /\ latest' \in Nat /\ now' \in 0..latest'
         /\ form' \in [0..latest' -> Forms]
         /\ form'[latest + 1] = f /\ \A v \in 0..latest : form'[v] = form[v]
         /\ 0..latest \subseteq 0..latest'
  BY DEF NewVersion, ToolsTypeOK

\* What a step does to the calls: where it leads, what it may answer ...
Moves(c) ==
    /\ \A d \in ToolCalls : d # c => place'[d] = place[d] /\ reply'[d] = reply[d]
    /\ \/ /\ reply'[c] = reply[c]
          /\ \/ place[c] = "open" /\ place'[c] = "pin" /\ kind[c] # "edit"
             \/ place[c] = "open" /\ place'[c] = "look" /\ kind[c] = "edit"
             \/ place[c] = "pin" /\ place'[c] = "look" /\ parent' = "kept"
             \/ place[c] = "look" /\ place'[c] = "read" /\ looked'[c] = latest
             \/ place[c] \in {"look", "read"} /\ place'[c] = "stage" /\ looked'[c] = latest
             \/ place[c] = "stage" /\ place'[c] = "sync"
             \/ place[c] = "sync" /\ place'[c] = "put" /\ c \in drafts'
             \/ place[c] = "put" /\ place'[c] = "settle" /\ placed'[c] = latest + 1
             \/ place[c] = "settle" /\ place'[c] = "close" /\ stale' = {}
       \/ /\ place'[c] = "ended"
          /\ \/ reply'[c] = "refused" /\ place[c] \in Before
             \/ reply'[c] = "stopped"
             \/ reply'[c] = "done" /\ place[c] = "close"

\* ... and to the rest: it notes what it has looked at, or replaces the file, or neither.
Replaces(c) ==
    /\ place[c] = "put" /\ place'[c] = "settle" /\ NewVersion("whole") /\ NewEntry
    /\ c \in drafts => synced' = synced \cup {latest + 1}
    /\ placed' = [placed EXCEPT ![c] = latest + 1] /\ looked' = looked
Rests(c) ==
    /\ UNCHANGED <<form, latest, now, kept, synced, placed>> /\ stale' \subseteq stale
    /\ \/ looked' = looked
       \/ place[c] \in {"look", "read"} /\ looked' = [looked EXCEPT ![c] = latest]
Effects(c) ==
    /\ UNCHANGED <<kind, toolCounters>> /\ drafts' \in {drafts, drafts \cup {c}}
    /\ parent' \in {parent, "kept"} \/ (parent = "none" /\ parent' = "made")
    /\ Replaces(c) \/ Rests(c)

LEMMA GoEffect ==
  ASSUME ToolsTypeOK, NEW c \in ToolCalls, NEW p, Go(c, p)
  PROVE  /\ \A d \in ToolCalls : d # c => place'[d] = place[d] /\ reply'[d] = reply[d]
         /\ place'[c] = p /\ reply'[c] = reply[c]
  BY DEF Go, lockVars, ToolsTypeOK

LEMMA LeaveEffect ==
  ASSUME ToolsTypeOK, NEW c \in ToolCalls, NEW r, Leave(c, r)
  PROVE  /\ \A d \in ToolCalls : d # c => place'[d] = place[d] /\ reply'[d] = reply[d]
         /\ place'[c] = "ended" /\ reply'[c] = r
  BY DEF Leave, ToolsTypeOK

LEMMA InnerMoves ==
  ASSUME ToolsTypeOK, NEW c \in ToolCalls, Inner(c)
  PROVE  Moves(c) /\ Effects(c)
<1> USE GoEffect, LeaveEffect DEF Moves, Effects, Rests, Before, fileVars, toolCounters
<1>1. CASE OpenParent(c)  BY <1>1 DEF OpenParent
<1>2. CASE PinParent(c)  BY <1>2 DEF PinParent
<1>3. CASE Look(c)
  <2>1. CASE Permits(c) /\ Go(c, IF kind[c] = "edit" THEN "read" ELSE "stage")
             /\ looked' = [looked EXCEPT ![c] = latest]
    BY <1>3, <2>1 DEF Look, ToolsTypeOK
  <2>2. CASE Leave(c, "refused") /\ UNCHANGED looked
    BY <1>3, <2>2 DEF Look
  <2> QED  BY <1>3, <2>1, <2>2 DEF Look
<1>4. CASE Read(c)
  <2>1. CASE Go(c, "stage") /\ looked' = [looked EXCEPT ![c] = latest]
    BY <1>4, <2>1 DEF Read, ToolsTypeOK
  <2>2. CASE Leave(c, "refused") /\ UNCHANGED looked
    BY <1>4, <2>2 DEF Read
  <2> QED  BY <1>4, <2>1, <2>2 DEF Read
<1>5. CASE Stage(c)  BY <1>5 DEF Stage
<1>6. CASE SyncDraft(c)  BY <1>6 DEF SyncDraft
<1>7. CASE Put(c)
  <2>1. CASE Leave(c, "refused") /\ UNCHANGED <<fileVars, placed>>
    BY <1>7, <2>1 DEF Put
  <2>2. CASE ~(Leave(c, "refused") /\ UNCHANGED <<fileVars, placed>>)
    <3>1. place[c] = "put" /\ Go(c, "settle") /\ NewVersion("whole") /\ NewEntry
      BY <1>7, <2>2 DEF Put
    <3>2. /\ synced' = IF c \in drafts THEN synced \cup {latest + 1} ELSE synced
          /\ placed' = [placed EXCEPT ![c] = latest + 1]
          /\ UNCHANGED <<parent, kind, drafts, looked, toolCounters>>
      BY <1>7, <2>2 DEF Put
    <3> QED  BY <3>1, <3>2 DEF Replaces, ToolsTypeOK
  <2> QED  BY <2>1, <2>2
<1>8. CASE SyncEntry(c)  BY <1>8 DEF SyncEntry
<1>9. CASE CloseFiles(c)  BY <1>9 DEF CloseFiles
<1> QED  BY <1>1, <1>2, <1>3, <1>4, <1>5, <1>6, <1>7, <1>8, <1>9 DEF Inner

-----------------------------------------------------------------------------
(* The parts of the invariant                                              *)

\* Types.
LEMMA ToolsTyped == ToolsInv /\ [ToolsNext]_toolVars => ToolsTypeOK'
<1> SUFFICES ASSUME ToolsInv, [ToolsNext]_toolVars PROVE ToolsTypeOK'
  OBVIOUS
<1> ToolsTypeOK /\ OneLock /\ PlacedOnce
  BY DEF ToolsInv
<1>1. ASSUME NEW c \in ToolCalls, NEW k \in Kinds, NEW l \in LockObjects, Call(c, k, l)
      PROVE  ToolsTypeOK'
  BY <1>1 DEF Call, ToolsTypeOK, fileVars, toolCounters, Kinds, Forms, Inside
<1>2. ASSUME NEW c \in ToolCalls, Acquire(c) PROVE ToolsTypeOK'
  BY <1>2 DEF Acquire, Go, ToolsTypeOK, fileVars, lockVars, toolCounters, Kinds, Forms, Inside
<1>3. ASSUME NEW c \in ToolCalls, Inner(c) PROVE ToolsTypeOK'
  <2>1. /\ lockEntry' \in LockObjects \cup {NoLock}
        /\ lockOf' \in [ToolCalls -> LockObjects \cup {NoLock}]
        /\ place' \in [ToolCalls -> Inside \cup {"idle", "wait", "ended", "gone"}]
        /\ reply' \in [ToolCalls -> {"none", "done", "refused", "stopped"}]
    BY <1>3, InnerLocks
  <2>2. Effects(c)
    BY <1>3, InnerMoves
  <2>3. /\ parent' \in {"none", "made", "kept"} /\ kind' \in [ToolCalls -> Kinds]
        /\ drafts' \subseteq ToolCalls /\ commands' \in 0..MaxCommands /\ deaths' \in 0..MaxDeaths
    BY <2>2 DEF Effects, toolCounters, ToolsTypeOK
  <2>4. CASE Replaces(c)
    <3>1. /\ latest \in Nat /\ latest' = latest + 1 /\ now' = latest'
          /\ latest' \in Nat /\ now' \in 0..latest'
          /\ form' \in [0..latest' -> Forms] /\ 0..latest \subseteq 0..latest'
      BY <2>4, VersionsGrow DEF Replaces, Forms
    <3>2. latest' \in 0..latest'
      BY <3>1
    <3>3. kept' \subseteq 0..latest' /\ stale' \subseteq 0..latest'
      BY <2>4, <3>1, <3>2 DEF Replaces, NewEntry, ToolsTypeOK
    <3>4. synced' \subseteq 0..latest'
      <4>1. c \in drafts
        BY <2>4 DEF Replaces, ToolsInv, BytesFirst
      <4> QED  BY <4>1, <2>4, <3>1, <3>2 DEF Replaces, ToolsTypeOK, ToolsInv
    <3>5. looked' \in [ToolCalls -> 0..latest'] /\ placed' \in [ToolCalls -> 0..latest']
      BY <2>4, <3>1, <3>2 DEF Replaces, ToolsTypeOK
    <3> QED  BY <2>1, <2>3, <3>1, <3>3, <3>4, <3>5 DEF ToolsTypeOK
  <2>5. CASE Rests(c)
    <3>1. latest \in 0..latest /\ looked \in [ToolCalls -> 0..latest]
      BY DEF ToolsTypeOK
    <3>2. looked' \in [ToolCalls -> 0..latest]
      BY <2>5, <3>1 DEF Rests
    <3> QED  BY <2>1, <2>3, <2>5, <3>2 DEF Rests, ToolsTypeOK
  <2> QED  BY <2>2, <2>4, <2>5 DEF Effects
<1>4. ASSUME Command PROVE ToolsTypeOK'
  <2>1. PICK f \in {"absent", "whole", "unsafe"} :
          /\ NewVersion(f)
          /\ \/ NewEntry
             \/ kept' = kept \cup {latest + 1} /\ UNCHANGED stale
    BY <1>4 DEF Command
  <2>2. /\ latest \in Nat /\ latest' = latest + 1 /\ latest' \in Nat /\ now' \in 0..latest'
        /\ form' \in [0..latest' -> Forms] /\ 0..latest \subseteq 0..latest'
    BY <2>1, VersionsGrow DEF Forms
  <2>3. latest' \in 0..latest'
    BY <2>2
  <2>4. kept' \subseteq 0..latest' /\ stale' \subseteq 0..latest'
    BY <2>1, <2>2, <2>3 DEF NewEntry, ToolsTypeOK
  <2>5. /\ looked' \in [ToolCalls -> 0..latest'] /\ placed' \in [ToolCalls -> 0..latest']
        /\ synced' \subseteq 0..latest'
    BY <1>4, <2>2 DEF Command, ToolsTypeOK
  <2>6. commands' \in 0..MaxCommands /\ deaths' \in 0..MaxDeaths
    BY <1>4, FileToolsAssumption DEF Command, ToolsTypeOK
  <2> QED  BY <1>4, <2>2, <2>4, <2>5, <2>6 DEF Command, lockVars, ToolsTypeOK
<1>5. ASSUME ProcessEnds
      PROVE  /\ lockEntry' \in LockObjects \cup {NoLock}
             /\ lockOf' \in [ToolCalls -> LockObjects \cup {NoLock}]
             /\ place' \in [ToolCalls -> Inside \cup {"idle", "wait", "ended", "gone"}]
             /\ UNCHANGED <<kind, drafts, looked, placed, reply, commands>>
             /\ deaths' \in 0..MaxDeaths
  BY <1>5, FileToolsAssumption DEF ProcessEnds, ToolsTypeOK
<1>6. ASSUME Kill PROVE ToolsTypeOK'
  BY <1>5, <1>6 DEF Kill, fileVars, ToolsTypeOK
<1>7. ASSUME PowerLoss PROVE ToolsTypeOK'
  <2>1. 0 \in 0..latest
    BY DEF ToolsTypeOK
  <2>2. PICK v \in 0..latest : Remains(v)
    BY <1>7, <2>1 DEF PowerLoss, ToolsTypeOK
  <2>3. form' \in [0..latest -> Forms]
    BY <2>2 DEF Remains, ToolsTypeOK, Forms
  <2>4. parent' \in {"none", "made", "kept"}
    BY <1>7 DEF PowerLoss, ToolsTypeOK
  <2> QED  BY <1>5, <1>7, <2>2, <2>3, <2>4 DEF PowerLoss, Remains, ToolsTypeOK
<1>8. ASSUME UNCHANGED toolVars PROVE ToolsTypeOK'
  BY <1>8 DEF toolVars, fileVars, lockVars, toolCounters, ToolsTypeOK
<1> QED
  BY <1>1, <1>2, <1>3, <1>4, <1>6, <1>7, <1>8 DEF ToolsNext, CallStep, Inner, AllAnswered

\* Locks: a lock object that somebody refers to stays the Thread's, so whoever comes takes it.
LEMMA LocksHold == ToolsInv /\ [ToolsNext]_toolVars => OneLock' /\ OneInside'
<1> SUFFICES ASSUME ToolsInv, [ToolsNext]_toolVars PROVE OneLock' /\ OneInside'
  OBVIOUS
<1> ToolsTypeOK /\ OneLock /\ OneInside
  BY DEF ToolsInv
<1>1. ASSUME NEW c \in ToolCalls, NEW k \in Kinds, NEW l \in LockObjects, Call(c, k, l)
      PROVE  OneLock' /\ OneInside'
  <2>1. \A d \in ToolCalls : d # c => lockOf'[d] = lockOf[d] /\ place'[d] = place[d]
    BY <1>1 DEF Call, ToolsTypeOK
  <2>2. lockOf'[c] = l /\ place'[c] = "wait" /\ lockEntry' = l /\ l # NoLock
    BY <1>1, FileToolsAssumption DEF Call, ToolsTypeOK
  <2>3. \A d \in ToolCalls : lockOf[d] # NoLock => lockOf[d] = l
    BY <1>1 DEF Call, OneLock
  <2> QED  BY <2>1, <2>2, <2>3 DEF OneLock, OneInside, Inside
<1>2. ASSUME NEW c \in ToolCalls, Acquire(c) PROVE OneLock' /\ OneInside'
  <2>1. /\ \A d \in ToolCalls : d # c => place'[d] = place[d]
        /\ place[c] = "wait" /\ place'[c] = "open" /\ UNCHANGED lockVars
    BY <1>2, GoEffect DEF Acquire, Go
  <2>2. lockOf[c] = lockEntry
    BY <2>1 DEF OneLock
  <2>3. \A d \in ToolCalls : place[d] \notin Inside
    BY <1>2, <2>2 DEF Acquire, Locked, OneLock
  <2> QED  BY <2>1, <2>3 DEF OneLock, OneInside, Inside, lockVars
<1>3. ASSUME NEW c \in ToolCalls, Inner(c) PROVE OneLock' /\ OneInside'
  <2>1. OneLock' /\ place[c] \in Inside
    BY <1>3, InnerLocks, GoesOrLeaves
  <2>2. \A d \in ToolCalls : d # c => place'[d] = place[d]
    BY <1>3, InnerMoves DEF Moves
  <2> QED  BY <2>1, <2>2 DEF OneInside
<1>4. ASSUME Command PROVE OneLock' /\ OneInside'
  BY <1>4 DEF Command, lockVars, OneLock, OneInside
<1>5. ASSUME ProcessEnds PROVE OneLock' /\ OneInside'
  <2>1. \A c \in ToolCalls : place'[c] \in {"idle", "ended", "gone"} /\ lockOf'[c] = NoLock
    BY <1>5 DEF ProcessEnds
  <2> QED  BY <2>1 DEF OneLock, OneInside, Inside
<1>6. ASSUME UNCHANGED toolVars PROVE OneLock' /\ OneInside'
  BY <1>6 DEF toolVars, lockVars, OneLock, OneInside
<1> QED
  BY <1>1, <1>2, <1>3, <1>4, <1>5, <1>6
  DEF ToolsNext, CallStep, Inner, Kill, PowerLoss, AllAnswered

\* What one step may do to the calls, whoever takes it: one call moves, or enters or waits
\* for the lock, or those in flight are gone.
Enters(c) ==
    /\ \A d \in ToolCalls : d # c => place'[d] = place[d] /\ kind'[d] = kind[d]
    /\ \/ place[c] = "idle" /\ place'[c] = "wait"
       \/ place[c] = "wait" /\ place'[c] = "open" /\ kind' = kind
    /\ UNCHANGED <<fileVars, parent, drafts, looked, placed, reply>>
Vanish ==
    /\ \A c \in ToolCalls : place'[c] = IF place[c] \in {"idle", "ended"} THEN place[c] ELSE "gone"
    /\ UNCHANGED <<kind, drafts, looked, placed, reply>>

LEMMA StepCases ==
  ASSUME ToolsInv, [ToolsNext]_toolVars
  PROVE  \/ \E c \in ToolCalls : Enters(c)
         \/ \E c \in ToolCalls : Inner(c)
         \/ Command
         \/ Vanish /\ (PowerLoss \/ UNCHANGED <<fileVars, parent>>)
         \/ UNCHANGED toolVars
<1> ToolsTypeOK
  BY DEF ToolsInv
<1>1. ASSUME NEW c \in ToolCalls, NEW k \in Kinds, NEW l \in LockObjects, Call(c, k, l)
      PROVE  Enters(c)
  BY <1>1 DEF Call, Enters, ToolsTypeOK
<1>2. ASSUME NEW c \in ToolCalls, Acquire(c) PROVE Enters(c)
  BY <1>2, GoEffect DEF Acquire, Go, Enters
<1>3. ASSUME ProcessEnds PROVE Vanish
  BY <1>3 DEF ProcessEnds, Vanish
<1> QED
  BY <1>1, <1>2, <1>3 DEF ToolsNext, CallStep, Inner, Kill, PowerLoss, AllAnswered

\* What a call has made and answered.
LEMMA PlacedOnceHolds == ToolsInv /\ [ToolsNext]_toolVars => PlacedOnce'
<1> SUFFICES ASSUME ToolsInv, [ToolsNext]_toolVars PROVE PlacedOnce'
  OBVIOUS
<1> ToolsTypeOK /\ PlacedOnce
  BY DEF ToolsInv
<1>1. ASSUME NEW c \in ToolCalls, Enters(c) PROVE PlacedOnce'
  BY <1>1 DEF Enters, PlacedOnce, RefusedIsUndone, Before
<1>2. ASSUME NEW c \in ToolCalls, Inner(c) PROVE PlacedOnce'
  <2>1. Moves(c) /\ (placed' = placed \/ Replaces(c))
    BY <1>2, InnerMoves DEF Effects, Rests
  <2>2. \A d \in ToolCalls : d # c => placed'[d] = placed[d] /\ place'[d] = place[d]
                                      /\ reply'[d] = reply[d]
    BY <2>1 DEF Moves, Replaces, ToolsTypeOK
  <2>3. place'[c] # "settle" => placed'[c] = placed[c]
    BY <2>1 DEF Replaces
  <2>4. place'[c] = "settle" => place[c] = "put" /\ placed'[c] > 0 /\ reply'[c] = reply[c]
    BY <2>1 DEF Moves, ToolsTypeOK
  <2>5. CASE reply'[c] = reply[c] /\ place'[c] # "ended"
    BY <2>1, <2>2, <2>3, <2>4, <2>5 DEF Moves, PlacedOnce, RefusedIsUndone, Before
  <2>6. CASE place'[c] = "ended"
    BY <2>1, <2>2, <2>3, <2>6 DEF Moves, PlacedOnce, RefusedIsUndone, Before
  <2> QED  BY <2>1, <2>5, <2>6 DEF Moves
<1>3. ASSUME Command PROVE PlacedOnce'
  BY <1>3 DEF Command, PlacedOnce, RefusedIsUndone
<1>4. ASSUME Vanish PROVE PlacedOnce'
  BY <1>4 DEF Vanish, PlacedOnce, RefusedIsUndone, Before
<1>5. ASSUME UNCHANGED toolVars PROVE PlacedOnce'
  BY <1>5 DEF toolVars, PlacedOnce, RefusedIsUndone
<1> QED  BY <1>1, <1>2, <1>3, <1>4, <1>5, StepCases

\* What the look of a call has seen is still the last thing a tool has written.
LEMMA LookStaysFresh == ToolsInv /\ [ToolsNext]_toolVars => LookIsFresh'
<1> SUFFICES ASSUME ToolsInv, [ToolsNext]_toolVars PROVE LookIsFresh'
  OBVIOUS
<1> ToolsTypeOK /\ OneInside /\ LookIsFresh
  BY DEF ToolsInv
<1>1. ASSUME NEW c \in ToolCalls, Enters(c) PROVE LookIsFresh'
  BY <1>1 DEF Enters, LookIsFresh
<1>2. ASSUME NEW c \in ToolCalls, Inner(c) PROVE LookIsFresh'
  <2> SUFFICES ASSUME NEW e \in ToolCalls, NEW d \in ToolCalls,
                      place'[e] \in {"stage", "sync", "put"}
               PROVE  placed'[d] <= looked'[e]
    BY DEF LookIsFresh
  <2>1. Moves(c) /\ Effects(c) /\ place[c] \in Inside
    BY <1>2, InnerMoves, GoesOrLeaves
  <2>2. e = c
    BY <2>1 DEF Moves, OneInside, Inside
  <2>3. Rests(c) /\ placed' = placed
    BY <2>1, <2>2 DEF Effects, Replaces, Rests
  <2>4. CASE place[c] \in {"look", "read"}
    <3>1. looked'[c] = latest
      BY <2>1, <2>2, <2>4 DEF Moves
    <3> QED  BY <3>1, <2>2, <2>3 DEF ToolsTypeOK
  <2>5. CASE place[c] \notin {"look", "read"}
    <3>1. place[c] \in {"stage", "sync"}
      BY <2>1, <2>2, <2>5 DEF Moves
    <3> QED  BY <3>1, <2>2, <2>3, <2>5 DEF Rests, LookIsFresh
  <2> QED  BY <2>4, <2>5
<1>3. ASSUME Command PROVE LookIsFresh'
  BY <1>3 DEF Command, LookIsFresh
<1>4. ASSUME Vanish PROVE LookIsFresh'
  BY <1>4 DEF Vanish, LookIsFresh
<1>5. ASSUME UNCHANGED toolVars PROVE LookIsFresh'
  BY <1>5 DEF toolVars, LookIsFresh
<1> QED  BY <1>1, <1>2, <1>3, <1>4, <1>5, StepCases

\* So a change is made from what it replaces, as far as tools go.
LEMMA ChangesHold == ToolsInv /\ [ToolsNext]_toolVars => ChangesBuildOnTheLast'
<1> SUFFICES ASSUME ToolsInv, [ToolsNext]_toolVars PROVE ChangesBuildOnTheLast'
  OBVIOUS
<1> ToolsTypeOK /\ PlacedOnce /\ LookIsFresh /\ ChangesBuildOnTheLast
  BY DEF ToolsInv
<1>1. ASSUME UNCHANGED <<looked, placed>> PROVE ChangesBuildOnTheLast'
  BY <1>1 DEF ChangesBuildOnTheLast
<1>2. ASSUME NEW c \in ToolCalls, Inner(c) PROVE ChangesBuildOnTheLast'
  <2> SUFFICES ASSUME NEW e \in ToolCalls, NEW d \in ToolCalls, placed'[e] > 0
               PROVE  ~(looked'[e] < placed'[d] /\ placed'[d] < placed'[e])
    BY DEF ChangesBuildOnTheLast
  <2>1. Effects(c)
    BY <1>2, InnerMoves
  <2>2. CASE Replaces(c)
    <3>1. looked' = looked /\ placed' = [placed EXCEPT ![c] = latest + 1] /\ place[c] = "put"
      BY <2>2 DEF Replaces
    <3>2. placed'[e] <= latest + 1
      BY <3>1 DEF ToolsTypeOK
    <3>3. CASE d = c
      BY <3>1, <3>2, <3>3 DEF ToolsTypeOK
    <3>4. CASE d # c /\ e = c
      BY <3>1, <3>4 DEF LookIsFresh, ToolsTypeOK
    <3>5. CASE d # c /\ e # c
      BY <3>1, <3>5 DEF ChangesBuildOnTheLast, ToolsTypeOK
    <3> QED  BY <3>3, <3>4, <3>5
  <2>3. CASE Rests(c)
    <3>1. placed' = placed
      BY <2>3 DEF Rests
    <3>2. looked'[e] = looked[e]
      BY <2>3, <3>1 DEF Rests, PlacedOnce, Before, ToolsTypeOK
    <3> QED  BY <3>1, <3>2 DEF ChangesBuildOnTheLast
  <2> QED  BY <2>1, <2>2, <2>3 DEF Effects
<1> QED  BY <1>1, <1>2, StepCases DEF Enters, Command, Vanish, toolVars

\* What takes the name of the file has its bytes on the disk.
LEMMA BytesStay == ToolsInv /\ [ToolsNext]_toolVars => BytesFirst'
<1> SUFFICES ASSUME ToolsInv, [ToolsNext]_toolVars PROVE BytesFirst'
  OBVIOUS
<1> ToolsTypeOK /\ BytesFirst
  BY DEF ToolsInv
<1>1. ASSUME NEW c \in ToolCalls, Enters(c) PROVE BytesFirst'
  BY <1>1 DEF Enters, BytesFirst, PlacedIsWhole, fileVars
<1>2. ASSUME NEW c \in ToolCalls, Inner(c) PROVE BytesFirst'
  <2>1. Moves(c) /\ Effects(c)
    BY <1>2, InnerMoves
  <2>2. ASSUME NEW d \in ToolCalls, place'[d] = "put" PROVE d \in drafts'
    BY <2>1, <2>2 DEF Moves, Effects, BytesFirst
  <2>3. ASSUME NEW d \in ToolCalls, placed'[d] > 0
        PROVE  placed'[d] \in synced' /\ form'[placed'[d]] = "whole"
    <3>1. CASE Replaces(c)
      <4>1. /\ placed' = [placed EXCEPT ![c] = latest + 1] /\ synced' = synced \cup {latest + 1}
            /\ form'[latest + 1] = "whole" /\ \A v \in 0..latest : form'[v] = form[v]
        BY <3>1, VersionsGrow DEF Replaces, BytesFirst, Forms
      <4> QED  BY <2>3, <4>1 DEF BytesFirst, PlacedIsWhole, ToolsTypeOK
    <3>2. CASE Rests(c)
      BY <2>3, <3>2 DEF Rests, BytesFirst, PlacedIsWhole
    <3> QED  BY <2>1, <3>1, <3>2 DEF Effects
  <2> QED  BY <2>2, <2>3 DEF BytesFirst, PlacedIsWhole
<1>3. ASSUME Command PROVE BytesFirst'
  <2>1. \A v \in 0..latest : form'[v] = form[v]
    BY <1>3, VersionsGrow DEF Command, Forms
  <2> QED  BY <1>3, <2>1 DEF Command, BytesFirst, PlacedIsWhole, ToolsTypeOK
<1>4. ASSUME Vanish, PowerLoss PROVE BytesFirst'
  <2>1. PICK v \in 0..latest : Remains(v)
    BY <1>4 DEF PowerLoss, ToolsTypeOK
  <2>2. synced \subseteq synced' /\ \A w \in synced : form'[w] = form[w]
    BY <2>1 DEF Remains, ToolsTypeOK
  <2> QED  BY <1>4, <2>2 DEF Vanish, BytesFirst, PlacedIsWhole
<1>5. ASSUME Vanish, UNCHANGED <<fileVars, parent>> PROVE BytesFirst'
  BY <1>5 DEF Vanish, BytesFirst, PlacedIsWhole, fileVars
<1>6. ASSUME UNCHANGED toolVars PROVE BytesFirst'
  BY <1>6 DEF toolVars, fileVars, BytesFirst, PlacedIsWhole
<1> QED  BY <1>1, <1>2, <1>3, <1>4, <1>5, <1>6, StepCases

\* No loss of power leads back behind a change that is settled.
LEMMA EntryStays == ToolsInv /\ [ToolsNext]_toolVars => EntryHolds'
<1> SUFFICES ASSUME ToolsInv, [ToolsNext]_toolVars PROVE EntryHolds'
  OBVIOUS
<1> ToolsTypeOK /\ OneInside /\ PlacedOnce /\ EntryHolds
  BY DEF ToolsInv
<1>1. ASSUME NEW c \in ToolCalls, Enters(c) PROVE EntryHolds'
  <2>1. place[c] \in {"idle", "wait"} /\ place'[c] \in {"wait", "open"} /\ reply[c] # "done"
    BY <1>1 DEF Enters, PlacedOnce
  <2> QED  BY <1>1, <2>1 DEF Enters, fileVars, EntryHolds, NotBefore, Pinned
<1>2. ASSUME NEW c \in ToolCalls, Inner(c) PROVE EntryHolds'
  <2>1. Moves(c) /\ Effects(c) /\ place[c] \in Inside
    BY <1>2, InnerMoves, GoesOrLeaves
  <2>2. \A d \in ToolCalls : d # c => place[d] \notin Inside /\ place'[d] \notin Inside
                                      /\ reply'[d] = reply[d]
    BY <2>1 DEF Moves, OneInside
  <2>3. reply[c] = "none"
    BY <2>1 DEF PlacedOnce, ToolsTypeOK, Inside
  <2>4. reply'[c] = "done" => place[c] = "close"
    BY <2>1, <2>3 DEF Moves
  <2>5. ASSUME NEW d \in ToolCalls, kind'[d] # "edit", place'[d] \in Pinned \/ reply'[d] = "done"
        PROVE  parent' = "kept"
    <3>1. kind' = kind /\ (parent = "kept" => parent' = "kept")
      BY <2>1 DEF Effects
    <3>2. CASE d # c
      BY <2>2, <2>5, <3>1, <3>2 DEF EntryHolds, Pinned, Inside
    <3>3. CASE d = c /\ place[c] \in Pinned
      BY <2>5, <3>1, <3>3 DEF EntryHolds
    <3>4. CASE d = c /\ place[c] \notin Pinned
      BY <2>1, <2>4, <2>5, <3>1, <3>4 DEF Moves, Pinned
    <3> QED  BY <3>2, <3>3, <3>4
  <2>6. CASE Replaces(c)
    <3>1. /\ kept' = {latest + 1} /\ stale' = stale \cup kept /\ kind' = kind
          /\ placed' = [placed EXCEPT ![c] = latest + 1] /\ place'[c] = "settle"
          /\ reply'[c] # "done"
      BY <2>1, <2>4, <2>6 DEF Replaces, NewEntry, Effects
    <3>2. placed'[c] = latest + 1 /\ latest \in Nat
          /\ \A d \in ToolCalls : d # c => placed'[d] = placed[d] /\ placed[d] <= latest
      BY <3>1 DEF ToolsTypeOK
    <3>3. ASSUME NEW d \in ToolCalls, place'[d] \in {"settle", "close"} \/ reply'[d] = "done",
                 NEW v \in kept'
          PROVE  NotBefore(d, v)'
      <4>1. v = latest + 1
        BY <3>1, <3>3
      <4>2. placed'[d] <= latest + 1
        BY <3>2, ToolsTypeOK DEF ToolsTypeOK
      <4> QED  BY <3>2, <4>1, <4>2 DEF NotBefore
    <3>4. ASSUME NEW d \in ToolCalls, place'[d] = "close" \/ reply'[d] = "done", NEW v \in stale'
          PROVE  NotBefore(d, v)'
      <4>1. d # c /\ reply[d] = "done"
        BY <2>2, <3>1, <3>4 DEF Inside
      <4> QED  BY <3>1, <3>2, <4>1 DEF EntryHolds, NotBefore
    <3> QED  BY <2>5, <3>3, <3>4 DEF EntryHolds
  <2>7. CASE Rests(c)
    <3>1. kept' = kept /\ stale' \subseteq stale /\ placed' = placed /\ kind' = kind
      BY <2>1, <2>7 DEF Rests, Effects
    <3>2. place'[c] \notin {"settle"} /\ (place'[c] = "close" => place[c] = "settle" /\ stale' = {})
      BY <2>1, <3>1 DEF Moves, ToolsTypeOK
    <3>3. ASSUME NEW d \in ToolCalls, place'[d] \in {"settle", "close"} \/ reply'[d] = "done",
                 NEW v \in kept'
          PROVE  NotBefore(d, v)'
      <4>1. place[d] \in {"settle", "close"} \/ reply[d] = "done"
        BY <2>2, <2>4, <3>2, <3>3 DEF Inside
      <4> QED  BY <3>1, <4>1 DEF EntryHolds, NotBefore
    <3>4. ASSUME NEW d \in ToolCalls, place'[d] = "close" \/ reply'[d] = "done", NEW v \in stale'
          PROVE  NotBefore(d, v)'
      <4>1. place[d] = "close" \/ reply[d] = "done"
        BY <2>2, <2>4, <3>2, <3>4 DEF Inside
      <4> QED  BY <3>1, <4>1 DEF EntryHolds, NotBefore
    <3> QED  BY <2>5, <3>3, <3>4 DEF EntryHolds
  <2> QED  BY <2>1, <2>6, <2>7 DEF Effects
<1>3. ASSUME Command PROVE EntryHolds'
  <2>1. /\ latest + 1 \in kept' /\ kept' \subseteq kept \cup {latest + 1}
        /\ stale' \subseteq stale \cup kept
        /\ UNCHANGED <<place, reply, kind, placed, parent>>
    BY <1>3 DEF Command, NewEntry
  <2>2. \A c \in ToolCalls : placed[c] <= latest + 1
    BY DEF ToolsTypeOK
  <2> QED  BY <2>1, <2>2 DEF EntryHolds, NotBefore
<1>4. ASSUME Vanish, PowerLoss PROVE EntryHolds'
  <2>1. /\ \A c \in ToolCalls : place'[c] \in {"idle", "ended", "gone"}
        /\ UNCHANGED <<kind, placed, reply>>
    BY <1>4 DEF Vanish
  <2>2. /\ parent = "kept" => parent' = "kept"
        /\ stale' = {} /\ \E v : kept' = {v} /\ (v \in kept \cup stale \/ (v = 0 /\ parent = "made"))
    BY <1>4 DEF PowerLoss, Remains
  <2>3. ASSUME NEW c \in ToolCalls, reply[c] = "done"
        PROVE  /\ \A v \in kept' : NotBefore(c, v)'
               /\ kind[c] # "edit" => parent' = "kept"
    BY <2>1, <2>2, <2>3 DEF EntryHolds, NotBefore
  <2> QED  BY <2>1, <2>2, <2>3 DEF EntryHolds, Pinned
<1>5. ASSUME Vanish, UNCHANGED <<fileVars, parent>> PROVE EntryHolds'
  BY <1>5 DEF Vanish, fileVars, EntryHolds, NotBefore, Pinned
<1>6. ASSUME UNCHANGED toolVars PROVE EntryHolds'
  BY <1>6 DEF toolVars, fileVars, EntryHolds, NotBefore
<1> QED  BY <1>1, <1>2, <1>3, <1>4, <1>5, <1>6, StepCases

-----------------------------------------------------------------------------
(* The theorems                                                            *)

LEMMA ToolsStart == ToolsInit => ToolsInv
<1> SUFFICES ASSUME ToolsInit PROVE ToolsInv
  OBVIOUS
<1> USE FileToolsAssumption DEF ToolsInit
<1>1. ToolsTypeOK
  <2>1. latest = 1 /\ now \in 0..latest /\ form \in [0..latest -> Forms]
    BY DEF Forms
  <2>2. 0 \in 0..latest
    BY <2>1
  <2> QED  BY <2>1, <2>2 DEF ToolsTypeOK, Kinds
<1>2. OneLock /\ OneInside
  BY DEF OneLock, OneInside, Inside
<1>3. PlacedOnce /\ LookIsFresh /\ ChangesBuildOnTheLast
  BY DEF PlacedOnce, RefusedIsUndone, LookIsFresh, ChangesBuildOnTheLast
<1>4. BytesFirst /\ EntryHolds
  BY DEF BytesFirst, PlacedIsWhole, EntryHolds, Pinned
<1> QED  BY <1>1, <1>2, <1>3, <1>4 DEF ToolsInv

\* The invariant of the file tools: one lock object, one call inside it, a look that is fresh,
\* bytes before names, and an entry that no loss takes back (mutate_file, AtomicWriter).
THEOREM ToolsHold == ToolsSpec => []ToolsInv
<1>1. ToolsInv /\ [ToolsNext]_toolVars => ToolsInv'
  BY ToolsTyped, LocksHold, PlacedOnceHolds, LookStaysFresh, ChangesHold, BytesStay, EntryStays
  DEF ToolsInv
<1> QED  BY <1>1, ToolsStart, PTL DEF ToolsSpec

\* No tool loses what another has written to the file, for any number of calls, commands, deaths
\* of the process and lock objects (thread_lock, mutate_file).
THEOREM NoChangeIsLost == ToolsSpec => []ChangesBuildOnTheLast
<1>1. ToolsInv => ChangesBuildOnTheLast
  BY DEF ToolsInv
<1> QED  BY <1>1, ToolsHold, PTL

\* A refused call has changed nothing, a done one is not undone by a loss of power, and what a
\* tool put in place is whole (AtomicWriter.commit, child_directory_fd).
THEOREM ToolsAreTruthful == ToolsSpec => []ToolsTellTheTruth
<1>1. ToolsInv => DoneIsDurable
  <2>1. ASSUME ToolsInv, NEW c \in ToolCalls, reply[c] = "done" PROVE placed[c] > 0
    BY <2>1 DEF ToolsInv, PlacedOnce
  <2> SUFFICES ASSUME ToolsInv, NEW c \in ToolCalls, reply[c] = "done", NEW v \in MayRemain
               PROVE  v >= placed[c] \/ (kind[c] = "edit" /\ v = 0)
    BY <2>1 DEF DoneIsDurable
  <2>2. CASE v \in kept \cup stale
    BY <2>2 DEF ToolsInv, EntryHolds, NotBefore
  <2>3. CASE v = 0 /\ parent = "made"
    BY <2>3 DEF ToolsInv, EntryHolds
  <2> QED  BY <2>2, <2>3 DEF MayRemain
<1>2. ToolsInv => RefusedIsUndone /\ PlacedIsWhole
  BY DEF ToolsInv, PlacedOnce, BytesFirst
<1> QED  BY <1>1, <1>2, ToolsHold, PTL DEF ToolsTellTheTruth
=============================================================================
