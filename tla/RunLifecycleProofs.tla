------------------------- MODULE RunLifecycleProofs -------------------------
(***************************************************************************)
(* What holds of the life of Runs for any number of Threads, Runs, requests *)
(* and failures.                                                            *)
(*                                                                          *)
(* IInv is inductive: the types, the exclusion of the admission entry, and  *)
(* the books that tie tasks, rows and requests to their Thread.  Lifecycle  *)
(* adds what ties a task to its row, a request to the Run it closes, and a  *)
(* lease, a container or an unsettled restore to whom accounts for it; it   *)
(* is inductive as well and implies the safety properties of the runs.      *)
(* Each part has one lemma.  A lemma has one step for the actions of a kind *)
(* (tasks, requests, arriving requests, the process) that change the part   *)
(* and one for those that leave it alone.                                   *)
(***************************************************************************)
EXTENDS RunLifecycle, FiniteSetTheorems, TLAPS

-----------------------------------------------------------------------------
(* The admission entry, whatever the service does with it                  *)

\* A fresh entry admits everybody and excludes nobody.
LEMMA InitEntry == Empty => EntryOK /\ Exclusion
  BY AdmissionAssumption DEF Empty, EntryOK, Exclusion

\* Every method keeps the types of the entry.
LEMMA EntryTypeStep == EntryOK /\ [EntryNext]_entryVars => EntryOK'
<1> SUFFICES ASSUME EntryOK, [EntryNext]_entryVars PROVE EntryOK'
  OBVIOUS
<1> USE DEF EntryOK
<1>1. ASSUME NEW t \in Threads, NEW c \in Requests, NEW allowRun \in BOOLEAN,
             BeginWrite(t, c, allowRun)
      PROVE EntryOK'
  BY <1>1 DEF BeginWrite
<1>2. ASSUME NEW t \in Threads, NEW c \in Requests, EndWrite(t, c) PROVE EntryOK'
  BY <1>2 DEF EndWrite
<1>3. ASSUME NEW t \in Threads, NEW c \in Requests, BlockAndEndWrite(t, c) PROVE EntryOK'
  BY <1>3 DEF BlockAndEndWrite
<1>4. ASSUME NEW t \in Threads, NEW c \in Requests, NEW r \in Runs, RegisterRun(t, c, r)
      PROVE EntryOK'
  BY <1>4 DEF RegisterRun
<1>5. ASSUME NEW t \in Threads, NEW c \in Requests, BeginRead(t, c) PROVE EntryOK'
  BY <1>5 DEF BeginRead
<1>6. ASSUME NEW t \in Threads, NEW c \in Requests, EndRead(t, c) PROVE EntryOK'
  BY <1>6 DEF EndRead
<1>7. ASSUME NEW t \in Threads, Block(t) PROVE EntryOK'
  BY <1>7 DEF Block
<1>8. ASSUME NEW t \in Threads, NEW r \in Runs, ReleaseRun(t, r) PROVE EntryOK'
  BY <1>8 DEF ReleaseRun
<1>9. ASSUME NEW S \in SUBSET Threads, BlockAll(S) PROVE EntryOK'
  BY <1>9 DEF BlockAll
<1>10. CASE Forget
  BY <1>10 DEF Forget
<1>11. CASE UNCHANGED entryVars
  BY <1>11 DEF entryVars
<1>12. QED
  BY <1>1, <1>2, <1>3, <1>4, <1>5, <1>6, <1>7, <1>8, <1>9, <1>10, <1>11 DEF EntryNext

\* Every method keeps writers, readers and Runs apart.
LEMMA EntryExclusionStep == EntryOK /\ Exclusion /\ [EntryNext]_entryVars => Exclusion'
<1> SUFFICES ASSUME EntryOK, Exclusion, [EntryNext]_entryVars PROVE Exclusion'
  OBVIOUS
<1> USE DEF EntryOK, Exclusion
<1>1. ASSUME NEW t \in Threads, NEW c \in Requests, NEW allowRun \in BOOLEAN,
             BeginWrite(t, c, allowRun)
      PROVE Exclusion'
  BY <1>1 DEF BeginWrite, MayWrite
<1>2. ASSUME NEW t \in Threads, NEW c \in Requests, EndWrite(t, c) PROVE Exclusion'
  BY <1>2 DEF EndWrite
<1>3. ASSUME NEW t \in Threads, NEW c \in Requests, BlockAndEndWrite(t, c) PROVE Exclusion'
  BY <1>3 DEF BlockAndEndWrite
<1>4. ASSUME NEW t \in Threads, NEW c \in Requests, NEW r \in Runs, RegisterRun(t, c, r)
      PROVE Exclusion'
  BY <1>4 DEF RegisterRun
<1>5. ASSUME NEW t \in Threads, NEW c \in Requests, BeginRead(t, c) PROVE Exclusion'
  BY <1>5 DEF BeginRead
<1>6. ASSUME NEW t \in Threads, NEW c \in Requests, EndRead(t, c) PROVE Exclusion'
  BY <1>6 DEF EndRead
<1>7. ASSUME NEW t \in Threads, Block(t) PROVE Exclusion'
  BY <1>7 DEF Block
<1>8. ASSUME NEW t \in Threads, NEW r \in Runs, ReleaseRun(t, r) PROVE Exclusion'
  BY <1>8 DEF ReleaseRun
<1>9. ASSUME NEW S \in SUBSET Threads, BlockAll(S) PROVE Exclusion'
  BY <1>9 DEF BlockAll
<1>10. CASE Forget
  BY <1>10 DEF Forget
<1>11. CASE UNCHANGED entryVars
  BY <1>11 DEF entryVars
<1>12. QED
  BY <1>1, <1>2, <1>3, <1>4, <1>5, <1>6, <1>7, <1>8, <1>9, <1>10, <1>11 DEF EntryNext

\* The entry always has the shape the code gives it.
THEOREM AdmissionTypeCorrect == EntrySpec => []EntryOK
  BY InitEntry, EntryTypeStep, PTL DEF EntrySpec

\* Whatever sequence of operations, reads, Runs and failures occurs, a writer
\* has no reader beside it, and only a restore is admitted beside a Run.
THEOREM AdmissionExclusion == EntrySpec => []Exclusion
  BY InitEntry, EntryTypeStep, EntryExclusionStep, PTL DEF EntrySpec

\* A blocked Thread admits nobody until the process forgets its entries.
THEOREM AdmissionBlockedStaysClosed == EntrySpec => BlockedStaysClosed
<1> DEFINE Closed == \A t \in Threads : blocked[t] /\ ~Forget =>
                        /\ blocked'[t]
                        /\ writer'[t] \in {writer[t], NoRequest}
                        /\ readers'[t] \subseteq readers[t]
<1>1. EntryOK /\ [EntryNext]_entryVars => [Closed]_entryVars
  <2> SUFFICES ASSUME EntryOK, EntryNext, NEW t \in Threads, blocked[t], ~Forget
               PROVE /\ blocked'[t]
                     /\ writer'[t] \in {writer[t], NoRequest}
                     /\ readers'[t] \subseteq readers[t]
    BY DEF Closed
  <2> USE DEF EntryOK
  <2>1. ASSUME NEW u \in Threads, NEW c \in Requests,
               \/ \E allowRun \in BOOLEAN : BeginWrite(u, c, allowRun)
               \/ EndWrite(u, c) \/ BlockAndEndWrite(u, c)
               \/ \E r \in Runs : RegisterRun(u, c, r)
        PROVE /\ blocked'[t]
              /\ writer'[t] \in {writer[t], NoRequest}
              /\ readers'[t] \subseteq readers[t]
    BY <2>1 DEF BeginWrite, MayWrite, EndWrite, BlockAndEndWrite, RegisterRun
  <2>2. ASSUME NEW u \in Threads, NEW c \in Requests, BeginRead(u, c) \/ EndRead(u, c)
        PROVE /\ blocked'[t]
              /\ writer'[t] \in {writer[t], NoRequest}
              /\ readers'[t] \subseteq readers[t]
    BY <2>2 DEF BeginRead, EndRead
  <2>3. ASSUME \/ \E u \in Threads : Block(u)
               \/ \E u \in Threads, r \in Runs : ReleaseRun(u, r)
               \/ \E S \in SUBSET Threads : BlockAll(S)
        PROVE /\ blocked'[t]
              /\ writer'[t] \in {writer[t], NoRequest}
              /\ readers'[t] \subseteq readers[t]
    BY <2>3 DEF Block, ReleaseRun, BlockAll
  <2>4. QED
    BY <2>1, <2>2, <2>3 DEF EntryNext
<1>2. QED
  BY <1>1, AdmissionTypeCorrect, PTL DEF EntrySpec, BlockedStaysClosed, Closed

-----------------------------------------------------------------------------
(* The books of the service                                                *)

IInv == TypeOK /\ Exclusion /\ Bookkeeping

-----------------------------------------------------------------------------
(* Types                                                                   *)

\* A transaction moves a row to a status the schema allows.
LEMMA RowsStep == RowsOK /\ RequestsOK /\ [Next]_vars => RowsOK'
<1> SUFFICES ASSUME RowsOK, RequestsOK, [Next]_vars
             PROVE RowsOK'
  OBVIOUS
<1> USE AdmissionAssumption, LifecycleAssumption
    DEF RowsOK, RequestsOK, Inflight, Terminal
<1>1. ASSUME NEW r \in Runs, Capture(r) \/ SaveInput(r) \/ SaveFinal(r) \/ Start(r) \/
             Finish(r) \/ FailWrite(r)
      PROVE RowsOK'
  BY <1>1 DEF Capture, Store, Proceed, Fail, SaveInput, SaveFinal, Start, StartTx, Move,
      Finish, FinishTx, FailWrite, InterruptTx, OrphanTx
<1>2. ASSUME NEW c \in Requests, CreateCommit(c) \/ CancelInterrupt(c) \/ RestorePrepare(c) \/
             RestoreFinish(c) \/ DeleteRow(c)
      PROVE RowsOK'
  BY <1>2 DEF CreateCommit, RegisterRun, EndWrite, Free, CancelInterrupt,
      InterruptTx, Move, RestorePrepare, RestoreFinish, BlockAndEndWrite, DeleteRow
<1>3. ASSUME RecoverFiles PROVE RowsOK'
  BY <1>3 DEF RecoverFiles, BlockAll
<1>4. ASSUME NEW r \in Runs, RecoverOrphan(r) PROVE RowsOK'
  BY <1>4 DEF RecoverOrphan, OrphanTx, Move
<1>5. ASSUME NEW r \in Runs, Begin(r) \/ Load(r) \/ StopOld(r) \/ BeginRun(r) \/
             AgentEnds(r) \/ Release(r) \/ Announce(r) \/ FailRelease(r) \/ FailRead(r) \/
             FailSave(r) \/ Cleanup(r) \/ Consume(r) \/ AgentBash(r)
      PROVE RowsOK'
  BY <1>5 DEF Begin, Load, StopOld, BeginRun, AgentEnds, Release, Announce, FailRelease,
      FailRead, FailSave, Cleanup, Consume, AgentBash, dbVars
<1>6. ASSUME NEW c \in Requests, CancelWoken(c) \/ CancelAnnounce(c) \/ CancelClose(c) \/
             RestoreStop(c) \/ PreviewEnd(c) \/ UploadEnd(c) \/ ReadEnd(c) \/ DeleteBox(c)
      PROVE RowsOK'
  BY <1>6 DEF CancelWoken, CancelAnnounce, CancelClose, RestoreStop, PreviewEnd, UploadEnd,
      ReadEnd, DeleteBox, dbVars
<1>7. ASSUME NEW c \in Requests, NEW t \in Threads, CreateBegin(c, t) \/ RestoreBegin(c, t) \/
             PreviewBegin(c, t) \/ UploadBegin(c, t) \/ ReadBegin(c, t) \/ DeleteBegin(c, t)
      PROVE RowsOK'
  BY <1>7 DEF CreateBegin, RestoreBegin, PreviewBegin, UploadBegin, ReadBegin, DeleteBegin,
      dbVars
<1>8. ASSUME NEW r \in Runs, NEW c \in Requests, CancelBegin(c, r) PROVE RowsOK'
  BY <1>8 DEF CancelBegin, dbVars
<1>9. ASSUME Shutdown \/ ShutdownEnds \/ Crash \/ RemoveOldContainers \/ Serve PROVE RowsOK'
  BY <1>9 DEF Shutdown, ShutdownEnds, ForgetAll, Forget, Crash, RemoveOldContainers,
      Serve, dbVars
<1>10. ASSUME NEW t \in Threads, ReapIdle(t) PROVE RowsOK'
  BY <1>10 DEF ReapIdle, dbVars
<1>11. CASE UNCHANGED vars
  BY <1>11 DEF vars, dbVars
<1>12. QED
  BY <1>1, <1>2, <1>3, <1>4, <1>5, <1>6, <1>7, <1>8, <1>9, <1>10, <1>11
  DEF Next, TaskStep, RequestStep, RequestArrives, Startup

\* Containers and leases.
LEMMA BoxesStep == BoxesOK /\ [Next]_vars => BoxesOK'
<1> SUFFICES ASSUME BoxesOK, [Next]_vars
             PROVE BoxesOK'
  OBVIOUS
<1> USE AdmissionAssumption, LifecycleAssumption
    DEF BoxesOK
<1>1. ASSUME NEW r \in Runs, StopOld(r) \/ BeginRun(r) \/ AgentBash(r) \/ Release(r) \/
             FailRelease(r) \/ Cleanup(r)
      PROVE BoxesOK'
  BY <1>1, ZenonT(60) DEF StopOld, StopOrBlock, StopThread, Fail, Block, BeginRun, AgentBash,
      Release, EndLease, FailRelease, ReleaseAgain, Cleanup
<1>2. ASSUME NEW c \in Requests, RestoreStop(c) \/ PreviewEnd(c) \/ DeleteBox(c) PROVE BoxesOK'
  BY <1>2, ZenonT(60) DEF RestoreStop, StopThread, Free, BlockAndEndWrite, PreviewEnd,
      EndWrite, DeleteBox
<1>3. ASSUME ShutdownEnds \/ Crash \/ RemoveOldContainers PROVE BoxesOK'
  BY <1>3 DEF ShutdownEnds, ForgetAll, Forget, Crash, RemoveOldContainers
<1>4. ASSUME NEW t \in Threads, ReapIdle(t) PROVE BoxesOK'
  BY <1>4 DEF ReapIdle
<1>5. ASSUME NEW r \in Runs, Begin(r) \/ Load(r) \/ Capture(r) \/ SaveInput(r) \/ Start(r) \/
             AgentEnds(r) \/ SaveFinal(r) \/ Finish(r) \/ Announce(r) \/ FailRead(r) \/
             FailSave(r) \/ FailWrite(r) \/ Consume(r)
      PROVE BoxesOK'
  BY <1>5 DEF Begin, Load, Capture, Store, SaveInput, Start, AgentEnds, SaveFinal, Finish,
      Announce, FailRead, FailSave, FailWrite, Consume, boxVars
<1>6. ASSUME NEW c \in Requests, CreateCommit(c) \/ CancelWoken(c) \/ CancelInterrupt(c) \/
             CancelAnnounce(c) \/ CancelClose(c) \/ RestorePrepare(c) \/ RestoreFinish(c) \/
             UploadEnd(c) \/ ReadEnd(c) \/ DeleteRow(c)
      PROVE BoxesOK'
  BY <1>6 DEF CreateCommit, CancelWoken, CancelInterrupt, CancelAnnounce, CancelClose,
      RestorePrepare, RestoreFinish, UploadEnd, ReadEnd, DeleteRow, boxVars
<1>7. ASSUME NEW c \in Requests, NEW t \in Threads, CreateBegin(c, t) \/ RestoreBegin(c, t) \/
             PreviewBegin(c, t) \/ UploadBegin(c, t) \/ ReadBegin(c, t) \/ DeleteBegin(c, t)
      PROVE BoxesOK'
  BY <1>7 DEF CreateBegin, RestoreBegin, PreviewBegin, UploadBegin, ReadBegin, DeleteBegin,
      boxVars
<1>8. ASSUME NEW r \in Runs, NEW c \in Requests, CancelBegin(c, r) PROVE BoxesOK'
  BY <1>8 DEF CancelBegin, boxVars
<1>9. ASSUME Shutdown \/ RecoverFiles \/ Serve PROVE BoxesOK'
  BY <1>9 DEF Shutdown, RecoverFiles, Serve, boxVars
<1>10. ASSUME NEW r \in Runs, RecoverOrphan(r) PROVE BoxesOK'
  BY <1>10 DEF RecoverOrphan, boxVars
<1>11. CASE UNCHANGED vars
  BY <1>11 DEF vars, boxVars
<1>12. QED
  BY <1>1, <1>2, <1>3, <1>4, <1>5, <1>6, <1>7, <1>8, <1>9, <1>10, <1>11
  DEF Next, TaskStep, RequestStep, RequestArrives, Startup

\* The program counters of tasks and what they carry.
LEMMA TasksStep == TasksOK /\ [Next]_vars => TasksOK'
<1> SUFFICES ASSUME TasksOK, [Next]_vars
             PROVE TasksOK'
  OBVIOUS
<1> USE AdmissionAssumption, LifecycleAssumption
    DEF TasksOK, LivePc, WorkPc, FailPc, Terminal
<1>1. ASSUME NEW r \in Runs, Begin(r) \/ Load(r) \/ StopOld(r) \/ Capture(r) \/ SaveInput(r) \/
             Start(r)
      PROVE TasksOK'
  BY <1>1 DEF Begin, Load, Proceed, Fail, StopOld, StopOrBlock, Capture, Store, SaveInput,
      Start
<1>2. ASSUME NEW r \in Runs, BeginRun(r) \/ AgentEnds(r) \/ SaveFinal(r) \/ Release(r) \/
             Finish(r) \/ Announce(r)
      PROVE TasksOK'
  BY <1>2, ZenonT(60) DEF BeginRun, Fail, AgentEnds, Proceed, SaveFinal, Store, Release, StopOrBlock,
      Finish, Announce
<1>3. ASSUME NEW r \in Runs, FailRelease(r) \/ FailRead(r) \/ FailSave(r) \/ FailWrite(r) \/
             Cleanup(r) \/ Consume(r)
      PROVE TasksOK'
  BY <1>3 DEF FailRelease, ReleaseAgain, FailRead, FailSave, FailWrite, Cleanup, Consume
<1>4. ASSUME NEW c \in Requests, CreateCommit(c) PROVE TasksOK'
  BY <1>4 DEF CreateCommit
<1>5. ASSUME NEW c \in Requests, NEW t \in Threads, RestoreBegin(c, t) PROVE TasksOK'
  BY <1>5 DEF RestoreBegin, Ask, CancelTask
<1>6. ASSUME NEW r \in Runs, NEW c \in Requests, CancelBegin(c, r) PROVE TasksOK'
  BY <1>6 DEF CancelBegin, Ask, CancelTask
<1>7. ASSUME Shutdown \/ ShutdownEnds \/ Crash PROVE TasksOK'
  <2>1. CASE Shutdown
    BY <2>1 DEF Shutdown
  <2>2. CASE ShutdownEnds
    BY <2>2 DEF ShutdownEnds, ForgetAll
  <2>3. CASE Crash
    BY <2>3 DEF Crash, ForgetAll
  <2>4. QED
    BY <1>7, <2>1, <2>2, <2>3
<1>8. ASSUME NEW r \in Runs, AgentBash(r) PROVE TasksOK'
  BY <1>8 DEF AgentBash, taskVars, CancelTask
<1>9. ASSUME NEW c \in Requests, CancelWoken(c) \/ CancelInterrupt(c) \/ CancelAnnounce(c) \/
             CancelClose(c) \/ RestoreStop(c) \/ RestorePrepare(c) \/ RestoreFinish(c) \/
             PreviewEnd(c) \/ UploadEnd(c) \/ ReadEnd(c) \/ DeleteBox(c) \/ DeleteRow(c)
      PROVE TasksOK'
  BY <1>9 DEF CancelWoken, CancelInterrupt, CancelAnnounce, CancelClose, RestoreStop,
      RestorePrepare, RestoreFinish, PreviewEnd, UploadEnd, ReadEnd, DeleteBox, DeleteRow,
      taskVars, CancelTask
<1>10. ASSUME NEW c \in Requests, NEW t \in Threads, CreateBegin(c, t) \/ PreviewBegin(c, t) \/
             UploadBegin(c, t) \/ ReadBegin(c, t) \/ DeleteBegin(c, t)
      PROVE TasksOK'
  BY <1>10 DEF CreateBegin, PreviewBegin, UploadBegin, ReadBegin, DeleteBegin, taskVars,
      CancelTask
<1>11. ASSUME RemoveOldContainers \/ RecoverFiles \/ Serve PROVE TasksOK'
  BY <1>11 DEF RemoveOldContainers, RecoverFiles, Serve, taskVars, CancelTask
<1>12. ASSUME NEW r \in Runs, RecoverOrphan(r) PROVE TasksOK'
  BY <1>12 DEF RecoverOrphan, taskVars, CancelTask
<1>13. ASSUME NEW t \in Threads, ReapIdle(t) PROVE TasksOK'
  BY <1>13 DEF ReapIdle, taskVars, CancelTask
<1>14. CASE UNCHANGED vars
  BY <1>14 DEF vars, taskVars, CancelTask
<1>15. QED
  BY <1>1, <1>2, <1>3, <1>4, <1>5, <1>6, <1>7, <1>8, <1>9, <1>10, <1>11, <1>12, <1>13, <1>14
  DEF Next, TaskStep, RequestStep, RequestArrives, Startup

\* Streams carry terminal statuses only.
LEMMA StreamsStep == StreamsOK /\ RowsOK /\ [Next]_vars => StreamsOK'
<1> SUFFICES ASSUME StreamsOK, RowsOK, [Next]_vars
             PROVE StreamsOK'
  OBVIOUS
<1> USE AdmissionAssumption, LifecycleAssumption
    DEF StreamsOK, RowsOK, Terminal, streamVars
<1>1. ASSUME NEW r \in Runs, Announce(r) PROVE StreamsOK'
  BY <1>1 DEF Announce, Fail
<1>2. ASSUME NEW r \in Runs, FailRead(r) PROVE StreamsOK'
  BY <1>2 DEF FailRead
<1>3. ASSUME NEW r \in Runs, FailWrite(r) PROVE StreamsOK'
  BY <1>3 DEF FailWrite
<1>4. ASSUME NEW r \in Runs, Cleanup(r) PROVE StreamsOK'
  BY <1>4 DEF Cleanup, ReleaseAgain
<1>5. ASSUME NEW r \in Runs, Consume(r) PROVE StreamsOK'
  BY <1>5 DEF Consume
<1>6. ASSUME NEW c \in Requests, CancelAnnounce(c) PROVE StreamsOK'
  BY <1>6 DEF CancelAnnounce
<1>7. ASSUME NEW c \in Requests, CancelClose(c) PROVE StreamsOK'
  BY <1>7 DEF CancelClose
<1>8. ASSUME ShutdownEnds PROVE StreamsOK'
  BY <1>8 DEF ShutdownEnds, ForgetAll
<1>9. ASSUME Crash PROVE StreamsOK'
  BY <1>9 DEF Crash, ForgetAll
<1>10. ASSUME NEW r \in Runs, RecoverOrphan(r) PROVE StreamsOK'
  <2>1. told' \in [Runs -> SUBSET (Terminal \cup {"unknown"})]
    BY <1>10 DEF RecoverOrphan
  <2>2. ended' \in [Runs -> BOOLEAN] /\ learned' \subseteq Runs
    BY <1>10 DEF RecoverOrphan
  <2>3. QED
    BY <2>1, <2>2
<1>11. ASSUME NEW r \in Runs, Begin(r) \/ Load(r) \/ StopOld(r) \/ Capture(r) \/
             SaveInput(r) \/ Start(r) \/ BeginRun(r) \/ AgentEnds(r) \/ SaveFinal(r) \/
             Release(r) \/ Finish(r) \/ FailRelease(r) \/ FailSave(r) \/ AgentBash(r)
      PROVE StreamsOK'
  BY <1>11 DEF Begin, Load, StopOld, Capture, Store, SaveInput, Start, BeginRun, AgentEnds,
      SaveFinal, Release, Finish, FailRelease, FailSave, AgentBash, entryVars
<1>12. ASSUME NEW c \in Requests, CreateCommit(c) \/ CancelWoken(c) \/ CancelInterrupt(c) \/
             RestoreStop(c) \/ RestorePrepare(c) \/ RestoreFinish(c) \/ PreviewEnd(c) \/
             UploadEnd(c) \/ ReadEnd(c) \/ DeleteBox(c) \/ DeleteRow(c)
      PROVE StreamsOK'
  BY <1>12 DEF CreateCommit, CancelWoken, CancelInterrupt, RestoreStop, RestorePrepare,
      RestoreFinish, PreviewEnd, UploadEnd, ReadEnd, DeleteBox, DeleteRow, entryVars
<1>13. ASSUME NEW c \in Requests, NEW t \in Threads, CreateBegin(c, t) \/ RestoreBegin(c, t) \/
             PreviewBegin(c, t) \/ UploadBegin(c, t) \/ ReadBegin(c, t) \/ DeleteBegin(c, t)
      PROVE StreamsOK'
  BY <1>13 DEF CreateBegin, RestoreBegin, PreviewBegin, UploadBegin, ReadBegin, DeleteBegin,
      entryVars
<1>14. ASSUME NEW r \in Runs, NEW c \in Requests, CancelBegin(c, r) PROVE StreamsOK'
  BY <1>14 DEF CancelBegin, entryVars
<1>15. ASSUME Shutdown \/ RemoveOldContainers \/ RecoverFiles \/ Serve PROVE StreamsOK'
  BY <1>15 DEF Shutdown, RemoveOldContainers, RecoverFiles, Serve, entryVars
<1>16. ASSUME NEW t \in Threads, ReapIdle(t) PROVE StreamsOK'
  BY <1>16 DEF ReapIdle, entryVars
<1>17. CASE UNCHANGED vars
  BY <1>17 DEF vars, entryVars
<1>18. QED
  BY <1>1, <1>2, <1>3, <1>4, <1>5, <1>6, <1>7, <1>8, <1>9, <1>10, <1>11, <1>12, <1>13, <1>14,
     <1>15, <1>16, <1>17
  DEF Next, TaskStep, RequestStep, RequestArrives, Startup

\* Requests.
LEMMA RequestsStep == RequestsOK /\ RowsOK /\ [Next]_vars => RequestsOK'
<1> SUFFICES ASSUME RequestsOK, RowsOK, [Next]_vars
             PROVE RequestsOK'
  OBVIOUS
<1> USE AdmissionAssumption, LifecycleAssumption
    DEF RequestsOK, RowsOK
<1>1. ASSUME NEW c \in Requests, CreateCommit(c) \/ CancelWoken(c) \/ CancelInterrupt(c) \/
             CancelAnnounce(c) \/ CancelClose(c)
      PROVE RequestsOK'
  BY <1>1 DEF CreateCommit, RegisterRun, EndWrite, Free, CancelWoken,
      CancelReturns, CancelInterrupt, InterruptTx, Move, CancelAnnounce, CancelClose
<1>2. ASSUME NEW c \in Requests, RestoreStop(c) \/ RestorePrepare(c) \/ RestoreFinish(c) \/
             PreviewEnd(c) \/ UploadEnd(c)
      PROVE RequestsOK'
  BY <1>2 DEF RestoreStop, StopThread, Free, BlockAndEndWrite, RestorePrepare,
      EndWrite, RestoreFinish, PreviewEnd, UploadEnd
<1>3. ASSUME NEW c \in Requests, ReadEnd(c) \/ DeleteBox(c) \/ DeleteRow(c) PROVE RequestsOK'
  BY <1>3 DEF ReadEnd, Free, EndRead, DeleteBox, StopThread, EndWrite, DeleteRow
<1>4. ASSUME NEW c \in Requests, NEW t \in Threads, CreateBegin(c, t) \/ RestoreBegin(c, t) \/
             PreviewBegin(c, t) \/ UploadBegin(c, t) \/ ReadBegin(c, t) \/ DeleteBegin(c, t)
      PROVE RequestsOK'
  BY <1>4 DEF CreateBegin, Ask, BeginWrite, MayWrite, RestoreBegin, CancelTask,
      InflightOn, RunsOf, PreviewBegin, UploadBegin, ReadBegin, BeginRead, DeleteBegin
<1>5. ASSUME NEW r \in Runs, NEW c \in Requests, CancelBegin(c, r) PROVE RequestsOK'
  BY <1>5 DEF CancelBegin, Ask, CancelTask
<1>6. ASSUME ShutdownEnds \/ Crash PROVE RequestsOK'
  BY <1>6 DEF ShutdownEnds, ForgetAll, Forget, Crash
<1>7. ASSUME NEW r \in Runs, Begin(r) \/ Load(r) \/ StopOld(r) \/ Capture(r) \/ SaveInput(r) \/
             Start(r) \/ BeginRun(r) \/ AgentEnds(r) \/ SaveFinal(r) \/ Release(r) \/
             Finish(r) \/ Announce(r) \/ FailRelease(r) \/ FailRead(r) \/ FailSave(r) \/
             FailWrite(r) \/ Cleanup(r) \/ Consume(r) \/ AgentBash(r)
      PROVE RequestsOK'
  BY <1>7 DEF Begin, Load, StopOld, Capture, Store, SaveInput, Start, BeginRun, AgentEnds,
      SaveFinal, Release, Finish, Announce, FailRelease, FailRead, FailSave, FailWrite,
      Cleanup, Consume, AgentBash, reqVars
<1>8. ASSUME Shutdown \/ RemoveOldContainers \/ RecoverFiles \/ Serve PROVE RequestsOK'
  BY <1>8 DEF Shutdown, RemoveOldContainers, RecoverFiles, Serve, reqVars
<1>9. ASSUME NEW r \in Runs, RecoverOrphan(r) PROVE RequestsOK'
  BY <1>9 DEF RecoverOrphan, reqVars
<1>10. ASSUME NEW t \in Threads, ReapIdle(t) PROVE RequestsOK'
  BY <1>10 DEF ReapIdle, reqVars
<1>11. CASE UNCHANGED vars
  BY <1>11 DEF vars, reqVars
<1>12. QED
  BY <1>1, <1>2, <1>3, <1>4, <1>5, <1>6, <1>7, <1>8, <1>9, <1>10, <1>11
  DEF Next, TaskStep, RequestStep, RequestArrives, Startup

\* The phase of the process.
LEMMA ProcessStep == ProcessOK /\ [Next]_vars => ProcessOK'
<1> SUFFICES ASSUME ProcessOK, [Next]_vars
             PROVE ProcessOK'
  OBVIOUS
<1> USE AdmissionAssumption, LifecycleAssumption
    DEF ProcessOK
<1>1. ASSUME Shutdown \/ RemoveOldContainers \/ RecoverFiles \/ Serve \/ ShutdownEnds \/ Crash
      PROVE ProcessOK'
  BY <1>1 DEF Shutdown, RemoveOldContainers, RecoverFiles, BlockAll, Serve, ShutdownEnds,
      ForgetAll, Forget, Crash
<1>2. ASSUME NEW r \in Runs, RecoverOrphan(r) PROVE ProcessOK'
  BY <1>2 DEF RecoverOrphan, OrphanTx, Move
<1>3. ASSUME NEW r \in Runs, Begin(r) \/ Load(r) \/ StopOld(r) \/ Capture(r) \/ SaveInput(r) \/
             Start(r) \/ BeginRun(r) \/ AgentEnds(r) \/ SaveFinal(r) \/ Release(r) \/
             Finish(r) \/ Announce(r) \/ FailRelease(r) \/ FailRead(r) \/ FailSave(r) \/
             FailWrite(r) \/ Cleanup(r) \/ Consume(r) \/ AgentBash(r)
      PROVE ProcessOK'
  BY <1>3 DEF Begin, Load, StopOld, Capture, Store, SaveInput, Start, BeginRun, AgentEnds,
      SaveFinal, Release, Finish, Announce, FailRelease, FailRead, FailSave, FailWrite,
      Cleanup, Consume, AgentBash, procVars
<1>4. ASSUME NEW c \in Requests, CreateCommit(c) \/ CancelWoken(c) \/ CancelInterrupt(c) \/
             CancelAnnounce(c) \/ CancelClose(c) \/ RestoreStop(c) \/ RestorePrepare(c) \/
             RestoreFinish(c) \/ PreviewEnd(c) \/ UploadEnd(c) \/ ReadEnd(c) \/ DeleteBox(c) \/
             DeleteRow(c)
      PROVE ProcessOK'
  BY <1>4 DEF CreateCommit, CancelWoken, CancelInterrupt, CancelAnnounce, CancelClose,
      RestoreStop, RestorePrepare, RestoreFinish, PreviewEnd, UploadEnd, ReadEnd, DeleteBox,
      DeleteRow, procVars
<1>5. ASSUME NEW c \in Requests, NEW t \in Threads, CreateBegin(c, t) \/ RestoreBegin(c, t) \/
             PreviewBegin(c, t) \/ UploadBegin(c, t) \/ ReadBegin(c, t) \/ DeleteBegin(c, t)
      PROVE ProcessOK'
  BY <1>5 DEF CreateBegin, RestoreBegin, PreviewBegin, UploadBegin, ReadBegin, DeleteBegin,
      procVars
<1>6. ASSUME NEW r \in Runs, NEW c \in Requests, CancelBegin(c, r) PROVE ProcessOK'
  BY <1>6 DEF CancelBegin, procVars
<1>7. ASSUME NEW t \in Threads, ReapIdle(t) PROVE ProcessOK'
  BY <1>7 DEF ReapIdle, procVars
<1>8. CASE UNCHANGED vars
  BY <1>8 DEF vars, procVars
<1>9. QED
  BY <1>1, <1>2, <1>3, <1>4, <1>5, <1>6, <1>7, <1>8
  DEF Next, TaskStep, RequestStep, RequestArrives, Startup

\* No step has more failures than the bounds allow.
LEMMA FaultsStep == FaultsOK /\ [Next]_vars => FaultsOK'
<1> SUFFICES ASSUME FaultsOK, [Next]_vars
             PROVE FaultsOK'
  OBVIOUS
<1> USE AdmissionAssumption, LifecycleAssumption
    DEF FaultsOK, NoFault, DbFault, BoxFault
<1>1. ASSUME NEW c \in Requests, RestoreFinish(c) PROVE FaultsOK'
  BY <1>1 DEF RestoreFinish, Free, EndWrite, BlockAndEndWrite
<1>2. ASSUME Crash PROVE FaultsOK'
  BY <1>2 DEF Crash, ForgetAll, Forget
<1>3. ASSUME NEW r \in Runs, Begin(r) \/ Load(r) \/ StopOld(r) \/ Capture(r) \/ SaveInput(r) \/
             Start(r) \/ BeginRun(r) \/ AgentEnds(r) \/ SaveFinal(r) \/ Release(r) \/
             Finish(r) \/ Announce(r) \/ FailRelease(r) \/ FailRead(r) \/ FailSave(r) \/
             FailWrite(r) \/ Cleanup(r) \/ Consume(r) \/ AgentBash(r)
      PROVE FaultsOK'
  BY <1>3 DEF Begin, Load, Proceed, Fail, StopOld, StopOrBlock, StopThread, Block,
      Capture, Store, SaveInput, Start, StartTx, Move, BeginRun, AgentEnds, SaveFinal, Release,
      EndLease, Finish, FinishTx, Announce, FailRelease, ReleaseAgain, FailRead, FailSave,
      FailWrite, InterruptTx, OrphanTx, Cleanup, Consume, ReleaseRun, AgentBash,
      entryVars
<1>4. ASSUME NEW c \in Requests, CreateCommit(c) \/ CancelWoken(c) \/ CancelInterrupt(c) \/
             CancelAnnounce(c) \/ CancelClose(c) \/ RestoreStop(c) \/ RestorePrepare(c) \/
             PreviewEnd(c) \/ UploadEnd(c) \/ ReadEnd(c) \/ DeleteBox(c) \/ DeleteRow(c)
      PROVE FaultsOK'
  BY <1>4 DEF CreateCommit, RegisterRun, EndWrite, Free, CancelWoken,
      CancelReturns, CancelInterrupt, InterruptTx, Move, CancelAnnounce, CancelClose,
      RestoreStop, StopThread, BlockAndEndWrite, RestorePrepare, PreviewEnd, UploadEnd,
      ReadEnd, EndRead, DeleteBox, DeleteRow, entryVars
<1>5. ASSUME NEW c \in Requests, NEW t \in Threads, CreateBegin(c, t) \/ RestoreBegin(c, t) \/
             PreviewBegin(c, t) \/ UploadBegin(c, t) \/ ReadBegin(c, t) \/ DeleteBegin(c, t)
      PROVE FaultsOK'
  BY <1>5 DEF CreateBegin, Ask, BeginWrite, MayWrite, RestoreBegin, CancelTask,
      InflightOn, RunsOf, PreviewBegin, UploadBegin, ReadBegin, BeginRead, DeleteBegin,
      entryVars
<1>6. ASSUME NEW r \in Runs, NEW c \in Requests, CancelBegin(c, r) PROVE FaultsOK'
  BY <1>6 DEF CancelBegin, Ask, CancelTask, entryVars
<1>7. ASSUME Shutdown \/ ShutdownEnds \/ RemoveOldContainers \/ RecoverFiles \/ Serve
      PROVE FaultsOK'
  BY <1>7 DEF Shutdown, ShutdownEnds, ForgetAll, Forget, RemoveOldContainers,
      RecoverFiles, BlockAll, Serve, entryVars
<1>8. ASSUME NEW r \in Runs, RecoverOrphan(r) PROVE FaultsOK'
  BY <1>8 DEF RecoverOrphan, OrphanTx, Move, entryVars
<1>9. ASSUME NEW t \in Threads, ReapIdle(t) PROVE FaultsOK'
  BY <1>9 DEF ReapIdle, entryVars
<1>10. CASE UNCHANGED vars
  BY <1>10 DEF vars, entryVars
<1>11. QED
  BY <1>1, <1>2, <1>3, <1>4, <1>5, <1>6, <1>7, <1>8, <1>9, <1>10
  DEF Next, TaskStep, RequestStep, RequestArrives, Startup

-----------------------------------------------------------------------------
(* The admission entry                                                     *)

\* A task, a request or the process changes the entry by its methods only.
LEMMA EntryStep ==
    RequestsOK /\ RowsOK /\ OnThread /\ LiveRegistered /\ [Next]_vars => [EntryNext]_entryVars
<1> SUFFICES ASSUME RequestsOK, RowsOK, OnThread, LiveRegistered, [Next]_vars
             PROVE [EntryNext]_entryVars
  OBVIOUS
<1> USE AdmissionAssumption, LifecycleAssumption
    DEF RequestsOK, RowsOK, OnThread, LiveRegistered, Live, LivePc,
          WorkPc, FailPc, EntryNext
<1>1. ASSUME NEW r \in Runs, StopOld(r) \/ Release(r) \/ FailRelease(r) \/ Cleanup(r) \/
             Consume(r)
      PROVE [EntryNext]_entryVars
  BY <1>1 DEF StopOld, StopOrBlock, Release, FailRelease, ReleaseAgain, Cleanup, Consume
<1>2. ASSUME NEW c \in Requests, CreateCommit(c) \/ CancelWoken(c) \/ CancelClose(c) \/
             RestoreStop(c) \/ RestorePrepare(c) \/ RestoreFinish(c)
      PROVE [EntryNext]_entryVars
  BY <1>2 DEF CreateCommit, CancelWoken, CancelReturns, CancelClose, RestoreStop,
      RestorePrepare, RestoreFinish
<1>3. ASSUME NEW c \in Requests, PreviewEnd(c) \/ UploadEnd(c) \/ ReadEnd(c) \/ DeleteBox(c) \/
             DeleteRow(c)
      PROVE [EntryNext]_entryVars
  BY <1>3 DEF PreviewEnd, UploadEnd, ReadEnd, DeleteBox, DeleteRow
<1>4. ASSUME NEW c \in Requests, NEW t \in Threads, CreateBegin(c, t) \/ RestoreBegin(c, t) \/
             PreviewBegin(c, t) \/ UploadBegin(c, t) \/ ReadBegin(c, t) \/ DeleteBegin(c, t)
      PROVE [EntryNext]_entryVars
  BY <1>4 DEF CreateBegin, Ask, RestoreBegin, PreviewBegin, UploadBegin, ReadBegin, DeleteBegin
<1>5. ASSUME ShutdownEnds \/ Crash \/ RecoverFiles PROVE [EntryNext]_entryVars
  BY <1>5 DEF ShutdownEnds, ForgetAll, Crash, RecoverFiles
<1>6. ASSUME NEW r \in Runs, Begin(r) \/ Load(r) \/ Capture(r) \/ SaveInput(r) \/ Start(r) \/
             BeginRun(r) \/ AgentEnds(r) \/ SaveFinal(r) \/ Finish(r) \/ Announce(r) \/
             FailRead(r) \/ FailSave(r) \/ FailWrite(r) \/ AgentBash(r)
      PROVE [EntryNext]_entryVars
  BY <1>6 DEF Begin, Load, Capture, Store, SaveInput, Start, BeginRun, AgentEnds, SaveFinal,
      Finish, Announce, FailRead, FailSave, FailWrite, AgentBash, entryVars
<1>7. ASSUME NEW c \in Requests, CancelInterrupt(c) \/ CancelAnnounce(c)
      PROVE [EntryNext]_entryVars
  BY <1>7 DEF CancelInterrupt, CancelAnnounce, entryVars
<1>8. ASSUME NEW r \in Runs, NEW c \in Requests, CancelBegin(c, r) PROVE [EntryNext]_entryVars
  BY <1>8 DEF CancelBegin, entryVars
<1>9. ASSUME Shutdown \/ RemoveOldContainers \/ Serve PROVE [EntryNext]_entryVars
  BY <1>9 DEF Shutdown, RemoveOldContainers, Serve, entryVars
<1>10. ASSUME NEW r \in Runs, RecoverOrphan(r) PROVE [EntryNext]_entryVars
  BY <1>10 DEF RecoverOrphan, entryVars
<1>11. ASSUME NEW t \in Threads, ReapIdle(t) PROVE [EntryNext]_entryVars
  BY <1>11 DEF ReapIdle, entryVars
<1>12. CASE UNCHANGED vars
  BY <1>12 DEF vars, entryVars
<1>13. QED
  BY <1>1, <1>2, <1>3, <1>4, <1>5, <1>6, <1>7, <1>8, <1>9, <1>10, <1>11, <1>12
  DEF Next, TaskStep, RequestStep, RequestArrives, Startup

\* A transaction leaves a terminal status as it is; only a deletion removes it.
LEMMA OutcomeStep == RowsOK /\ [Next]_vars => OutcomesKept
<1> SUFFICES ASSUME RowsOK, [Next]_vars
             PROVE OutcomesKept
  OBVIOUS
<1> USE AdmissionAssumption, LifecycleAssumption
    DEF OutcomesKept, RowsOK, Terminal, Inflight
<1>1. ASSUME NEW r \in Runs, Start(r) \/ Finish(r) \/ FailWrite(r) PROVE OutcomesKept
  BY <1>1 DEF Start, StartTx, Move, Finish, FinishTx, FailWrite, InterruptTx, OrphanTx
<1>2. ASSUME NEW c \in Requests, CreateCommit(c) \/ CancelInterrupt(c) \/ DeleteRow(c)
      PROVE OutcomesKept
  BY <1>2 DEF CreateCommit, CancelInterrupt, InterruptTx, Move, DeleteRow
<1>3. ASSUME NEW r \in Runs, RecoverOrphan(r) PROVE OutcomesKept
  BY <1>3 DEF RecoverOrphan, OrphanTx, Move
<1>4. ASSUME NEW r \in Runs, Begin(r) \/ Load(r) \/ StopOld(r) \/ Capture(r) \/ SaveInput(r) \/
             BeginRun(r) \/ AgentEnds(r) \/ SaveFinal(r) \/ Release(r) \/ Announce(r) \/
             FailRelease(r) \/ FailRead(r) \/ FailSave(r) \/ Cleanup(r) \/ Consume(r) \/
             AgentBash(r)
      PROVE OutcomesKept
  BY <1>4 DEF Begin, Load, StopOld, Capture, Store, SaveInput, BeginRun, AgentEnds, SaveFinal,
      Release, Announce, FailRelease, FailRead, FailSave, Cleanup, Consume, AgentBash, dbVars
<1>5. ASSUME NEW c \in Requests, CancelWoken(c) \/ CancelAnnounce(c) \/ CancelClose(c) \/
             RestoreStop(c) \/ RestorePrepare(c) \/ RestoreFinish(c) \/ PreviewEnd(c) \/
             UploadEnd(c) \/ ReadEnd(c) \/ DeleteBox(c)
      PROVE OutcomesKept
  BY <1>5 DEF CancelWoken, CancelAnnounce, CancelClose, RestoreStop, RestorePrepare,
      RestoreFinish, PreviewEnd, UploadEnd, ReadEnd, DeleteBox, dbVars
<1>6. ASSUME NEW c \in Requests, NEW t \in Threads, CreateBegin(c, t) \/ RestoreBegin(c, t) \/
             PreviewBegin(c, t) \/ UploadBegin(c, t) \/ ReadBegin(c, t) \/ DeleteBegin(c, t)
      PROVE OutcomesKept
  BY <1>6 DEF CreateBegin, RestoreBegin, PreviewBegin, UploadBegin, ReadBegin, DeleteBegin,
      dbVars
<1>7. ASSUME NEW r \in Runs, NEW c \in Requests, CancelBegin(c, r) PROVE OutcomesKept
  BY <1>7 DEF CancelBegin, dbVars
<1>8. ASSUME Shutdown \/ ShutdownEnds \/ Crash \/ RemoveOldContainers \/ RecoverFiles \/ Serve
      PROVE OutcomesKept
  BY <1>8 DEF Shutdown, ShutdownEnds, ForgetAll, Forget, Crash, RemoveOldContainers,
      RecoverFiles, Serve, dbVars
<1>9. ASSUME NEW t \in Threads, ReapIdle(t) PROVE OutcomesKept
  BY <1>9 DEF ReapIdle, dbVars
<1>10. CASE UNCHANGED vars
  BY <1>10 DEF vars, dbVars
<1>11. QED
  BY <1>1, <1>2, <1>3, <1>4, <1>5, <1>6, <1>7, <1>8, <1>9, <1>10
  DEF Next, TaskStep, RequestStep, RequestArrives, Startup

-----------------------------------------------------------------------------
(* The books                                                               *)

\* A request keeps its Thread until it is answered.
LEMMA OnThreadStep == RequestsOK /\ RowsOK /\ OnThread /\ RowOwned /\ [Next]_vars => OnThread'
<1> SUFFICES ASSUME RequestsOK, RowsOK, OnThread, RowOwned, [Next]_vars
             PROVE OnThread'
  OBVIOUS
<1> USE AdmissionAssumption, LifecycleAssumption
    DEF RequestsOK, OnThread
<1>1. ASSUME NEW c \in Requests, CreateCommit(c) \/ CancelWoken(c) \/ CancelInterrupt(c)
      PROVE OnThread'
  BY <1>1 DEF CreateCommit, Free, CancelWoken, CancelReturns, CancelInterrupt
<1>2. ASSUME NEW c \in Requests, CancelAnnounce(c) \/ CancelClose(c) \/ RestoreStop(c)
      PROVE OnThread'
  BY <1>2 DEF CancelAnnounce, CancelClose, CancelReturns, Free, RestoreStop
<1>3. ASSUME NEW c \in Requests, RestorePrepare(c) \/ RestoreFinish(c) \/ PreviewEnd(c)
      PROVE OnThread'
  BY <1>3 DEF RestorePrepare, Free, RestoreFinish, PreviewEnd
<1>4. ASSUME NEW c \in Requests, UploadEnd(c) \/ ReadEnd(c) \/ DeleteBox(c) PROVE OnThread'
  BY <1>4 DEF UploadEnd, Free, ReadEnd, DeleteBox
<1>5. ASSUME NEW c \in Requests, DeleteRow(c) PROVE OnThread'
  BY <1>5 DEF DeleteRow, Free
<1>6. ASSUME NEW c \in Requests, NEW t \in Threads, CreateBegin(c, t) \/ RestoreBegin(c, t) \/
             PreviewBegin(c, t)
      PROVE OnThread'
  BY <1>6 DEF CreateBegin, Ask, RestoreBegin, PreviewBegin
<1>7. ASSUME NEW c \in Requests, NEW t \in Threads, UploadBegin(c, t) \/ ReadBegin(c, t) \/
             DeleteBegin(c, t)
      PROVE OnThread'
  BY <1>7 DEF UploadBegin, Ask, ReadBegin, DeleteBegin
<1>8. ASSUME NEW r \in Runs, NEW c \in Requests, CancelBegin(c, r) PROVE OnThread'
  BY <1>8 DEF CancelBegin, Ask, RowsOK, RowOwned, Inflight
<1>9. ASSUME ShutdownEnds \/ Crash PROVE OnThread'
  BY <1>9 DEF ShutdownEnds, ForgetAll, Crash
<1>10. ASSUME NEW r \in Runs, Begin(r) \/ Load(r) \/ StopOld(r) \/ Capture(r) \/
             SaveInput(r) \/ Start(r) \/ BeginRun(r) \/ AgentEnds(r) \/ SaveFinal(r) \/
             Release(r) \/ Finish(r) \/ Announce(r) \/ FailRelease(r) \/ FailRead(r) \/
             FailSave(r) \/ FailWrite(r) \/ Cleanup(r) \/ Consume(r) \/ AgentBash(r)
      PROVE OnThread'
  BY <1>10 DEF Begin, Load, StopOld, Capture, Store, SaveInput, Start, BeginRun, AgentEnds,
      SaveFinal, Release, Finish, Announce, FailRelease, FailRead, FailSave, FailWrite,
      Cleanup, Consume, AgentBash, reqVars
<1>11. ASSUME Shutdown \/ RemoveOldContainers \/ RecoverFiles \/ Serve PROVE OnThread'
  BY <1>11 DEF Shutdown, RemoveOldContainers, RecoverFiles, Serve, reqVars
<1>12. ASSUME NEW r \in Runs, RecoverOrphan(r) PROVE OnThread'
  BY <1>12 DEF RecoverOrphan, reqVars
<1>13. ASSUME NEW t \in Threads, ReapIdle(t) PROVE OnThread'
  BY <1>13 DEF ReapIdle, reqVars
<1>14. CASE UNCHANGED vars
  BY <1>14 DEF vars, reqVars
<1>15. QED
  BY <1>1, <1>2, <1>3, <1>4, <1>5, <1>6, <1>7, <1>8, <1>9, <1>10, <1>11, <1>12, <1>13, <1>14
  DEF Next, TaskStep, RequestStep, RequestArrives, Startup

\* A row keeps its Thread.
LEMMA RowOwnedStep == RowsOK /\ RequestsOK /\ OnThread /\ RowOwned /\ [Next]_vars => RowOwned'
<1> SUFFICES ASSUME RowsOK, RequestsOK, OnThread, RowOwned, [Next]_vars
             PROVE RowOwned'
  OBVIOUS
<1> USE AdmissionAssumption, LifecycleAssumption
    DEF RowsOK, RequestsOK, OnThread, RowOwned, Inflight
<1>1. ASSUME NEW r \in Runs, Start(r) \/ Finish(r) \/ FailWrite(r) PROVE RowOwned'
  BY <1>1 DEF Start, StartTx, Move, Finish, FinishTx, FailWrite, InterruptTx, OrphanTx
<1>2. ASSUME NEW c \in Requests, CreateCommit(c) \/ CancelInterrupt(c) \/ DeleteRow(c)
      PROVE RowOwned'
  BY <1>2 DEF CreateCommit, CancelInterrupt, InterruptTx, Move, DeleteRow
<1>3. ASSUME NEW r \in Runs, RecoverOrphan(r) PROVE RowOwned'
  BY <1>3 DEF RecoverOrphan, OrphanTx, Move
<1>4. ASSUME NEW r \in Runs, Begin(r) \/ Load(r) \/ StopOld(r) \/ Capture(r) \/ SaveInput(r) \/
             BeginRun(r) \/ AgentEnds(r) \/ SaveFinal(r) \/ Release(r) \/ Announce(r) \/
             FailRelease(r) \/ FailRead(r) \/ FailSave(r) \/ Cleanup(r) \/ Consume(r) \/
             AgentBash(r)
      PROVE RowOwned'
  BY <1>4 DEF Begin, Load, StopOld, Capture, Store, SaveInput, BeginRun, AgentEnds, SaveFinal,
      Release, Announce, FailRelease, FailRead, FailSave, Cleanup, Consume, AgentBash, dbVars
<1>5. ASSUME NEW c \in Requests, CancelWoken(c) \/ CancelAnnounce(c) \/ CancelClose(c) \/
             RestoreStop(c) \/ RestorePrepare(c) \/ RestoreFinish(c) \/ PreviewEnd(c) \/
             UploadEnd(c) \/ ReadEnd(c) \/ DeleteBox(c)
      PROVE RowOwned'
  BY <1>5 DEF CancelWoken, CancelAnnounce, CancelClose, RestoreStop, RestorePrepare,
      RestoreFinish, PreviewEnd, UploadEnd, ReadEnd, DeleteBox, dbVars
<1>6. ASSUME NEW c \in Requests, NEW t \in Threads, CreateBegin(c, t) \/ RestoreBegin(c, t) \/
             PreviewBegin(c, t) \/ UploadBegin(c, t) \/ ReadBegin(c, t) \/ DeleteBegin(c, t)
      PROVE RowOwned'
  BY <1>6 DEF CreateBegin, RestoreBegin, PreviewBegin, UploadBegin, ReadBegin, DeleteBegin,
      dbVars
<1>7. ASSUME NEW r \in Runs, NEW c \in Requests, CancelBegin(c, r) PROVE RowOwned'
  BY <1>7 DEF CancelBegin, dbVars
<1>8. ASSUME Shutdown \/ ShutdownEnds \/ Crash \/ RemoveOldContainers \/ RecoverFiles \/ Serve
      PROVE RowOwned'
  BY <1>8 DEF Shutdown, ShutdownEnds, ForgetAll, Forget, Crash, RemoveOldContainers,
      RecoverFiles, Serve, dbVars
<1>9. ASSUME NEW t \in Threads, ReapIdle(t) PROVE RowOwned'
  BY <1>9 DEF ReapIdle, dbVars
<1>10. CASE UNCHANGED vars
  BY <1>10 DEF vars, dbVars
<1>11. QED
  BY <1>1, <1>2, <1>3, <1>4, <1>5, <1>6, <1>7, <1>8, <1>9, <1>10
  DEF Next, TaskStep, RequestStep, RequestArrives, Startup

\* Only four actions start or consume a task; every other one leaves owners and
\* registrations alone and revives no task.
Quiet ==
    /\ owner' = owner /\ runOf' = runOf
    /\ \A q \in Runs : Live(q)' => Live(q)
Moving ==
    \/ \E r \in Runs : Consume(r)
    \/ \E c \in Requests : CreateCommit(c)
    \/ ShutdownEnds \/ Crash

\* Every other action is quiet.
LEMMA QuietStep == TasksOK /\ [Next]_vars => Quiet \/ Moving
<1> SUFFICES ASSUME TasksOK, [Next]_vars, ~Moving
             PROVE Quiet
  OBVIOUS
<1> USE AdmissionAssumption, LifecycleAssumption
    DEF Quiet, Live, entryVars, dbVars
<1>1. ASSUME NEW r \in Runs, Begin(r) \/ Load(r) \/ StopOld(r) \/ Capture(r) \/ SaveInput(r) \/
             Start(r)
      PROVE Quiet
  BY <1>1 DEF Begin, Load, Proceed, Fail, StopOld, StopOrBlock, Block, Capture, Store,
      SaveInput, Start, TasksOK, LivePc, WorkPc, FailPc
<1>2. ASSUME NEW r \in Runs, BeginRun(r) \/ AgentEnds(r) \/ SaveFinal(r) \/ Release(r) \/
             Finish(r) \/ Announce(r)
      PROVE Quiet
  BY <1>2 DEF BeginRun, Fail, AgentEnds, Proceed, SaveFinal, Store, Release, StopOrBlock,
      Block, Finish, Announce, TasksOK, LivePc, WorkPc, FailPc
<1>3. ASSUME NEW r \in Runs, FailRelease(r) \/ FailRead(r) \/ FailSave(r) \/ FailWrite(r) \/
             Cleanup(r)
      PROVE Quiet
  BY <1>3 DEF FailRelease, ReleaseAgain, Block, FailRead, FailSave, FailWrite, Cleanup,
      TasksOK, LivePc, WorkPc, FailPc
<1>4. ASSUME NEW c \in Requests, CancelWoken(c) \/ CancelClose(c) \/ RestoreStop(c) \/
             RestorePrepare(c) \/ RestoreFinish(c)
      PROVE Quiet
  BY <1>4 DEF CancelWoken, CancelReturns, EndWrite, CancelClose, RestoreStop,
      BlockAndEndWrite, RestorePrepare, RestoreFinish, taskVars
<1>5. ASSUME NEW c \in Requests, PreviewEnd(c) \/ UploadEnd(c) \/ ReadEnd(c) \/ DeleteBox(c) \/
             DeleteRow(c)
      PROVE Quiet
  BY <1>5 DEF PreviewEnd, EndWrite, UploadEnd, ReadEnd, EndRead, DeleteBox,
      DeleteRow, taskVars
<1>6. ASSUME NEW c \in Requests, NEW t \in Threads, CreateBegin(c, t) \/ RestoreBegin(c, t) \/
             PreviewBegin(c, t) \/ UploadBegin(c, t) \/ ReadBegin(c, t) \/ DeleteBegin(c, t)
      PROVE Quiet
  BY <1>6 DEF CreateBegin, BeginWrite, RestoreBegin, CancelTask, PreviewBegin,
      UploadBegin, ReadBegin, BeginRead, DeleteBegin, taskVars
<1>7. ASSUME RecoverFiles PROVE Quiet
  BY <1>7 DEF RecoverFiles, BlockAll, taskVars
<1>8. ASSUME NEW r \in Runs, AgentBash(r) PROVE Quiet
  BY <1>8 DEF AgentBash, taskVars, CancelTask
<1>9. ASSUME NEW c \in Requests, CancelInterrupt(c) \/ CancelAnnounce(c) PROVE Quiet
  BY <1>9 DEF CancelInterrupt, CancelAnnounce, taskVars, CancelTask
<1>10. ASSUME NEW r \in Runs, NEW c \in Requests, CancelBegin(c, r) PROVE Quiet
  BY <1>10 DEF CancelBegin, taskVars, CancelTask
<1>11. ASSUME Shutdown \/ RemoveOldContainers \/ Serve PROVE Quiet
  BY <1>11 DEF Shutdown, RemoveOldContainers, Serve, taskVars, CancelTask
<1>12. ASSUME NEW r \in Runs, RecoverOrphan(r) PROVE Quiet
  BY <1>12 DEF RecoverOrphan, taskVars, CancelTask
<1>13. ASSUME NEW t \in Threads, ReapIdle(t) PROVE Quiet
  BY <1>13 DEF ReapIdle, taskVars, CancelTask
<1>14. CASE UNCHANGED vars
  BY <1>14 DEF vars, taskVars, CancelTask
<1>15. QED
  BY <1>1, <1>2, <1>3, <1>4, <1>5, <1>6, <1>7, <1>8, <1>9, <1>10, <1>11, <1>12, <1>13, <1>14
  DEF Next, TaskStep, RequestStep, RequestArrives, Startup, Moving

\* The registration of a live task outlives its row and is nobody else's.
LEMMA LiveRegisteredStep ==
    IInv /\ [Next]_vars => LiveRegistered'
<1> SUFFICES ASSUME IInv, [Next]_vars PROVE LiveRegistered'
  OBVIOUS
<1> USE AdmissionAssumption, LifecycleAssumption
        DEF IInv, TypeOK, EntryOK, Exclusion, Bookkeeping, OnThread, LiveRegistered
<1>1. CASE Quiet
  BY <1>1 DEF Quiet, RowsOK
<1>2. ASSUME NEW r \in Runs, Consume(r) PROVE LiveRegistered'
  <2>1. \A q \in Runs : Live(q)' => Live(q) /\ q # r
    BY <1>2 DEF Consume, Live, LivePc, WorkPc, FailPc, TasksOK
  <2>2. owner' = owner /\ runOf' = [runOf EXCEPT ![owner[r]] = IF @ = r THEN NoRun ELSE @]
    BY <1>2 DEF Consume, ReleaseRun, dbVars
  <2>3. QED
    BY <2>1, <2>2 DEF RowsOK
<1>3. ASSUME NEW c \in Requests, CreateCommit(c) PROVE LiveRegistered'
  <2>1. on[c] \in Threads
    BY <1>3 DEF CreateCommit
  <2>2. CASE \E r \in Runs : /\ owner' = [owner EXCEPT ![r] = on[c]]
                             /\ pc' = [pc EXCEPT ![r] = "created"]
                             /\ RegisterRun(on[c], c, r)
    <3>1. PICK r \in Runs : /\ owner' = [owner EXCEPT ![r] = on[c]]
                            /\ pc' = [pc EXCEPT ![r] = "created"]
                            /\ RegisterRun(on[c], c, r)
      BY <2>2
    <3>2. runOf[on[c]] = NoRun /\ runOf' = [runOf EXCEPT ![on[c]] = r]
      BY <2>1, <3>1 DEF RegisterRun
    <3>3. \A q \in Runs : q # r => (Live(q)' <=> Live(q)) /\ owner'[q] = owner[q]
      BY <3>1 DEF Live, TasksOK, RowsOK
    <3>4. owner'[r] = on[c]
      BY <3>1 DEF RowsOK
    <3>5. QED
      BY <2>1, <3>2, <3>3, <3>4
  <2>3. CASE UNCHANGED <<owner, pc>> /\ EndWrite(on[c], c)
    BY <2>3 DEF EndWrite, Live
  <2>4. QED
    BY <1>3, <2>2, <2>3 DEF CreateCommit
<1>4. CASE ShutdownEnds \/ Crash
  BY <1>4 DEF ShutdownEnds, Crash, ForgetAll, Live, LivePc, WorkPc, FailPc
<1>5. QED
  BY <1>1, <1>2, <1>3, <1>4, QuietStep DEF Moving

-----------------------------------------------------------------------------
(* Theorems                                                                *)

\* The books of a fresh process are right.
LEMMA InitIInv == Init => IInv
  BY AdmissionAssumption, LifecycleAssumption
  DEF Init, IInv, TypeOK, EntryOK, Empty, Exclusion, ProcessOK, RowsOK, BoxesOK,
      TasksOK, StreamsOK, RequestsOK, FaultsOK, Bookkeeping, OnThread, RowOwned, LiveRegistered,
      Live, LivePc, WorkPc, FailPc, Terminal

\* Every step keeps types, exclusion and books.
LEMMA IInvStep == IInv /\ [Next]_vars => IInv'
<1> SUFFICES ASSUME IInv, [Next]_vars PROVE IInv'
  OBVIOUS
<1>1. TypeOK /\ Exclusion /\ OnThread /\ RowOwned /\ LiveRegistered
  BY DEF IInv, Bookkeeping
<1>2. EntryOK' /\ Exclusion'
  BY <1>1, EntryStep, EntryTypeStep, EntryExclusionStep DEF TypeOK
<1>3. ProcessOK' /\ RowsOK' /\ BoxesOK' /\ TasksOK' /\ StreamsOK' /\ RequestsOK' /\ FaultsOK'
  BY <1>1, ProcessStep, RowsStep, BoxesStep, TasksStep, StreamsStep, RequestsStep, FaultsStep
  DEF TypeOK
<1>4. OnThread' /\ RowOwned' /\ LiveRegistered'
  BY <1>1, OnThreadStep, RowOwnedStep, LiveRegisteredStep DEF TypeOK
<1>5. QED
  BY <1>2, <1>3, <1>4 DEF IInv, TypeOK, Bookkeeping

\* They hold in every reachable state.
LEMMA Inductive == Spec => []IInv
  BY InitIInv, IInvStep, PTL DEF Spec

\* Every variable keeps the shape the code gives its state.
THEOREM LifecycleTypeCorrect == Spec => []TypeOK
<1>1. IInv => TypeOK
  BY DEF IInv
<1>2. QED
  BY <1>1, Inductive, PTL

\* A live task is registered in the entry of the Thread that owns its Run.
THEOREM BooksAreRight == Spec => []Bookkeeping
<1>1. IInv => Bookkeeping
  BY DEF IInv
<1>2. QED
  BY <1>1, Inductive, PTL

\* At most one Runtime task exists for a Thread: two would both be registered
\* in its one entry.
THEOREM OneTask == Spec => []OneTaskPerThread
<1>1. IInv => OneTaskPerThread
  BY DEF IInv, Bookkeeping, LiveRegistered, OneTaskPerThread
<1>2. QED
  BY <1>1, Inductive, PTL

\* The requests and tasks of the service use the admission entry as its
\* specification says, so whatever that promises holds of the service.
THEOREM ImplementsAdmission == Spec => EntrySpec
<1>1. Init => Empty
  BY DEF Init
<1>2. IInv /\ [Next]_vars => [EntryNext]_entryVars
  BY EntryStep DEF IInv, TypeOK, Bookkeeping
<1>3. QED
  BY <1>1, <1>2, Inductive, PTL DEF Spec, EntrySpec

\* A late cancellation, a retry or a restart never rewrites an outcome.
THEOREM OutcomesAreFinal == Spec => OutcomeIsFinal
<1>1. IInv /\ [Next]_vars => [OutcomesKept]_vars
  BY OutcomeStep DEF IInv, TypeOK
<1>2. QED
  BY <1>1, Inductive, PTL DEF Spec, OutcomeIsFinal

-----------------------------------------------------------------------------
(* The invariant behind the rest                                           *)

\* The row of a Run while its task works: nobody else changes it.
BeforeStart == {"created", "load", "stopOld", "capture", "input", "start"}
Started == {"begin", "agent", "saveFinal", "release", "finish"}
TaskRow ==
    \A r \in Runs :
        /\ pc[r] \in BeforeStart => run[r] = "pending"
        /\ pc[r] \in Started => run[r] = "running"
        /\ pc[r] = "announce" => run[r] = "success"
        /\ Live(r) => run[r] \notin {"unused", "deleted"}

\* A process that does not serve has no task, request or lease; the containers of an
\* earlier one are removed first; whom the start still has to close is inflight.
Serving == up \in {"up", "stopping"}
Silent ==
    ~Serving =>
        /\ \A r \in Runs : ~Live(r)
        /\ \A c \in Requests : at[c] = "idle"
        /\ \A t \in Threads : lease[t] = NoRun
CleanStart == up \in {"files", "orphans"} => \A t \in Threads : ~container[t]
Orphaned == \A r \in toRecover : up = "orphans" /\ run[r] \in Inflight

\* A Thread has one inflight Run, and its row follows.
OneInflight ==
    \A r1, r2 \in Runs :
        run[r1] \in Inflight /\ run[r2] \in Inflight /\ owner[r1] = owner[r2] => r1 = r2
ThreadFollows ==
    \A t \in Threads :
        thread[t] = "running" <=> \E r \in Runs : owner[r] = t /\ run[r] = "running"

\* Which requests hold the entry of their Thread.
Writing == {"building", "previewing", "uploading", "deleteBox", "deleteRow"}
Restoring == {"stopBox", "prepare", "swapping"}
Cancelling == {"awaitTask", "interrupt", "announce", "close", "closeFailed", "publishFailed"}
Holds ==
    \A c \in Requests :
        /\ at[c] \in Writing => writer[on[c]] = c /\ ~sharing[on[c]]
        /\ at[c] \in Restoring => op[c] = "restore"
        /\ at[c] # "idle" /\ op[c] = "restore" => writer[on[c]] = c

HeldFor ==
    \A t \in Threads : writer[t] # NoRequest =>
        /\ on[writer[t]] = t
        /\ \/ at[writer[t]] \in Writing
           \/ op[writer[t]] = "restore" /\ at[writer[t]] \in Cancelling \cup Restoring

\* Whom a request cancels or has cancelled.
Closing ==
    \A c \in Requests :
        /\ at[c] \in Cancelling => target[c] \in Runs
        /\ target[c] \in Runs =>
              /\ at[c] \in Cancelling \cup Restoring
              /\ owner[target[c]] = on[c] /\ run[target[c]] # "unused"
        /\ at[c] \in Cancelling \ {"awaitTask"} => ~Live(target[c])
Closed ==
    \A c \in Requests :
        /\ at[c] = "announce" => run[target[c]] \in {"interrupted", "deleted"}
        /\ at[c] \in {"close", "publishFailed"} => run[target[c]] \notin Inflight
        /\ at[c] = "closeFailed" => faults.db > 0

\* A restore goes on only once nothing of its Thread is inflight, and exchanges its
\* directories without a container; a Thread is deleted without one.
Ended ==
    \A c \in Requests :
        at[c] # "idle" /\ op[c] = "restore" =>
            \A r \in Runs : owner[r] = on[c] /\ run[r] \in Inflight =>
                               at[c] \in Cancelling /\ r = target[c]
Unmounted ==
    \A c \in Requests :
        at[c] \in {"prepare", "swapping", "deleteRow"} =>
            ~container[on[c]] /\ lease[on[c]] = NoRun

\* A deleted Thread has nothing left, and gets no new Run.
Emptied ==
    \A t \in Threads : thread[t] = "deleted" =>
        /\ \A r \in Runs : owner[r] = t => run[r] = "deleted"
        /\ lease[t] = NoRun /\ ~container[t]
Building == \A c \in Requests : at[c] = "building" => thread[on[c]] # "deleted"

\* A lease belongs to a task that still has to give it back; a container nobody accounts
\* for blocks its Thread.
HoldsBox == {"agent", "saveFinal", "release", "failRelease"}
Leased ==
    \A t \in Threads : lease[t] # NoRun => owner[lease[t]] = t /\ pc[lease[t]] \in HoldsBox
StrayBlocks ==
    \A t \in Threads : up # "down" /\ container[t] =>
        blocked[t] \/ \E r \in Runs : owner[r] = t /\ pc[r] \in HoldsBox

\* The final state is saved before the lease is given back; a success stays saved.
FinalSaved == \A r \in Runs : pc[r] \in {"release", "finish", "announce"} => saved[r] = "final"
Durable == \A r \in Runs : run[r] = "success" => saved[r] = "final" /\ lease[owner[r]] # r
Learned == \A r \in learned : run[r] \in {"success", "deleted"} /\ saved[r] = "final"

\* A restore that is not settled leaves its Thread to nobody but the one at work on it.
Pending ==
    \A t \in Threads : fileOp[t] = "pending" =>
        /\ \A r \in Runs : owner[r] = t => run[r] \notin Inflight
        /\ readers[t] = {}
        /\ writer[t] # NoRequest => at[writer[t]] = "swapping"

\* Without storage failures: a task that fails closes its row, one that never ran is
\* awaited by the request that cancelled it, and the start closes what it finds.
Waited(r) == \E c \in Requests : target[c] = r /\ at[c] # "idle"
Timely == \A r \in Runs : why[r] = "timeout" => run[r] \notin {"unused", "pending"}
Fresh == \A r \in Runs : run[r] = "unused" => ~cancel[r]
Settled ==
    faults.db = 0 => \A r \in Runs : pc[r] = "cleanup" => run[r] \notin Inflight
Heard ==
    faults.db = 0 /\ up = "up" =>
        \A r \in Runs : pc[r] = "created" /\ cancel[r] => Waited(r)
Attended ==
    faults.db = 0 /\ up = "up" =>
        \A r \in Runs : run[r] \in Inflight => pc[r] \in LivePc \ {"finished"} \/ Waited(r)
Recovered ==
    faults.db = 0 /\ up = "orphans" => \A r \in Runs : run[r] \in Inflight => r \in toRecover

Lifecycle ==
    /\ IInv
    /\ TaskRow /\ Silent /\ CleanStart /\ Orphaned /\ OneInflight /\ ThreadFollows
    /\ Holds /\ HeldFor /\ Closing /\ Closed /\ Ended /\ Unmounted /\ Emptied /\ Building
    /\ Leased /\ StrayBlocks /\ FinalSaved /\ Durable /\ Learned
    /\ ConfirmedEventsAreTrue /\ Pending
    /\ Timely /\ Fresh /\ Settled /\ Heard /\ Attended /\ Recovered

-----------------------------------------------------------------------------
(* Rows                                                                    *)

\* What a transaction does to the rows of a Run and its Thread.
Moves(r, from, to, status) ==
    /\ run[r] \in from /\ run'[r] = to /\ thread'[owner[r]] = status
    /\ \A q \in Runs : q # r => run'[q] = run[q]
    /\ \A t \in Threads : t # owner[r] => thread'[t] = thread[t]
Opens(r) == UNCHANGED owner /\ Moves(r, {"pending"}, "running", "running")
Ends(r) == UNCHANGED owner /\ \E to \in Terminal : Moves(r, Inflight, to, "idle")
RowsKept == UNCHANGED <<run, owner, thread>>

\* A transaction on an inflight Run changes its row, on another one nothing.
LEMMA MoveIs ==
  ASSUME RowsOK, RowOwned, NEW r \in Runs, NEW from \in SUBSET Inflight, NEW to, NEW status,
         Move(r, from, to, status)
  PROVE  UNCHANGED <<run, thread>> \/ Moves(r, from, to, status)
<1> USE DEF RowsOK, Move
<1>1. CASE run[r] \in from
  <2>1. owner[r] \in Threads
    BY <1>1 DEF RowOwned, Inflight
  <2> QED  BY <1>1, <2>1 DEF Moves
<1>2. CASE run[r] \notin from
  <2>1. run' = run
    BY <1>2
  <2>2. thread' = thread
    BY <1>2
  <2> QED  BY <2>1, <2>2
<1> QED  BY <1>1, <1>2

\* Start opens a pending Run, or changes nothing.
LEMMA StartMoves ==
  ASSUME RowsOK, RowOwned, NEW r \in Runs, Start(r) PROVE RowsKept \/ Opens(r)
<1>1. UNCHANGED owner
  BY DEF Start
<1>2. CASE StartTx(r)
  BY <1>1, <1>2, MoveIs DEF StartTx, RowsKept, Opens, Inflight
<1>3. CASE UNCHANGED <<run, thread>>
  BY <1>1, <1>3 DEF RowsKept
<1> QED  BY <1>2, <1>3 DEF Start

\* A transaction that ends a Run, or changes nothing.
LEMMA TxEnds ==
  ASSUME RowsOK, RowOwned, NEW r \in Runs, UNCHANGED owner,
         \/ \E status \in Terminal : FinishTx(r, status)
         \/ InterruptTx(r) \/ OrphanTx(r)
  PROVE  RowsKept \/ Ends(r)
<1> USE DEF Inflight, Terminal, RowsKept, Ends
<1>1. ASSUME NEW status \in Terminal, FinishTx(r, status) PROVE RowsKept \/ Ends(r)
  <2>1. UNCHANGED <<run, thread>> \/ Moves(r, {"running"}, status, "idle")
    BY <1>1, MoveIs DEF FinishTx
  <2> QED  BY <2>1 DEF Moves
<1>2. CASE InterruptTx(r)
  BY <1>2, MoveIs DEF InterruptTx
<1>3. CASE OrphanTx(r)
  BY <1>3, MoveIs DEF OrphanTx
<1> QED  BY <1>1, <1>2, <1>3

\* The actions with such a transaction.
LEMMA EndMoves ==
  ASSUME RowsOK, RowOwned, NEW r \in Runs,
         \/ Finish(r) \/ FailWrite(r) \/ RecoverOrphan(r)
         \/ \E c \in Requests : CancelInterrupt(c) /\ target[c] = r
  PROVE  RowsKept \/ Ends(r)
<1>1. UNCHANGED owner
  BY DEF Finish, FailWrite, RecoverOrphan, CancelInterrupt
<1>2. \/ UNCHANGED <<run, thread>>
      \/ \E status \in Terminal : FinishTx(r, status)
      \/ InterruptTx(r) \/ OrphanTx(r)
  BY DEF Finish, FailWrite, RecoverOrphan, CancelInterrupt, Terminal
<1> QED  BY <1>1, <1>2, TxEnds DEF RowsKept

\* A new Run is created on a Thread without an inflight one; nothing inflight is deleted.
Creates(r, t) ==
    /\ run[r] = "unused" /\ run'[r] = "pending" /\ owner'[r] = t
    /\ \A q \in Runs : q # r => run'[q] = run[q] /\ owner'[q] = owner[q]
    /\ \A q \in Runs : owner[q] = t => run[q] \notin Inflight
    /\ UNCHANGED thread
Deletes(t) ==
    /\ \A q \in Runs : owner[q] = t => run[q] \notin Inflight
    /\ thread' = [thread EXCEPT ![t] = "deleted"]
    /\ run' = [q \in Runs |-> IF owner[q] = t THEN "deleted" ELSE run[q]]
    /\ UNCHANGED owner

\* Creation and deletion of rows.
LEMMA CreateMoves ==
  ASSUME RowsOK, NEW c \in Requests, CreateCommit(c)
  PROVE  RowsKept \/ \E r \in Runs : Creates(r, on[c])
BY DEF CreateCommit, RowsOK, RowsKept, Creates, InflightOn, RunsOf

\* A deletion finds nothing inflight, or changes nothing.
LEMMA DeleteMoves ==
  ASSUME NEW c \in Requests, DeleteRow(c) PROVE RowsKept \/ Deletes(on[c])
BY DEF DeleteRow, RowsKept, Deletes, InflightOn, RunsOf

\* What any step does to the rows.
RowChange ==
    \/ RowsKept
    \/ \E r \in Runs : Opens(r) \/ Ends(r) \/ \E t \in Threads : Creates(r, t)
    \/ \E t \in Threads : Deletes(t)

\* The actions without a transaction leave the rows alone.
LEMMA RowsChange == Lifecycle /\ [Next]_vars => RowChange
<1> SUFFICES ASSUME Lifecycle, [Next]_vars PROVE RowChange
  OBVIOUS
<1> TypeOK /\ RowsOK /\ RequestsOK /\ RowOwned /\ OnThread /\ Closing
  BY DEF Lifecycle, IInv, TypeOK, Bookkeeping
<1>1. UNCHANGED <<owner, run, thread>> => RowChange
  BY DEF RowChange, RowsKept
<1>2. ASSUME NEW r \in Runs, Begin(r) \/ Load(r) \/ StopOld(r) \/ Capture(r) \/ SaveInput(r)
    \/ SaveFinal(r) \/ BeginRun(r) \/ AgentEnds(r) \/ Release(r) \/ Announce(r) \/
    FailRelease(r) \/ FailRead(r) \/ FailSave(r) \/ Cleanup(r) \/ Consume(r) \/ AgentBash(r)
    PROVE RowChange
  BY <1>2, <1>1 DEF Begin, Load, Proceed, Fail, StopOld, StopOrBlock, StopThread, Block,
      Capture, Store, SaveInput, SaveFinal, BeginRun, AgentEnds, Release, EndLease, Announce,
      FailRelease, ReleaseAgain, FailRead, FailSave, Cleanup, Consume, ReleaseRun,
      AgentBash, entryVars, dbVars, boxVars, taskVars, streamVars, reqVars, procVars
<1>3. ASSUME NEW c \in Requests, CancelWoken(c) \/ CancelAnnounce(c) \/ CancelClose(c) \/
    RestoreStop(c) \/ RestorePrepare(c) \/ RestoreFinish(c) \/ PreviewEnd(c) \/ UploadEnd(c)
    \/ ReadEnd(c) \/ DeleteBox(c) PROVE RowChange
  BY <1>3, <1>1 DEF CancelWoken, CancelReturns, Free, EndWrite, CancelAnnounce,
      CancelClose, RestoreStop, StopThread, BlockAndEndWrite, RestorePrepare, NoFault,
      RestoreFinish, PreviewEnd, UploadEnd, ReadEnd, EndRead, DeleteBox, entryVars,
      dbVars, boxVars, taskVars, streamVars, reqVars, procVars
<1>4. ASSUME NEW c \in Requests, NEW t \in Threads, CreateBegin(c, t) \/ RestoreBegin(c, t) \/
    PreviewBegin(c, t) \/ UploadBegin(c, t) \/ ReadBegin(c, t) \/ DeleteBegin(c, t) PROVE
    RowChange
  BY <1>4, <1>1 DEF CreateBegin, Ask, BeginWrite, MayWrite, Ready, RestoreBegin,
      CancelTask, InflightOn, RunsOf, PreviewBegin, UploadBegin, ReadBegin, BeginRead,
      DeleteBegin, entryVars, dbVars, boxVars, taskVars, streamVars, reqVars, procVars
<1>5. ASSUME NEW c \in Requests, NEW r \in Runs, CancelBegin(c, r) PROVE RowChange
  BY <1>5, <1>1 DEF CancelBegin, Ask, CancelTask, entryVars, dbVars, boxVars, taskVars,
      streamVars, reqVars, procVars
<1>6. ASSUME NEW t \in Threads, ReapIdle(t) PROVE RowChange
  BY <1>6, <1>1 DEF ReapIdle, entryVars, dbVars, boxVars, taskVars, streamVars, reqVars, procVars
<1>7. CASE Shutdown \/ ShutdownEnds \/ Crash \/ RemoveOldContainers \/ RecoverFiles \/ Serve
  BY <1>7, <1>1 DEF Shutdown, ShutdownEnds, ForgetAll, Forget, Crash,
      RemoveOldContainers, RecoverFiles, BlockAll, Serve, entryVars, dbVars, boxVars,
      taskVars, streamVars, reqVars, procVars
<1>8. CASE UNCHANGED vars
  BY <1>8, <1>1 DEF vars, entryVars, dbVars, boxVars, taskVars, streamVars, reqVars, procVars
<1> USE AdmissionAssumption, LifecycleAssumption
    DEF RowsOK, RequestsOK, RowOwned, OnThread, RowChange, RowsKept,
    entryVars, dbVars, boxVars, taskVars, streamVars, reqVars, procVars
<1>9. ASSUME NEW r \in Runs, Start(r) PROVE RowChange
  BY <1>9, StartMoves DEF RowChange
<1>10. ASSUME NEW r \in Runs, Finish(r) PROVE RowChange
  BY <1>10, EndMoves DEF RowChange
<1>11. ASSUME NEW r \in Runs, FailWrite(r) PROVE RowChange
  BY <1>11, EndMoves DEF RowChange
<1>12. ASSUME NEW c \in Requests, CreateCommit(c) PROVE RowChange
  <2>1. on[c] \in Threads
    BY <1>12 DEF CreateCommit, OnThread
  <2> QED  BY <1>12, <2>1, CreateMoves DEF RowChange
<1>13. ASSUME NEW c \in Requests, CancelInterrupt(c) PROVE RowChange
  <2>1. target[c] \in Runs
    BY <1>13 DEF CancelInterrupt, Closing, Cancelling
  <2> QED  BY <1>13, <2>1, EndMoves DEF RowChange
<1>14. ASSUME NEW c \in Requests, DeleteRow(c) PROVE RowChange
  <2>1. on[c] \in Threads
    BY <1>14 DEF DeleteRow, OnThread
  <2> QED  BY <1>14, <2>1, DeleteMoves DEF RowChange
<1>15. ASSUME NEW r \in Runs, RecoverOrphan(r) PROVE RowChange
  BY <1>15, EndMoves DEF RowChange
<1> QED  BY <1>2, <1>3, <1>4, <1>5, <1>6, <1>7, <1>8, <1>9, <1>10, <1>11, <1>12, <1>13, <1>14,
    <1>15 DEF Next, TaskStep, RequestStep, RequestArrives, Startup

\* A Thread has one inflight Run, and its row follows.
LEMMA OneInflightKeeps == Lifecycle /\ [Next]_vars => OneInflight' /\ ThreadFollows'
<1> SUFFICES ASSUME Lifecycle, [Next]_vars PROVE OneInflight' /\ ThreadFollows'
  OBVIOUS
<1> RowsOK /\ RowOwned /\ OneInflight /\ ThreadFollows
  BY DEF Lifecycle, IInv, TypeOK, Bookkeeping
<1> USE DEF RowsOK, RowOwned, OneInflight, ThreadFollows, Inflight, Terminal
<1>1. CASE RowsKept
  BY <1>1 DEF RowsKept
<1>2. ASSUME NEW r \in Runs, Opens(r) PROVE OneInflight' /\ ThreadFollows'
  BY <1>2 DEF Opens, Moves
<1>3. ASSUME NEW r \in Runs, Ends(r) PROVE OneInflight' /\ ThreadFollows'
  BY <1>3 DEF Ends, Moves
<1>4. ASSUME NEW r \in Runs, NEW t \in Threads, Creates(r, t)
      PROVE OneInflight' /\ ThreadFollows'
  BY <1>4 DEF Creates
<1>5. ASSUME NEW t \in Threads, Deletes(t) PROVE OneInflight' /\ ThreadFollows'
  BY <1>5 DEF Deletes
<1> QED  BY <1>1, <1>2, <1>3, <1>4, <1>5, RowsChange DEF RowChange

\* A request that has the entry for itself has no task beside it.
LEMMA WritingAlone ==
  ASSUME Lifecycle, NEW c \in Requests, at[c] \in Writing, NEW r \in Runs, owner[r] = on[c]
  PROVE  ~Live(r)
<1>1. on[c] \in Threads /\ writer[on[c]] = c /\ ~sharing[on[c]]
  BY DEF Lifecycle, IInv, Bookkeeping, OnThread, Holds, Writing
<1>2. runOf[on[c]] = NoRun
  BY <1>1, AdmissionAssumption, LifecycleAssumption DEF Lifecycle, IInv, Exclusion
<1> QED
  BY <1>2, AdmissionAssumption, LifecycleAssumption
  DEF Lifecycle, IInv, Bookkeeping, LiveRegistered

\* Nobody changes the row of a Run under its working task.
LEMMA TaskRowKeeps == Lifecycle /\ [Next]_vars => TaskRow'
<1> SUFFICES ASSUME Lifecycle, [Next]_vars PROVE TaskRow'
  OBVIOUS
<1> TypeOK /\ TasksOK /\ RowsOK /\ TaskRow /\ Silent /\ Closing /\ RowOwned
  BY DEF Lifecycle, IInv, TypeOK, Bookkeeping
<1>1. UNCHANGED <<pc, run>> => TaskRow'
  BY DEF TaskRow, Live, LivePc, WorkPc, FailPc, BeforeStart, Started, Serving, Inflight, Terminal
<1>2. ASSUME NEW r \in Runs, AgentBash(r) PROVE TaskRow'
  BY <1>2, <1>1 DEF AgentBash, entryVars, dbVars, boxVars, taskVars, streamVars, reqVars, procVars
<1>3. ASSUME NEW c \in Requests, CancelWoken(c) \/ CancelAnnounce(c) \/ CancelClose(c) \/
    RestoreStop(c) \/ RestorePrepare(c) \/ RestoreFinish(c) \/ PreviewEnd(c) \/ UploadEnd(c)
    \/ ReadEnd(c) \/ DeleteBox(c) PROVE TaskRow'
  BY <1>3, <1>1 DEF CancelWoken, CancelReturns, Free, EndWrite, CancelAnnounce,
      CancelClose, RestoreStop, StopThread, BlockAndEndWrite, RestorePrepare, NoFault,
      RestoreFinish, PreviewEnd, UploadEnd, ReadEnd, EndRead, DeleteBox, entryVars,
      dbVars, boxVars, taskVars, streamVars, reqVars, procVars
<1>4. ASSUME NEW c \in Requests, NEW t \in Threads, CreateBegin(c, t) \/ RestoreBegin(c, t) \/
    PreviewBegin(c, t) \/ UploadBegin(c, t) \/ ReadBegin(c, t) \/ DeleteBegin(c, t) PROVE TaskRow'
  BY <1>4, <1>1 DEF CreateBegin, Ask, BeginWrite, MayWrite, Ready, RestoreBegin,
      CancelTask, InflightOn, RunsOf, PreviewBegin, UploadBegin, ReadBegin, BeginRead,
      DeleteBegin, entryVars, dbVars, boxVars, taskVars, streamVars, reqVars, procVars
<1>5. ASSUME NEW c \in Requests, NEW r \in Runs, CancelBegin(c, r) PROVE TaskRow'
  BY <1>5, <1>1 DEF CancelBegin, Ask, CancelTask, entryVars, dbVars, boxVars, taskVars,
      streamVars, reqVars, procVars
<1>6. ASSUME NEW t \in Threads, ReapIdle(t) PROVE TaskRow'
  BY <1>6, <1>1 DEF ReapIdle, entryVars, dbVars, boxVars, taskVars, streamVars, reqVars, procVars
<1>7. CASE Shutdown \/ RemoveOldContainers \/ RecoverFiles \/ Serve
  BY <1>7, <1>1 DEF Shutdown, RemoveOldContainers, RecoverFiles, BlockAll, Serve,
      entryVars, dbVars, boxVars, taskVars, streamVars, reqVars, procVars
<1>8. CASE UNCHANGED vars
  BY <1>8, <1>1 DEF vars, entryVars, dbVars, boxVars, taskVars, streamVars, reqVars, procVars
<1> USE AdmissionAssumption, LifecycleAssumption
    DEF TasksOK, RowsOK, TaskRow, Silent, Closing, RowOwned, Live,
    LivePc, WorkPc, FailPc, BeforeStart, Started, Serving, Inflight, Terminal, entryVars,
    dbVars, boxVars, taskVars, streamVars, reqVars, procVars
<1>9. ASSUME NEW r \in Runs, Begin(r) \/ Load(r) \/ StopOld(r) PROVE TaskRow'
  BY <1>9 DEF Begin, Load, Proceed, Fail, StopOld, StopOrBlock, StopThread, Block
<1>10. ASSUME NEW r \in Runs, Capture(r) \/ SaveInput(r) \/ SaveFinal(r) PROVE TaskRow'
  BY <1>10 DEF Capture, Store, Proceed, Fail, SaveInput, SaveFinal
<1>11. ASSUME NEW r \in Runs, Start(r) \/ BeginRun(r) \/ AgentEnds(r) PROVE TaskRow'
  BY <1>11 DEF Start, StartTx, Move, Proceed, Fail, BeginRun, AgentEnds
<1>12. ASSUME NEW r \in Runs, Release(r) \/ Finish(r) \/ Announce(r) PROVE TaskRow'
  BY <1>12 DEF Release, EndLease, StopOrBlock, StopThread, Fail, Block, Finish,
      FinishTx, Move, Proceed, Announce
<1>13. ASSUME NEW r \in Runs, FailRelease(r) \/ FailRead(r) \/ FailSave(r) PROVE TaskRow'
  BY <1>13 DEF FailRelease, ReleaseAgain, EndLease, StopThread, Block, FailRead, FailSave
<1>14. ASSUME NEW r \in Runs, FailWrite(r) PROVE TaskRow'
  <2>1. RowsKept \/ Ends(r)
    BY <1>14, EndMoves
  <2> QED  BY <1>14, <2>1 DEF FailWrite, RowsKept, Ends, Moves
<1>15. ASSUME NEW r \in Runs, Cleanup(r) \/ Consume(r) PROVE TaskRow'
  BY <1>15 DEF Cleanup, ReleaseAgain, EndLease, StopThread, Block, Consume, ReleaseRun
<1>16. ASSUME NEW c \in Requests, CreateCommit(c) PROVE TaskRow'
  BY <1>16 DEF CreateCommit, RegisterRun, EndWrite, Free
<1>17. ASSUME NEW c \in Requests, CancelInterrupt(c) PROVE TaskRow'
  <2>1. target[c] \in Runs /\ ~Live(target[c])
    BY <1>17 DEF CancelInterrupt, Closing, Cancelling
  <2>2. RowsKept \/ Ends(target[c])
    BY <1>17, <2>1, EndMoves
  <2>3. pc' = pc
    BY <1>17 DEF CancelInterrupt
  <2> QED  BY <2>1, <2>2, <2>3 DEF RowsKept, Ends, Moves
<1>18. ASSUME NEW c \in Requests, DeleteRow(c) PROVE TaskRow'
  <2>1. \A r \in Runs : owner[r] = on[c] => ~Live(r)
    BY <1>18, WritingAlone DEF DeleteRow, Writing
  <2> QED  BY <1>18, <2>1 DEF DeleteRow
<1>19. CASE ShutdownEnds
  BY <1>19 DEF ShutdownEnds, ForgetAll, Forget
<1>20. CASE Crash
  BY <1>20 DEF Crash, ForgetAll, Forget
<1>21. ASSUME NEW r \in Runs, RecoverOrphan(r) PROVE TaskRow'
  <2>1. \A q \in Runs : ~Live(q)
    BY <1>21 DEF RecoverOrphan, Silent, Serving
  <2>2. pc' = pc
    BY <1>21 DEF RecoverOrphan
  <2> QED  BY <2>1, <2>2
<1> QED  BY <1>2, <1>3, <1>4, <1>5, <1>6, <1>7, <1>8, <1>9, <1>10, <1>11, <1>12, <1>13, <1>14,
    <1>15, <1>16, <1>17, <1>18, <1>19, <1>20, <1>21 DEF Next, TaskStep, RequestStep,
    RequestArrives, Startup

\* Nothing begins while the process does not serve.
LEMMA SilentKeeps == Lifecycle /\ [Next]_vars => Silent'
<1> SUFFICES ASSUME Lifecycle, [Next]_vars PROVE Silent'
  OBVIOUS
<1> TypeOK /\ ProcessOK /\ TasksOK /\ RequestsOK /\ BoxesOK /\ Silent
  BY DEF Lifecycle, IInv, TypeOK, Bookkeeping
<1>1. UNCHANGED <<at, lease, pc, up>> => Silent'
  BY DEF Silent, Live, LivePc, WorkPc, FailPc, Serving
<1>2. ASSUME NEW r \in Runs, AgentBash(r) PROVE Silent'
  BY <1>2, <1>1 DEF AgentBash, entryVars, dbVars, boxVars, taskVars, streamVars, reqVars, procVars
<1>3. ASSUME NEW t \in Threads, ReapIdle(t) PROVE Silent'
  BY <1>3, <1>1 DEF ReapIdle, entryVars, dbVars, boxVars, taskVars, streamVars, reqVars, procVars
<1>4. ASSUME NEW r \in Runs, RecoverOrphan(r) PROVE Silent'
  BY <1>4, <1>1 DEF RecoverOrphan, OrphanTx, Move, entryVars, dbVars, boxVars, taskVars,
      streamVars, reqVars, procVars
<1>5. CASE UNCHANGED vars
  BY <1>5, <1>1 DEF vars, entryVars, dbVars, boxVars, taskVars, streamVars, reqVars, procVars
<1> USE AdmissionAssumption, LifecycleAssumption
    DEF ProcessOK, TasksOK, RequestsOK, BoxesOK, Silent, Live, LivePc,
    WorkPc, FailPc, Serving, entryVars, dbVars, boxVars, taskVars, streamVars, reqVars, procVars
<1>6. ASSUME NEW r \in Runs, Begin(r) \/ Load(r) \/ StopOld(r) PROVE Silent'
  BY <1>6 DEF Begin, Load, Proceed, Fail, StopOld, StopOrBlock, StopThread, Block
<1>7. ASSUME NEW r \in Runs, Capture(r) \/ SaveInput(r) \/ SaveFinal(r) PROVE Silent'
  BY <1>7 DEF Capture, Store, Proceed, Fail, SaveInput, SaveFinal
<1>8. ASSUME NEW r \in Runs, Start(r) \/ BeginRun(r) \/ AgentEnds(r) PROVE Silent'
  BY <1>8 DEF Start, StartTx, Move, Proceed, Fail, BeginRun, AgentEnds
<1>9. ASSUME NEW r \in Runs, Release(r) \/ Finish(r) \/ Announce(r) PROVE Silent'
  BY <1>9 DEF Release, EndLease, StopOrBlock, StopThread, Fail, Block, Finish, FinishTx,
      Move, Proceed, Announce
<1>10. ASSUME NEW r \in Runs, FailRelease(r) \/ FailRead(r) \/ FailSave(r) PROVE Silent'
  BY <1>10 DEF FailRelease, ReleaseAgain, EndLease, StopThread, Block, FailRead, FailSave
<1>11. ASSUME NEW r \in Runs, FailWrite(r) \/ Cleanup(r) \/ Consume(r) PROVE Silent'
  BY <1>11 DEF FailWrite, InterruptTx, FinishTx, OrphanTx, Move, Cleanup, ReleaseAgain,
      EndLease, StopThread, Block, Consume, ReleaseRun
<1>12. ASSUME NEW c \in Requests, CreateCommit(c) \/ CancelWoken(c) \/ CancelInterrupt(c)
    PROVE Silent'
  BY <1>12 DEF CreateCommit, RegisterRun, EndWrite, Free, CancelWoken,
      CancelReturns, CancelInterrupt, InterruptTx, Move
<1>13. ASSUME NEW c \in Requests, CancelAnnounce(c) \/ CancelClose(c) \/ RestoreStop(c) PROVE
    Silent'
  BY <1>13 DEF CancelAnnounce, CancelClose, CancelReturns, Free, EndWrite, RestoreStop,
      StopThread, BlockAndEndWrite
<1>14. ASSUME NEW c \in Requests, RestorePrepare(c) \/ RestoreFinish(c) \/ PreviewEnd(c) PROVE
    Silent'
  BY <1>14 DEF RestorePrepare, NoFault, Free, EndWrite, RestoreFinish,
      BlockAndEndWrite, PreviewEnd, StopThread
<1>15. ASSUME NEW c \in Requests, UploadEnd(c) \/ ReadEnd(c) \/ DeleteBox(c) PROVE Silent'
  BY <1>15 DEF UploadEnd, Free, EndWrite, ReadEnd, EndRead, DeleteBox, StopThread
<1>16. ASSUME NEW c \in Requests, DeleteRow(c) PROVE Silent'
  BY <1>16 DEF DeleteRow, Free, EndWrite
<1>17. ASSUME NEW c \in Requests, NEW t \in Threads, CreateBegin(c, t) \/ RestoreBegin(c, t)
    \/ PreviewBegin(c, t) PROVE Silent'
  BY <1>17 DEF CreateBegin, Ask, BeginWrite, MayWrite, Ready, RestoreBegin,
      CancelTask, InflightOn, RunsOf, PreviewBegin
<1>18. ASSUME NEW c \in Requests, NEW t \in Threads, UploadBegin(c, t) \/ ReadBegin(c, t) \/
    DeleteBegin(c, t) PROVE Silent'
  BY <1>18 DEF UploadBegin, Ask, BeginWrite, MayWrite, Ready, ReadBegin,
      BeginRead, DeleteBegin
<1>19. ASSUME NEW c \in Requests, NEW r \in Runs, CancelBegin(c, r) PROVE Silent'
  BY <1>19 DEF CancelBegin, Ask, CancelTask
<1>20. CASE Shutdown
  BY <1>20 DEF Shutdown
<1>21. CASE ShutdownEnds
  BY <1>21 DEF ShutdownEnds, ForgetAll, Forget
<1>22. CASE Crash
  BY <1>22 DEF Crash, ForgetAll, Forget
<1>23. CASE RemoveOldContainers
  BY <1>23 DEF RemoveOldContainers
<1>24. CASE RecoverFiles
  BY <1>24 DEF RecoverFiles, BlockAll
<1>25. CASE Serve
  BY <1>25 DEF Serve
<1> QED  BY <1>2, <1>3, <1>4, <1>5, <1>6, <1>7, <1>8, <1>9, <1>10, <1>11, <1>12, <1>13, <1>14,
    <1>15, <1>16, <1>17, <1>18, <1>19, <1>20, <1>21, <1>22, <1>23, <1>24, <1>25 DEF Next,
    TaskStep, RequestStep, RequestArrives, Startup

\* No container is created before the process serves.
LEMMA CleanStartKeeps == Lifecycle /\ [Next]_vars => CleanStart'
<1> SUFFICES ASSUME Lifecycle, [Next]_vars PROVE CleanStart'
  OBVIOUS
<1> TypeOK /\ ProcessOK /\ BoxesOK /\ CleanStart /\ Silent
  BY DEF Lifecycle, IInv, TypeOK, Bookkeeping
<1>1. UNCHANGED <<container, up>> => CleanStart'
  BY DEF CleanStart, Live, LivePc, WorkPc, FailPc, Serving
<1>2. ASSUME NEW r \in Runs, Begin(r) \/ Load(r) \/ Capture(r) \/ SaveInput(r) \/ SaveFinal(r)
    \/ Start(r) \/ BeginRun(r) \/ AgentEnds(r) \/ Finish(r) \/ Announce(r) \/ FailRead(r) \/
    FailSave(r) \/ FailWrite(r) \/ Consume(r) PROVE CleanStart'
  BY <1>2, <1>1 DEF Begin, Load, Proceed, Fail, Capture, Store, SaveInput, SaveFinal, Start,
      StartTx, Move, BeginRun, AgentEnds, Finish, FinishTx, Announce, FailRead, FailSave,
      FailWrite, InterruptTx, OrphanTx, Consume, ReleaseRun, entryVars, dbVars, boxVars,
      taskVars, streamVars, reqVars, procVars
<1>3. ASSUME NEW c \in Requests, CreateCommit(c) \/ CancelWoken(c) \/ CancelInterrupt(c) \/
    CancelAnnounce(c) \/ CancelClose(c) \/ RestorePrepare(c) \/ RestoreFinish(c) \/
    UploadEnd(c) \/ ReadEnd(c) \/ DeleteRow(c) PROVE CleanStart'
  BY <1>3, <1>1 DEF CreateCommit, RegisterRun, EndWrite, Free, CancelWoken,
      CancelReturns, CancelInterrupt, InterruptTx, Move, CancelAnnounce, CancelClose,
      RestorePrepare, NoFault, RestoreFinish, BlockAndEndWrite, UploadEnd, ReadEnd,
      EndRead, DeleteRow, entryVars, dbVars, boxVars, taskVars, streamVars, reqVars,
      procVars
<1>4. ASSUME NEW c \in Requests, NEW t \in Threads, CreateBegin(c, t) \/ RestoreBegin(c, t) \/
    PreviewBegin(c, t) \/ UploadBegin(c, t) \/ ReadBegin(c, t) \/ DeleteBegin(c, t) PROVE
    CleanStart'
  BY <1>4, <1>1 DEF CreateBegin, Ask, BeginWrite, MayWrite, Ready, RestoreBegin,
      CancelTask, InflightOn, RunsOf, PreviewBegin, UploadBegin, ReadBegin, BeginRead,
      DeleteBegin, entryVars, dbVars, boxVars, taskVars, streamVars, reqVars, procVars
<1>5. ASSUME NEW c \in Requests, NEW r \in Runs, CancelBegin(c, r) PROVE CleanStart'
  BY <1>5, <1>1 DEF CancelBegin, Ask, CancelTask, entryVars, dbVars, boxVars, taskVars,
      streamVars, reqVars, procVars
<1>6. ASSUME NEW r \in Runs, RecoverOrphan(r) PROVE CleanStart'
  BY <1>6, <1>1 DEF RecoverOrphan, OrphanTx, Move, entryVars, dbVars, boxVars, taskVars,
      streamVars, reqVars, procVars
<1>7. CASE UNCHANGED vars
  BY <1>7, <1>1 DEF vars, entryVars, dbVars, boxVars, taskVars, streamVars, reqVars, procVars
<1> USE AdmissionAssumption, LifecycleAssumption
    DEF ProcessOK, BoxesOK, CleanStart, Silent, Live, LivePc, WorkPc,
    FailPc, Serving, entryVars, dbVars, boxVars, taskVars, streamVars, reqVars, procVars
<1>8. ASSUME NEW r \in Runs, StopOld(r) \/ Release(r) \/ FailRelease(r) PROVE CleanStart'
  BY <1>8 DEF StopOld, StopOrBlock, StopThread, Fail, Block, Release, EndLease,
      FailRelease, ReleaseAgain
<1>9. ASSUME NEW r \in Runs, Cleanup(r) \/ AgentBash(r) PROVE CleanStart'
  BY <1>9 DEF Cleanup, ReleaseAgain, EndLease, StopThread, Block, AgentBash
<1>10. ASSUME NEW c \in Requests, RestoreStop(c) \/ PreviewEnd(c) \/ DeleteBox(c) PROVE
    CleanStart'
  BY <1>10 DEF RestoreStop, StopThread, Free, BlockAndEndWrite, PreviewEnd,
      EndWrite, DeleteBox
<1>11. ASSUME NEW t \in Threads, ReapIdle(t) PROVE CleanStart'
  BY <1>11 DEF ReapIdle
<1>12. CASE Shutdown
  BY <1>12 DEF Shutdown
<1>13. CASE ShutdownEnds
  BY <1>13 DEF ShutdownEnds, ForgetAll, Forget
<1>14. CASE Crash
  BY <1>14 DEF Crash, ForgetAll, Forget
<1>15. CASE RemoveOldContainers
  BY <1>15 DEF RemoveOldContainers
<1>16. CASE RecoverFiles
  BY <1>16 DEF RecoverFiles, BlockAll
<1>17. CASE Serve
  BY <1>17 DEF Serve
<1> QED  BY <1>2, <1>3, <1>4, <1>5, <1>6, <1>7, <1>8, <1>9, <1>10, <1>11, <1>12, <1>13, <1>14,
    <1>15, <1>16, <1>17 DEF Next, TaskStep, RequestStep, RequestArrives, Startup

\* Nobody but the start closes whom it has to close.
LEMMA OrphanedKeeps == Lifecycle /\ [Next]_vars => Orphaned'
<1> SUFFICES ASSUME Lifecycle, [Next]_vars PROVE Orphaned'
  OBVIOUS
<1> TypeOK /\ ProcessOK /\ RowsOK /\ Orphaned /\ Silent /\ RowOwned
  BY DEF Lifecycle, IInv, TypeOK, Bookkeeping
<1>1. UNCHANGED <<run, toRecover, up>> => Orphaned'
  BY DEF Orphaned, Live, LivePc, WorkPc, FailPc, Serving, Inflight, Terminal
<1>2. ASSUME NEW r \in Runs, Begin(r) \/ Load(r) \/ StopOld(r) \/ Capture(r) \/ SaveInput(r)
    \/ SaveFinal(r) \/ BeginRun(r) \/ AgentEnds(r) \/ Release(r) \/ Announce(r) \/
    FailRelease(r) \/ FailRead(r) \/ FailSave(r) \/ Cleanup(r) \/ Consume(r) \/ AgentBash(r)
    PROVE Orphaned'
  BY <1>2, <1>1 DEF Begin, Load, Proceed, Fail, StopOld, StopOrBlock, StopThread, Block,
      Capture, Store, SaveInput, SaveFinal, BeginRun, AgentEnds, Release, EndLease, Announce,
      FailRelease, ReleaseAgain, FailRead, FailSave, Cleanup, Consume, ReleaseRun,
      AgentBash, entryVars, dbVars, boxVars, taskVars, streamVars, reqVars, procVars
<1>3. ASSUME NEW c \in Requests, CancelWoken(c) \/ CancelAnnounce(c) \/ CancelClose(c) \/
    RestoreStop(c) \/ RestorePrepare(c) \/ RestoreFinish(c) \/ PreviewEnd(c) \/ UploadEnd(c)
    \/ ReadEnd(c) \/ DeleteBox(c) PROVE Orphaned'
  BY <1>3, <1>1 DEF CancelWoken, CancelReturns, Free, EndWrite, CancelAnnounce,
      CancelClose, RestoreStop, StopThread, BlockAndEndWrite, RestorePrepare, NoFault,
      RestoreFinish, PreviewEnd, UploadEnd, ReadEnd, EndRead, DeleteBox, entryVars,
      dbVars, boxVars, taskVars, streamVars, reqVars, procVars
<1>4. ASSUME NEW c \in Requests, NEW t \in Threads, CreateBegin(c, t) \/ RestoreBegin(c, t) \/
    PreviewBegin(c, t) \/ UploadBegin(c, t) \/ ReadBegin(c, t) \/ DeleteBegin(c, t) PROVE
    Orphaned'
  BY <1>4, <1>1 DEF CreateBegin, Ask, BeginWrite, MayWrite, Ready, RestoreBegin,
      CancelTask, InflightOn, RunsOf, PreviewBegin, UploadBegin, ReadBegin, BeginRead,
      DeleteBegin, entryVars, dbVars, boxVars, taskVars, streamVars, reqVars, procVars
<1>5. ASSUME NEW c \in Requests, NEW r \in Runs, CancelBegin(c, r) PROVE Orphaned'
  BY <1>5, <1>1 DEF CancelBegin, Ask, CancelTask, entryVars, dbVars, boxVars, taskVars,
      streamVars, reqVars, procVars
<1>6. ASSUME NEW t \in Threads, ReapIdle(t) PROVE Orphaned'
  BY <1>6, <1>1 DEF ReapIdle, entryVars, dbVars, boxVars, taskVars, streamVars, reqVars, procVars
<1>7. CASE UNCHANGED vars
  BY <1>7, <1>1 DEF vars, entryVars, dbVars, boxVars, taskVars, streamVars, reqVars, procVars
<1> USE AdmissionAssumption, LifecycleAssumption
    DEF ProcessOK, RowsOK, Orphaned, Silent, RowOwned, Live, LivePc,
    WorkPc, FailPc, Serving, Inflight, Terminal, entryVars, dbVars, boxVars, taskVars,
    streamVars, reqVars, procVars
<1>8. ASSUME NEW r \in Runs, Start(r) \/ Finish(r) \/ FailWrite(r) PROVE Orphaned'
  BY <1>8 DEF Start, StartTx, Move, Proceed, Fail, Finish, FinishTx, FailWrite, InterruptTx,
      OrphanTx
<1>9. ASSUME NEW c \in Requests, CreateCommit(c) \/ CancelInterrupt(c) \/ DeleteRow(c) PROVE
    Orphaned'
  BY <1>9 DEF CreateCommit, RegisterRun, EndWrite, Free, CancelInterrupt,
      InterruptTx, Move, DeleteRow
<1>10. CASE Shutdown
  BY <1>10 DEF Shutdown
<1>11. CASE ShutdownEnds
  BY <1>11 DEF ShutdownEnds, ForgetAll, Forget
<1>12. CASE Crash
  BY <1>12 DEF Crash, ForgetAll, Forget
<1>13. CASE RemoveOldContainers
  BY <1>13 DEF RemoveOldContainers
<1>14. CASE RecoverFiles
  BY <1>14 DEF RecoverFiles, BlockAll
<1>15. CASE Serve
  BY <1>15 DEF Serve
<1>16. ASSUME NEW r \in Runs, RecoverOrphan(r) PROVE Orphaned'
  <2>1. RowsKept \/ Ends(r)
    BY <1>16, EndMoves
  <2> QED  BY <1>16, <2>1 DEF RecoverOrphan, RowsKept, Ends, Moves
<1> QED  BY <1>2, <1>3, <1>4, <1>5, <1>6, <1>7, <1>8, <1>9, <1>10, <1>11, <1>12, <1>13, <1>14,
    <1>15, <1>16 DEF Next, TaskStep, RequestStep, RequestArrives, Startup

\* A request has the entry from its start to its end.
LEMMA HoldsKeeps == Lifecycle /\ [Next]_vars => Holds'
<1> SUFFICES ASSUME Lifecycle, [Next]_vars PROVE Holds'
  OBVIOUS
<1> TypeOK /\ RequestsOK /\ EntryOK /\ Holds /\ OnThread
  BY DEF Lifecycle, IInv, TypeOK, Bookkeeping
<1>1. UNCHANGED <<at, on, op, sharing, writer>> => Holds'
  BY DEF Holds, Writing, Restoring, Cancelling
<1>2. ASSUME NEW r \in Runs, Begin(r) \/ Load(r) \/ StopOld(r) \/ Capture(r) \/ SaveInput(r)
    \/ SaveFinal(r) \/ Start(r) \/ BeginRun(r) \/ AgentEnds(r) \/ Release(r) \/ Finish(r) \/
    Announce(r) \/ FailRelease(r) \/ FailRead(r) \/ FailSave(r) \/ FailWrite(r) \/ Cleanup(r)
    \/ Consume(r) \/ AgentBash(r) PROVE Holds'
  BY <1>2, <1>1 DEF Begin, Load, Proceed, Fail, StopOld, StopOrBlock, StopThread, Block,
      Capture, Store, SaveInput, SaveFinal, Start, StartTx, Move, BeginRun, AgentEnds,
      Release, EndLease, Finish, FinishTx, Announce, FailRelease, ReleaseAgain, FailRead,
      FailSave, FailWrite, InterruptTx, OrphanTx, Cleanup, Consume, ReleaseRun,
      AgentBash, entryVars, dbVars, boxVars, taskVars, streamVars, reqVars, procVars
<1>3. ASSUME NEW t \in Threads, ReapIdle(t) PROVE Holds'
  BY <1>3, <1>1 DEF ReapIdle, entryVars, dbVars, boxVars, taskVars, streamVars, reqVars, procVars
<1>4. CASE Shutdown \/ RemoveOldContainers \/ RecoverFiles \/ Serve
  BY <1>4, <1>1 DEF Shutdown, RemoveOldContainers, RecoverFiles, BlockAll, Serve,
      entryVars, dbVars, boxVars, taskVars, streamVars, reqVars, procVars
<1>5. ASSUME NEW r \in Runs, RecoverOrphan(r) PROVE Holds'
  BY <1>5, <1>1 DEF RecoverOrphan, OrphanTx, Move, entryVars, dbVars, boxVars, taskVars,
      streamVars, reqVars, procVars
<1>6. CASE UNCHANGED vars
  BY <1>6, <1>1 DEF vars, entryVars, dbVars, boxVars, taskVars, streamVars, reqVars, procVars
<1> USE AdmissionAssumption, LifecycleAssumption
    DEF RequestsOK, EntryOK, Holds, OnThread, Writing, Restoring,
    Cancelling, entryVars, dbVars, boxVars, taskVars, streamVars, reqVars, procVars
<1>7. ASSUME NEW c \in Requests, CreateCommit(c) \/ CancelWoken(c) \/ CancelInterrupt(c) PROVE
    Holds'
  BY <1>7 DEF CreateCommit, RegisterRun, EndWrite, Free, CancelWoken,
      CancelReturns, CancelInterrupt, InterruptTx, Move
<1>8. ASSUME NEW c \in Requests, CancelAnnounce(c) \/ CancelClose(c) \/ RestoreStop(c) PROVE
    Holds'
  BY <1>8 DEF CancelAnnounce, CancelClose, CancelReturns, Free, EndWrite, RestoreStop,
      StopThread, BlockAndEndWrite
<1>9. ASSUME NEW c \in Requests, RestorePrepare(c) \/ RestoreFinish(c) \/ PreviewEnd(c) PROVE
    Holds'
  BY <1>9 DEF RestorePrepare, NoFault, Free, EndWrite, RestoreFinish,
      BlockAndEndWrite, PreviewEnd, StopThread
<1>10. ASSUME NEW c \in Requests, UploadEnd(c) \/ ReadEnd(c) \/ DeleteBox(c) PROVE Holds'
  BY <1>10 DEF UploadEnd, Free, EndWrite, ReadEnd, EndRead, DeleteBox, StopThread
<1>11. ASSUME NEW c \in Requests, DeleteRow(c) PROVE Holds'
  BY <1>11 DEF DeleteRow, Free, EndWrite
<1>12. ASSUME NEW c \in Requests, NEW t \in Threads, CreateBegin(c, t) \/ RestoreBegin(c, t)
    \/ PreviewBegin(c, t) PROVE Holds'
  BY <1>12 DEF CreateBegin, Ask, BeginWrite, MayWrite, Ready, RestoreBegin,
      CancelTask, InflightOn, RunsOf, PreviewBegin
<1>13. ASSUME NEW c \in Requests, NEW t \in Threads, UploadBegin(c, t) \/ ReadBegin(c, t) \/
    DeleteBegin(c, t) PROVE Holds'
  BY <1>13 DEF UploadBegin, Ask, BeginWrite, MayWrite, Ready, ReadBegin,
      BeginRead, DeleteBegin
<1>14. ASSUME NEW c \in Requests, NEW r \in Runs, CancelBegin(c, r) PROVE Holds'
  BY <1>14 DEF CancelBegin, Ask, CancelTask
<1>15. CASE ShutdownEnds
  BY <1>15 DEF ShutdownEnds, ForgetAll, Forget
<1>16. CASE Crash
  BY <1>16 DEF Crash, ForgetAll, Forget
<1> QED  BY <1>2, <1>3, <1>4, <1>5, <1>6, <1>7, <1>8, <1>9, <1>10, <1>11, <1>12, <1>13, <1>14,
    <1>15, <1>16 DEF Next, TaskStep, RequestStep, RequestArrives, Startup

\* The entry has no other holder.
LEMMA HeldForKeeps == Lifecycle /\ [Next]_vars => HeldFor'
<1> SUFFICES ASSUME Lifecycle, [Next]_vars PROVE HeldFor'
  OBVIOUS
<1> TypeOK /\ EntryOK /\ RequestsOK /\ HeldFor /\ OnThread
  BY DEF Lifecycle, IInv, TypeOK, Bookkeeping
<1>1. UNCHANGED <<at, on, op, writer>> => HeldFor'
  BY DEF HeldFor, Writing, Restoring, Cancelling
<1>2. ASSUME NEW r \in Runs, Begin(r) \/ Load(r) \/ StopOld(r) \/ Capture(r) \/ SaveInput(r)
    \/ SaveFinal(r) \/ Start(r) \/ BeginRun(r) \/ AgentEnds(r) \/ Release(r) \/ Finish(r) \/
    Announce(r) \/ FailRelease(r) \/ FailRead(r) \/ FailSave(r) \/ FailWrite(r) \/ Cleanup(r)
    \/ Consume(r) \/ AgentBash(r) PROVE HeldFor'
  BY <1>2, <1>1 DEF Begin, Load, Proceed, Fail, StopOld, StopOrBlock, StopThread, Block,
      Capture, Store, SaveInput, SaveFinal, Start, StartTx, Move, BeginRun, AgentEnds,
      Release, EndLease, Finish, FinishTx, Announce, FailRelease, ReleaseAgain, FailRead,
      FailSave, FailWrite, InterruptTx, OrphanTx, Cleanup, Consume, ReleaseRun,
      AgentBash, entryVars, dbVars, boxVars, taskVars, streamVars, reqVars, procVars
<1>3. ASSUME NEW t \in Threads, ReapIdle(t) PROVE HeldFor'
  BY <1>3, <1>1 DEF ReapIdle, entryVars, dbVars, boxVars, taskVars, streamVars, reqVars, procVars
<1>4. CASE Shutdown \/ RemoveOldContainers \/ RecoverFiles \/ Serve
  BY <1>4, <1>1 DEF Shutdown, RemoveOldContainers, RecoverFiles, BlockAll, Serve,
      entryVars, dbVars, boxVars, taskVars, streamVars, reqVars, procVars
<1>5. ASSUME NEW r \in Runs, RecoverOrphan(r) PROVE HeldFor'
  BY <1>5, <1>1 DEF RecoverOrphan, OrphanTx, Move, entryVars, dbVars, boxVars, taskVars,
      streamVars, reqVars, procVars
<1>6. CASE UNCHANGED vars
  BY <1>6, <1>1 DEF vars, entryVars, dbVars, boxVars, taskVars, streamVars, reqVars, procVars
<1> USE AdmissionAssumption, LifecycleAssumption
    DEF EntryOK, RequestsOK, HeldFor, OnThread, Writing,
    Restoring, Cancelling, entryVars, dbVars, boxVars, taskVars, streamVars, reqVars, procVars
<1>7. ASSUME NEW c \in Requests, CreateCommit(c) \/ CancelWoken(c) \/ CancelInterrupt(c) PROVE
    HeldFor'
  BY <1>7 DEF CreateCommit, RegisterRun, EndWrite, Free, CancelWoken,
      CancelReturns, CancelInterrupt, InterruptTx, Move
<1>8. ASSUME NEW c \in Requests, CancelAnnounce(c) \/ CancelClose(c) \/ RestoreStop(c) PROVE
    HeldFor'
  BY <1>8 DEF CancelAnnounce, CancelClose, CancelReturns, Free, EndWrite, RestoreStop,
      StopThread, BlockAndEndWrite
<1>9. ASSUME NEW c \in Requests, RestorePrepare(c) \/ RestoreFinish(c) \/ PreviewEnd(c) PROVE
    HeldFor'
  BY <1>9 DEF RestorePrepare, NoFault, Free, EndWrite, RestoreFinish,
      BlockAndEndWrite, PreviewEnd, StopThread
<1>10. ASSUME NEW c \in Requests, UploadEnd(c) \/ ReadEnd(c) \/ DeleteBox(c) PROVE HeldFor'
  BY <1>10 DEF UploadEnd, Free, EndWrite, ReadEnd, EndRead, DeleteBox, StopThread
<1>11. ASSUME NEW c \in Requests, DeleteRow(c) PROVE HeldFor'
  BY <1>11 DEF DeleteRow, Free, EndWrite
<1>12. ASSUME NEW c \in Requests, NEW t \in Threads, CreateBegin(c, t) \/ RestoreBegin(c, t)
    \/ PreviewBegin(c, t) PROVE HeldFor'
  BY <1>12 DEF CreateBegin, Ask, BeginWrite, MayWrite, Ready, RestoreBegin,
      CancelTask, InflightOn, RunsOf, PreviewBegin
<1>13. ASSUME NEW c \in Requests, NEW t \in Threads, UploadBegin(c, t) \/ ReadBegin(c, t) \/
    DeleteBegin(c, t) PROVE HeldFor'
  BY <1>13 DEF UploadBegin, Ask, BeginWrite, MayWrite, Ready, ReadBegin,
      BeginRead, DeleteBegin
<1>14. ASSUME NEW c \in Requests, NEW r \in Runs, CancelBegin(c, r) PROVE HeldFor'
  BY <1>14 DEF CancelBegin, Ask, CancelTask
<1>15. CASE ShutdownEnds
  <2>1. \A t \in Threads : writer'[t] = NoRequest
    BY <1>15 DEF ShutdownEnds, ForgetAll, Forget
  <2> QED  BY <2>1
<1>16. CASE Crash
  <2>1. \A t \in Threads : writer'[t] = NoRequest
    BY <1>16 DEF Crash, ForgetAll, Forget
  <2> QED  BY <2>1
<1> QED  BY <1>2, <1>3, <1>4, <1>5, <1>6, <1>7, <1>8, <1>9, <1>10, <1>11, <1>12, <1>13, <1>14,
    <1>15, <1>16 DEF Next, TaskStep, RequestStep, RequestArrives, Startup

\* Only a Run without a task is closed by a request.
LEMMA ClosingKeeps == Lifecycle /\ [Next]_vars => Closing'
<1> SUFFICES ASSUME Lifecycle, [Next]_vars PROVE Closing'
  OBVIOUS
<1> TypeOK /\ RequestsOK /\ RowsOK /\ TasksOK /\ Closing /\ RowOwned /\ OnThread
  BY DEF Lifecycle, IInv, TypeOK, Bookkeeping
<1>1. UNCHANGED <<at, on, owner, pc, run, target>> => Closing'
  BY DEF Closing, Live, LivePc, WorkPc, FailPc, Writing, Restoring, Cancelling, Inflight, Terminal
<1>2. ASSUME NEW r \in Runs, AgentBash(r) PROVE Closing'
  BY <1>2, <1>1 DEF AgentBash, entryVars, dbVars, boxVars, taskVars, streamVars, reqVars, procVars
<1>3. ASSUME NEW t \in Threads, ReapIdle(t) PROVE Closing'
  BY <1>3, <1>1 DEF ReapIdle, entryVars, dbVars, boxVars, taskVars, streamVars, reqVars, procVars
<1>4. CASE Shutdown \/ RemoveOldContainers \/ RecoverFiles \/ Serve
  BY <1>4, <1>1 DEF Shutdown, RemoveOldContainers, RecoverFiles, BlockAll, Serve,
      entryVars, dbVars, boxVars, taskVars, streamVars, reqVars, procVars
<1>5. CASE UNCHANGED vars
  BY <1>5, <1>1 DEF vars, entryVars, dbVars, boxVars, taskVars, streamVars, reqVars, procVars
<1> USE AdmissionAssumption, LifecycleAssumption
    DEF RequestsOK, RowsOK, TasksOK, Closing, RowOwned, OnThread,
    Live, LivePc, WorkPc, FailPc, Writing, Restoring, Cancelling, Inflight, Terminal,
    entryVars, dbVars, boxVars, taskVars, streamVars, reqVars, procVars
<1>6. ASSUME NEW r \in Runs, Begin(r) \/ Load(r) \/ StopOld(r) PROVE Closing'
  BY <1>6 DEF Begin, Load, Proceed, Fail, StopOld, StopOrBlock, StopThread, Block
<1>7. ASSUME NEW r \in Runs, Capture(r) \/ SaveInput(r) \/ SaveFinal(r) PROVE Closing'
  BY <1>7 DEF Capture, Store, Proceed, Fail, SaveInput, SaveFinal
<1>8. ASSUME NEW r \in Runs, Start(r) \/ BeginRun(r) \/ AgentEnds(r) PROVE Closing'
  BY <1>8 DEF Start, StartTx, Move, Proceed, Fail, BeginRun, AgentEnds
<1>9. ASSUME NEW r \in Runs, Release(r) \/ Finish(r) \/ Announce(r) PROVE Closing'
  BY <1>9 DEF Release, EndLease, StopOrBlock, StopThread, Fail, Block, Finish, FinishTx,
      Move, Proceed, Announce
<1>10. ASSUME NEW r \in Runs, FailRelease(r) \/ FailRead(r) \/ FailSave(r) PROVE Closing'
  BY <1>10 DEF FailRelease, ReleaseAgain, EndLease, StopThread, Block, FailRead, FailSave
<1>11. ASSUME NEW r \in Runs, FailWrite(r) \/ Cleanup(r) \/ Consume(r) PROVE Closing'
  BY <1>11 DEF FailWrite, InterruptTx, FinishTx, OrphanTx, Move, Cleanup, ReleaseAgain,
      EndLease, StopThread, Block, Consume, ReleaseRun
<1>12. ASSUME NEW c \in Requests, CreateCommit(c) \/ CancelWoken(c) \/ CancelInterrupt(c)
    PROVE Closing'
  BY <1>12 DEF CreateCommit, RegisterRun, EndWrite, Free, CancelWoken,
      CancelReturns, CancelInterrupt, InterruptTx, Move
<1>13. ASSUME NEW c \in Requests, CancelAnnounce(c) \/ CancelClose(c) \/ RestoreStop(c) PROVE
    Closing'
  BY <1>13 DEF CancelAnnounce, CancelClose, CancelReturns, Free, EndWrite, RestoreStop,
      StopThread, BlockAndEndWrite
<1>14. ASSUME NEW c \in Requests, RestorePrepare(c) \/ RestoreFinish(c) \/ PreviewEnd(c) PROVE
    Closing'
  BY <1>14 DEF RestorePrepare, NoFault, Free, EndWrite, RestoreFinish,
      BlockAndEndWrite, PreviewEnd, StopThread
<1>15. ASSUME NEW c \in Requests, UploadEnd(c) \/ ReadEnd(c) \/ DeleteBox(c) PROVE Closing'
  BY <1>15 DEF UploadEnd, Free, EndWrite, ReadEnd, EndRead, DeleteBox, StopThread
<1>16. ASSUME NEW c \in Requests, DeleteRow(c) PROVE Closing'
  BY <1>16 DEF DeleteRow, Free, EndWrite
<1>17. ASSUME NEW c \in Requests, NEW t \in Threads, CreateBegin(c, t) \/ RestoreBegin(c, t)
    \/ PreviewBegin(c, t) PROVE Closing'
  BY <1>17 DEF CreateBegin, Ask, BeginWrite, MayWrite, Ready, RestoreBegin,
      CancelTask, InflightOn, RunsOf, PreviewBegin
<1>18. ASSUME NEW c \in Requests, NEW t \in Threads, UploadBegin(c, t) \/ ReadBegin(c, t) \/
    DeleteBegin(c, t) PROVE Closing'
  BY <1>18 DEF UploadBegin, Ask, BeginWrite, MayWrite, Ready, ReadBegin,
      BeginRead, DeleteBegin
<1>19. ASSUME NEW c \in Requests, NEW r \in Runs, CancelBegin(c, r) PROVE Closing'
  BY <1>19 DEF CancelBegin, Ask, CancelTask
<1>20. CASE ShutdownEnds
  BY <1>20 DEF ShutdownEnds, ForgetAll, Forget
<1>21. CASE Crash
  BY <1>21 DEF Crash, ForgetAll, Forget
<1>22. ASSUME NEW r \in Runs, RecoverOrphan(r) PROVE Closing'
  BY <1>22 DEF RecoverOrphan, OrphanTx, Move
<1> QED  BY <1>2, <1>3, <1>4, <1>5, <1>6, <1>7, <1>8, <1>9, <1>10, <1>11, <1>12, <1>13, <1>14,
    <1>15, <1>16, <1>17, <1>18, <1>19, <1>20, <1>21, <1>22 DEF Next, TaskStep, RequestStep,
    RequestArrives, Startup

\* A request claims what its transaction did.
LEMMA ClosedKeeps == Lifecycle /\ [Next]_vars => Closed'
<1> SUFFICES ASSUME Lifecycle, [Next]_vars PROVE Closed'
  OBVIOUS
<1> TypeOK /\ RequestsOK /\ RowsOK /\ FaultsOK /\ Closed /\ Closing /\ RowOwned
  BY DEF Lifecycle, IInv, TypeOK, Bookkeeping
<1>1. UNCHANGED <<at, faults, run, target>> => Closed'
  BY DEF Closed, Cancelling, Restoring, Inflight, Terminal, NoFault, DbFault, BoxFault
<1>2. ASSUME NEW r \in Runs, Begin(r) \/ AgentEnds(r) \/ Announce(r) \/ Consume(r) \/
    AgentBash(r) PROVE Closed'
  BY <1>2, <1>1 DEF Begin, AgentEnds, Proceed, Fail, Announce, Consume, ReleaseRun,
      AgentBash, entryVars, dbVars, boxVars, taskVars, streamVars, reqVars, procVars
<1>3. ASSUME NEW t \in Threads, ReapIdle(t) PROVE Closed'
  BY <1>3, <1>1 DEF ReapIdle, entryVars, dbVars, boxVars, taskVars, streamVars, reqVars, procVars
<1>4. CASE Shutdown \/ RemoveOldContainers \/ Serve
  BY <1>4, <1>1 DEF Shutdown, RemoveOldContainers, Serve, entryVars, dbVars, boxVars,
      taskVars, streamVars, reqVars, procVars
<1>5. CASE UNCHANGED vars
  BY <1>5, <1>1 DEF vars, entryVars, dbVars, boxVars, taskVars, streamVars, reqVars, procVars
<1> USE AdmissionAssumption, LifecycleAssumption
    DEF RequestsOK, RowsOK, FaultsOK, Closed, Closing, RowOwned,
    Cancelling, Restoring, Inflight, Terminal, NoFault, DbFault, BoxFault, entryVars, dbVars,
    boxVars, taskVars, streamVars, reqVars, procVars
<1>6. ASSUME NEW r \in Runs, Load(r) \/ StopOld(r) \/ Capture(r) PROVE Closed'
  BY <1>6 DEF Load, Proceed, Fail, StopOld, StopOrBlock, StopThread, Block, Capture, Store
<1>7. ASSUME NEW r \in Runs, SaveInput(r) \/ SaveFinal(r) \/ Start(r) PROVE Closed'
  BY <1>7 DEF SaveInput, Store, Proceed, Fail, SaveFinal, Start, StartTx, Move
<1>8. ASSUME NEW r \in Runs, BeginRun(r) \/ Release(r) \/ Finish(r) PROVE Closed'
  BY <1>8 DEF BeginRun, Fail, Release, EndLease, StopOrBlock, StopThread, Block, Finish,
      FinishTx, Move, Proceed
<1>9. ASSUME NEW r \in Runs, FailRelease(r) \/ FailRead(r) \/ FailSave(r) PROVE Closed'
  BY <1>9 DEF FailRelease, ReleaseAgain, EndLease, StopThread, Block, FailRead, FailSave
<1>10. ASSUME NEW r \in Runs, FailWrite(r) \/ Cleanup(r) PROVE Closed'
  BY <1>10 DEF FailWrite, InterruptTx, FinishTx, OrphanTx, Move, Cleanup, ReleaseAgain,
      EndLease, StopThread, Block
<1>11. ASSUME NEW c \in Requests, CreateCommit(c) \/ CancelWoken(c) \/ CancelInterrupt(c)
    PROVE Closed'
  BY <1>11 DEF CreateCommit, RegisterRun, EndWrite, Free, CancelWoken,
      CancelReturns, CancelInterrupt, InterruptTx, Move
<1>12. ASSUME NEW c \in Requests, CancelAnnounce(c) \/ CancelClose(c) \/ RestoreStop(c) PROVE
    Closed'
  BY <1>12 DEF CancelAnnounce, CancelClose, CancelReturns, Free, EndWrite, RestoreStop,
      StopThread, BlockAndEndWrite
<1>13. ASSUME NEW c \in Requests, RestorePrepare(c) \/ RestoreFinish(c) \/ PreviewEnd(c) PROVE
    Closed'
  BY <1>13 DEF RestorePrepare, NoFault, Free, EndWrite, RestoreFinish,
      BlockAndEndWrite, PreviewEnd, StopThread
<1>14. ASSUME NEW c \in Requests, UploadEnd(c) \/ ReadEnd(c) \/ DeleteBox(c) PROVE Closed'
  BY <1>14 DEF UploadEnd, Free, EndWrite, ReadEnd, EndRead, DeleteBox, StopThread
<1>15. ASSUME NEW c \in Requests, DeleteRow(c) PROVE Closed'
  BY <1>15 DEF DeleteRow, Free, EndWrite
<1>16. ASSUME NEW c \in Requests, NEW t \in Threads, CreateBegin(c, t) \/ RestoreBegin(c, t)
    \/ PreviewBegin(c, t) PROVE Closed'
  BY <1>16 DEF CreateBegin, Ask, BeginWrite, MayWrite, Ready, RestoreBegin,
      CancelTask, InflightOn, RunsOf, PreviewBegin
<1>17. ASSUME NEW c \in Requests, NEW t \in Threads, UploadBegin(c, t) \/ ReadBegin(c, t) \/
    DeleteBegin(c, t) PROVE Closed'
  BY <1>17 DEF UploadBegin, Ask, BeginWrite, MayWrite, Ready, ReadBegin,
      BeginRead, DeleteBegin
<1>18. ASSUME NEW c \in Requests, NEW r \in Runs, CancelBegin(c, r) PROVE Closed'
  BY <1>18 DEF CancelBegin, Ask, CancelTask
<1>19. CASE ShutdownEnds
  BY <1>19 DEF ShutdownEnds, ForgetAll, Forget
<1>20. CASE Crash
  BY <1>20 DEF Crash, ForgetAll, Forget
<1>21. CASE RecoverFiles
  BY <1>21 DEF RecoverFiles, BlockAll
<1>22. ASSUME NEW r \in Runs, RecoverOrphan(r) PROVE Closed'
  BY <1>22 DEF RecoverOrphan, OrphanTx, Move
<1> QED  BY <1>2, <1>3, <1>4, <1>5, <1>6, <1>7, <1>8, <1>9, <1>10, <1>11, <1>12, <1>13, <1>14,
    <1>15, <1>16, <1>17, <1>18, <1>19, <1>20, <1>21, <1>22 DEF Next, TaskStep, RequestStep,
    RequestArrives, Startup

\* A restore waits for the one inflight Run.
LEMMA EndedKeeps == Lifecycle /\ [Next]_vars => Ended'
<1> SUFFICES ASSUME Lifecycle, [Next]_vars PROVE Ended'
  OBVIOUS
<1> TypeOK /\ RequestsOK /\ RowsOK /\ Ended /\ Closing /\ Holds /\ OneInflight /\ OnThread /\
    RowOwned
  BY DEF Lifecycle, IInv, TypeOK, Bookkeeping
<1>1. UNCHANGED <<at, on, op, owner, run, target>> => Ended'
  BY DEF Ended, Writing, Cancelling, Restoring, Inflight, Terminal
<1>2. ASSUME NEW r \in Runs, Begin(r) \/ Load(r) \/ StopOld(r) \/ Capture(r) \/ SaveInput(r)
    \/ SaveFinal(r) \/ BeginRun(r) \/ AgentEnds(r) \/ Release(r) \/ Announce(r) \/
    FailRelease(r) \/ FailRead(r) \/ FailSave(r) \/ Cleanup(r) \/ Consume(r) \/ AgentBash(r)
    PROVE Ended'
  BY <1>2, <1>1 DEF Begin, Load, Proceed, Fail, StopOld, StopOrBlock, StopThread, Block,
      Capture, Store, SaveInput, SaveFinal, BeginRun, AgentEnds, Release, EndLease, Announce,
      FailRelease, ReleaseAgain, FailRead, FailSave, Cleanup, Consume, ReleaseRun,
      AgentBash, entryVars, dbVars, boxVars, taskVars, streamVars, reqVars, procVars
<1>3. ASSUME NEW t \in Threads, ReapIdle(t) PROVE Ended'
  BY <1>3, <1>1 DEF ReapIdle, entryVars, dbVars, boxVars, taskVars, streamVars, reqVars, procVars
<1>4. CASE Shutdown \/ RemoveOldContainers \/ RecoverFiles \/ Serve
  BY <1>4, <1>1 DEF Shutdown, RemoveOldContainers, RecoverFiles, BlockAll, Serve,
      entryVars, dbVars, boxVars, taskVars, streamVars, reqVars, procVars
<1>5. CASE UNCHANGED vars
  BY <1>5, <1>1 DEF vars, entryVars, dbVars, boxVars, taskVars, streamVars, reqVars, procVars
<1> USE AdmissionAssumption, LifecycleAssumption
    DEF RequestsOK, RowsOK, Ended, Closing, Holds, OneInflight,
    OnThread, RowOwned, Writing, Cancelling, Restoring, Inflight, Terminal, entryVars, dbVars,
    boxVars, taskVars, streamVars, reqVars, procVars
<1>6. ASSUME NEW r \in Runs, Start(r) \/ Finish(r) \/ FailWrite(r) PROVE Ended'
  BY <1>6 DEF Start, StartTx, Move, Proceed, Fail, Finish, FinishTx, FailWrite, InterruptTx,
      OrphanTx
<1>7. ASSUME NEW c \in Requests, CreateCommit(c) \/ CancelWoken(c) \/ CancelInterrupt(c) PROVE
    Ended'
  BY <1>7 DEF CreateCommit, RegisterRun, EndWrite, Free, CancelWoken,
      CancelReturns, CancelInterrupt, InterruptTx, Move
<1>8. ASSUME NEW c \in Requests, CancelAnnounce(c) \/ CancelClose(c) \/ RestoreStop(c) PROVE
    Ended'
  BY <1>8 DEF CancelAnnounce, CancelClose, CancelReturns, Free, EndWrite, RestoreStop,
      StopThread, BlockAndEndWrite
<1>9. ASSUME NEW c \in Requests, RestorePrepare(c) \/ RestoreFinish(c) \/ PreviewEnd(c) PROVE
    Ended'
  BY <1>9 DEF RestorePrepare, NoFault, Free, EndWrite, RestoreFinish,
      BlockAndEndWrite, PreviewEnd, StopThread
<1>10. ASSUME NEW c \in Requests, UploadEnd(c) \/ ReadEnd(c) \/ DeleteBox(c) PROVE Ended'
  BY <1>10 DEF UploadEnd, Free, EndWrite, ReadEnd, EndRead, DeleteBox, StopThread
<1>11. ASSUME NEW c \in Requests, DeleteRow(c) PROVE Ended'
  BY <1>11 DEF DeleteRow, Free, EndWrite
<1>12. ASSUME NEW c \in Requests, NEW t \in Threads, CreateBegin(c, t) \/ RestoreBegin(c, t)
    \/ PreviewBegin(c, t) PROVE Ended'
  BY <1>12 DEF CreateBegin, Ask, BeginWrite, MayWrite, Ready, RestoreBegin,
      CancelTask, InflightOn, RunsOf, PreviewBegin
<1>13. ASSUME NEW c \in Requests, NEW t \in Threads, UploadBegin(c, t) \/ ReadBegin(c, t) \/
    DeleteBegin(c, t) PROVE Ended'
  BY <1>13 DEF UploadBegin, Ask, BeginWrite, MayWrite, Ready, ReadBegin,
      BeginRead, DeleteBegin
<1>14. ASSUME NEW c \in Requests, NEW r \in Runs, CancelBegin(c, r) PROVE Ended'
  BY <1>14 DEF CancelBegin, Ask, CancelTask
<1>15. CASE ShutdownEnds
  BY <1>15 DEF ShutdownEnds, ForgetAll, Forget
<1>16. CASE Crash
  BY <1>16 DEF Crash, ForgetAll, Forget
<1>17. ASSUME NEW r \in Runs, RecoverOrphan(r) PROVE Ended'
  BY <1>17 DEF RecoverOrphan, OrphanTx, Move
<1> QED  BY <1>2, <1>3, <1>4, <1>5, <1>6, <1>7, <1>8, <1>9, <1>10, <1>11, <1>12, <1>13, <1>14,
    <1>15, <1>16, <1>17 DEF Next, TaskStep, RequestStep, RequestArrives, Startup

\* Nobody mounts the files after the container was stopped.
LEMMA UnmountedKeeps == Lifecycle /\ [Next]_vars => Unmounted'
<1> SUFFICES ASSUME Lifecycle, [Next]_vars PROVE Unmounted'
  OBVIOUS
<1> TypeOK /\ RequestsOK /\ BoxesOK /\ Unmounted /\ TaskRow /\ Ended /\ Leased /\ Holds /\
    OnThread
  BY DEF Lifecycle, IInv, TypeOK, Bookkeeping
<1>1. UNCHANGED <<at, container, lease, on>> => Unmounted'
  BY DEF Unmounted, Live, LivePc, WorkPc, FailPc, Writing, Cancelling, Restoring, Inflight,
      BeforeStart, Started, HoldsBox
<1>2. ASSUME NEW r \in Runs, Begin(r) \/ Load(r) \/ Capture(r) \/ SaveInput(r) \/ SaveFinal(r)
    \/ Start(r) \/ AgentEnds(r) \/ Finish(r) \/ Announce(r) \/ FailRead(r) \/ FailSave(r) \/
    FailWrite(r) \/ Consume(r) PROVE Unmounted'
  BY <1>2, <1>1 DEF Begin, Load, Proceed, Fail, Capture, Store, SaveInput, SaveFinal, Start,
      StartTx, Move, AgentEnds, Finish, FinishTx, Announce, FailRead, FailSave, FailWrite,
      InterruptTx, OrphanTx, Consume, ReleaseRun, entryVars, dbVars, boxVars, taskVars,
      streamVars, reqVars, procVars
<1>3. CASE Shutdown \/ RecoverFiles \/ Serve
  BY <1>3, <1>1 DEF Shutdown, RecoverFiles, BlockAll, Serve, entryVars, dbVars, boxVars,
      taskVars, streamVars, reqVars, procVars
<1>4. ASSUME NEW r \in Runs, RecoverOrphan(r) PROVE Unmounted'
  BY <1>4, <1>1 DEF RecoverOrphan, OrphanTx, Move, entryVars, dbVars, boxVars, taskVars,
      streamVars, reqVars, procVars
<1>5. CASE UNCHANGED vars
  BY <1>5, <1>1 DEF vars, entryVars, dbVars, boxVars, taskVars, streamVars, reqVars, procVars
<1> USE AdmissionAssumption, LifecycleAssumption
    DEF RequestsOK, BoxesOK, Unmounted, TaskRow, Ended, Leased, Holds,
    OnThread, Live, LivePc, WorkPc, FailPc, Writing, Cancelling, Restoring, Inflight,
    BeforeStart, Started, HoldsBox, entryVars, dbVars, boxVars, taskVars, streamVars, reqVars,
    procVars
<1>6. ASSUME NEW r \in Runs, StopOld(r) PROVE Unmounted'
  BY <1>6 DEF StopOld, StopOrBlock, StopThread, Fail, Block
<1>7. ASSUME NEW r \in Runs, BeginRun(r) PROVE Unmounted'
  <2>1. run[r] \in Inflight /\ Live(r)
    BY <1>7 DEF BeginRun
  <2>2. ASSUME NEW c \in Requests, at[c] \in {"prepare", "swapping"}, on[c] = owner[r] PROVE FALSE
    BY <2>1, <2>2
  <2>3. ASSUME NEW c \in Requests, at[c] = "deleteRow", on[c] = owner[r] PROVE FALSE
    BY <2>1, <2>3, WritingAlone
  <2>4. /\ \A t \in Threads : t # owner[r] => lease'[t] = lease[t]
        /\ UNCHANGED <<container, at, on>>
    BY <1>7 DEF BeginRun, Fail
  <2> QED  BY <2>2, <2>3, <2>4
<1>8. ASSUME NEW r \in Runs, Release(r) \/ FailRelease(r) \/ Cleanup(r) PROVE Unmounted'
  BY <1>8 DEF Release, EndLease, StopOrBlock, StopThread, Fail, Block, FailRelease,
      ReleaseAgain, Cleanup
<1>9. ASSUME NEW r \in Runs, AgentBash(r) PROVE Unmounted'
  BY <1>9 DEF AgentBash
<1>10. ASSUME NEW c \in Requests, CreateCommit(c) \/ CancelWoken(c) \/ CancelInterrupt(c)
    PROVE Unmounted'
  BY <1>10 DEF CreateCommit, RegisterRun, EndWrite, Free, CancelWoken,
      CancelReturns, CancelInterrupt, InterruptTx, Move
<1>11. ASSUME NEW c \in Requests, CancelAnnounce(c) \/ CancelClose(c) \/ RestoreStop(c) PROVE
    Unmounted'
  BY <1>11 DEF CancelAnnounce, CancelClose, CancelReturns, Free, EndWrite, RestoreStop,
      StopThread, BlockAndEndWrite
<1>12. ASSUME NEW c \in Requests, RestorePrepare(c) \/ RestoreFinish(c) \/ PreviewEnd(c) PROVE
    Unmounted'
  BY <1>12 DEF RestorePrepare, NoFault, Free, EndWrite, RestoreFinish,
      BlockAndEndWrite, PreviewEnd, StopThread
<1>13. ASSUME NEW c \in Requests, UploadEnd(c) \/ ReadEnd(c) \/ DeleteBox(c) PROVE Unmounted'
  BY <1>13 DEF UploadEnd, Free, EndWrite, ReadEnd, EndRead, DeleteBox, StopThread
<1>14. ASSUME NEW c \in Requests, DeleteRow(c) PROVE Unmounted'
  BY <1>14 DEF DeleteRow, Free, EndWrite
<1>15. ASSUME NEW c \in Requests, NEW t \in Threads, CreateBegin(c, t) \/ RestoreBegin(c, t)
    \/ PreviewBegin(c, t) PROVE Unmounted'
  BY <1>15 DEF CreateBegin, Ask, BeginWrite, MayWrite, Ready, RestoreBegin,
      CancelTask, InflightOn, RunsOf, PreviewBegin
<1>16. ASSUME NEW c \in Requests, NEW t \in Threads, UploadBegin(c, t) \/ ReadBegin(c, t) \/
    DeleteBegin(c, t) PROVE Unmounted'
  BY <1>16 DEF UploadBegin, Ask, BeginWrite, MayWrite, Ready, ReadBegin,
      BeginRead, DeleteBegin
<1>17. ASSUME NEW c \in Requests, NEW r \in Runs, CancelBegin(c, r) PROVE Unmounted'
  BY <1>17 DEF CancelBegin, Ask, CancelTask
<1>18. ASSUME NEW t \in Threads, ReapIdle(t) PROVE Unmounted'
  BY <1>18 DEF ReapIdle
<1>19. CASE ShutdownEnds
  BY <1>19 DEF ShutdownEnds, ForgetAll, Forget
<1>20. CASE Crash
  BY <1>20 DEF Crash, ForgetAll, Forget
<1>21. CASE RemoveOldContainers
  BY <1>21 DEF RemoveOldContainers
<1> QED  BY <1>2, <1>3, <1>4, <1>5, <1>6, <1>7, <1>8, <1>9, <1>10, <1>11, <1>12, <1>13, <1>14,
    <1>15, <1>16, <1>17, <1>18, <1>19, <1>20, <1>21 DEF Next, TaskStep, RequestStep,
    RequestArrives, Startup

\* Nothing comes to a deleted Thread.
LEMMA EmptiedKeeps == Lifecycle /\ [Next]_vars => Emptied'
<1> SUFFICES ASSUME Lifecycle, [Next]_vars PROVE Emptied'
  OBVIOUS
<1> TypeOK /\ RowsOK /\ BoxesOK /\ Emptied /\ TaskRow /\ Unmounted /\ Building /\ RowOwned /\
    OnThread
  BY DEF Lifecycle, IInv, TypeOK, Bookkeeping
<1>1. UNCHANGED <<container, lease, owner, run, thread>> => Emptied'
  BY DEF Emptied, Live, LivePc, WorkPc, FailPc, Inflight, Terminal, BeforeStart, Started
<1>2. ASSUME NEW r \in Runs, Begin(r) \/ Load(r) \/ Capture(r) \/ SaveInput(r) \/ SaveFinal(r)
    \/ AgentEnds(r) \/ Announce(r) \/ FailRead(r) \/ FailSave(r) \/ Consume(r) PROVE Emptied'
  BY <1>2, <1>1 DEF Begin, Load, Proceed, Fail, Capture, Store, SaveInput, SaveFinal,
      AgentEnds, Announce, FailRead, FailSave, Consume, ReleaseRun, entryVars, dbVars,
      boxVars, taskVars, streamVars, reqVars, procVars
<1>3. ASSUME NEW c \in Requests, CancelWoken(c) \/ CancelAnnounce(c) \/ CancelClose(c) \/
    RestorePrepare(c) \/ RestoreFinish(c) \/ UploadEnd(c) \/ ReadEnd(c) PROVE Emptied'
  BY <1>3, <1>1 DEF CancelWoken, CancelReturns, Free, EndWrite, CancelAnnounce,
      CancelClose, RestorePrepare, NoFault, RestoreFinish, BlockAndEndWrite, UploadEnd,
      ReadEnd, EndRead, entryVars, dbVars, boxVars, taskVars, streamVars, reqVars, procVars
<1>4. ASSUME NEW c \in Requests, NEW t \in Threads, CreateBegin(c, t) \/ RestoreBegin(c, t) \/
    PreviewBegin(c, t) \/ UploadBegin(c, t) \/ ReadBegin(c, t) \/ DeleteBegin(c, t) PROVE Emptied'
  BY <1>4, <1>1 DEF CreateBegin, Ask, BeginWrite, MayWrite, Ready, RestoreBegin,
      CancelTask, InflightOn, RunsOf, PreviewBegin, UploadBegin, ReadBegin, BeginRead,
      DeleteBegin, entryVars, dbVars, boxVars, taskVars, streamVars, reqVars, procVars
<1>5. ASSUME NEW c \in Requests, NEW r \in Runs, CancelBegin(c, r) PROVE Emptied'
  BY <1>5, <1>1 DEF CancelBegin, Ask, CancelTask, entryVars, dbVars, boxVars, taskVars,
      streamVars, reqVars, procVars
<1>6. CASE Shutdown \/ RecoverFiles \/ Serve
  BY <1>6, <1>1 DEF Shutdown, RecoverFiles, BlockAll, Serve, entryVars, dbVars, boxVars,
      taskVars, streamVars, reqVars, procVars
<1>7. CASE UNCHANGED vars
  BY <1>7, <1>1 DEF vars, entryVars, dbVars, boxVars, taskVars, streamVars, reqVars, procVars
<1> USE AdmissionAssumption, LifecycleAssumption
    DEF RowsOK, BoxesOK, Emptied, TaskRow, Unmounted, Building,
    RowOwned, OnThread, Live, LivePc, WorkPc, FailPc, Inflight, Terminal, BeforeStart,
    Started, entryVars, dbVars, boxVars, taskVars, streamVars, reqVars, procVars
<1>8. ASSUME NEW r \in Runs, StopOld(r) \/ Start(r) \/ BeginRun(r) PROVE Emptied'
  BY <1>8 DEF StopOld, StopOrBlock, StopThread, Fail, Block, Start, StartTx, Move,
      Proceed, BeginRun
<1>9. ASSUME NEW r \in Runs, Release(r) \/ Finish(r) \/ FailRelease(r) PROVE Emptied'
  BY <1>9 DEF Release, EndLease, StopOrBlock, StopThread, Fail, Block, Finish, FinishTx,
      Move, Proceed, FailRelease, ReleaseAgain
<1>10. ASSUME NEW r \in Runs, FailWrite(r) \/ Cleanup(r) \/ AgentBash(r) PROVE Emptied'
  BY <1>10 DEF FailWrite, InterruptTx, FinishTx, OrphanTx, Move, Cleanup, ReleaseAgain,
      EndLease, StopThread, Block, AgentBash
<1>11. ASSUME NEW c \in Requests, CreateCommit(c) \/ CancelInterrupt(c) \/ RestoreStop(c)
    PROVE Emptied'
  BY <1>11 DEF CreateCommit, RegisterRun, EndWrite, Free, CancelInterrupt,
      InterruptTx, Move, RestoreStop, StopThread, BlockAndEndWrite
<1>12. ASSUME NEW c \in Requests, PreviewEnd(c) \/ DeleteBox(c) \/ DeleteRow(c) PROVE Emptied'
  BY <1>12 DEF PreviewEnd, StopThread, Free, EndWrite, DeleteBox, DeleteRow
<1>13. ASSUME NEW t \in Threads, ReapIdle(t) PROVE Emptied'
  BY <1>13 DEF ReapIdle
<1>14. CASE ShutdownEnds
  BY <1>14 DEF ShutdownEnds, ForgetAll, Forget
<1>15. CASE Crash
  BY <1>15 DEF Crash, ForgetAll, Forget
<1>16. CASE RemoveOldContainers
  BY <1>16 DEF RemoveOldContainers
<1>17. ASSUME NEW r \in Runs, RecoverOrphan(r) PROVE Emptied'
  BY <1>17 DEF RecoverOrphan, OrphanTx, Move
<1> QED  BY <1>2, <1>3, <1>4, <1>5, <1>6, <1>7, <1>8, <1>9, <1>10, <1>11, <1>12, <1>13, <1>14,
    <1>15, <1>16, <1>17 DEF Next, TaskStep, RequestStep, RequestArrives, Startup

\* A Thread is not deleted while a Run is being created.
LEMMA BuildingKeeps == Lifecycle /\ [Next]_vars => Building'
<1> SUFFICES ASSUME Lifecycle, [Next]_vars PROVE Building'
  OBVIOUS
<1> TypeOK /\ RequestsOK /\ RowsOK /\ Building /\ Holds /\ OnThread /\ RowOwned
  BY DEF Lifecycle, IInv, TypeOK, Bookkeeping
<1>1. UNCHANGED <<at, on, thread>> => Building'
  BY DEF Building, Writing, Restoring, Inflight, Terminal
<1>2. ASSUME NEW r \in Runs, Begin(r) \/ Load(r) \/ StopOld(r) \/ Capture(r) \/ SaveInput(r)
    \/ SaveFinal(r) \/ BeginRun(r) \/ AgentEnds(r) \/ Release(r) \/ Announce(r) \/
    FailRelease(r) \/ FailRead(r) \/ FailSave(r) \/ Cleanup(r) \/ Consume(r) \/ AgentBash(r)
    PROVE Building'
  BY <1>2, <1>1 DEF Begin, Load, Proceed, Fail, StopOld, StopOrBlock, StopThread, Block,
      Capture, Store, SaveInput, SaveFinal, BeginRun, AgentEnds, Release, EndLease, Announce,
      FailRelease, ReleaseAgain, FailRead, FailSave, Cleanup, Consume, ReleaseRun,
      AgentBash, entryVars, dbVars, boxVars, taskVars, streamVars, reqVars, procVars
<1>3. ASSUME NEW t \in Threads, ReapIdle(t) PROVE Building'
  BY <1>3, <1>1 DEF ReapIdle, entryVars, dbVars, boxVars, taskVars, streamVars, reqVars, procVars
<1>4. CASE Shutdown \/ RemoveOldContainers \/ RecoverFiles \/ Serve
  BY <1>4, <1>1 DEF Shutdown, RemoveOldContainers, RecoverFiles, BlockAll, Serve,
      entryVars, dbVars, boxVars, taskVars, streamVars, reqVars, procVars
<1>5. CASE UNCHANGED vars
  BY <1>5, <1>1 DEF vars, entryVars, dbVars, boxVars, taskVars, streamVars, reqVars, procVars
<1> USE AdmissionAssumption, LifecycleAssumption
    DEF RequestsOK, RowsOK, Building, Holds, OnThread, RowOwned,
    Writing, Restoring, Inflight, Terminal, entryVars, dbVars, boxVars, taskVars, streamVars,
    reqVars, procVars
<1>6. ASSUME NEW r \in Runs, Start(r) \/ Finish(r) \/ FailWrite(r) PROVE Building'
  BY <1>6 DEF Start, StartTx, Move, Proceed, Fail, Finish, FinishTx, FailWrite, InterruptTx,
      OrphanTx
<1>7. ASSUME NEW c \in Requests, CreateCommit(c) \/ CancelWoken(c) \/ CancelInterrupt(c) PROVE
    Building'
  BY <1>7 DEF CreateCommit, RegisterRun, EndWrite, Free, CancelWoken,
      CancelReturns, CancelInterrupt, InterruptTx, Move
<1>8. ASSUME NEW c \in Requests, CancelAnnounce(c) \/ CancelClose(c) \/ RestoreStop(c) PROVE
    Building'
  BY <1>8 DEF CancelAnnounce, CancelClose, CancelReturns, Free, EndWrite, RestoreStop,
      StopThread, BlockAndEndWrite
<1>9. ASSUME NEW c \in Requests, RestorePrepare(c) \/ RestoreFinish(c) \/ PreviewEnd(c) PROVE
    Building'
  BY <1>9 DEF RestorePrepare, NoFault, Free, EndWrite, RestoreFinish,
      BlockAndEndWrite, PreviewEnd, StopThread
<1>10. ASSUME NEW c \in Requests, UploadEnd(c) \/ ReadEnd(c) \/ DeleteBox(c) PROVE Building'
  BY <1>10 DEF UploadEnd, Free, EndWrite, ReadEnd, EndRead, DeleteBox, StopThread
<1>11. ASSUME NEW c \in Requests, DeleteRow(c) PROVE Building'
  BY <1>11 DEF DeleteRow, Free, EndWrite
<1>12. ASSUME NEW c \in Requests, NEW t \in Threads, CreateBegin(c, t) \/ RestoreBegin(c, t)
    \/ PreviewBegin(c, t) PROVE Building'
  BY <1>12 DEF CreateBegin, Ask, BeginWrite, MayWrite, Ready, RestoreBegin,
      CancelTask, InflightOn, RunsOf, PreviewBegin
<1>13. ASSUME NEW c \in Requests, NEW t \in Threads, UploadBegin(c, t) \/ ReadBegin(c, t) \/
    DeleteBegin(c, t) PROVE Building'
  BY <1>13 DEF UploadBegin, Ask, BeginWrite, MayWrite, Ready, ReadBegin,
      BeginRead, DeleteBegin
<1>14. ASSUME NEW c \in Requests, NEW r \in Runs, CancelBegin(c, r) PROVE Building'
  BY <1>14 DEF CancelBegin, Ask, CancelTask
<1>15. CASE ShutdownEnds
  BY <1>15 DEF ShutdownEnds, ForgetAll, Forget
<1>16. CASE Crash
  BY <1>16 DEF Crash, ForgetAll, Forget
<1>17. ASSUME NEW r \in Runs, RecoverOrphan(r) PROVE Building'
  BY <1>17 DEF RecoverOrphan, OrphanTx, Move
<1> QED  BY <1>2, <1>3, <1>4, <1>5, <1>6, <1>7, <1>8, <1>9, <1>10, <1>11, <1>12, <1>13, <1>14,
    <1>15, <1>16, <1>17 DEF Next, TaskStep, RequestStep, RequestArrives, Startup

\* Only its task gives a lease back.
LEMMA LeasedKeeps == Lifecycle /\ [Next]_vars => Leased'
<1> SUFFICES ASSUME Lifecycle, [Next]_vars PROVE Leased'
  OBVIOUS
<1> TypeOK /\ BoxesOK /\ TasksOK /\ RowsOK /\ Leased /\ TaskRow /\ Bookkeeping /\ OnThread /\
    RowOwned /\ LiveRegistered
  BY DEF Lifecycle, IInv, TypeOK, Bookkeeping
<1>1. UNCHANGED <<lease, owner, pc>> => Leased'
  BY DEF Leased, Live, LivePc, WorkPc, FailPc, HoldsBox, OnThread, RowOwned, LiveRegistered
<1>2. ASSUME NEW r \in Runs, AgentBash(r) PROVE Leased'
  BY <1>2, <1>1 DEF AgentBash, entryVars, dbVars, boxVars, taskVars, streamVars, reqVars, procVars
<1>3. ASSUME NEW c \in Requests, CancelWoken(c) \/ CancelInterrupt(c) \/ CancelAnnounce(c) \/
    CancelClose(c) \/ RestorePrepare(c) \/ RestoreFinish(c) \/ PreviewEnd(c) \/ UploadEnd(c)
    \/ ReadEnd(c) \/ DeleteBox(c) \/ DeleteRow(c) PROVE Leased'
  BY <1>3, <1>1 DEF CancelWoken, CancelReturns, Free, EndWrite, CancelInterrupt,
      InterruptTx, Move, CancelAnnounce, CancelClose, RestorePrepare, NoFault, RestoreFinish,
      BlockAndEndWrite, PreviewEnd, StopThread, UploadEnd, ReadEnd, EndRead,
      DeleteBox, DeleteRow, entryVars, dbVars, boxVars, taskVars, streamVars, reqVars, procVars
<1>4. ASSUME NEW c \in Requests, NEW t \in Threads, CreateBegin(c, t) \/ RestoreBegin(c, t) \/
    PreviewBegin(c, t) \/ UploadBegin(c, t) \/ ReadBegin(c, t) \/ DeleteBegin(c, t) PROVE Leased'
  BY <1>4, <1>1 DEF CreateBegin, Ask, BeginWrite, MayWrite, Ready, RestoreBegin,
      CancelTask, InflightOn, RunsOf, PreviewBegin, UploadBegin, ReadBegin, BeginRead,
      DeleteBegin, entryVars, dbVars, boxVars, taskVars, streamVars, reqVars, procVars
<1>5. ASSUME NEW c \in Requests, NEW r \in Runs, CancelBegin(c, r) PROVE Leased'
  BY <1>5, <1>1 DEF CancelBegin, Ask, CancelTask, entryVars, dbVars, boxVars, taskVars,
      streamVars, reqVars, procVars
<1>6. ASSUME NEW t \in Threads, ReapIdle(t) PROVE Leased'
  BY <1>6, <1>1 DEF ReapIdle, entryVars, dbVars, boxVars, taskVars, streamVars, reqVars, procVars
<1>7. CASE Shutdown \/ RemoveOldContainers \/ RecoverFiles \/ Serve
  BY <1>7, <1>1 DEF Shutdown, RemoveOldContainers, RecoverFiles, BlockAll, Serve,
      entryVars, dbVars, boxVars, taskVars, streamVars, reqVars, procVars
<1>8. ASSUME NEW r \in Runs, RecoverOrphan(r) PROVE Leased'
  BY <1>8, <1>1 DEF RecoverOrphan, OrphanTx, Move, entryVars, dbVars, boxVars, taskVars,
      streamVars, reqVars, procVars
<1>9. CASE UNCHANGED vars
  BY <1>9, <1>1 DEF vars, entryVars, dbVars, boxVars, taskVars, streamVars, reqVars, procVars
<1> USE AdmissionAssumption, LifecycleAssumption
    DEF BoxesOK, TasksOK, RowsOK, Leased, TaskRow, Bookkeeping,
    OnThread, RowOwned, LiveRegistered, Live, LivePc, WorkPc, FailPc, HoldsBox, OnThread,
    RowOwned, LiveRegistered, entryVars, dbVars, boxVars, taskVars, streamVars, reqVars, procVars
<1>10. ASSUME NEW r \in Runs, Begin(r) \/ Load(r) \/ StopOld(r) PROVE Leased'
  BY <1>10 DEF Begin, Load, Proceed, Fail, StopOld, StopOrBlock, StopThread, Block
<1>11. ASSUME NEW r \in Runs, Capture(r) \/ SaveInput(r) \/ SaveFinal(r) PROVE Leased'
  BY <1>11 DEF Capture, Store, Proceed, Fail, SaveInput, SaveFinal
<1>12. ASSUME NEW r \in Runs, Start(r) \/ BeginRun(r) \/ AgentEnds(r) PROVE Leased'
  BY <1>12 DEF Start, StartTx, Move, Proceed, Fail, BeginRun, AgentEnds
<1>13. ASSUME NEW r \in Runs, Release(r) \/ Finish(r) \/ Announce(r) PROVE Leased'
  BY <1>13 DEF Release, EndLease, StopOrBlock, StopThread, Fail, Block, Finish,
      FinishTx, Move, Proceed, Announce
<1>14. ASSUME NEW r \in Runs, FailRelease(r) \/ FailRead(r) \/ FailSave(r) PROVE Leased'
  BY <1>14 DEF FailRelease, ReleaseAgain, EndLease, StopThread, Block, FailRead, FailSave
<1>15. ASSUME NEW r \in Runs, FailWrite(r) \/ Cleanup(r) \/ Consume(r) PROVE Leased'
  BY <1>15 DEF FailWrite, InterruptTx, FinishTx, OrphanTx, Move, Cleanup, ReleaseAgain,
      EndLease, StopThread, Block, Consume, ReleaseRun
<1>16. ASSUME NEW c \in Requests, CreateCommit(c) \/ RestoreStop(c) PROVE Leased'
  BY <1>16 DEF CreateCommit, RegisterRun, EndWrite, Free, RestoreStop, StopThread,
      BlockAndEndWrite
<1>17. CASE ShutdownEnds
  BY <1>17 DEF ShutdownEnds, ForgetAll, Forget
<1>18. CASE Crash
  BY <1>18 DEF Crash, ForgetAll, Forget
<1> QED  BY <1>2, <1>3, <1>4, <1>5, <1>6, <1>7, <1>8, <1>9, <1>10, <1>11, <1>12, <1>13, <1>14,
    <1>15, <1>16, <1>17, <1>18 DEF Next, TaskStep, RequestStep, RequestArrives, Startup

\* A container that could not be stopped blocks its Thread.
LEMMA StrayBlocksKeeps == Lifecycle /\ [Next]_vars => StrayBlocks'
<1> SUFFICES ASSUME Lifecycle, [Next]_vars PROVE StrayBlocks'
  OBVIOUS
<1> TypeOK /\ ProcessOK /\ BoxesOK /\ EntryOK /\ RowsOK /\ TasksOK /\ StrayBlocks /\
    TaskRow /\ Silent /\ CleanStart /\ RowOwned /\ OnThread
  BY DEF Lifecycle, IInv, TypeOK, Bookkeeping
<1>1. UNCHANGED <<blocked, container, owner, pc, up>> => StrayBlocks'
  BY DEF StrayBlocks, Live, LivePc, WorkPc, FailPc, Serving, HoldsBox
<1>2. ASSUME NEW c \in Requests, CancelWoken(c) \/ CancelInterrupt(c) \/ CancelAnnounce(c) \/
    CancelClose(c) \/ RestorePrepare(c) \/ UploadEnd(c) \/ ReadEnd(c) \/ DeleteRow(c) PROVE
    StrayBlocks'
  BY <1>2, <1>1 DEF CancelWoken, CancelReturns, Free, EndWrite, CancelInterrupt,
      InterruptTx, Move, CancelAnnounce, CancelClose, RestorePrepare, NoFault, UploadEnd,
      ReadEnd, EndRead, DeleteRow, entryVars, dbVars, boxVars, taskVars, streamVars,
      reqVars, procVars
<1>3. ASSUME NEW c \in Requests, NEW t \in Threads, CreateBegin(c, t) \/ RestoreBegin(c, t) \/
    PreviewBegin(c, t) \/ UploadBegin(c, t) \/ ReadBegin(c, t) \/ DeleteBegin(c, t) PROVE
    StrayBlocks'
  BY <1>3, <1>1 DEF CreateBegin, Ask, BeginWrite, MayWrite, Ready, RestoreBegin,
      CancelTask, InflightOn, RunsOf, PreviewBegin, UploadBegin, ReadBegin, BeginRead,
      DeleteBegin, entryVars, dbVars, boxVars, taskVars, streamVars, reqVars, procVars
<1>4. ASSUME NEW c \in Requests, NEW r \in Runs, CancelBegin(c, r) PROVE StrayBlocks'
  BY <1>4, <1>1 DEF CancelBegin, Ask, CancelTask, entryVars, dbVars, boxVars, taskVars,
      streamVars, reqVars, procVars
<1>5. ASSUME NEW r \in Runs, RecoverOrphan(r) PROVE StrayBlocks'
  BY <1>5, <1>1 DEF RecoverOrphan, OrphanTx, Move, entryVars, dbVars, boxVars, taskVars,
      streamVars, reqVars, procVars
<1>6. CASE UNCHANGED vars
  BY <1>6, <1>1 DEF vars, entryVars, dbVars, boxVars, taskVars, streamVars, reqVars, procVars
<1> USE AdmissionAssumption, LifecycleAssumption
    DEF ProcessOK, BoxesOK, EntryOK, RowsOK, TasksOK,
    StrayBlocks, TaskRow, Silent, CleanStart, RowOwned, OnThread, Live, LivePc, WorkPc,
    FailPc, Serving, HoldsBox, entryVars, dbVars, boxVars, taskVars, streamVars, reqVars, procVars
<1>7. ASSUME NEW r \in Runs, Begin(r) \/ Load(r) \/ StopOld(r) PROVE StrayBlocks'
  BY <1>7 DEF Begin, Load, Proceed, Fail, StopOld, StopOrBlock, StopThread, Block
<1>8. ASSUME NEW r \in Runs, Capture(r) \/ SaveInput(r) \/ SaveFinal(r) PROVE StrayBlocks'
  BY <1>8 DEF Capture, Store, Proceed, Fail, SaveInput, SaveFinal
<1>9. ASSUME NEW r \in Runs, Start(r) \/ BeginRun(r) \/ AgentEnds(r) PROVE StrayBlocks'
  BY <1>9 DEF Start, StartTx, Move, Proceed, Fail, BeginRun, AgentEnds
<1>10. ASSUME NEW r \in Runs, Release(r) \/ Finish(r) \/ Announce(r) PROVE StrayBlocks'
  BY <1>10 DEF Release, EndLease, StopOrBlock, StopThread, Fail, Block, Finish,
      FinishTx, Move, Proceed, Announce
<1>11. ASSUME NEW r \in Runs, FailRelease(r) \/ FailRead(r) \/ FailSave(r) PROVE StrayBlocks'
  BY <1>11 DEF FailRelease, ReleaseAgain, EndLease, StopThread, Block, FailRead, FailSave
<1>12. ASSUME NEW r \in Runs, FailWrite(r) \/ Cleanup(r) \/ Consume(r) PROVE StrayBlocks'
  BY <1>12 DEF FailWrite, InterruptTx, FinishTx, OrphanTx, Move, Cleanup, ReleaseAgain,
      EndLease, StopThread, Block, Consume, ReleaseRun
<1>13. ASSUME NEW r \in Runs, AgentBash(r) PROVE StrayBlocks'
  BY <1>13 DEF AgentBash
<1>14. ASSUME NEW c \in Requests, CreateCommit(c) \/ RestoreStop(c) \/ RestoreFinish(c) PROVE
    StrayBlocks'
  BY <1>14 DEF CreateCommit, RegisterRun, EndWrite, Free, RestoreStop, StopThread,
      BlockAndEndWrite, RestoreFinish
<1>15. ASSUME NEW c \in Requests, PreviewEnd(c) \/ DeleteBox(c) PROVE StrayBlocks'
  BY <1>15 DEF PreviewEnd, StopThread, Free, EndWrite, DeleteBox
<1>16. ASSUME NEW t \in Threads, ReapIdle(t) PROVE StrayBlocks'
  BY <1>16 DEF ReapIdle
<1>17. CASE Shutdown
  BY <1>17 DEF Shutdown
<1>18. CASE ShutdownEnds
  BY <1>18 DEF ShutdownEnds, ForgetAll, Forget
<1>19. CASE Crash
  BY <1>19 DEF Crash, ForgetAll, Forget
<1>20. CASE RemoveOldContainers
  BY <1>20 DEF RemoveOldContainers
<1>21. CASE RecoverFiles
  BY <1>21 DEF RecoverFiles, BlockAll
<1>22. CASE Serve
  BY <1>22 DEF Serve
<1> QED  BY <1>2, <1>3, <1>4, <1>5, <1>6, <1>7, <1>8, <1>9, <1>10, <1>11, <1>12, <1>13, <1>14,
    <1>15, <1>16, <1>17, <1>18, <1>19, <1>20, <1>21, <1>22 DEF Next, TaskStep, RequestStep,
    RequestArrives, Startup

\* What a task has saved stays.
LEMMA FinalSavedKeeps == Lifecycle /\ [Next]_vars => FinalSaved'
<1> SUFFICES ASSUME Lifecycle, [Next]_vars PROVE FinalSaved'
  OBVIOUS
<1> TypeOK /\ TasksOK /\ RowsOK /\ FinalSaved
  BY DEF Lifecycle, IInv, TypeOK, Bookkeeping
<1>1. UNCHANGED <<pc, saved>> => FinalSaved'
  BY DEF FinalSaved
<1>2. ASSUME NEW r \in Runs, AgentBash(r) PROVE FinalSaved'
  BY <1>2, <1>1 DEF AgentBash, entryVars, dbVars, boxVars, taskVars, streamVars, reqVars, procVars
<1>3. ASSUME NEW c \in Requests, CancelWoken(c) \/ CancelInterrupt(c) \/ CancelAnnounce(c) \/
    CancelClose(c) \/ RestoreStop(c) \/ RestorePrepare(c) \/ RestoreFinish(c) \/ PreviewEnd(c)
    \/ UploadEnd(c) \/ ReadEnd(c) \/ DeleteBox(c) \/ DeleteRow(c) PROVE FinalSaved'
  BY <1>3, <1>1 DEF CancelWoken, CancelReturns, Free, EndWrite, CancelInterrupt,
      InterruptTx, Move, CancelAnnounce, CancelClose, RestoreStop, StopThread,
      BlockAndEndWrite, RestorePrepare, NoFault, RestoreFinish, PreviewEnd, UploadEnd,
      ReadEnd, EndRead, DeleteBox, DeleteRow, entryVars, dbVars, boxVars, taskVars,
      streamVars, reqVars, procVars
<1>4. ASSUME NEW c \in Requests, NEW t \in Threads, CreateBegin(c, t) \/ RestoreBegin(c, t) \/
    PreviewBegin(c, t) \/ UploadBegin(c, t) \/ ReadBegin(c, t) \/ DeleteBegin(c, t) PROVE
    FinalSaved'
  BY <1>4, <1>1 DEF CreateBegin, Ask, BeginWrite, MayWrite, Ready, RestoreBegin,
      CancelTask, InflightOn, RunsOf, PreviewBegin, UploadBegin, ReadBegin, BeginRead,
      DeleteBegin, entryVars, dbVars, boxVars, taskVars, streamVars, reqVars, procVars
<1>5. ASSUME NEW c \in Requests, NEW r \in Runs, CancelBegin(c, r) PROVE FinalSaved'
  BY <1>5, <1>1 DEF CancelBegin, Ask, CancelTask, entryVars, dbVars, boxVars, taskVars,
      streamVars, reqVars, procVars
<1>6. ASSUME NEW t \in Threads, ReapIdle(t) PROVE FinalSaved'
  BY <1>6, <1>1 DEF ReapIdle, entryVars, dbVars, boxVars, taskVars, streamVars, reqVars, procVars
<1>7. CASE Shutdown \/ RemoveOldContainers \/ RecoverFiles \/ Serve
  BY <1>7, <1>1 DEF Shutdown, RemoveOldContainers, RecoverFiles, BlockAll, Serve,
      entryVars, dbVars, boxVars, taskVars, streamVars, reqVars, procVars
<1>8. ASSUME NEW r \in Runs, RecoverOrphan(r) PROVE FinalSaved'
  BY <1>8, <1>1 DEF RecoverOrphan, OrphanTx, Move, entryVars, dbVars, boxVars, taskVars,
      streamVars, reqVars, procVars
<1>9. CASE UNCHANGED vars
  BY <1>9, <1>1 DEF vars, entryVars, dbVars, boxVars, taskVars, streamVars, reqVars, procVars
<1> USE AdmissionAssumption, LifecycleAssumption
    DEF TasksOK, RowsOK, FinalSaved, entryVars, dbVars, boxVars,
    taskVars, streamVars, reqVars, procVars
<1>10. ASSUME NEW r \in Runs, Begin(r) \/ Load(r) \/ StopOld(r) PROVE FinalSaved'
  BY <1>10 DEF Begin, Load, Proceed, Fail, StopOld, StopOrBlock, StopThread, Block
<1>11. ASSUME NEW r \in Runs, Capture(r) \/ SaveInput(r) \/ SaveFinal(r) PROVE FinalSaved'
  BY <1>11 DEF Capture, Store, Proceed, Fail, SaveInput, SaveFinal
<1>12. ASSUME NEW r \in Runs, Start(r) \/ BeginRun(r) \/ AgentEnds(r) PROVE FinalSaved'
  BY <1>12 DEF Start, StartTx, Move, Proceed, Fail, BeginRun, AgentEnds
<1>13. ASSUME NEW r \in Runs, Release(r) \/ Finish(r) \/ Announce(r) PROVE FinalSaved'
  BY <1>13 DEF Release, EndLease, StopOrBlock, StopThread, Fail, Block, Finish,
      FinishTx, Move, Proceed, Announce
<1>14. ASSUME NEW r \in Runs, FailRelease(r) \/ FailRead(r) \/ FailSave(r) PROVE FinalSaved'
  BY <1>14 DEF FailRelease, ReleaseAgain, EndLease, StopThread, Block, FailRead, FailSave
<1>15. ASSUME NEW r \in Runs, FailWrite(r) \/ Cleanup(r) \/ Consume(r) PROVE FinalSaved'
  BY <1>15 DEF FailWrite, InterruptTx, FinishTx, OrphanTx, Move, Cleanup, ReleaseAgain,
      EndLease, StopThread, Block, Consume, ReleaseRun
<1>16. ASSUME NEW c \in Requests, CreateCommit(c) PROVE FinalSaved'
  BY <1>16 DEF CreateCommit, RegisterRun, EndWrite, Free
<1>17. CASE ShutdownEnds
  BY <1>17 DEF ShutdownEnds, ForgetAll, Forget
<1>18. CASE Crash
  BY <1>18 DEF Crash, ForgetAll, Forget
<1> QED  BY <1>2, <1>3, <1>4, <1>5, <1>6, <1>7, <1>8, <1>9, <1>10, <1>11, <1>12, <1>13, <1>14,
    <1>15, <1>16, <1>17, <1>18 DEF Next, TaskStep, RequestStep, RequestArrives, Startup

\* A success is saved and has no lease.
LEMMA DurableKeeps == Lifecycle /\ [Next]_vars => Durable'
<1> SUFFICES ASSUME Lifecycle, [Next]_vars PROVE Durable'
  OBVIOUS
<1> TypeOK /\ RowsOK /\ BoxesOK /\ Durable /\ TaskRow /\ FinalSaved /\ Leased /\ RowOwned
  BY DEF Lifecycle, IInv, TypeOK, Bookkeeping
<1>1. UNCHANGED <<lease, owner, run, saved>> => Durable'
  BY DEF Durable, Live, LivePc, WorkPc, FailPc, Inflight, Terminal, BeforeStart, Started, HoldsBox
<1>2. ASSUME NEW r \in Runs, Begin(r) \/ Load(r) \/ StopOld(r) \/ AgentEnds(r) \/ Announce(r)
    \/ FailRead(r) \/ FailSave(r) \/ Consume(r) \/ AgentBash(r) PROVE Durable'
  BY <1>2, <1>1 DEF Begin, Load, Proceed, Fail, StopOld, StopOrBlock, StopThread, Block,
      AgentEnds, Announce, FailRead, FailSave, Consume, ReleaseRun, AgentBash,
      entryVars, dbVars, boxVars, taskVars, streamVars, reqVars, procVars
<1>3. ASSUME NEW c \in Requests, CancelWoken(c) \/ CancelAnnounce(c) \/ CancelClose(c) \/
    RestorePrepare(c) \/ RestoreFinish(c) \/ PreviewEnd(c) \/ UploadEnd(c) \/ ReadEnd(c) \/
    DeleteBox(c) PROVE Durable'
  BY <1>3, <1>1 DEF CancelWoken, CancelReturns, Free, EndWrite, CancelAnnounce,
      CancelClose, RestorePrepare, NoFault, RestoreFinish, BlockAndEndWrite, PreviewEnd,
      StopThread, UploadEnd, ReadEnd, EndRead, DeleteBox, entryVars, dbVars, boxVars,
      taskVars, streamVars, reqVars, procVars
<1>4. ASSUME NEW c \in Requests, NEW t \in Threads, CreateBegin(c, t) \/ RestoreBegin(c, t) \/
    PreviewBegin(c, t) \/ UploadBegin(c, t) \/ ReadBegin(c, t) \/ DeleteBegin(c, t) PROVE Durable'
  BY <1>4, <1>1 DEF CreateBegin, Ask, BeginWrite, MayWrite, Ready, RestoreBegin,
      CancelTask, InflightOn, RunsOf, PreviewBegin, UploadBegin, ReadBegin, BeginRead,
      DeleteBegin, entryVars, dbVars, boxVars, taskVars, streamVars, reqVars, procVars
<1>5. ASSUME NEW c \in Requests, NEW r \in Runs, CancelBegin(c, r) PROVE Durable'
  BY <1>5, <1>1 DEF CancelBegin, Ask, CancelTask, entryVars, dbVars, boxVars, taskVars,
      streamVars, reqVars, procVars
<1>6. ASSUME NEW t \in Threads, ReapIdle(t) PROVE Durable'
  BY <1>6, <1>1 DEF ReapIdle, entryVars, dbVars, boxVars, taskVars, streamVars, reqVars, procVars
<1>7. CASE Shutdown \/ RemoveOldContainers \/ RecoverFiles \/ Serve
  BY <1>7, <1>1 DEF Shutdown, RemoveOldContainers, RecoverFiles, BlockAll, Serve,
      entryVars, dbVars, boxVars, taskVars, streamVars, reqVars, procVars
<1>8. CASE UNCHANGED vars
  BY <1>8, <1>1 DEF vars, entryVars, dbVars, boxVars, taskVars, streamVars, reqVars, procVars
<1> USE AdmissionAssumption, LifecycleAssumption
    DEF RowsOK, BoxesOK, Durable, TaskRow, FinalSaved, Leased,
    RowOwned, Live, LivePc, WorkPc, FailPc, Inflight, Terminal, BeforeStart, Started,
    HoldsBox, entryVars, dbVars, boxVars, taskVars, streamVars, reqVars, procVars
<1>9. ASSUME NEW r \in Runs, Capture(r) \/ SaveInput(r) \/ SaveFinal(r) PROVE Durable'
  BY <1>9 DEF Capture, Store, Proceed, Fail, SaveInput, SaveFinal
<1>10. ASSUME NEW r \in Runs, Start(r) \/ BeginRun(r) \/ Release(r) PROVE Durable'
  BY <1>10 DEF Start, StartTx, Move, Proceed, Fail, BeginRun, Release, EndLease, StopOrBlock,
      StopThread, Block
<1>11. ASSUME NEW r \in Runs, Finish(r) \/ FailRelease(r) \/ FailWrite(r) PROVE Durable'
  BY <1>11 DEF Finish, FinishTx, Move, Proceed, Fail, FailRelease, ReleaseAgain, EndLease,
      StopThread, Block, FailWrite, InterruptTx, OrphanTx
<1>12. ASSUME NEW r \in Runs, Cleanup(r) PROVE Durable'
  BY <1>12 DEF Cleanup, ReleaseAgain, EndLease, StopThread, Block
<1>13. ASSUME NEW c \in Requests, CreateCommit(c) \/ CancelInterrupt(c) \/ RestoreStop(c)
    PROVE Durable'
  BY <1>13 DEF CreateCommit, RegisterRun, EndWrite, Free, CancelInterrupt,
      InterruptTx, Move, RestoreStop, StopThread, BlockAndEndWrite
<1>14. ASSUME NEW c \in Requests, DeleteRow(c) PROVE Durable'
  BY <1>14 DEF DeleteRow, Free, EndWrite
<1>15. CASE ShutdownEnds
  BY <1>15 DEF ShutdownEnds, ForgetAll, Forget
<1>16. CASE Crash
  BY <1>16 DEF Crash, ForgetAll, Forget
<1>17. ASSUME NEW r \in Runs, RecoverOrphan(r) PROVE Durable'
  BY <1>17 DEF RecoverOrphan, OrphanTx, Move
<1> QED  BY <1>2, <1>3, <1>4, <1>5, <1>6, <1>7, <1>8, <1>9, <1>10, <1>11, <1>12, <1>13, <1>14,
    <1>15, <1>16, <1>17 DEF Next, TaskStep, RequestStep, RequestArrives, Startup

\* Memory extraction is handed successes only.
LEMMA LearnedKeeps == Lifecycle /\ [Next]_vars => Learned'
<1> SUFFICES ASSUME Lifecycle, [Next]_vars PROVE Learned'
  OBVIOUS
<1> TypeOK /\ StreamsOK /\ RowsOK /\ Learned /\ TaskRow /\ Durable /\ Emptied /\
    ConfirmedEventsAreTrue
  BY DEF Lifecycle, IInv, TypeOK, Bookkeeping
<1>1. UNCHANGED <<learned, run, saved>> => Learned'
  BY DEF Learned, Live, LivePc, WorkPc, FailPc, Inflight, Terminal, BeforeStart, Started
<1>2. ASSUME NEW r \in Runs, Begin(r) \/ Load(r) \/ StopOld(r) \/ BeginRun(r) \/ AgentEnds(r)
    \/ Release(r) \/ Announce(r) \/ FailRelease(r) \/ FailRead(r) \/ FailSave(r) \/ Cleanup(r)
    \/ AgentBash(r) PROVE Learned'
  BY <1>2, <1>1 DEF Begin, Load, Proceed, Fail, StopOld, StopOrBlock, StopThread, Block,
      BeginRun, AgentEnds, Release, EndLease, Announce, FailRelease, ReleaseAgain, FailRead,
      FailSave, Cleanup, AgentBash, entryVars, dbVars, boxVars, taskVars, streamVars, reqVars,
      procVars
<1>3. ASSUME NEW c \in Requests, CancelWoken(c) \/ CancelAnnounce(c) \/ CancelClose(c) \/
    RestoreStop(c) \/ RestorePrepare(c) \/ RestoreFinish(c) \/ PreviewEnd(c) \/ UploadEnd(c)
    \/ ReadEnd(c) \/ DeleteBox(c) PROVE Learned'
  BY <1>3, <1>1 DEF CancelWoken, CancelReturns, Free, EndWrite, CancelAnnounce,
      CancelClose, RestoreStop, StopThread, BlockAndEndWrite, RestorePrepare, NoFault,
      RestoreFinish, PreviewEnd, UploadEnd, ReadEnd, EndRead, DeleteBox, entryVars,
      dbVars, boxVars, taskVars, streamVars, reqVars, procVars
<1>4. ASSUME NEW c \in Requests, NEW t \in Threads, CreateBegin(c, t) \/ RestoreBegin(c, t) \/
    PreviewBegin(c, t) \/ UploadBegin(c, t) \/ ReadBegin(c, t) \/ DeleteBegin(c, t) PROVE Learned'
  BY <1>4, <1>1 DEF CreateBegin, Ask, BeginWrite, MayWrite, Ready, RestoreBegin,
      CancelTask, InflightOn, RunsOf, PreviewBegin, UploadBegin, ReadBegin, BeginRead,
      DeleteBegin, entryVars, dbVars, boxVars, taskVars, streamVars, reqVars, procVars
<1>5. ASSUME NEW c \in Requests, NEW r \in Runs, CancelBegin(c, r) PROVE Learned'
  BY <1>5, <1>1 DEF CancelBegin, Ask, CancelTask, entryVars, dbVars, boxVars, taskVars,
      streamVars, reqVars, procVars
<1>6. ASSUME NEW t \in Threads, ReapIdle(t) PROVE Learned'
  BY <1>6, <1>1 DEF ReapIdle, entryVars, dbVars, boxVars, taskVars, streamVars, reqVars, procVars
<1>7. CASE Shutdown \/ RemoveOldContainers \/ RecoverFiles \/ Serve
  BY <1>7, <1>1 DEF Shutdown, RemoveOldContainers, RecoverFiles, BlockAll, Serve,
      entryVars, dbVars, boxVars, taskVars, streamVars, reqVars, procVars
<1>8. CASE UNCHANGED vars
  BY <1>8, <1>1 DEF vars, entryVars, dbVars, boxVars, taskVars, streamVars, reqVars, procVars
<1> USE AdmissionAssumption, LifecycleAssumption
    DEF StreamsOK, RowsOK, Learned, TaskRow, Durable, Emptied,
    ConfirmedEventsAreTrue, Live, LivePc, WorkPc, FailPc, Inflight, Terminal, BeforeStart,
    Started, entryVars, dbVars, boxVars, taskVars, streamVars, reqVars, procVars
<1>9. ASSUME NEW r \in Runs, Capture(r) \/ SaveInput(r) \/ SaveFinal(r) PROVE Learned'
  BY <1>9 DEF Capture, Store, Proceed, Fail, SaveInput, SaveFinal
<1>10. ASSUME NEW r \in Runs, Start(r) \/ Finish(r) \/ FailWrite(r) PROVE Learned'
  BY <1>10 DEF Start, StartTx, Move, Proceed, Fail, Finish, FinishTx, FailWrite, InterruptTx,
      OrphanTx
<1>11. ASSUME NEW r \in Runs, Consume(r) PROVE Learned'
  BY <1>11 DEF Consume, ReleaseRun
<1>12. ASSUME NEW c \in Requests, CreateCommit(c) \/ CancelInterrupt(c) \/ DeleteRow(c) PROVE
    Learned'
  BY <1>12 DEF CreateCommit, RegisterRun, EndWrite, Free, CancelInterrupt,
      InterruptTx, Move, DeleteRow
<1>13. CASE ShutdownEnds
  BY <1>13 DEF ShutdownEnds, ForgetAll, Forget
<1>14. CASE Crash
  BY <1>14 DEF Crash, ForgetAll, Forget
<1>15. ASSUME NEW r \in Runs, RecoverOrphan(r) PROVE Learned'
  BY <1>15 DEF RecoverOrphan, OrphanTx, Move
<1> QED  BY <1>2, <1>3, <1>4, <1>5, <1>6, <1>7, <1>8, <1>9, <1>10, <1>11, <1>12, <1>13, <1>14,
    <1>15 DEF Next, TaskStep, RequestStep, RequestArrives, Startup

\* A terminal event is sent after its commit.
LEMMA ConfirmedEventsAreTrueKeeps == Lifecycle /\ [Next]_vars => ConfirmedEventsAreTrue'
<1> SUFFICES ASSUME Lifecycle, [Next]_vars PROVE ConfirmedEventsAreTrue'
  OBVIOUS
<1> TypeOK /\ StreamsOK /\ RowsOK /\ ConfirmedEventsAreTrue /\ TaskRow /\ Closed /\ Closing /\
    Orphaned /\ RowOwned
  BY DEF Lifecycle, IInv, TypeOK, Bookkeeping
<1>1. UNCHANGED <<run, told>> => ConfirmedEventsAreTrue'
  BY DEF ConfirmedEventsAreTrue, Inflight, Terminal, Cancelling
<1>2. ASSUME NEW r \in Runs, Begin(r) \/ Load(r) \/ StopOld(r) \/ Capture(r) \/ SaveInput(r)
    \/ SaveFinal(r) \/ BeginRun(r) \/ AgentEnds(r) \/ Release(r) \/ FailRelease(r) \/
    FailSave(r) \/ Cleanup(r) \/ Consume(r) \/ AgentBash(r) PROVE ConfirmedEventsAreTrue'
  BY <1>2, <1>1 DEF Begin, Load, Proceed, Fail, StopOld, StopOrBlock, StopThread, Block,
      Capture, Store, SaveInput, SaveFinal, BeginRun, AgentEnds, Release, EndLease,
      FailRelease, ReleaseAgain, FailSave, Cleanup, Consume, ReleaseRun, AgentBash,
      entryVars, dbVars, boxVars, taskVars, streamVars, reqVars, procVars
<1>3. ASSUME NEW c \in Requests, CancelWoken(c) \/ CancelClose(c) \/ RestoreStop(c) \/
    RestorePrepare(c) \/ RestoreFinish(c) \/ PreviewEnd(c) \/ UploadEnd(c) \/ ReadEnd(c) \/
    DeleteBox(c) PROVE ConfirmedEventsAreTrue'
  BY <1>3, <1>1 DEF CancelWoken, CancelReturns, Free, EndWrite, CancelClose,
      RestoreStop, StopThread, BlockAndEndWrite, RestorePrepare, NoFault, RestoreFinish,
      PreviewEnd, UploadEnd, ReadEnd, EndRead, DeleteBox, entryVars, dbVars, boxVars,
      taskVars, streamVars, reqVars, procVars
<1>4. ASSUME NEW c \in Requests, NEW t \in Threads, CreateBegin(c, t) \/ RestoreBegin(c, t) \/
    PreviewBegin(c, t) \/ UploadBegin(c, t) \/ ReadBegin(c, t) \/ DeleteBegin(c, t) PROVE
    ConfirmedEventsAreTrue'
  BY <1>4, <1>1 DEF CreateBegin, Ask, BeginWrite, MayWrite, Ready, RestoreBegin,
      CancelTask, InflightOn, RunsOf, PreviewBegin, UploadBegin, ReadBegin, BeginRead,
      DeleteBegin, entryVars, dbVars, boxVars, taskVars, streamVars, reqVars, procVars
<1>5. ASSUME NEW c \in Requests, NEW r \in Runs, CancelBegin(c, r) PROVE ConfirmedEventsAreTrue'
  BY <1>5, <1>1 DEF CancelBegin, Ask, CancelTask, entryVars, dbVars, boxVars, taskVars,
      streamVars, reqVars, procVars
<1>6. ASSUME NEW t \in Threads, ReapIdle(t) PROVE ConfirmedEventsAreTrue'
  BY <1>6, <1>1 DEF ReapIdle, entryVars, dbVars, boxVars, taskVars, streamVars, reqVars, procVars
<1>7. CASE Shutdown \/ RemoveOldContainers \/ RecoverFiles \/ Serve
  BY <1>7, <1>1 DEF Shutdown, RemoveOldContainers, RecoverFiles, BlockAll, Serve,
      entryVars, dbVars, boxVars, taskVars, streamVars, reqVars, procVars
<1>8. CASE UNCHANGED vars
  BY <1>8, <1>1 DEF vars, entryVars, dbVars, boxVars, taskVars, streamVars, reqVars, procVars
<1> USE AdmissionAssumption, LifecycleAssumption
    DEF StreamsOK, RowsOK, ConfirmedEventsAreTrue, TaskRow, Closed,
    Closing, Orphaned, RowOwned, Inflight, Terminal, Cancelling, entryVars, dbVars, boxVars,
    taskVars, streamVars, reqVars, procVars
<1>9. ASSUME NEW r \in Runs, Start(r) \/ Finish(r) \/ Announce(r) PROVE ConfirmedEventsAreTrue'
  BY <1>9 DEF Start, StartTx, Move, Proceed, Fail, Finish, FinishTx, Announce
<1>10. ASSUME NEW r \in Runs, FailRead(r) \/ FailWrite(r) PROVE ConfirmedEventsAreTrue'
  BY <1>10 DEF FailRead, FailWrite, InterruptTx, FinishTx, OrphanTx, Move
<1>11. ASSUME NEW c \in Requests, CreateCommit(c) \/ CancelInterrupt(c) \/ CancelAnnounce(c)
    PROVE ConfirmedEventsAreTrue'
  BY <1>11 DEF CreateCommit, RegisterRun, EndWrite, Free, CancelInterrupt,
      InterruptTx, Move, CancelAnnounce
<1>12. ASSUME NEW c \in Requests, DeleteRow(c) PROVE ConfirmedEventsAreTrue'
  BY <1>12 DEF DeleteRow, Free, EndWrite
<1>13. CASE ShutdownEnds
  BY <1>13 DEF ShutdownEnds, ForgetAll, Forget
<1>14. CASE Crash
  BY <1>14 DEF Crash, ForgetAll, Forget
<1>15. ASSUME NEW r \in Runs, RecoverOrphan(r) PROVE ConfirmedEventsAreTrue'
  BY <1>15 DEF RecoverOrphan, OrphanTx, Move
<1> QED  BY <1>2, <1>3, <1>4, <1>5, <1>6, <1>7, <1>8, <1>9, <1>10, <1>11, <1>12, <1>13, <1>14,
    <1>15 DEF Next, TaskStep, RequestStep, RequestArrives, Startup

\* Nothing begins on files that are not settled.
LEMMA PendingKeeps == Lifecycle /\ [Next]_vars => Pending'
<1> SUFFICES ASSUME Lifecycle, [Next]_vars PROVE Pending'
  OBVIOUS
<1> TypeOK /\ RowsOK /\ EntryOK /\ RequestsOK /\ Pending /\ Ended /\ Holds /\ HeldFor /\
    Exclusion /\ OnThread /\ RowOwned
  BY DEF Lifecycle, IInv, TypeOK, Bookkeeping
<1>1. UNCHANGED <<at, fileOp, owner, readers, run, writer>> => Pending'
  BY DEF Pending, Writing, Cancelling, Restoring, Inflight, Terminal
<1>2. ASSUME NEW r \in Runs, Begin(r) \/ Load(r) \/ StopOld(r) \/ Capture(r) \/ SaveInput(r)
    \/ SaveFinal(r) \/ BeginRun(r) \/ AgentEnds(r) \/ Release(r) \/ Announce(r) \/
    FailRelease(r) \/ FailRead(r) \/ FailSave(r) \/ Cleanup(r) \/ Consume(r) \/ AgentBash(r)
    PROVE Pending'
  BY <1>2, <1>1 DEF Begin, Load, Proceed, Fail, StopOld, StopOrBlock, StopThread, Block,
      Capture, Store, SaveInput, SaveFinal, BeginRun, AgentEnds, Release, EndLease, Announce,
      FailRelease, ReleaseAgain, FailRead, FailSave, Cleanup, Consume, ReleaseRun,
      AgentBash, entryVars, dbVars, boxVars, taskVars, streamVars, reqVars, procVars
<1>3. ASSUME NEW t \in Threads, ReapIdle(t) PROVE Pending'
  BY <1>3, <1>1 DEF ReapIdle, entryVars, dbVars, boxVars, taskVars, streamVars, reqVars, procVars
<1>4. CASE Shutdown \/ RemoveOldContainers \/ Serve
  BY <1>4, <1>1 DEF Shutdown, RemoveOldContainers, Serve, entryVars, dbVars, boxVars,
      taskVars, streamVars, reqVars, procVars
<1>5. CASE UNCHANGED vars
  BY <1>5, <1>1 DEF vars, entryVars, dbVars, boxVars, taskVars, streamVars, reqVars, procVars
<1> USE AdmissionAssumption, LifecycleAssumption
    DEF RowsOK, EntryOK, RequestsOK, Pending, Ended, Holds,
    HeldFor, Exclusion, OnThread, RowOwned, Writing, Cancelling, Restoring, Inflight,
    Terminal, entryVars, dbVars, boxVars, taskVars, streamVars, reqVars, procVars
<1>6. ASSUME NEW r \in Runs, Start(r) \/ Finish(r) \/ FailWrite(r) PROVE Pending'
  BY <1>6 DEF Start, StartTx, Move, Proceed, Fail, Finish, FinishTx, FailWrite, InterruptTx,
      OrphanTx
<1>7. ASSUME NEW c \in Requests, CreateCommit(c) \/ CancelWoken(c) \/ CancelInterrupt(c) PROVE
    Pending'
  BY <1>7 DEF CreateCommit, RegisterRun, EndWrite, Free, CancelWoken,
      CancelReturns, CancelInterrupt, InterruptTx, Move
<1>8. ASSUME NEW c \in Requests, CancelAnnounce(c) \/ CancelClose(c) \/ RestoreStop(c) PROVE
    Pending'
  BY <1>8 DEF CancelAnnounce, CancelClose, CancelReturns, Free, EndWrite, RestoreStop,
      StopThread, BlockAndEndWrite
<1>9. ASSUME NEW c \in Requests, RestorePrepare(c) PROVE Pending'
  <2> DEFINE t == on[c]
  <2>1. t \in Threads /\ writer[t] = c /\ readers[t] = {}
    BY <1>9 DEF RestorePrepare
  <2>2. \A r \in Runs : owner[r] = t => run[r] \notin Inflight
    BY <1>9 DEF RestorePrepare
  <2>3. UNCHANGED <<run, owner, readers>>
    BY <1>9 DEF RestorePrepare, EndWrite
  <2>4. CASE fileOp' = [fileOp EXCEPT ![t] = "pending"] /\ at' = [at EXCEPT ![c] = "swapping"]
             /\ writer' = writer
    BY <2>1, <2>2, <2>3, <2>4
  <2>5. CASE Free(c) /\ EndWrite(t, c) /\ UNCHANGED fileOp
    BY <1>9, <2>1, <2>3, <2>5 DEF Free, EndWrite, RestorePrepare
  <2> QED  BY <1>9, <2>4, <2>5 DEF RestorePrepare
<1>10. ASSUME NEW c \in Requests, RestoreFinish(c) PROVE Pending'
  <2> DEFINE t == on[c]
  <2>1. t \in Threads /\ writer[t] = c
    BY <1>10 DEF RestoreFinish
  <2>2. /\ \A u \in Threads : fileOp'[u] \in {fileOp[u], "none"}
        /\ writer' = [writer EXCEPT ![t] = NoRequest]
        /\ at' = [at EXCEPT ![c] = "idle"]
        /\ UNCHANGED <<run, owner, readers>>
    BY <1>10 DEF RestoreFinish, Free, EndWrite, BlockAndEndWrite
  <2>3. \A u \in Threads : u # t => writer[u] # c \/ fileOp[u] # "pending"
    BY <1>10 DEF RestoreFinish
  <2> QED  BY <2>1, <2>2, <2>3
<1>11. ASSUME NEW c \in Requests, PreviewEnd(c) \/ UploadEnd(c) \/ ReadEnd(c) PROVE Pending'
  BY <1>11 DEF PreviewEnd, StopThread, Free, EndWrite, UploadEnd, ReadEnd, EndRead
<1>12. ASSUME NEW c \in Requests, DeleteBox(c) \/ DeleteRow(c) PROVE Pending'
  BY <1>12 DEF DeleteBox, StopThread, Free, EndWrite, DeleteRow
<1>13. ASSUME NEW c \in Requests, NEW t \in Threads, CreateBegin(c, t) \/ RestoreBegin(c, t)
    \/ PreviewBegin(c, t) PROVE Pending'
  BY <1>13 DEF CreateBegin, Ask, BeginWrite, MayWrite, Ready, RestoreBegin,
      CancelTask, InflightOn, RunsOf, PreviewBegin
<1>14. ASSUME NEW c \in Requests, NEW t \in Threads, UploadBegin(c, t) \/ ReadBegin(c, t) \/
    DeleteBegin(c, t) PROVE Pending'
  BY <1>14 DEF UploadBegin, Ask, BeginWrite, MayWrite, Ready, ReadBegin,
      BeginRead, DeleteBegin
<1>15. ASSUME NEW c \in Requests, NEW r \in Runs, CancelBegin(c, r) PROVE Pending'
  BY <1>15 DEF CancelBegin, Ask, CancelTask
<1>16. CASE ShutdownEnds
  BY <1>16 DEF ShutdownEnds, ForgetAll, Forget
<1>17. CASE Crash
  BY <1>17 DEF Crash, ForgetAll, Forget
<1>18. CASE RecoverFiles
  BY <1>18 DEF RecoverFiles, BlockAll
<1>19. ASSUME NEW r \in Runs, RecoverOrphan(r) PROVE Pending'
  BY <1>19 DEF RecoverOrphan, OrphanTx, Move
<1> QED  BY <1>2, <1>3, <1>4, <1>5, <1>6, <1>7, <1>8, <1>9, <1>10, <1>11, <1>12, <1>13, <1>14,
    <1>15, <1>16, <1>17, <1>18, <1>19 DEF Next, TaskStep, RequestStep, RequestArrives, Startup

\* Only a Run that was started can time out.
LEMMA TimelyKeeps == Lifecycle /\ [Next]_vars => Timely'
<1> SUFFICES ASSUME Lifecycle, [Next]_vars PROVE Timely'
  OBVIOUS
<1> TypeOK /\ TasksOK /\ RowsOK /\ Timely /\ TaskRow /\ RowOwned
  BY DEF Lifecycle, IInv, TypeOK, Bookkeeping
<1>1. UNCHANGED <<run, why>> => Timely'
  BY DEF Timely, Inflight, Terminal, BeforeStart, Started
<1>2. ASSUME NEW r \in Runs, Begin(r) \/ FailRelease(r) \/ FailRead(r) \/ Consume(r) \/
    AgentBash(r) PROVE Timely'
  BY <1>2, <1>1 DEF Begin, FailRelease, ReleaseAgain, EndLease, StopThread, Block,
      FailRead, Consume, ReleaseRun, AgentBash, entryVars, dbVars, boxVars, taskVars,
      streamVars, reqVars, procVars
<1>3. ASSUME NEW c \in Requests, CancelWoken(c) \/ CancelAnnounce(c) \/ CancelClose(c) \/
    RestoreStop(c) \/ RestorePrepare(c) \/ RestoreFinish(c) \/ PreviewEnd(c) \/ UploadEnd(c)
    \/ ReadEnd(c) \/ DeleteBox(c) PROVE Timely'
  BY <1>3, <1>1 DEF CancelWoken, CancelReturns, Free, EndWrite, CancelAnnounce,
      CancelClose, RestoreStop, StopThread, BlockAndEndWrite, RestorePrepare, NoFault,
      RestoreFinish, PreviewEnd, UploadEnd, ReadEnd, EndRead, DeleteBox, entryVars,
      dbVars, boxVars, taskVars, streamVars, reqVars, procVars
<1>4. ASSUME NEW c \in Requests, NEW t \in Threads, CreateBegin(c, t) \/ RestoreBegin(c, t) \/
    PreviewBegin(c, t) \/ UploadBegin(c, t) \/ ReadBegin(c, t) \/ DeleteBegin(c, t) PROVE Timely'
  BY <1>4, <1>1 DEF CreateBegin, Ask, BeginWrite, MayWrite, Ready, RestoreBegin,
      CancelTask, InflightOn, RunsOf, PreviewBegin, UploadBegin, ReadBegin, BeginRead,
      DeleteBegin, entryVars, dbVars, boxVars, taskVars, streamVars, reqVars, procVars
<1>5. ASSUME NEW c \in Requests, NEW r \in Runs, CancelBegin(c, r) PROVE Timely'
  BY <1>5, <1>1 DEF CancelBegin, Ask, CancelTask, entryVars, dbVars, boxVars, taskVars,
      streamVars, reqVars, procVars
<1>6. ASSUME NEW t \in Threads, ReapIdle(t) PROVE Timely'
  BY <1>6, <1>1 DEF ReapIdle, entryVars, dbVars, boxVars, taskVars, streamVars, reqVars, procVars
<1>7. CASE Shutdown \/ RemoveOldContainers \/ RecoverFiles \/ Serve
  BY <1>7, <1>1 DEF Shutdown, RemoveOldContainers, RecoverFiles, BlockAll, Serve,
      entryVars, dbVars, boxVars, taskVars, streamVars, reqVars, procVars
<1>8. CASE UNCHANGED vars
  BY <1>8, <1>1 DEF vars, entryVars, dbVars, boxVars, taskVars, streamVars, reqVars, procVars
<1> USE AdmissionAssumption, LifecycleAssumption
    DEF TasksOK, RowsOK, Timely, TaskRow, RowOwned, Inflight,
    Terminal, BeforeStart, Started, entryVars, dbVars, boxVars, taskVars, streamVars, reqVars,
    procVars
<1>9. ASSUME NEW r \in Runs, Load(r) \/ StopOld(r) \/ Capture(r) PROVE Timely'
  BY <1>9 DEF Load, Proceed, Fail, StopOld, StopOrBlock, StopThread, Block, Capture, Store
<1>10. ASSUME NEW r \in Runs, SaveInput(r) \/ SaveFinal(r) \/ Start(r) PROVE Timely'
  BY <1>10 DEF SaveInput, Store, Proceed, Fail, SaveFinal, Start, StartTx, Move
<1>11. ASSUME NEW r \in Runs, BeginRun(r) \/ AgentEnds(r) \/ Release(r) PROVE Timely'
  BY <1>11 DEF BeginRun, Fail, AgentEnds, Proceed, Release, EndLease, StopOrBlock, StopThread,
      Block
<1>12. ASSUME NEW r \in Runs, Finish(r) \/ Announce(r) \/ FailSave(r) PROVE Timely'
  BY <1>12 DEF Finish, FinishTx, Move, Proceed, Fail, Announce, FailSave
<1>13. ASSUME NEW r \in Runs, FailWrite(r) \/ Cleanup(r) PROVE Timely'
  BY <1>13 DEF FailWrite, InterruptTx, FinishTx, OrphanTx, Move, Cleanup, ReleaseAgain,
      EndLease, StopThread, Block
<1>14. ASSUME NEW c \in Requests, CreateCommit(c) \/ CancelInterrupt(c) \/ DeleteRow(c) PROVE
    Timely'
  BY <1>14 DEF CreateCommit, RegisterRun, EndWrite, Free, CancelInterrupt,
      InterruptTx, Move, DeleteRow
<1>15. CASE ShutdownEnds
  BY <1>15 DEF ShutdownEnds, ForgetAll, Forget
<1>16. CASE Crash
  BY <1>16 DEF Crash, ForgetAll, Forget
<1>17. ASSUME NEW r \in Runs, RecoverOrphan(r) PROVE Timely'
  BY <1>17 DEF RecoverOrphan, OrphanTx, Move
<1> QED  BY <1>2, <1>3, <1>4, <1>5, <1>6, <1>7, <1>8, <1>9, <1>10, <1>11, <1>12, <1>13, <1>14,
    <1>15, <1>16, <1>17 DEF Next, TaskStep, RequestStep, RequestArrives, Startup

\* A task that fails closes its row.
LEMMA SettledKeeps == Lifecycle /\ [Next]_vars => Settled'
<1> SUFFICES ASSUME Lifecycle, [Next]_vars PROVE Settled'
  OBVIOUS
<1> TypeOK /\ FaultsOK /\ TasksOK /\ RowsOK /\ Settled /\ TaskRow /\ Timely /\ RowOwned
  BY DEF Lifecycle, IInv, TypeOK, Bookkeeping
<1>1. UNCHANGED <<faults, pc, run>> => Settled'
  BY DEF Settled, Inflight, Terminal, BeforeStart, Started, NoFault, DbFault, BoxFault
<1>2. ASSUME NEW r \in Runs, AgentBash(r) PROVE Settled'
  BY <1>2, <1>1 DEF AgentBash, entryVars, dbVars, boxVars, taskVars, streamVars, reqVars, procVars
<1>3. ASSUME NEW c \in Requests, CancelWoken(c) \/ CancelAnnounce(c) \/ CancelClose(c) \/
    RestorePrepare(c) \/ UploadEnd(c) \/ ReadEnd(c) PROVE Settled'
  BY <1>3, <1>1 DEF CancelWoken, CancelReturns, Free, EndWrite, CancelAnnounce,
      CancelClose, RestorePrepare, NoFault, UploadEnd, ReadEnd, EndRead, entryVars,
      dbVars, boxVars, taskVars, streamVars, reqVars, procVars
<1>4. ASSUME NEW c \in Requests, NEW t \in Threads, CreateBegin(c, t) \/ RestoreBegin(c, t) \/
    PreviewBegin(c, t) \/ UploadBegin(c, t) \/ ReadBegin(c, t) \/ DeleteBegin(c, t) PROVE Settled'
  BY <1>4, <1>1 DEF CreateBegin, Ask, BeginWrite, MayWrite, Ready, RestoreBegin,
      CancelTask, InflightOn, RunsOf, PreviewBegin, UploadBegin, ReadBegin, BeginRead,
      DeleteBegin, entryVars, dbVars, boxVars, taskVars, streamVars, reqVars, procVars
<1>5. ASSUME NEW c \in Requests, NEW r \in Runs, CancelBegin(c, r) PROVE Settled'
  BY <1>5, <1>1 DEF CancelBegin, Ask, CancelTask, entryVars, dbVars, boxVars, taskVars,
      streamVars, reqVars, procVars
<1>6. ASSUME NEW t \in Threads, ReapIdle(t) PROVE Settled'
  BY <1>6, <1>1 DEF ReapIdle, entryVars, dbVars, boxVars, taskVars, streamVars, reqVars, procVars
<1>7. CASE Shutdown \/ RemoveOldContainers \/ Serve
  BY <1>7, <1>1 DEF Shutdown, RemoveOldContainers, Serve, entryVars, dbVars, boxVars,
      taskVars, streamVars, reqVars, procVars
<1>8. CASE UNCHANGED vars
  BY <1>8, <1>1 DEF vars, entryVars, dbVars, boxVars, taskVars, streamVars, reqVars, procVars
<1> USE AdmissionAssumption, LifecycleAssumption
    DEF FaultsOK, TasksOK, RowsOK, Settled, TaskRow, Timely, RowOwned,
    Inflight, Terminal, BeforeStart, Started, NoFault, DbFault, BoxFault, entryVars, dbVars,
    boxVars, taskVars, streamVars, reqVars, procVars
<1>9. ASSUME NEW r \in Runs, Begin(r) \/ Load(r) \/ StopOld(r) PROVE Settled'
  BY <1>9 DEF Begin, Load, Proceed, Fail, StopOld, StopOrBlock, StopThread, Block
<1>10. ASSUME NEW r \in Runs, Capture(r) \/ SaveInput(r) \/ SaveFinal(r) PROVE Settled'
  BY <1>10 DEF Capture, Store, Proceed, Fail, SaveInput, SaveFinal
<1>11. ASSUME NEW r \in Runs, Start(r) \/ BeginRun(r) \/ AgentEnds(r) PROVE Settled'
  BY <1>11 DEF Start, StartTx, Move, Proceed, Fail, BeginRun, AgentEnds
<1>12. ASSUME NEW r \in Runs, Release(r) \/ Finish(r) \/ Announce(r) PROVE Settled'
  BY <1>12 DEF Release, EndLease, StopOrBlock, StopThread, Fail, Block, Finish,
      FinishTx, Move, Proceed, Announce
<1>13. ASSUME NEW r \in Runs, FailRelease(r) \/ FailRead(r) \/ FailSave(r) PROVE Settled'
  BY <1>13 DEF FailRelease, ReleaseAgain, EndLease, StopThread, Block, FailRead, FailSave
<1>14. ASSUME NEW r \in Runs, FailWrite(r) \/ Cleanup(r) \/ Consume(r) PROVE Settled'
  BY <1>14 DEF FailWrite, InterruptTx, FinishTx, OrphanTx, Move, Cleanup, ReleaseAgain,
      EndLease, StopThread, Block, Consume, ReleaseRun
<1>15. ASSUME NEW c \in Requests, CreateCommit(c) \/ CancelInterrupt(c) \/ RestoreStop(c)
    PROVE Settled'
  BY <1>15 DEF CreateCommit, RegisterRun, EndWrite, Free, CancelInterrupt,
      InterruptTx, Move, RestoreStop, StopThread, BlockAndEndWrite
<1>16. ASSUME NEW c \in Requests, RestoreFinish(c) \/ PreviewEnd(c) \/ DeleteBox(c) PROVE Settled'
  BY <1>16 DEF RestoreFinish, Free, EndWrite, BlockAndEndWrite, PreviewEnd,
      StopThread, DeleteBox
<1>17. ASSUME NEW c \in Requests, DeleteRow(c) PROVE Settled'
  BY <1>17 DEF DeleteRow, Free, EndWrite
<1>18. CASE ShutdownEnds
  BY <1>18 DEF ShutdownEnds, ForgetAll, Forget
<1>19. CASE Crash
  BY <1>19 DEF Crash, ForgetAll, Forget
<1>20. CASE RecoverFiles
  BY <1>20 DEF RecoverFiles, BlockAll
<1>21. ASSUME NEW r \in Runs, RecoverOrphan(r) PROVE Settled'
  BY <1>21 DEF RecoverOrphan, OrphanTx, Move
<1> QED  BY <1>2, <1>3, <1>4, <1>5, <1>6, <1>7, <1>8, <1>9, <1>10, <1>11, <1>12, <1>13, <1>14,
    <1>15, <1>16, <1>17, <1>18, <1>19, <1>20, <1>21 DEF Next, TaskStep, RequestStep,
    RequestArrives, Startup

\* The start closes every Run it finds.
LEMMA RecoveredKeeps == Lifecycle /\ [Next]_vars => Recovered'
<1> SUFFICES ASSUME Lifecycle, [Next]_vars PROVE Recovered'
  OBVIOUS
<1> TypeOK /\ FaultsOK /\ ProcessOK /\ RowsOK /\ Recovered /\ Silent /\ RowOwned
  BY DEF Lifecycle, IInv, TypeOK, Bookkeeping
<1>1. UNCHANGED <<faults, run, toRecover, up>> => Recovered'
  BY DEF Recovered, Live, LivePc, WorkPc, FailPc, Serving, Inflight, Terminal, NoFault,
      DbFault, BoxFault
<1>2. ASSUME NEW r \in Runs, Begin(r) \/ AgentEnds(r) \/ Announce(r) \/ Consume(r) \/
    AgentBash(r) PROVE Recovered'
  BY <1>2, <1>1 DEF Begin, AgentEnds, Proceed, Fail, Announce, Consume, ReleaseRun,
      AgentBash, entryVars, dbVars, boxVars, taskVars, streamVars, reqVars, procVars
<1>3. ASSUME NEW c \in Requests, CancelWoken(c) \/ CancelAnnounce(c) \/ CancelClose(c) \/
    RestorePrepare(c) \/ UploadEnd(c) \/ ReadEnd(c) PROVE Recovered'
  BY <1>3, <1>1 DEF CancelWoken, CancelReturns, Free, EndWrite, CancelAnnounce,
      CancelClose, RestorePrepare, NoFault, UploadEnd, ReadEnd, EndRead, entryVars,
      dbVars, boxVars, taskVars, streamVars, reqVars, procVars
<1>4. ASSUME NEW c \in Requests, NEW t \in Threads, CreateBegin(c, t) \/ RestoreBegin(c, t) \/
    PreviewBegin(c, t) \/ UploadBegin(c, t) \/ ReadBegin(c, t) \/ DeleteBegin(c, t) PROVE
    Recovered'
  BY <1>4, <1>1 DEF CreateBegin, Ask, BeginWrite, MayWrite, Ready, RestoreBegin,
      CancelTask, InflightOn, RunsOf, PreviewBegin, UploadBegin, ReadBegin, BeginRead,
      DeleteBegin, entryVars, dbVars, boxVars, taskVars, streamVars, reqVars, procVars
<1>5. ASSUME NEW c \in Requests, NEW r \in Runs, CancelBegin(c, r) PROVE Recovered'
  BY <1>5, <1>1 DEF CancelBegin, Ask, CancelTask, entryVars, dbVars, boxVars, taskVars,
      streamVars, reqVars, procVars
<1>6. ASSUME NEW t \in Threads, ReapIdle(t) PROVE Recovered'
  BY <1>6, <1>1 DEF ReapIdle, entryVars, dbVars, boxVars, taskVars, streamVars, reqVars, procVars
<1>7. CASE UNCHANGED vars
  BY <1>7, <1>1 DEF vars, entryVars, dbVars, boxVars, taskVars, streamVars, reqVars, procVars
<1> USE AdmissionAssumption, LifecycleAssumption
    DEF FaultsOK, ProcessOK, RowsOK, Recovered, Silent, RowOwned,
    Live, LivePc, WorkPc, FailPc, Serving, Inflight, Terminal, NoFault, DbFault, BoxFault,
    entryVars, dbVars, boxVars, taskVars, streamVars, reqVars, procVars
<1>8. ASSUME NEW r \in Runs, Load(r) \/ StopOld(r) \/ Capture(r) PROVE Recovered'
  BY <1>8 DEF Load, Proceed, Fail, StopOld, StopOrBlock, StopThread, Block, Capture, Store
<1>9. ASSUME NEW r \in Runs, SaveInput(r) \/ SaveFinal(r) \/ Start(r) PROVE Recovered'
  BY <1>9 DEF SaveInput, Store, Proceed, Fail, SaveFinal, Start, StartTx, Move
<1>10. ASSUME NEW r \in Runs, BeginRun(r) \/ Release(r) \/ Finish(r) PROVE Recovered'
  BY <1>10 DEF BeginRun, Fail, Release, EndLease, StopOrBlock, StopThread, Block,
      Finish, FinishTx, Move, Proceed
<1>11. ASSUME NEW r \in Runs, FailRelease(r) \/ FailRead(r) \/ FailSave(r) PROVE Recovered'
  BY <1>11 DEF FailRelease, ReleaseAgain, EndLease, StopThread, Block, FailRead, FailSave
<1>12. ASSUME NEW r \in Runs, FailWrite(r) \/ Cleanup(r) PROVE Recovered'
  BY <1>12 DEF FailWrite, InterruptTx, FinishTx, OrphanTx, Move, Cleanup, ReleaseAgain,
      EndLease, StopThread, Block
<1>13. ASSUME NEW c \in Requests, CreateCommit(c) \/ CancelInterrupt(c) \/ RestoreStop(c)
    PROVE Recovered'
  BY <1>13 DEF CreateCommit, RegisterRun, EndWrite, Free, CancelInterrupt,
      InterruptTx, Move, RestoreStop, StopThread, BlockAndEndWrite
<1>14. ASSUME NEW c \in Requests, RestoreFinish(c) \/ PreviewEnd(c) \/ DeleteBox(c) PROVE
    Recovered'
  BY <1>14 DEF RestoreFinish, Free, EndWrite, BlockAndEndWrite, PreviewEnd,
      StopThread, DeleteBox
<1>15. ASSUME NEW c \in Requests, DeleteRow(c) PROVE Recovered'
  BY <1>15 DEF DeleteRow, Free, EndWrite
<1>16. CASE Shutdown
  BY <1>16 DEF Shutdown
<1>17. CASE ShutdownEnds
  BY <1>17 DEF ShutdownEnds, ForgetAll, Forget
<1>18. CASE Crash
  BY <1>18 DEF Crash, ForgetAll, Forget
<1>19. CASE RemoveOldContainers
  BY <1>19 DEF RemoveOldContainers
<1>20. CASE RecoverFiles
  BY <1>20 DEF RecoverFiles, BlockAll
<1>21. CASE Serve
  BY <1>21 DEF Serve
<1>22. ASSUME NEW r \in Runs, RecoverOrphan(r) PROVE Recovered'
  BY <1>22 DEF RecoverOrphan, OrphanTx, Move
<1> QED  BY <1>2, <1>3, <1>4, <1>5, <1>6, <1>7, <1>8, <1>9, <1>10, <1>11, <1>12, <1>13, <1>14,
    <1>15, <1>16, <1>17, <1>18, <1>19, <1>20, <1>21, <1>22 DEF Next, TaskStep, RequestStep,
    RequestArrives, Startup

\* What a step leaves of a wait: it goes on, or is over for a reason.
StillWaited ==
    \A c \in Requests : at[c] # "idle" /\ target[c] \in Runs /\ run[target[c]] \in Inflight =>
        (at'[c] # "idle" /\ target'[c] = target[c]) \/ faults'.db > 0 \/ up' = "down"
Steady ==
    /\ faults'.db = 0 => faults.db = 0
    /\ up' = "up" => up = "up" \/ Serve

\* Failures are not undone, and only Serve makes a process serve.
LEMMA SteadyStep == Lifecycle /\ [Next]_vars => Steady
<1> SUFFICES ASSUME Lifecycle, [Next]_vars PROVE Steady
  OBVIOUS
<1> TypeOK /\ FaultsOK /\ ProcessOK
  BY DEF Lifecycle, IInv, TypeOK, Bookkeeping
<1>1. UNCHANGED <<faults, up>> => Steady
  BY DEF Steady, NoFault, DbFault, BoxFault
<1>2. ASSUME NEW r \in Runs, Begin(r) \/ AgentEnds(r) \/ Announce(r) \/ Consume(r) \/
    AgentBash(r) PROVE Steady
  BY <1>2, <1>1 DEF Begin, AgentEnds, Proceed, Fail, Announce, Consume, ReleaseRun,
      AgentBash, entryVars, dbVars, boxVars, taskVars, streamVars, reqVars, procVars
<1>3. ASSUME NEW c \in Requests, CancelWoken(c) \/ CancelAnnounce(c) \/ CancelClose(c) \/
    RestorePrepare(c) \/ UploadEnd(c) \/ ReadEnd(c) PROVE Steady
  BY <1>3, <1>1 DEF CancelWoken, CancelReturns, Free, EndWrite, CancelAnnounce,
      CancelClose, RestorePrepare, NoFault, UploadEnd, ReadEnd, EndRead, entryVars,
      dbVars, boxVars, taskVars, streamVars, reqVars, procVars
<1>4. ASSUME NEW c \in Requests, NEW t \in Threads, CreateBegin(c, t) \/ RestoreBegin(c, t) \/
    PreviewBegin(c, t) \/ UploadBegin(c, t) \/ ReadBegin(c, t) \/ DeleteBegin(c, t) PROVE Steady
  BY <1>4, <1>1 DEF CreateBegin, Ask, BeginWrite, MayWrite, Ready, RestoreBegin,
      CancelTask, InflightOn, RunsOf, PreviewBegin, UploadBegin, ReadBegin, BeginRead,
      DeleteBegin, entryVars, dbVars, boxVars, taskVars, streamVars, reqVars, procVars
<1>5. ASSUME NEW c \in Requests, NEW r \in Runs, CancelBegin(c, r) PROVE Steady
  BY <1>5, <1>1 DEF CancelBegin, Ask, CancelTask, entryVars, dbVars, boxVars, taskVars,
      streamVars, reqVars, procVars
<1>6. ASSUME NEW t \in Threads, ReapIdle(t) PROVE Steady
  BY <1>6, <1>1 DEF ReapIdle, entryVars, dbVars, boxVars, taskVars, streamVars, reqVars, procVars
<1>7. CASE UNCHANGED vars
  BY <1>7, <1>1 DEF vars, entryVars, dbVars, boxVars, taskVars, streamVars, reqVars, procVars
<1> USE AdmissionAssumption, LifecycleAssumption
    DEF FaultsOK, ProcessOK, Steady, NoFault, DbFault, BoxFault,
    entryVars, dbVars, boxVars, taskVars, streamVars, reqVars, procVars
<1>8. ASSUME NEW r \in Runs, Load(r) \/ StopOld(r) \/ Capture(r) PROVE Steady
  BY <1>8 DEF Load, Proceed, Fail, StopOld, StopOrBlock, StopThread, Block, Capture, Store
<1>9. ASSUME NEW r \in Runs, SaveInput(r) \/ SaveFinal(r) \/ Start(r) PROVE Steady
  BY <1>9 DEF SaveInput, Store, Proceed, Fail, SaveFinal, Start, StartTx, Move
<1>10. ASSUME NEW r \in Runs, BeginRun(r) \/ Release(r) \/ Finish(r) PROVE Steady
  BY <1>10 DEF BeginRun, Fail, Release, EndLease, StopOrBlock, StopThread, Block,
      Finish, FinishTx, Move, Proceed
<1>11. ASSUME NEW r \in Runs, FailRelease(r) \/ FailRead(r) \/ FailSave(r) PROVE Steady
  BY <1>11 DEF FailRelease, ReleaseAgain, EndLease, StopThread, Block, FailRead, FailSave
<1>12. ASSUME NEW r \in Runs, FailWrite(r) \/ Cleanup(r) PROVE Steady
  BY <1>12 DEF FailWrite, InterruptTx, FinishTx, OrphanTx, Move, Cleanup, ReleaseAgain,
      EndLease, StopThread, Block
<1>13. ASSUME NEW c \in Requests, CreateCommit(c) \/ CancelInterrupt(c) \/ RestoreStop(c)
    PROVE Steady
  BY <1>13 DEF CreateCommit, RegisterRun, EndWrite, Free, CancelInterrupt,
      InterruptTx, Move, RestoreStop, StopThread, BlockAndEndWrite
<1>14. ASSUME NEW c \in Requests, RestoreFinish(c) \/ PreviewEnd(c) \/ DeleteBox(c) PROVE Steady
  BY <1>14 DEF RestoreFinish, Free, EndWrite, BlockAndEndWrite, PreviewEnd,
      StopThread, DeleteBox
<1>15. ASSUME NEW c \in Requests, DeleteRow(c) PROVE Steady
  BY <1>15 DEF DeleteRow, Free, EndWrite
<1>16. CASE Shutdown
  BY <1>16 DEF Shutdown
<1>17. CASE ShutdownEnds
  BY <1>17 DEF ShutdownEnds, ForgetAll, Forget
<1>18. CASE Crash
  BY <1>18 DEF Crash, ForgetAll, Forget
<1>19. CASE RemoveOldContainers
  BY <1>19 DEF RemoveOldContainers
<1>20. CASE RecoverFiles
  BY <1>20 DEF RecoverFiles, BlockAll
<1>21. CASE Serve
  BY <1>21 DEF Serve
<1>22. ASSUME NEW r \in Runs, RecoverOrphan(r) PROVE Steady
  BY <1>22 DEF RecoverOrphan, OrphanTx, Move
<1> QED  BY <1>2, <1>3, <1>4, <1>5, <1>6, <1>7, <1>8, <1>9, <1>10, <1>11, <1>12, <1>13, <1>14,
    <1>15, <1>16, <1>17, <1>18, <1>19, <1>20, <1>21, <1>22 DEF Next, TaskStep, RequestStep,
    RequestArrives, Startup

\* A request goes on until its Run is closed.
LEMMA StillWaitedStep == Lifecycle /\ [Next]_vars => StillWaited
<1> SUFFICES ASSUME Lifecycle, [Next]_vars PROVE StillWaited
  OBVIOUS
<1> TypeOK /\ RequestsOK /\ RowsOK /\ FaultsOK /\ Closing /\ Closed /\ Ended /\ Holds /\ OnThread
  BY DEF Lifecycle, IInv, TypeOK, Bookkeeping
<1>1. UNCHANGED <<at, target>> => StillWaited
  BY DEF StillWaited, Writing, Restoring, Cancelling, Inflight, Terminal, NoFault, DbFault,
      BoxFault
<1>2. ASSUME NEW r \in Runs, Begin(r) \/ Load(r) \/ StopOld(r) \/ Capture(r) \/ SaveInput(r)
    \/ SaveFinal(r) \/ Start(r) \/ BeginRun(r) \/ AgentEnds(r) \/ Release(r) \/ Finish(r) \/
    Announce(r) \/ FailRelease(r) \/ FailRead(r) \/ FailSave(r) \/ FailWrite(r) \/ Cleanup(r)
    \/ Consume(r) \/ AgentBash(r) PROVE StillWaited
  BY <1>2, <1>1 DEF Begin, Load, Proceed, Fail, StopOld, StopOrBlock, StopThread, Block,
      Capture, Store, SaveInput, SaveFinal, Start, StartTx, Move, BeginRun, AgentEnds,
      Release, EndLease, Finish, FinishTx, Announce, FailRelease, ReleaseAgain, FailRead,
      FailSave, FailWrite, InterruptTx, OrphanTx, Cleanup, Consume, ReleaseRun,
      AgentBash, entryVars, dbVars, boxVars, taskVars, streamVars, reqVars, procVars
<1>3. ASSUME NEW t \in Threads, ReapIdle(t) PROVE StillWaited
  BY <1>3, <1>1 DEF ReapIdle, entryVars, dbVars, boxVars, taskVars, streamVars, reqVars, procVars
<1>4. CASE Shutdown \/ RemoveOldContainers \/ RecoverFiles \/ Serve
  BY <1>4, <1>1 DEF Shutdown, RemoveOldContainers, RecoverFiles, BlockAll, Serve,
      entryVars, dbVars, boxVars, taskVars, streamVars, reqVars, procVars
<1>5. ASSUME NEW r \in Runs, RecoverOrphan(r) PROVE StillWaited
  BY <1>5, <1>1 DEF RecoverOrphan, OrphanTx, Move, entryVars, dbVars, boxVars, taskVars,
      streamVars, reqVars, procVars
<1>6. CASE UNCHANGED vars
  BY <1>6, <1>1 DEF vars, entryVars, dbVars, boxVars, taskVars, streamVars, reqVars, procVars
<1> USE AdmissionAssumption, LifecycleAssumption
    DEF RequestsOK, RowsOK, FaultsOK, Closing, Closed, Ended, Holds,
    OnThread, StillWaited, Writing, Restoring, Cancelling, Inflight, Terminal, NoFault,
    DbFault, BoxFault, entryVars, dbVars, boxVars, taskVars, streamVars, reqVars, procVars
<1>7. ASSUME NEW c \in Requests, CreateCommit(c) \/ CancelWoken(c) \/ CancelInterrupt(c) PROVE
    StillWaited
  BY <1>7 DEF CreateCommit, RegisterRun, EndWrite, Free, CancelWoken,
      CancelReturns, CancelInterrupt, InterruptTx, Move
<1>8. ASSUME NEW c \in Requests, CancelAnnounce(c) \/ CancelClose(c) \/ RestoreStop(c) PROVE
    StillWaited
  BY <1>8 DEF CancelAnnounce, CancelClose, CancelReturns, Free, EndWrite, RestoreStop,
      StopThread, BlockAndEndWrite
<1>9. ASSUME NEW c \in Requests, RestorePrepare(c) \/ RestoreFinish(c) \/ PreviewEnd(c) PROVE
    StillWaited
  BY <1>9 DEF RestorePrepare, NoFault, Free, EndWrite, RestoreFinish,
      BlockAndEndWrite, PreviewEnd, StopThread
<1>10. ASSUME NEW c \in Requests, UploadEnd(c) \/ ReadEnd(c) \/ DeleteBox(c) PROVE StillWaited
  BY <1>10 DEF UploadEnd, Free, EndWrite, ReadEnd, EndRead, DeleteBox, StopThread
<1>11. ASSUME NEW c \in Requests, DeleteRow(c) PROVE StillWaited
  BY <1>11 DEF DeleteRow, Free, EndWrite
<1>12. ASSUME NEW c \in Requests, NEW t \in Threads, CreateBegin(c, t) \/ RestoreBegin(c, t)
    \/ PreviewBegin(c, t) PROVE StillWaited
  BY <1>12 DEF CreateBegin, Ask, BeginWrite, MayWrite, Ready, RestoreBegin,
      CancelTask, InflightOn, RunsOf, PreviewBegin
<1>13. ASSUME NEW c \in Requests, NEW t \in Threads, UploadBegin(c, t) \/ ReadBegin(c, t) \/
    DeleteBegin(c, t) PROVE StillWaited
  BY <1>13 DEF UploadBegin, Ask, BeginWrite, MayWrite, Ready, ReadBegin,
      BeginRead, DeleteBegin
<1>14. ASSUME NEW c \in Requests, NEW r \in Runs, CancelBegin(c, r) PROVE StillWaited
  BY <1>14 DEF CancelBegin, Ask, CancelTask
<1>15. CASE ShutdownEnds
  BY <1>15 DEF ShutdownEnds, ForgetAll, Forget
<1>16. CASE Crash
  BY <1>16 DEF Crash, ForgetAll, Forget
<1> QED  BY <1>2, <1>3, <1>4, <1>5, <1>6, <1>7, <1>8, <1>9, <1>10, <1>11, <1>12, <1>13, <1>14,
    <1>15, <1>16 DEF Next, TaskStep, RequestStep, RequestArrives, Startup

\* Nobody cancels a task that does not exist.
LEMMA FreshKeeps == Lifecycle /\ [Next]_vars => Fresh'
<1> SUFFICES ASSUME Lifecycle, [Next]_vars PROVE Fresh'
  OBVIOUS
<1> TypeOK /\ RowsOK /\ TasksOK /\ Fresh /\ TaskRow /\ RowOwned
  BY DEF Lifecycle, IInv, TypeOK, Bookkeeping
<1>1. UNCHANGED <<cancel, run>> => Fresh'
  BY DEF Fresh, Live, LivePc, WorkPc, FailPc, Inflight, Terminal, BeforeStart, Started
<1>2. ASSUME NEW r \in Runs, Begin(r) \/ FailRelease(r) \/ FailRead(r) \/ FailSave(r) \/
    Cleanup(r) \/ Consume(r) \/ AgentBash(r) PROVE Fresh'
  BY <1>2, <1>1 DEF Begin, FailRelease, ReleaseAgain, EndLease, StopThread, Block,
      FailRead, FailSave, Cleanup, Consume, ReleaseRun, AgentBash, entryVars, dbVars,
      boxVars, taskVars, streamVars, reqVars, procVars
<1>3. ASSUME NEW c \in Requests, CancelWoken(c) \/ CancelAnnounce(c) \/ CancelClose(c) \/
    RestoreStop(c) \/ RestorePrepare(c) \/ RestoreFinish(c) \/ PreviewEnd(c) \/ UploadEnd(c)
    \/ ReadEnd(c) \/ DeleteBox(c) PROVE Fresh'
  BY <1>3, <1>1 DEF CancelWoken, CancelReturns, Free, EndWrite, CancelAnnounce,
      CancelClose, RestoreStop, StopThread, BlockAndEndWrite, RestorePrepare, NoFault,
      RestoreFinish, PreviewEnd, UploadEnd, ReadEnd, EndRead, DeleteBox, entryVars,
      dbVars, boxVars, taskVars, streamVars, reqVars, procVars
<1>4. ASSUME NEW c \in Requests, NEW t \in Threads, CreateBegin(c, t) \/ PreviewBegin(c, t) \/
    UploadBegin(c, t) \/ ReadBegin(c, t) \/ DeleteBegin(c, t) PROVE Fresh'
  BY <1>4, <1>1 DEF CreateBegin, Ask, BeginWrite, MayWrite, Ready, PreviewBegin,
      UploadBegin, ReadBegin, BeginRead, DeleteBegin, entryVars, dbVars, boxVars,
      taskVars, streamVars, reqVars, procVars
<1>5. ASSUME NEW t \in Threads, ReapIdle(t) PROVE Fresh'
  BY <1>5, <1>1 DEF ReapIdle, entryVars, dbVars, boxVars, taskVars, streamVars, reqVars, procVars
<1>6. CASE RemoveOldContainers \/ RecoverFiles \/ Serve
  BY <1>6, <1>1 DEF RemoveOldContainers, RecoverFiles, BlockAll, Serve, entryVars,
      dbVars, boxVars, taskVars, streamVars, reqVars, procVars
<1>7. CASE UNCHANGED vars
  BY <1>7, <1>1 DEF vars, entryVars, dbVars, boxVars, taskVars, streamVars, reqVars, procVars
<1> USE AdmissionAssumption, LifecycleAssumption
    DEF RowsOK, TasksOK, Fresh, TaskRow, RowOwned, Live, LivePc,
    WorkPc, FailPc, Inflight, Terminal, BeforeStart, Started, entryVars, dbVars, boxVars,
    taskVars, streamVars, reqVars, procVars
<1>8. ASSUME NEW r \in Runs, Load(r) \/ StopOld(r) \/ Capture(r) PROVE Fresh'
  BY <1>8 DEF Load, Proceed, Fail, StopOld, StopOrBlock, StopThread, Block, Capture, Store
<1>9. ASSUME NEW r \in Runs, SaveInput(r) \/ SaveFinal(r) \/ Start(r) PROVE Fresh'
  BY <1>9 DEF SaveInput, Store, Proceed, Fail, SaveFinal, Start, StartTx, Move
<1>10. ASSUME NEW r \in Runs, BeginRun(r) \/ AgentEnds(r) \/ Release(r) PROVE Fresh'
  BY <1>10 DEF BeginRun, Fail, AgentEnds, Proceed, Release, EndLease, StopOrBlock, StopThread,
      Block
<1>11. ASSUME NEW r \in Runs, Finish(r) \/ Announce(r) \/ FailWrite(r) PROVE Fresh'
  BY <1>11 DEF Finish, FinishTx, Move, Proceed, Fail, Announce, FailWrite, InterruptTx, OrphanTx
<1>12. ASSUME NEW c \in Requests, CreateCommit(c) \/ CancelInterrupt(c) \/ DeleteRow(c) PROVE
    Fresh'
  BY <1>12 DEF CreateCommit, RegisterRun, EndWrite, Free, CancelInterrupt,
      InterruptTx, Move, DeleteRow
<1>13. ASSUME NEW c \in Requests, NEW t \in Threads, RestoreBegin(c, t) PROVE Fresh'
  BY <1>13 DEF RestoreBegin, Ask, BeginWrite, MayWrite, Ready, CancelTask,
      InflightOn, RunsOf
<1>14. ASSUME NEW c \in Requests, NEW r \in Runs, CancelBegin(c, r) PROVE Fresh'
  BY <1>14 DEF CancelBegin, Ask, CancelTask
<1>15. CASE Shutdown
  BY <1>15 DEF Shutdown
<1>16. CASE ShutdownEnds
  BY <1>16 DEF ShutdownEnds, ForgetAll, Forget
<1>17. CASE Crash
  BY <1>17 DEF Crash, ForgetAll, Forget
<1>18. ASSUME NEW r \in Runs, RecoverOrphan(r) PROVE Fresh'
  BY <1>18 DEF RecoverOrphan, OrphanTx, Move
<1> QED  BY <1>2, <1>3, <1>4, <1>5, <1>6, <1>7, <1>8, <1>9, <1>10, <1>11, <1>12, <1>13, <1>14,
    <1>15, <1>16, <1>17, <1>18 DEF Next, TaskStep, RequestStep, RequestArrives, Startup

\* Whoever waits for an inflight Run goes on waiting.
WaitGoesOn ==
    \A r \in Runs : Waited(r) /\ run[r] \in Inflight =>
        Waited(r)' \/ faults'.db > 0 \/ up' = "down"

\* The same for one who is waited for.
LEMMA WaitsOn == StillWaited => WaitGoesOn
<1> SUFFICES ASSUME StillWaited, NEW r \in Runs, Waited(r), run[r] \in Inflight
             PROVE  Waited(r)' \/ faults'.db > 0 \/ up' = "down"
  BY DEF WaitGoesOn
<1>1. PICK c \in Requests : target[c] = r /\ at[c] # "idle"
  BY DEF Waited
<1>2. (at'[c] # "idle" /\ target'[c] = target[c]) \/ faults'.db > 0 \/ up' = "down"
  BY <1>1 DEF StillWaited
<1> QED  BY <1>1, <1>2 DEF Waited

\* A request that cancels a Run waits for it.
LEMMA CancelWaits ==
  ASSUME RequestsOK, NEW c \in Requests, NEW t, NEW r, NEW what, NEW step, step # "idle",
         Ask(c, what, t, r, step)
  PROVE  Waited(r)'
<1>1. target'[c] = r /\ at'[c] = step
  BY DEF RequestsOK, Ask
<1> QED  BY <1>1 DEF Waited

\* A task that was cancelled before it ran is awaited.
LEMMA HeardKeeps == Lifecycle /\ [Next]_vars => Heard'
<1> SUFFICES ASSUME Lifecycle, [Next]_vars PROVE Heard'
  OBVIOUS
<1> TypeOK /\ TasksOK /\ RowsOK /\ RequestsOK /\ Heard /\ TaskRow /\ Silent /\ Fresh /\ Closing
  BY DEF Lifecycle, IInv, TypeOK, Bookkeeping
<1>s. Steady /\ TaskRow' /\ WaitGoesOn
  BY StillWaitedStep, WaitsOn, SteadyStep, TaskRowKeeps
<1>1. UNCHANGED <<cancel, pc>> => Heard'
  BY <1>s DEF Serve, TaskRow, Silent, Heard, Live, LivePc, WorkPc, FailPc, Serving, Inflight,
      BeforeStart, Started,
      WaitGoesOn, Steady
<1>2. ASSUME NEW r \in Runs, AgentBash(r) PROVE Heard'
  BY <1>2, <1>1 DEF AgentBash, entryVars, dbVars, boxVars, taskVars, streamVars, reqVars, procVars
<1>3. ASSUME NEW c \in Requests, CancelWoken(c) \/ CancelInterrupt(c) \/ CancelAnnounce(c) \/
    CancelClose(c) \/ RestoreStop(c) \/ RestorePrepare(c) \/ RestoreFinish(c) \/ PreviewEnd(c)
    \/ UploadEnd(c) \/ ReadEnd(c) \/ DeleteBox(c) \/ DeleteRow(c) PROVE Heard'
  BY <1>3, <1>1 DEF CancelWoken, CancelReturns, Free, EndWrite, CancelInterrupt,
      InterruptTx, Move, CancelAnnounce, CancelClose, RestoreStop, StopThread,
      BlockAndEndWrite, RestorePrepare, NoFault, RestoreFinish, PreviewEnd, UploadEnd,
      ReadEnd, EndRead, DeleteBox, DeleteRow, entryVars, dbVars, boxVars, taskVars,
      streamVars, reqVars, procVars
<1>4. ASSUME NEW c \in Requests, NEW t \in Threads, CreateBegin(c, t) \/ PreviewBegin(c, t) \/
    UploadBegin(c, t) \/ ReadBegin(c, t) \/ DeleteBegin(c, t) PROVE Heard'
  BY <1>4, <1>1 DEF CreateBegin, Ask, BeginWrite, MayWrite, Ready, PreviewBegin,
      UploadBegin, ReadBegin, BeginRead, DeleteBegin, entryVars, dbVars, boxVars,
      taskVars, streamVars, reqVars, procVars
<1>5. ASSUME NEW t \in Threads, ReapIdle(t) PROVE Heard'
  BY <1>5, <1>1 DEF ReapIdle, entryVars, dbVars, boxVars, taskVars, streamVars, reqVars, procVars
<1>6. CASE RemoveOldContainers \/ RecoverFiles \/ Serve
  BY <1>6, <1>1 DEF RemoveOldContainers, RecoverFiles, BlockAll, Serve, entryVars,
      dbVars, boxVars, taskVars, streamVars, reqVars, procVars
<1>7. ASSUME NEW r \in Runs, RecoverOrphan(r) PROVE Heard'
  BY <1>7, <1>1 DEF RecoverOrphan, OrphanTx, Move, entryVars, dbVars, boxVars, taskVars,
      streamVars, reqVars, procVars
<1>8. CASE UNCHANGED vars
  BY <1>8, <1>1 DEF vars, entryVars, dbVars, boxVars, taskVars, streamVars, reqVars, procVars
<1> USE AdmissionAssumption, LifecycleAssumption
    DEF TasksOK, RowsOK, RequestsOK, Heard, TaskRow, Silent, Fresh,
    Closing, Live, LivePc, WorkPc, FailPc, Serving, Inflight, BeforeStart, Started,
    WaitGoesOn, Steady, entryVars, dbVars, boxVars, taskVars, streamVars, reqVars, procVars
<1>9. ASSUME NEW r \in Runs, Begin(r) \/ Load(r) \/ StopOld(r) PROVE Heard'
  BY <1>9, <1>s DEF Begin, Load, Proceed, Fail, StopOld, StopOrBlock, StopThread, Block
<1>10. ASSUME NEW r \in Runs, Capture(r) \/ SaveInput(r) \/ SaveFinal(r) PROVE Heard'
  BY <1>10, <1>s DEF Capture, Store, Proceed, Fail, SaveInput, SaveFinal
<1>11. ASSUME NEW r \in Runs, Start(r) \/ BeginRun(r) \/ AgentEnds(r) PROVE Heard'
  BY <1>11, <1>s DEF Start, StartTx, Move, Proceed, Fail, BeginRun, AgentEnds
<1>12. ASSUME NEW r \in Runs, Release(r) \/ Finish(r) \/ Announce(r) PROVE Heard'
  BY <1>12, <1>s DEF Release, EndLease, StopOrBlock, StopThread, Fail, Block, Finish,
      FinishTx, Move, Proceed, Announce
<1>13. ASSUME NEW r \in Runs, FailRelease(r) \/ FailRead(r) \/ FailSave(r) PROVE Heard'
  BY <1>13, <1>s DEF FailRelease, ReleaseAgain, EndLease, StopThread, Block, FailRead,
      FailSave
<1>14. ASSUME NEW r \in Runs, FailWrite(r) \/ Cleanup(r) \/ Consume(r) PROVE Heard'
  BY <1>14, <1>s DEF FailWrite, InterruptTx, FinishTx, OrphanTx, Move, Cleanup, ReleaseAgain,
      EndLease, StopThread, Block, Consume, ReleaseRun
<1>15. ASSUME NEW c \in Requests, CreateCommit(c) PROVE Heard'
  BY <1>15, <1>s DEF CreateCommit, RegisterRun, EndWrite, Free
<1>16. ASSUME NEW c \in Requests, NEW t \in Threads, RestoreBegin(c, t) PROVE Heard'
  <2>1. CASE UNCHANGED cancel
    BY <1>1, <1>16, <2>1 DEF RestoreBegin
  <2>2. ASSUME NEW r \in Runs, CancelTask(r),
               Ask(c, "restore", t, r, IF Live(r) THEN "awaitTask" ELSE "interrupt")
        PROVE  Heard'
    <3>1. Waited(r)'
      BY <2>2, CancelWaits
    <3>2. \A q \in Runs : q # r => cancel'[q] = cancel[q]
      BY <2>2 DEF CancelTask
    <3> QED  BY <1>16, <1>s, <2>2, <3>1, <3>2 DEF RestoreBegin, Ask
  <2> QED  BY <1>16, <2>1, <2>2 DEF RestoreBegin, InflightOn, RunsOf
<1>17. ASSUME NEW c \in Requests, NEW r \in Runs, CancelBegin(c, r) PROVE Heard'
  <2>1. Waited(r)'
    BY <1>17, CancelWaits DEF CancelBegin
  <2>2. CancelTask(r)
    BY <1>17 DEF CancelBegin
  <2>3. \A q \in Runs : q # r => cancel'[q] = cancel[q]
    BY <2>2 DEF CancelTask
  <2> QED  BY <1>17, <1>s, <2>1, <2>3 DEF CancelBegin, Ask
<1>18. CASE Shutdown
  BY <1>18, <1>s DEF Shutdown
<1>19. CASE ShutdownEnds
  BY <1>19, <1>s DEF ShutdownEnds, ForgetAll, Forget
<1>20. CASE Crash
  BY <1>20, <1>s DEF Crash, ForgetAll, Forget
<1> QED  BY <1>2, <1>3, <1>4, <1>5, <1>6, <1>7, <1>8, <1>9, <1>10, <1>11, <1>12, <1>13, <1>14,
    <1>15, <1>16, <1>17, <1>18, <1>19, <1>20 DEF Next, TaskStep, RequestStep, RequestArrives,
    Startup

\* An inflight Run has a task or a request that closes it.
LEMMA AttendedKeeps == Lifecycle /\ [Next]_vars => Attended'
<1> SUFFICES ASSUME Lifecycle, [Next]_vars PROVE Attended'
  OBVIOUS
<1> TypeOK /\ TasksOK /\ RowsOK /\ RequestsOK /\ FaultsOK /\ Attended /\ TaskRow /\ Silent /\
    Settled /\ Heard /\ Recovered /\ Fresh /\ Closing /\ RowOwned
  BY DEF Lifecycle, IInv, TypeOK, Bookkeeping
<1>s. Steady /\ TaskRow' /\ WaitGoesOn
  BY StillWaitedStep, WaitsOn, SteadyStep, TaskRowKeeps
<1>1. UNCHANGED <<pc, run>> => Attended'
  BY <1>s DEF Serve, Recovered, Attended, Live, LivePc, WorkPc, FailPc, Serving, Inflight,
      Terminal, BeforeStart,
      Started, WaitGoesOn, Steady
<1>2. ASSUME NEW r \in Runs, AgentBash(r) PROVE Attended'
  BY <1>2, <1>1 DEF AgentBash, entryVars, dbVars, boxVars, taskVars, streamVars, reqVars, procVars
<1>3. ASSUME NEW c \in Requests, CancelWoken(c) \/ CancelAnnounce(c) \/ CancelClose(c) \/
    RestoreStop(c) \/ RestorePrepare(c) \/ RestoreFinish(c) \/ PreviewEnd(c) \/ UploadEnd(c)
    \/ ReadEnd(c) \/ DeleteBox(c) PROVE Attended'
  BY <1>3, <1>1 DEF CancelWoken, CancelReturns, Free, EndWrite, CancelAnnounce,
      CancelClose, RestoreStop, StopThread, BlockAndEndWrite, RestorePrepare, NoFault,
      RestoreFinish, PreviewEnd, UploadEnd, ReadEnd, EndRead, DeleteBox, entryVars,
      dbVars, boxVars, taskVars, streamVars, reqVars, procVars
<1>4. ASSUME NEW c \in Requests, NEW t \in Threads, CreateBegin(c, t) \/ RestoreBegin(c, t) \/
    PreviewBegin(c, t) \/ UploadBegin(c, t) \/ ReadBegin(c, t) \/ DeleteBegin(c, t) PROVE
    Attended'
  BY <1>4, <1>1 DEF CreateBegin, Ask, BeginWrite, MayWrite, Ready, RestoreBegin,
      CancelTask, InflightOn, RunsOf, PreviewBegin, UploadBegin, ReadBegin, BeginRead,
      DeleteBegin, entryVars, dbVars, boxVars, taskVars, streamVars, reqVars, procVars
<1>5. ASSUME NEW c \in Requests, NEW r \in Runs, CancelBegin(c, r) PROVE Attended'
  BY <1>5, <1>1 DEF CancelBegin, Ask, CancelTask, entryVars, dbVars, boxVars, taskVars,
      streamVars, reqVars, procVars
<1>6. ASSUME NEW t \in Threads, ReapIdle(t) PROVE Attended'
  BY <1>6, <1>1 DEF ReapIdle, entryVars, dbVars, boxVars, taskVars, streamVars, reqVars, procVars
<1>7. CASE Shutdown \/ RemoveOldContainers \/ RecoverFiles \/ Serve
  BY <1>7, <1>1 DEF Shutdown, RemoveOldContainers, RecoverFiles, BlockAll, Serve,
      entryVars, dbVars, boxVars, taskVars, streamVars, reqVars, procVars
<1>8. CASE UNCHANGED vars
  BY <1>8, <1>1 DEF vars, entryVars, dbVars, boxVars, taskVars, streamVars, reqVars, procVars
<1> USE AdmissionAssumption, LifecycleAssumption
    DEF TasksOK, RowsOK, RequestsOK, FaultsOK, Attended, TaskRow,
    Silent, Settled, Heard, Recovered, Fresh, Closing, RowOwned, Live, LivePc, WorkPc, FailPc,
    Serving, Inflight, Terminal, BeforeStart, Started, WaitGoesOn, Steady, entryVars, dbVars,
    boxVars, taskVars, streamVars, reqVars, procVars
<1>9. ASSUME NEW r \in Runs, Begin(r) PROVE Attended'
  BY <1>9, <1>s DEF Begin
<1>10. ASSUME NEW r \in Runs, Load(r) PROVE Attended'
  <2>1. CASE faults'.db > 0
    BY <2>1
  <2>2. CASE Proceed(r, "stopOld") \/ Fail(r, "error")
    BY <1>10, <1>s, <2>2 DEF Load, Proceed, Fail
  <2>3. CASE DbFault
    BY <2>1, <2>3 DEF DbFault
  <2> QED  BY <1>10, <2>2, <2>3 DEF Load
<1>11. ASSUME NEW r \in Runs, StopOld(r) \/ Capture(r) \/ SaveInput(r) PROVE Attended'
  BY <1>11, <1>s DEF StopOld, StopOrBlock, StopThread, Fail, Block, Capture, Store,
      Proceed, SaveInput
<1>12. ASSUME NEW r \in Runs, SaveFinal(r) \/ Start(r) \/ BeginRun(r) PROVE Attended'
  BY <1>12, <1>s DEF SaveFinal, Store, Proceed, Fail, Start, StartTx, Move, BeginRun
<1>13. ASSUME NEW r \in Runs, AgentEnds(r) \/ Release(r) \/ Finish(r) PROVE Attended'
  BY <1>13, <1>s DEF AgentEnds, Proceed, Fail, Release, EndLease, StopOrBlock, StopThread,
      Block, Finish, FinishTx, Move
<1>14. ASSUME NEW r \in Runs, Announce(r) \/ FailRelease(r) \/ FailRead(r) PROVE Attended'
  BY <1>14, <1>s DEF Announce, Proceed, Fail, FailRelease, ReleaseAgain, EndLease, StopThread,
      Block, FailRead
<1>15. ASSUME NEW r \in Runs, FailSave(r) \/ FailWrite(r) \/ Cleanup(r) PROVE Attended'
  BY <1>15, <1>s DEF FailSave, FailWrite, InterruptTx, FinishTx, OrphanTx, Move, Cleanup,
      ReleaseAgain, EndLease, StopThread, Block
<1>16. ASSUME NEW r \in Runs, Consume(r) PROVE Attended'
  BY <1>16, <1>s DEF Consume, ReleaseRun
<1>17. ASSUME NEW c \in Requests, CreateCommit(c) \/ CancelInterrupt(c) \/ DeleteRow(c) PROVE
    Attended'
  BY <1>17, <1>s DEF CreateCommit, RegisterRun, EndWrite, Free, CancelInterrupt,
      InterruptTx, Move, DeleteRow
<1>18. CASE ShutdownEnds
  BY <1>18, <1>s DEF ShutdownEnds, ForgetAll, Forget
<1>19. CASE Crash
  BY <1>19, <1>s DEF Crash, ForgetAll, Forget
<1>20. ASSUME NEW r \in Runs, RecoverOrphan(r) PROVE Attended'
  BY <1>20, <1>s DEF RecoverOrphan, OrphanTx, Move
<1> QED  BY <1>2, <1>3, <1>4, <1>5, <1>6, <1>7, <1>8, <1>9, <1>10, <1>11, <1>12, <1>13, <1>14,
    <1>15, <1>16, <1>17, <1>18, <1>19, <1>20 DEF Next, TaskStep, RequestStep, RequestArrives,
    Startup
-----------------------------------------------------------------------------
(* The invariant                                                           *)

\* A fresh process has no story yet.
LEMMA InitLifecycle == Init => Lifecycle
<1> SUFFICES ASSUME Init PROVE Lifecycle
  OBVIOUS
<1>1. IInv
  BY InitIInv
<1> USE AdmissionAssumption, LifecycleAssumption
    DEF Init
<1>2. TaskRow /\ Silent /\ CleanStart /\ Orphaned /\ OneInflight /\ ThreadFollows
  BY DEF TaskRow, Silent, CleanStart, Orphaned, OneInflight, ThreadFollows, Serving, Inflight,
      BeforeStart, Started, Live, LivePc, WorkPc, FailPc
<1>3. Holds /\ HeldFor /\ Closing /\ Closed /\ Ended /\ Unmounted /\ Emptied /\ Building
  BY DEF Holds, HeldFor, Closing, Closed, Ended, Unmounted, Emptied, Building, Empty,
      Writing, Restoring, Cancelling
<1>4. Leased /\ StrayBlocks /\ FinalSaved /\ Durable /\ Learned
  BY DEF Leased, StrayBlocks, FinalSaved, Durable, Learned
<1>5. ConfirmedEventsAreTrue /\ Pending /\ Timely /\ Fresh
  BY DEF ConfirmedEventsAreTrue, Pending, Timely, Fresh
<1>6. Settled /\ Heard /\ Attended /\ Recovered
  BY DEF Settled, Heard, Attended, Recovered, Inflight
<1> QED  BY <1>1, <1>2, <1>3, <1>4, <1>5, <1>6 DEF Lifecycle

\* Every step keeps the story: one lemma for each of its parts.
LEMMA LifecycleStep == Lifecycle /\ [Next]_vars => Lifecycle'
<1> SUFFICES ASSUME Lifecycle, [Next]_vars PROVE Lifecycle'
  OBVIOUS
<1>1. IInv'
  BY IInvStep DEF Lifecycle
<1>2. TaskRow' /\ Silent' /\ CleanStart' /\ Orphaned' /\ OneInflight' /\ ThreadFollows'
  BY TaskRowKeeps, SilentKeeps, CleanStartKeeps, OrphanedKeeps, OneInflightKeeps
<1>3. Holds' /\ HeldFor' /\ Closing' /\ Closed' /\ Ended' /\ Unmounted' /\ Emptied' /\ Building'
  BY HoldsKeeps, HeldForKeeps, ClosingKeeps, ClosedKeeps, EndedKeeps, UnmountedKeeps,
     EmptiedKeeps, BuildingKeeps
<1>4. Leased' /\ StrayBlocks' /\ FinalSaved' /\ Durable' /\ Learned'
  BY LeasedKeeps, StrayBlocksKeeps, FinalSavedKeeps, DurableKeeps, LearnedKeeps
<1>5. ConfirmedEventsAreTrue' /\ Pending' /\ Timely' /\ Fresh'
  BY ConfirmedEventsAreTrueKeeps, PendingKeeps, TimelyKeeps, FreshKeeps
<1>6. Settled' /\ Heard' /\ Attended' /\ Recovered'
  BY SettledKeeps, HeardKeeps, AttendedKeeps, RecoveredKeeps
<1> QED  BY <1>1, <1>2, <1>3, <1>4, <1>5, <1>6 DEF Lifecycle

\* The story of every Run, task, request and row fits together in every reachable state.
LEMMA StoryHolds == Spec => []Lifecycle
  BY InitLifecycle, LifecycleStep, PTL DEF Spec

\* The row of a Thread tells whether a Run works on it, and no second Run is inflight.
LEMMA FollowsAgrees == OneInflight /\ ThreadFollows => ThreadRowAgrees
<1> SUFFICES ASSUME OneInflight, ThreadFollows, NEW t \in Threads
             PROVE  /\ Cardinality(InflightOn(t)) <= 1
                    /\ thread[t] = "running" <=> \E r \in RunsOf(t) : run[r] = "running"
  BY DEF ThreadRowAgrees
<1>1. Cardinality(InflightOn(t)) <= 1
  <2>1. CASE InflightOn(t) = {}
    BY <2>1, FS_EmptySet
  <2>2. ASSUME NEW r \in InflightOn(t) PROVE Cardinality(InflightOn(t)) <= 1
    <3>1. InflightOn(t) = {r}
      BY <2>2 DEF OneInflight, InflightOn, RunsOf
    <3>2. Cardinality({r}) = 1
      BY FS_Singleton
    <3> QED  BY <3>1, <3>2, SMT
  <2> QED  BY <2>1, <2>2
<1>2. thread[t] = "running" <=> \E r \in RunsOf(t) : run[r] = "running"
  BY DEF ThreadFollows, RunsOf
<1> QED  BY <1>1, <1>2

-----------------------------------------------------------------------------
(* The safety properties                                                   *)

\* Rows, events and deletions agree: one inflight Run of a Thread, whose row says so; a
\* confirmed terminal event is the row; nothing is left of a deleted Thread.
THEOREM RowsAreRight == Spec => []RowsAgree
<1>1. Lifecycle => ThreadRowAgrees /\ ConfirmedEventsAreTrue
  BY FollowsAgrees DEF Lifecycle
<1>2. Lifecycle => DeletedIsEmpty
  BY DEF Lifecycle, Emptied, TaskRow, DeletedIsEmpty, RunsOf
<1>3. Lifecycle => RowsAgree
  BY <1>1, <1>2 DEF RowsAgree
<1> QED  BY <1>3, StoryHolds, PTL

\* Success is claimed, by the row and to memory extraction, only of a Run whose final state
\* is saved and whose lease is given back.
THEOREM SuccessIsSaved == Spec => []SuccessIsDurable
<1>1. Lifecycle => SuccessIsDurable
  BY DEF Lifecycle, Durable, Learned, SuccessIsDurable
<1> QED  BY <1>1, StoryHolds, PTL

\* A restore exchanges directories nobody works on, mounts, reads or holds, and a container
\* that no working task accounts for means a blocked Thread.
THEOREM ChangesAreAlone == Spec => []FilesAreAlone
<1>1. Lifecycle => SwapIsExclusive
  <2> SUFFICES ASSUME Lifecycle, NEW c \in Requests, at[c] = "swapping"
               PROVE  /\ \A r \in RunsOf(on[c]) : ~Touching(r)
                      /\ ~container[on[c]] /\ lease[on[c]] = NoRun
                      /\ readers[on[c]] = {} /\ writer[on[c]] = c
    BY DEF SwapIsExclusive
  <2>1. on[c] \in Threads /\ writer[on[c]] = c
    BY DEF Lifecycle, IInv, Bookkeeping, OnThread, Holds, Restoring
  <2>2. readers[on[c]] = {}
    BY <2>1, AdmissionAssumption, LifecycleAssumption DEF Lifecycle, IInv, Exclusion
  <2>3. ~container[on[c]] /\ lease[on[c]] = NoRun
    BY DEF Lifecycle, Unmounted
  <2>4. \A r \in RunsOf(on[c]) : run[r] \notin Inflight
    BY DEF Lifecycle, Ended, Holds, Restoring, Cancelling, RunsOf
  <2>5. \A r \in RunsOf(on[c]) : ~Touching(r)
    BY <2>4 DEF Lifecycle, TaskRow, BeforeStart, Started, Touching, WorkPc, RunsOf, Inflight
  <2> QED  BY <2>1, <2>2, <2>3, <2>5
<1>2. Lifecycle => StrayContainerBlocks
  BY DEF Lifecycle, StrayBlocks, StrayContainerBlocks, HoldsBox, RunsOf
<1>3. Lifecycle => FilesAreAlone
  BY <1>1, <1>2 DEF FilesAreAlone
<1> QED  BY <1>3, StoryHolds, PTL

\* Files a restore left half exchanged are touched by nobody until a start has settled them.
THEOREM UnsettledAreAlone == Spec => []UnsettledFilesUntouched
<1>1. Lifecycle => UnsettledFilesUntouched
  <2> SUFFICES ASSUME Lifecycle, NEW t \in Threads, fileOp[t] = "pending"
               PROVE  /\ \A r \in RunsOf(t) : ~Touching(r)
                      /\ readers[t] = {}
                      /\ writer[t] # NoRequest => op[writer[t]] = "restore"
    BY DEF UnsettledFilesUntouched
  <2>1. /\ \A r \in Runs : owner[r] = t => run[r] \notin Inflight
        /\ readers[t] = {}
        /\ writer[t] # NoRequest => at[writer[t]] = "swapping"
    BY DEF Lifecycle, Pending
  <2>2. \A r \in RunsOf(t) : ~Touching(r)
    BY <2>1 DEF Lifecycle, TaskRow, BeforeStart, Started, Touching, WorkPc, RunsOf, Inflight
  <2>3. writer[t] \in Requests \cup {NoRequest}
    BY DEF Lifecycle, IInv, TypeOK, EntryOK
  <2>4. writer[t] # NoRequest => op[writer[t]] = "restore"
    BY <2>1, <2>3 DEF Lifecycle, Holds, Restoring
  <2> QED  BY <2>1, <2>2, <2>4
<1> QED  BY <1>1, StoryHolds, PTL

\* As long as SQLite works, no inflight Run is left without a task that will end it or a
\* request that is closing it.
THEOREM NobodyIsAbandoned == Spec => []NoRunIsAbandoned
<1>1. Lifecycle => NoRunIsAbandoned
  BY DEF Lifecycle, Attended, NoRunIsAbandoned, Waited, Live
<1> QED  BY <1>1, StoryHolds, PTL

\* One task answers for what a Thread is doing: never two, and while SQLite works not none,
\* unless a request is closing the Run in its place.
THEOREM OneTaskForAll == Spec => []OneTaskAnswers
  BY OneTask, NobodyIsAbandoned, PTL DEF OneTaskAnswers
=============================================================================
