--------------------------- MODULE ThreadAdmission ---------------------------
(***************************************************************************)
(* services/thread_operations.py: the admission entry the process keeps     *)
(* for every Thread.  Each method runs between two awaits of one asyncio    *)
(* loop, so each is one action.  An entry holds the registered Run, the     *)
(* exclusive operation in progress, the read leases and the blocked mark.   *)
(* The code stores the KIND of the writer and a COUNT of readers; here the  *)
(* operation itself stands for both, which keeps every emptiness test.      *)
(***************************************************************************)
EXTENDS FiniteSets

CONSTANTS Threads,   \* Threads an entry may exist for
          Runs,      \* Run identifiers
          Requests,  \* operations (HTTP handlers) that may hold an entry
          NoRun,     \* entry.run_id is None
          NoRequest  \* entry.writer is None

ASSUME AdmissionAssumption == NoRun \notin Runs /\ NoRequest \notin Requests

VARIABLES runOf,     \* entry.run_id
          writer,    \* the operation holding entry.writer
          sharing,   \* the writer was admitted beside a Run (allow_run)
          readers,   \* operations holding a read lease
          blocked    \* entry.blocked

entryVars == <<runOf, writer, sharing, readers, blocked>>

EntryOK ==
    /\ runOf \in [Threads -> Runs \cup {NoRun}]
    /\ writer \in [Threads -> Requests \cup {NoRequest}]
    /\ sharing \in [Threads -> BOOLEAN]
    /\ readers \in [Threads -> SUBSET Requests]
    /\ blocked \in [Threads -> BOOLEAN]

\* A fresh process has no entries: setdefault creates the empty one.
Empty ==
    /\ runOf = [t \in Threads |-> NoRun]
    /\ writer = [t \in Threads |-> NoRequest]
    /\ sharing = [t \in Threads |-> FALSE]
    /\ readers = [t \in Threads |-> {}]
    /\ blocked = [t \in Threads |-> FALSE]

-----------------------------------------------------------------------------
\* The operators named after a definition with an underscore are seeded faults:
\* a run with one in the place of the definition must notice it.
MayWrite_IgnoresReaders(t, allowRun) ==
    ~blocked[t] /\ writer[t] = NoRequest /\ (runOf[t] = NoRun \/ allowRun)

\* What write() tests before it admits an operation.
MayWrite(t, allowRun) ==
    /\ ~blocked[t]
    /\ writer[t] = NoRequest
    /\ readers[t] = {}
    /\ runOf[t] = NoRun \/ allowRun

\* The operation enters the body of `with operations.write(...)`.
BeginWrite(t, c, allowRun) ==
    /\ MayWrite(t, allowRun)
    /\ writer' = [writer EXCEPT ![t] = c]
    /\ sharing' = [sharing EXCEPT ![t] = allowRun]
    /\ UNCHANGED <<runOf, readers, blocked>>

\* The finally of write(): the entry is given up however the body ended.
EndWrite(t, c) ==
    /\ writer[t] = c
    /\ writer' = [writer EXCEPT ![t] = NoRequest]
    /\ sharing' = [sharing EXCEPT ![t] = FALSE]
    /\ UNCHANGED <<runOf, readers, blocked>>

\* The body fails and marks the Thread before the finally runs.
BlockAndEndWrite(t, c) ==
    /\ writer[t] = c
    /\ blocked' = [blocked EXCEPT ![t] = TRUE]
    /\ writer' = [writer EXCEPT ![t] = NoRequest]
    /\ sharing' = [sharing EXCEPT ![t] = FALSE]
    /\ UNCHANGED <<runOf, readers>>

RegisterRun_Nothing(t, c, r) == EndWrite(t, c)

\* create_and_start_run registers the Run and leaves write() without an await.
RegisterRun(t, c, r) ==
    /\ writer[t] = c
    /\ ~sharing[t]
    /\ runOf' = [runOf EXCEPT ![t] = r]
    /\ writer' = [writer EXCEPT ![t] = NoRequest]
    /\ UNCHANGED <<sharing, readers, blocked>>

\* Only the Run that is registered is released.
ReleaseRun(t, r) ==
    /\ runOf' = [runOf EXCEPT ![t] = IF @ = r THEN NoRun ELSE @]
    /\ UNCHANGED <<writer, sharing, readers, blocked>>

\* A read lease: a registered Run does not stop it.
BeginRead(t, c) ==
    /\ ~blocked[t]
    /\ writer[t] = NoRequest
    /\ readers' = [readers EXCEPT ![t] = @ \cup {c}]
    /\ UNCHANGED <<runOf, writer, sharing, blocked>>

EndRead(t, c) ==
    /\ c \in readers[t]
    /\ readers' = [readers EXCEPT ![t] = @ \ {c}]
    /\ UNCHANGED <<runOf, writer, sharing, blocked>>

Block_Nothing(t) == UNCHANGED entryVars

\* on_sandbox_failure and a failed stop of restore_thread.
Block(t) ==
    /\ blocked' = [blocked EXCEPT ![t] = TRUE]
    /\ UNCHANGED <<runOf, writer, sharing, readers>>

\* The process ends: the entries live in its memory only.
Forget ==
    /\ runOf' = [t \in Threads |-> NoRun]
    /\ writer' = [t \in Threads |-> NoRequest]
    /\ sharing' = [t \in Threads |-> FALSE]
    /\ readers' = [t \in Threads |-> {}]
    /\ blocked' = [t \in Threads |-> FALSE]

\* The startup replay blocks the Threads whose files it could not settle.
BlockAll(S) ==
    /\ blocked' = [t \in Threads |-> blocked[t] \/ t \in S]
    /\ UNCHANGED <<runOf, writer, sharing, readers>>

EntryNext ==
    \/ \E t \in Threads, c \in Requests :
        \/ \E allowRun \in BOOLEAN : BeginWrite(t, c, allowRun)
        \/ EndWrite(t, c)
        \/ BlockAndEndWrite(t, c)
        \/ \E r \in Runs : RegisterRun(t, c, r)
        \/ BeginRead(t, c)
        \/ EndRead(t, c)
    \/ \E t \in Threads : Block(t)
    \/ \E t \in Threads, r \in Runs : ReleaseRun(t, r)
    \/ \E S \in SUBSET Threads : BlockAll(S)
    \/ Forget

EntrySpec == Empty /\ [][EntryNext]_entryVars

-----------------------------------------------------------------------------
\* Nothing reads a Thread's files while an operation may change them, and an
\* operation that does not expect a Run never has one beside it: the promise
\* of write() and read() that every file operation of the service relies on.
Exclusion ==
    \A t \in Threads :
        /\ writer[t] # NoRequest => readers[t] = {}
        /\ writer[t] # NoRequest /\ ~sharing[t] => runOf[t] = NoRun

\* A blocked Thread admits nothing new until the process ends: no operation
\* becomes its writer, none joins its readers, and the mark does not go away.
BlockedStaysClosed ==
    [][\A t \in Threads : blocked[t] /\ ~(Forget) =>
          /\ blocked'[t]
          /\ writer'[t] \in {writer[t], NoRequest}
          /\ readers'[t] \subseteq readers[t]]_entryVars
=============================================================================
