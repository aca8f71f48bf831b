------------------------------ MODULE EventJournal -----------------------------
(***************************************************************************)
(* The journal of the events of one Run: runtime/event_recorder.py, whose   *)
(* recorders publish an event at once and save it later in batches, and     *)
(* append_batch of repositories/events_repository.py.  The Run's task has a *)
(* recorder, and so has a request that closes the Run in its place; both    *)
(* may still be writing when the Run is over, or its Thread deleted.        *)
(*                                                                          *)
(* An event is its recorder and its number.  Whether an event is too large  *)
(* for what is left of max_buffer_bytes is left open, and so is the moment  *)
(* a writer wakes, as flush_interval makes every wait end.                  *)
(*                                                                          *)
(* Bounds: MaxRecorded events of a recorder, MaxFailures failing commits.   *)
(***************************************************************************)
EXTENDS Naturals, Sequences, FiniteSets

CONSTANTS Recorders, BatchSize, MaxBuffer, MaxAttempts, MaxRecorded, MaxFailures

ASSUME JournalAssumption ==
    /\ {BatchSize, MaxBuffer, MaxAttempts} \subseteq Nat \ {0}
    /\ MaxRecorded \in Nat /\ MaxFailures \in Nat

VARIABLES
    rows,     \* run_events of the Run, by sequence
    exists,   \* the Run is there, and its Thread
    made,     \* how many events of a recorder were published
    buffer,   \* those that wait to be saved
    batch,    \* those its writer has taken out
    writer,   \* its task _write_loop
    attempt,  \* how often the batch was tried
    closing, abandon,
    dropped,  \* dropped_events
    failures  \* commits that failed so far

recorder == <<made, buffer, batch, writer, attempt, closing, abandon, dropped>>
journalVars == <<rows, exists, recorder, failures>>

Event == [of : Recorders, n : 1..MaxRecorded]

JournalTypeOK ==
    /\ rows \in Seq(Event) /\ exists \in BOOLEAN
    /\ made \in [Recorders -> 0..MaxRecorded]
    /\ buffer \in [Recorders -> Seq(Event)] /\ batch \in [Recorders -> Seq(Event)]
    /\ writer \in [Recorders -> {"none", "loop", "writing", "waiting", "ended"}]
    /\ attempt \in [Recorders -> 0..MaxAttempts]
    /\ closing \in [Recorders -> BOOLEAN] /\ abandon \in [Recorders -> BOOLEAN]
    /\ dropped \in [Recorders -> Nat] /\ failures \in 0..MaxFailures

JournalInit ==
    /\ rows = <<>> /\ exists = TRUE
    /\ made = [r \in Recorders |-> 0]
    /\ buffer = [r \in Recorders |-> <<>>] /\ batch = [r \in Recorders |-> <<>>]
    /\ writer = [r \in Recorders |-> "none"] /\ attempt = [r \in Recorders |-> 0]
    /\ closing = [r \in Recorders |-> FALSE] /\ abandon = [r \in Recorders |-> FALSE]
    /\ dropped = [r \in Recorders |-> 0] /\ failures = 0

-----------------------------------------------------------------------------

New(r) == [of |-> r, n |-> made[r] + 1]
\* What is being written counts, too.
Room(r) == Len(buffer[r]) + Len(batch[r]) < MaxBuffer
CountDropped(r, n) == dropped' = [dropped EXCEPT ![r] = @ + n]

\* record_event of something that is saved.
RecordEvent(r) ==
    /\ ~closing[r] /\ made[r] < MaxRecorded
    /\ made' = [made EXCEPT ![r] = @ + 1]
    /\ \/ /\ Room(r)
          /\ buffer' = [buffer EXCEPT ![r] = Append(@, New(r))]
          /\ writer' = [writer EXCEPT ![r] = IF @ = "none" THEN "loop" ELSE @]
          /\ UNCHANGED dropped
       \/ CountDropped(r, 1) /\ UNCHANGED <<buffer, writer>>
    /\ UNCHANGED <<rows, exists, batch, attempt, closing, abandon, failures>>

Smaller(a, b) == IF a < b THEN a ELSE b

\* _write_loop takes a batch, or is over.
TakeBatch(r) ==
    LET n == Smaller(BatchSize, Len(buffer[r])) IN
    /\ writer[r] = "loop" /\ ~abandon[r] /\ n > 0
    /\ batch' = [batch EXCEPT ![r] = SubSeq(buffer[r], 1, n)]
    /\ buffer' = [buffer EXCEPT ![r] = SubSeq(@, n + 1, Len(@))]
    /\ writer' = [writer EXCEPT ![r] = "writing"] /\ attempt' = [attempt EXCEPT ![r] = 1]
    /\ UNCHANGED <<rows, exists, made, closing, abandon, dropped, failures>>

WriterEnds(r) ==
    /\ writer[r] = "loop" /\ (abandon[r] \/ (closing[r] /\ buffer[r] = <<>>))
    /\ writer' = [writer EXCEPT ![r] = "ended"]
    /\ UNCHANGED <<rows, exists, made, buffer, batch, attempt, closing, abandon, dropped, failures>>

In(e, s) == \E i \in 1..Len(s) : s[i] = e

\* append_batch: one transaction; an event that is there already is not inserted again.
AppendBatch_Blind(events) == rows' = rows \o events
AppendBatch(events) ==
    LET after[k \in 0..Len(events)] ==
        IF k = 0 THEN rows
        ELSE IF In(events[k], after[k - 1]) THEN after[k - 1]
        ELSE Append(after[k - 1], events[k])
    IN rows' = after[Len(events)]

MayAppend == exists

BatchDone(r) ==
    /\ batch' = [batch EXCEPT ![r] = <<>>]
    /\ writer' = [writer EXCEPT ![r] = "loop"] /\ attempt' = [attempt EXCEPT ![r] = 0]

Write(r) ==
    /\ writer[r] = "writing" /\ MayAppend
    /\ AppendBatch(batch[r]) /\ BatchDone(r)
    /\ UNCHANGED <<exists, made, buffer, closing, abandon, dropped, failures>>

GiveUp(r) == CountDropped(r, Len(batch[r])) /\ BatchDone(r)

Failed_ForEver(r) ==
    /\ writer' = [writer EXCEPT ![r] = "waiting"] /\ attempt' = [attempt EXCEPT ![r] = 0]
    /\ UNCHANGED <<batch, dropped>>

\* The batch is tried again after a while, unless that was the last attempt.
Failed(r) ==
    IF attempt[r] < MaxAttempts /\ ~abandon[r]
    THEN writer' = [writer EXCEPT ![r] = "waiting"] /\ UNCHANGED <<batch, attempt, dropped>>
    ELSE GiveUp(r)

\* The transaction fails, or its commit reports an error and stands.
WriteFails(r) ==
    /\ writer[r] = "writing" /\ failures < MaxFailures
    /\ failures' = failures + 1
    /\ \/ UNCHANGED rows
       \/ MayAppend /\ AppendBatch(batch[r])
    /\ Failed(r)
    /\ UNCHANGED <<exists, made, buffer, closing, abandon>>

\* The Run is not there any more.
WriteRefused(r) ==
    /\ writer[r] = "writing" /\ ~MayAppend
    /\ Failed(r)
    /\ UNCHANGED <<rows, exists, made, buffer, closing, abandon, failures>>

Retry(r) ==
    /\ writer[r] = "waiting"
    /\ IF abandon[r] THEN GiveUp(r)
       ELSE /\ writer' = [writer EXCEPT ![r] = "writing"]
            /\ attempt' = [attempt EXCEPT ![r] = @ + 1] /\ UNCHANGED <<batch, dropped>>
    /\ UNCHANGED <<rows, exists, made, buffer, closing, abandon, failures>>

Close(r) ==
    /\ ~closing[r] /\ closing' = [closing EXCEPT ![r] = TRUE]
    /\ UNCHANGED <<rows, exists, made, buffer, batch, writer, attempt, abandon, dropped, failures>>

\* close has waited long enough; what is being written is left to its end.
CloseDrops(r) == CountDropped(r, Len(buffer[r]))

CloseTimeout(r) ==
    /\ closing[r] /\ ~abandon[r] /\ writer[r] \notin {"none", "ended"}
    /\ abandon' = [abandon EXCEPT ![r] = TRUE]
    /\ CloseDrops(r) /\ buffer' = [buffer EXCEPT ![r] = <<>>]
    /\ UNCHANGED <<rows, exists, made, batch, writer, attempt, closing, failures>>

\* The Thread is deleted, and its rows with it.
DeleteThread ==
    /\ exists /\ exists' = FALSE /\ rows' = <<>>
    /\ UNCHANGED <<recorder, failures>>

Done ==
    /\ \A r \in Recorders : writer[r] \in {"none", "ended"} /\ closing[r]
    /\ UNCHANGED journalVars

WriterStep(r) ==
    \/ TakeBatch(r) \/ WriterEnds(r) \/ Write(r) \/ WriteFails(r) \/ WriteRefused(r) \/ Retry(r)

JournalNext ==
    \/ \E r \in Recorders : RecordEvent(r) \/ WriterStep(r) \/ Close(r) \/ CloseTimeout(r)
    \/ DeleteThread
    \/ Done

JournalSpec == JournalInit /\ [][JournalNext]_journalVars

\* The loop and its threads go on; a transaction ends, one way or the other.
FairJournalSpec == JournalSpec /\ \A r \in Recorders : WF_journalVars(WriterStep(r))

-----------------------------------------------------------------------------

\* The journal is true.  The rows of a recorder tell its events in the order they happened,
\* each once, however often a batch is tried again, and a late writer brings nothing back of
\* a deleted Thread (append_batch, _write_loop).  An event that was published and is not
\* saved, or about to be, is counted as dropped: a journal with dropped_events = 0 is whole
\* (_enqueue, _write_batch, close).
JournalIsInOrder ==
    /\ \A i, j \in 1..Len(rows) : i < j /\ rows[i].of = rows[j].of => rows[i].n < rows[j].n
    /\ ~exists => rows = <<>>
Held(r) == {n \in 1..made[r] :
    LET e == [of |-> r, n |-> n] IN In(e, rows) \/ In(e, buffer[r]) \/ In(e, batch[r])}
NothingVanishes ==
    exists => \A r \in Recorders : made[r] - Cardinality(Held(r)) <= dropped[r]
JournalIsTrue == JournalIsInOrder /\ NothingVanishes

\* Whoever is closed stops writing.
WritersEnd ==
    \A r \in Recorders : closing[r] ~> writer[r] \in {"none", "ended"}

=============================================================================
