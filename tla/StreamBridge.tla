----------------------------- MODULE StreamBridge -----------------------------
(***************************************************************************)
(* How a browser follows a Run: runtime/stream_bridge.py (the bounded log   *)
(* in memory), the SSE handler stream_run_events of api/routes.py, the      *)
(* frontend's run-stream.ts and useAgentRun.ts, and the publishing order of *)
(* agents/lead_agent.py and runtime/agent_runtime.py.                       *)
(*                                                                          *)
(* One Run and one browser.  The code of the bridge never waits between two *)
(* of its assignments, so publish, publish_end and one turn of subscribe    *)
(* are one action each; every read of SQLite by the handler is an action of *)
(* its own.  A line the handler yields is received at once: a line lost     *)
(* with the connection is one that was not yielded.  Entries that show no   *)
(* text and end nothing (run.start, metadata, tools) are left out, and      *)
(* reasoning is text.                                                       *)
(*                                                                          *)
(* Bounds: Messages and Pieces cap what the Run says; MaxDrops, MaxCrashes  *)
(* and MaxDbFaults how often the connection, the process and SQLite fail.   *)
(***************************************************************************)
EXTENDS Naturals, Sequences

CONSTANTS Messages,    \* the Run produces at most this many messages
          Pieces,      \* each in at most this many pieces
          MaxEvents,   \* entries the buffer of a stream may hold
          MaxDrops,    \* lost connections and page reloads
          MaxCrashes,  \* ends of the process, by shutdown or death
          MaxDbFaults  \* failing writes of a Run's final status, failing reads for the browser

ASSUME StreamAssumption ==
    /\ {Messages, Pieces, MaxEvents} \subseteq Nat \ {0}
    /\ {MaxDrops, MaxCrashes, MaxDbFaults} \subseteq Nat

VARIABLES
    status, saved,           \* SQLite: the Run's row, the messages its checkpoints hold
    up,                      \* the process
    streams,                 \* every _RunStream made so far; its index is its epoch
    current,                 \* the epoch registered in _streams, 0 for none
    timer,                   \* the epoch a cleanup task will release, 0 for none
    pub, msg, piece, news,   \* the task that publishes, and the terminal event it has to tell
    conn,                    \* the generator that serves the browser
    lastId,                  \* the browser's Last-Event-ID
    snap, text, whole, seen, \* what it shows: checkpoint, pieces, complete messages; seenCursors
    outcome,                 \* how the Run ended, as the browser was told
    faults

dbVars == <<status, saved>>
bridgeVars == <<streams, current, timer>>
pubVars == <<pub, msg, piece, news>>
viewVars == <<lastId, snap, text, whole, seen, outcome>>
vars == <<dbVars, up, bridgeVars, pubVars, conn, viewVars, faults>>

MessageIds == 1..Messages
Terminal == {"success", "error", "interrupted"}

\* What a stream holds: a piece of a message, a complete one, or the end.
Piece(k, p) == [kind |-> "piece", msg |-> k, n |-> p]
Whole(k) == [kind |-> "whole", msg |-> k]
Told(result) == [kind |-> "told", result |-> result]

Result(s, confirmed) == [status |-> s, confirmed |-> confirmed]
Results == [status : Terminal, confirmed : BOOLEAN]
Nothing == [status |-> "none", confirmed |-> FALSE]
Unconfirmed == [status |-> "unconfirmed", confirmed |-> FALSE]

Entries ==
    {Piece(k, p) : k \in MessageIds, p \in 1..Pieces} \cup {Whole(k) : k \in MessageIds}
        \cup {Told(result) : result \in Results}

\* Cursors: "s:<epoch>:<number>", none yet, or the "h:<id>" of a saved event.
NoCursor == <<0, 0>>
Foreign == <<0, 1>>
Cursor(e, n) == <<e, n>>

NewStream == [log |-> <<>>, first |-> 1, ended |-> FALSE]
Dead == [log |-> <<>>, first |-> 1, ended |-> TRUE]
NextId(s) == Len(s.log) + 1

Off == [at |-> "off", cursor |-> NoCursor, status |-> "running", stream |-> 0, next |-> 1,
        gap |-> FALSE]

Cleared == [k \in MessageIds |-> <<>>]

Streams == [log : Seq(Entries), first : Nat \ {0}, ended : BOOLEAN]

RowsOK ==
    /\ status \in Terminal \cup {"running"}
    /\ saved \in 0..Messages
BridgeOK ==
    /\ streams \in Seq(Streams)
    /\ \A e \in 1..Len(streams) : streams[e].first <= NextId(streams[e])
    /\ current \in 0..Len(streams)
    /\ timer \in 0..Len(streams)
PublisherOK ==
    /\ pub \in {"pieces", "save", "whole", "finish", "announce", "end", "over", "gone"}
    /\ msg \in MessageIds
    /\ piece \in 1..(Pieces + 1)
    /\ news \in Results \cup {Nothing}
    /\ pub = "announce" => news \in Results
ConnOK ==
    conn \in [at : {"off", "refused", "open", "initial", "choose", "loop", "gapSnapshot", "gapHistory",
                    "beat", "lost", "history", "finish"},
              cursor : Nat \X Nat, status : Terminal \cup {"running"},
              stream : Nat, next : Nat \ {0}, gap : BOOLEAN]
PlaceOK ==
    conn.at \in {"loop", "beat", "gapSnapshot", "gapHistory"} =>
        conn.stream \in 1..Len(streams)
ViewOK ==
    /\ lastId \in Nat \X Nat
    /\ snap \in 0..Messages
    /\ text \in [MessageIds -> Seq(1..Pieces)]
    /\ whole \in SUBSET MessageIds
    /\ seen \in SUBSET (Nat \X Nat)
    /\ outcome \in Results \cup {Nothing, Unconfirmed}
FaultsOK == faults \in [drop : 0..MaxDrops, crash : 0..MaxCrashes, db : 0..MaxDbFaults]

TypeOK ==
    /\ up \in {"up", "closing", "down"}
    /\ RowsOK /\ BridgeOK /\ PublisherOK /\ ConnOK /\ PlaceOK /\ ViewOK /\ FaultsOK

Init ==
    /\ status = "running" /\ saved = 0
    /\ up = "up"
    /\ streams = <<>> /\ current = 0 /\ timer = 0
    /\ pub = "pieces" /\ msg = 1 /\ piece = 1 /\ news = Nothing
    /\ conn = Off
    /\ lastId = NoCursor /\ snap = 0 /\ text = Cleared /\ whole = {} /\ seen = {}
    /\ outcome = Nothing
    /\ faults = [drop |-> 0, crash |-> 0, db |-> 0]

Drop == faults.drop < MaxDrops /\ faults' = [faults EXCEPT !.drop = @ + 1]
DbFault == faults.db < MaxDbFaults /\ faults' = [faults EXCEPT !.db = @ + 1]

-----------------------------------------------------------------------------
(* The bridge                                                              *)

\* _get_or_create_stream: the epoch of the registered stream, a new one if none is.
Epoch == IF current = 0 THEN Len(streams) + 1 ELSE current
Stream == IF current = 0 THEN NewStream ELSE streams[current]
Keep(s) ==
    /\ streams' = IF current = 0 THEN Append(streams, s) ELSE [streams EXCEPT ![current] = s]
    /\ current' = Epoch

\* publish: the entry gets the next number; entries are then dropped from the
\* left while there are too many or, their sizes being anything, too large.
Publish(entry) ==
    LET log == Append(Stream.log, entry) IN
    /\ ~Stream.ended
    /\ \E first \in Stream.first..(Len(log) + 1) :
          /\ Len(log) + 1 - first <= MaxEvents
          /\ Keep([Stream EXCEPT !.log = log, !.first = first])
    /\ UNCHANGED timer

\* publish_end and _schedule_cleanup: a cleanup under way is not joined by another.
EndStream ==
    /\ Keep([Stream EXCEPT !.ended = TRUE])
    /\ timer' = IF timer = 0 THEN Epoch ELSE timer

\* cleanup_ended_stream: only the very stream it was scheduled for is released.
Cleanup ==
    /\ up = "up" /\ timer # 0
    /\ current' = IF current = timer THEN 0 ELSE current
    /\ timer' = 0
    /\ UNCHANGED <<dbVars, up, streams, pubVars, conn, viewVars, faults>>

ProcessEnds == faults.crash < MaxCrashes /\ faults' = [faults EXCEPT !.crash = @ + 1]

\* close, once the tasks are over: followers of the open stream see its end.
CloseBridge ==
    /\ up = "up" /\ pub = "over"
    /\ ProcessEnds
    /\ up' = "closing"
    /\ streams' = [e \in DOMAIN streams |->
                      [streams[e] EXCEPT !.ended = @ \/ e = current]]
    /\ current' = 0 /\ timer' = 0
    /\ UNCHANGED <<dbVars, pubVars, conn, viewVars>>

-----------------------------------------------------------------------------
(* The task that publishes.  The operators named after a definition with an *)
(* underscore are seeded faults that a run must notice.                     *)

\* text.delta and reasoning.delta, as the model produces them.
PublishPiece ==
    /\ pub = "pieces" /\ piece <= Pieces
    /\ Publish(Piece(msg, piece))
    /\ piece' = piece + 1
    /\ UNCHANGED <<dbVars, up, pub, msg, news, conn, viewVars, faults>>

\* The model's answer is complete and joins the state.
ReplyComplete ==
    /\ pub = "pieces"
    /\ pub' = "save"
    /\ UNCHANGED <<dbVars, up, bridgeVars, msg, piece, news, conn, viewVars, faults>>

\* save_checkpoint, awaited before anything is told of the complete message.
SaveMessage ==
    /\ pub = "save"
    /\ saved' = msg
    /\ pub' = "whole"
    /\ UNCHANGED <<status, up, bridgeVars, msg, piece, news, conn, viewVars, faults>>

\* message.complete; tools may follow, and with them another message, as many
\* as max_tool_rounds allows.
PublishWhole ==
    /\ pub = "whole"
    /\ Publish(Whole(msg))
    /\ \/ /\ msg < Messages
          /\ msg' = msg + 1 /\ piece' = 1 /\ pub' = "pieces"
       \/ /\ pub' = "finish"
          /\ UNCHANGED <<msg, piece>>
    /\ UNCHANGED <<dbVars, up, news, conn, viewVars, faults>>

\* finish_run commits before run.end is told.
Finish ==
    /\ pub = "finish"
    /\ status' = "success"
    /\ news' = Result("success", TRUE)
    /\ pub' = "announce"
    /\ UNCHANGED <<saved, up, bridgeVars, msg, piece, conn, viewVars, faults>>

\* _finish_failure: a final status that cannot be saved is told as run.error,
\* unconfirmed.  A checkpoint that was being saved, or is saved on the way,
\* holds the complete message nobody was told of.
Fail_Claims ==
    /\ pub \in {"pieces", "save", "whole", "finish"}
    /\ saved' \in {saved} \cup {k \in {msg} : pub = "save"}
    /\ \E s \in {"error", "interrupted"} :
          \/ status' = s /\ news' = Result(s, TRUE) /\ UNCHANGED faults
          \/ DbFault /\ news' = Result(s, TRUE) /\ UNCHANGED status
    /\ pub' = "announce"
    /\ UNCHANGED <<up, bridgeVars, msg, piece, conn, viewVars>>

Fail ==
    /\ pub \in {"pieces", "save", "whole", "finish"}
    /\ saved' \in {saved} \cup {k \in {msg} : pub = "save"}
    /\ \/ \E s \in {"error", "interrupted"} : status' = s /\ news' = Result(s, TRUE)
          /\ UNCHANGED faults
       \/ DbFault /\ news' = Result("error", FALSE) /\ UNCHANGED status
    /\ pub' = "announce"
    /\ UNCHANGED <<up, bridgeVars, msg, piece, conn, viewVars>>

\* record_event of the terminal event; publish refuses an ended stream.
Announce ==
    /\ pub = "announce"
    /\ IF Stream.ended THEN UNCHANGED bridgeVars ELSE Publish(Told(news))
    /\ pub' = "end"
    /\ UNCHANGED <<dbVars, up, msg, piece, news, conn, viewVars, faults>>

End ==
    /\ pub = "end"
    /\ EndStream
    /\ pub' = "over"
    /\ UNCHANGED <<dbVars, up, msg, piece, news, conn, viewVars, faults>>

\* cancel_run of a Run whose task is over but whose final status was not saved:
\* it saves, tells and ends what the task did not.
CancelLate ==
    /\ up = "up" /\ pub = "over" /\ status = "running"
    /\ \/ /\ status' = "interrupted"
          /\ news' = Result("interrupted", TRUE)
          /\ pub' = "announce"
          /\ UNCHANGED faults
       \/ /\ DbFault
          /\ pub' = "end"
          /\ UNCHANGED <<status, news>>
    /\ UNCHANGED <<saved, up, bridgeVars, msg, piece, conn, viewVars>>

-----------------------------------------------------------------------------
(* Process death and start                                                 *)

\* What was in memory is gone, and so is a connection there was.
Gone ==
    /\ up' = "down"
    /\ streams' = [e \in DOMAIN streams |-> Dead]
    /\ current' = 0 /\ timer' = 0
    /\ pub' = "gone" /\ news' = Nothing
    /\ conn' = IF conn.at = "refused" THEN conn ELSE Off
    /\ UNCHANGED <<dbVars, msg, piece, viewVars>>

Crash == up = "up" /\ ProcessEnds /\ Gone
Exit == up = "closing" /\ Gone /\ UNCHANGED faults

\* recover_orphaned_runs, before the first request: the Run of a dead process
\* becomes an error, whose event says nothing of a confirmed status.  If that
\* write fails the Run stays as it is.
Restart ==
    /\ up = "down"
    /\ up' = "up" /\ pub' = "over"
    /\ \/ /\ status = "running"
          /\ status' = "error"
          /\ streams' = Append(streams, [log |-> <<Told(Result("error", FALSE))>>,
                                         first |-> 1, ended |-> TRUE])
          /\ current' = Len(streams) + 1 /\ timer' = Len(streams) + 1
          /\ UNCHANGED faults
       \/ /\ status = "running"
          /\ DbFault
          /\ UNCHANGED <<status, bridgeVars>>
       \/ /\ status # "running"
          /\ UNCHANGED <<status, bridgeVars, faults>>
    /\ UNCHANGED <<saved, msg, piece, news, conn, viewVars>>

-----------------------------------------------------------------------------
(* The browser                                                             *)

Known == {k \in MessageIds : k <= snap} \cup whole

\* stream.reset: everything shown so far gives way to the checkpoint.
Reset_KeepsText ==
    /\ snap' = saved /\ whole' = {} /\ seen' = {}
    /\ UNCHANGED <<text, lastId, outcome>>

Reset_OnlyWhileRunning ==
    /\ snap' = IF status = "running" THEN saved ELSE 0
    /\ text' = Cleared /\ whole' = {} /\ seen' = {}
    /\ UNCHANGED <<lastId, outcome>>

Reset ==
    /\ snap' = saved
    /\ text' = Cleared /\ whole' = {} /\ seen' = {}
    /\ UNCHANGED <<lastId, outcome>>

\* text.delta: pieces of a message that is saved or complete are refused.
ShowPiece(k, p) ==
    /\ text' = IF k \in Known THEN text ELSE [text EXCEPT ![k] = Append(@, p)]
    /\ UNCHANGED <<whole, outcome>>

\* message.complete takes the place of the pieces.
ShowWhole(k) ==
    /\ IF k <= snap
       THEN UNCHANGED <<text, whole>>
       ELSE /\ whole' = whole \cup {k}
            /\ text' = [text EXCEPT ![k] = <<>>]
    /\ UNCHANGED outcome

\* A terminal event closes the EventSource.
ShowTold(result) ==
    /\ outcome' = result
    /\ UNCHANGED <<text, whole>>

Show(entry) ==
    \/ entry.kind = "piece" /\ ShowPiece(entry.msg, entry.n)
    \/ entry.kind = "whole" /\ ShowWhole(entry.msg)
    \/ entry.kind = "told" /\ ShowTold(entry.result)

Receive(entry, id) ==
    /\ lastId' = id
    /\ seen' = seen \cup {id}
    /\ IF id \in seen THEN UNCHANGED <<text, whole, outcome>> ELSE Show(entry)
    /\ UNCHANGED snap

\* new EventSource, and its own reconnections: the request carries Last-Event-ID.
\* The endpoint reads the Run before it answers; to an error an EventSource does not
\* come back.
Connect ==
    /\ up = "up" /\ conn.at = "off" /\ outcome = Nothing
    /\ \/ conn' = [Off EXCEPT !.at = "open", !.cursor = lastId] /\ UNCHANGED faults
       \/ DbFault /\ conn' = [Off EXCEPT !.at = "refused"]
    /\ UNCHANGED <<dbVars, up, bridgeVars, pubVars, viewVars>>

\* The connection is lost, or the generator ends at a read of SQLite that fails; that
\* of saved_process_events it does without.
Reads == {"open", "initial", "lost", "gapSnapshot", "beat", "finish"}
Disconnect ==
    /\ conn.at \notin {"off", "refused"}
    /\ Drop \/ (conn.at \in Reads /\ DbFault)
    /\ conn' = Off
    /\ UNCHANGED <<dbVars, up, bridgeVars, pubVars, viewVars>>

\* The page is loaded again and follows the same Run.
Reload ==
    /\ outcome = Nothing /\ Drop
    /\ conn' = Off
    /\ lastId' = NoCursor /\ snap' = 0 /\ text' = Cleared /\ whole' = {} /\ seen' = {}
    /\ UNCHANGED <<outcome, dbVars, up, bridgeVars, pubVars>>

-----------------------------------------------------------------------------
(* The generator of stream_run_events                                      *)

Step(from, to) == conn.at = from /\ conn' = [conn EXCEPT !.at = to]

\* A checkpoint is read and sent as stream.reset.
SendSnapshot(from, to) ==
    /\ Step(from, to)
    /\ Reset
    /\ UNCHANGED <<dbVars, up, bridgeVars, pubVars, faults>>

ReadStatus ==
    /\ conn.at = "open"
    /\ conn' = [conn EXCEPT !.status = status,
                            !.at = IF conn.cursor = NoCursor THEN "initial" ELSE "choose"]
    /\ UNCHANGED <<dbVars, up, bridgeVars, pubVars, viewVars, faults>>

SendInitial == SendSnapshot("initial", "choose")

\* _resolve_cursor: where to go on in stream e, and whether something is missing.
Resolve_OffByOne(e, s, cursor) ==
    LET n == cursor[2] + 2
    IN  IF cursor[1] = e /\ n >= s.first /\ n <= NextId(s) THEN [next |-> n, gap |-> FALSE]
        ELSE [next |-> s.first, gap |-> cursor # NoCursor \/ s.first > 1]

Resolve(e, s, cursor) ==
    LET n == cursor[2] + 1
    IN  IF cursor[1] = e /\ cursor[2] \in 1..Len(s.log) /\ n >= s.first
        THEN [next |-> n, gap |-> FALSE]
        ELSE [next |-> s.first, gap |-> cursor # NoCursor \/ s.first > 1]

\* A stream that is registered is followed; so is that of a Run whose status,
\* as read before, is not final, and it is made if need be.
Subscribe ==
    /\ conn.at = "choose"
    /\ current # 0 \/ conn.status = "running"
    /\ LET start == Resolve(Epoch, Stream, conn.cursor)
       IN  conn' = [conn EXCEPT !.at = "loop", !.stream = Epoch, !.next = start.next,
                                !.gap = start.gap]
    /\ Keep(Stream)
    /\ UNCHANGED <<dbVars, up, timer, pubVars, viewVars, faults>>

NoStream ==
    /\ conn.at = "choose"
    /\ current = 0 /\ conn.status # "running"
    /\ conn' = [conn EXCEPT !.at = IF conn.cursor = NoCursor THEN "history" ELSE "lost"]
    /\ UNCHANGED <<dbVars, up, bridgeVars, pubVars, viewVars, faults>>

SendLost == SendSnapshot("lost", "history")

\* One turn of subscribe.  Whatever left the buffer before it was sent is a gap.
Followed == streams[conn.stream]

LoopGap ==
    /\ conn.at = "loop"
    /\ conn.gap \/ conn.next < Followed.first
    /\ conn' = [conn EXCEPT !.at = "gapSnapshot", !.gap = FALSE,
                            !.next = IF @ < Followed.first THEN Followed.first ELSE @]
    /\ UNCHANGED <<dbVars, up, bridgeVars, pubVars, viewVars, faults>>

LoopEntry ==
    /\ conn.at = "loop"
    /\ ~conn.gap /\ conn.next \in Followed.first..Len(Followed.log)
    /\ Receive(Followed.log[conn.next], Cursor(conn.stream, conn.next))
    /\ conn' = IF outcome' # Nothing THEN Off ELSE [conn EXCEPT !.next = @ + 1]
    /\ UNCHANGED <<dbVars, up, bridgeVars, pubVars, faults>>

CaughtUp == conn.at = "loop" /\ ~conn.gap /\ conn.next = NextId(Followed)

LoopEnd ==
    /\ CaughtUp /\ Followed.ended
    /\ Step("loop", "finish")
    /\ UNCHANGED <<dbVars, up, bridgeVars, pubVars, viewVars, faults>>

\* Nothing was published for a heartbeat interval.
Heartbeat ==
    /\ CaughtUp /\ ~Followed.ended
    /\ Step("loop", "beat")
    /\ UNCHANGED <<dbVars, up, bridgeVars, pubVars, viewVars, faults>>

BeatReads_Ignores ==
    /\ Step("beat", "loop")
    /\ UNCHANGED <<dbVars, up, bridgeVars, pubVars, viewVars, faults>>

BeatReads ==
    /\ Step("beat", IF status \in Terminal THEN "finish" ELSE "loop")
    /\ UNCHANGED <<dbVars, up, bridgeVars, pubVars, viewVars, faults>>

SendGapSnapshot == SendSnapshot("gapSnapshot", "gapHistory")

\* saved_process_events: the tool events among the saved ones, if there are
\* any, show no text but leave their id as Last-Event-ID.
SendHistory ==
    /\ Step("gapHistory", "loop") \/ Step("history", "finish")
    /\ lastId' \in {lastId, Foreign}
    /\ UNCHANGED <<snap, text, whole, seen, outcome>>
    /\ UNCHANGED <<dbVars, up, bridgeVars, pubVars, faults>>

\* No terminal event was sent: the status is read again and told, or the
\* outcome is told to be unconfirmed.
SendTerminal ==
    /\ conn.at = "finish"
    /\ outcome' = IF status \in Terminal THEN Result(status, TRUE) ELSE Unconfirmed
    /\ conn' = Off
    /\ UNCHANGED <<lastId, snap, text, whole, seen>>
    /\ UNCHANGED <<dbVars, up, bridgeVars, pubVars, faults>>

-----------------------------------------------------------------------------
Publisher ==
    PublishPiece \/ ReplyComplete \/ SaveMessage \/ PublishWhole \/ Finish \/ Announce \/ End

Generator ==
    \/ ReadStatus \/ SendInitial \/ Subscribe \/ NoStream \/ SendLost
    \/ LoopGap \/ LoopEntry \/ LoopEnd \/ Heartbeat \/ BeatReads
    \/ SendGapSnapshot \/ SendHistory \/ SendTerminal

Next ==
    \/ Publisher \/ Fail \/ CancelLate
    \/ Connect \/ Generator
    \/ Cleanup \/ CloseBridge \/ Crash \/ Exit \/ Restart
    \/ Disconnect \/ Reload

Spec == Init /\ [][Next]_vars

\* The event loop runs every task that can run and fires every timer; the
\* browser reconnects; a process shutting down exits and is started again.  Nobody owes a fault,
\* a cancellation, a reload or a shutdown.
FairSpec ==
    /\ Spec
    /\ WF_vars(Publisher) /\ WF_vars(Generator) /\ WF_vars(Cleanup)
    /\ WF_vars(Connect) /\ WF_vars(Exit) /\ WF_vars(Restart)

-----------------------------------------------------------------------------
(* Properties                                                              *)

\* Checkpoints come before message.complete: whatever a stream calls complete
\* is in SQLite, so that the snapshot of a gap makes up for it
\* (lead_agent._run_loop, routes._state_snapshot).
CompleteIsSaved ==
    \A e \in DOMAIN streams : \A i \in DOMAIN streams[e].log :
        streams[e].log[i].kind = "whole" => streams[e].log[i].msg <= saved

\* "缓存缺口明确通知" (subscribe): once no gap is left to tell of, the browser
\* knows every complete message before its place in the stream, whatever was
\* evicted, lost or replayed on the way.
NothingSkipped ==
    conn.at \in {"loop", "beat"} /\ ~conn.gap =>
        \A i \in DOMAIN Followed.log :
            i < conn.next /\ Followed.log[i].kind = "whole" => Followed.log[i].msg \in Known

\* The text of a message being written is a run of its pieces: no piece is
\* missing inside it, shown twice or out of order, across reconnections, gaps,
\* resets and restarts.
TextIsContiguous ==
    \A k \in MessageIds : \A i \in DOMAIN text[k] :
        i > 1 => text[k][i] = text[k][i - 1] + 1

\* A confirmed outcome shown to the browser is the status in SQLite, whichever
\* of the task, cancel_run, the recovery or the handler itself told it.
OutcomeIsTrue == outcome.confirmed => outcome.status = status

\* A complete message, once shown, stays: a reset never takes it away.
ShownStays == [][Reload \/ Known \subseteq Known']_vars

\* A browser that follows a Run learns that it ended, though streams are evicted,
\* released and lost, reads fail, and it may subscribe to a stream nobody ends; unless
\* its request was answered with an error: then it has given up, until it is reloaded.
FollowerSettles == status \in Terminal ~> (outcome # Nothing \/ conn.at = "refused")

\* "Run 结束后保留短暂 SSE 重连窗口，随后自动释放该 Run 的内存事件和清理任务"
\* (docs/superpowers/plans/2026-09-03-memory-stream-cleanup.md): the stream of
\* a Run that has ended is released for good.
EndedStreamIsReleased == [](pub = "over" /\ status \in Terminal => <>[](current = 0))
=============================================================================
