-------------------------- MODULE StreamBridgeProofs --------------------------
(***************************************************************************)
(* Proofs about the events of a Run, as they are told and as they are       *)
(* stored, for every number of messages, pieces, recorders, buffer entries  *)
(* and failures.                                                            *)
(*                                                                          *)
(* Of StreamBridge: its types, that no complete message is skipped or taken *)
(* back, that the text of a message has neither a hole nor a repetition,    *)
(* and that a confirmed outcome is the committed one.  The invariant        *)
(* follows a message from the task to the browser: what a stream says is    *)
(* true of SQLite (LogsOK), and the browser knows every complete message    *)
(* that a place it has reached has passed: its Last-Event-ID and the        *)
(* cursors it has seen (SeenOK), and the place of a handler with no gap     *)
(* left to tell of (FollowOK).  A second one says the same of the pieces of *)
(* a message (TextInv).                                                     *)
(*                                                                          *)
(* Of EventJournal: that the journal is in order and lacks nothing it does  *)
(* not count.  The invariant (Journal) says that what is saved, what is     *)
(* being written and what waits follow each other, and that a batch is      *)
(* saved as a whole or not at all.                                          *)
(***************************************************************************)
EXTENDS StreamBridge, EventJournal, FiniteSetTheorems, SequenceTheorems, TLAPS

-----------------------------------------------------------------------------
(* Data                                                                    *)

\* The bounds that count something are positive.
LEMMA Positive == {Messages, Pieces, MaxEvents} \subseteq Nat \ {0}
BY StreamAssumption

\* The fields of an entry, by its kind.
LEMMA EntryKinds ==
    ASSUME NEW x \in Entries
    PROVE  /\ x.kind \in {"piece", "whole", "told"}
           /\ x.kind = "piece" => x.msg \in MessageIds /\ x.n \in 1..Pieces
           /\ x.kind = "whole" => x.msg \in MessageIds
           /\ x.kind = "told" => x.result \in Results
<1>1. CASE x \in {Piece(k, p) : k \in MessageIds, p \in 1..Pieces}
  BY <1>1 DEF Piece
<1>2. CASE x \in {Whole(k) : k \in MessageIds}
  BY <1>2 DEF Whole
<1>3. CASE x \in {Told(result) : result \in Results}
  BY <1>3 DEF Told
<1>4. QED BY <1>1, <1>2, <1>3 DEF Entries

\* The stream a Run starts with, and what a death leaves of it.
LEMMA NewStreamsOK == NewStream \in Streams /\ Dead \in Streams
<1>1. <<>> \in Seq(Entries) OBVIOUS
<1>2. QED BY <1>1 DEF NewStream, Dead, Streams

\* A stream with one entry, as a start makes it.
LEMMA OneEntry ==
    ASSUME NEW x \in Entries, NEW b \in BOOLEAN
    PROVE  /\ [log |-> <<x>>, first |-> 1, ended |-> b] \in Streams
           /\ Len(<<x>>) = 1
<1>1. <<x>> \in Seq(Entries) /\ Len(<<x>>) = 1 OBVIOUS
<1>2. 1 \in Nat \ {0} OBVIOUS
<1>3. QED BY <1>1, <1>2 DEF Streams

\* The stream a publisher or a follower gets.
LEMMA StreamOK ==
    ASSUME BridgeOK
    PROVE  /\ Stream \in Streams
           /\ Stream.first <= Len(Stream.log) + 1
           /\ Epoch \in 1..(Len(streams) + 1)
           /\ Epoch <= Len(streams) => Stream = streams[Epoch]
           /\ Epoch > Len(streams) => Stream = NewStream
           /\ Len(streams) \in Nat
<1>1. Len(streams) \in Nat /\ current \in 0..Len(streams) BY DEF BridgeOK
<1>2. CASE current = 0
  BY <1>1, <1>2, NewStreamsOK DEF Stream, Epoch, NewStream
<1>3. CASE current # 0
  <2>1. streams[current] \in Streams /\ streams[current].first <= Len(streams[current].log) + 1
    BY <1>1, <1>3 DEF BridgeOK, NextId
  <2>2. QED BY <1>1, <1>3, <2>1 DEF Stream, Epoch
<1>4. QED BY <1>2, <1>3

\* Putting a stream back under its epoch changes that epoch only.
LEMMA KeepOK ==
    ASSUME BridgeOK, NEW s \in Streams, s.first <= Len(s.log) + 1, Keep(s)
    PROVE  /\ streams' \in Seq(Streams)
           /\ Len(streams') = IF Epoch > Len(streams) THEN Len(streams) + 1 ELSE Len(streams)
           /\ \A e \in 1..Len(streams') : streams'[e] = IF e = Epoch THEN s ELSE streams[e]
           /\ \A e \in 1..Len(streams') : streams'[e].first <= NextId(streams'[e])
           /\ current' \in 1..Len(streams')
<1>1. Len(streams) \in Nat /\ current \in 0..Len(streams) /\ streams \in Seq(Streams)
  BY DEF BridgeOK
<1>2. CASE current = 0
  <2>1. streams' = Append(streams, s) /\ Epoch = Len(streams) + 1 /\ current' = Epoch
    BY <1>2 DEF Keep, Epoch
  <2>2. streams' \in Seq(Streams) /\ Len(streams') = Len(streams) + 1
        /\ \A e \in 1..Len(streams') : streams'[e] = IF e = Epoch THEN s ELSE streams[e]
    BY <1>1, <2>1
  <2>3. QED BY <1>1, <2>1, <2>2 DEF BridgeOK, NextId
<1>3. CASE current # 0
  <2>1. streams' = [streams EXCEPT ![current] = s] /\ Epoch = current /\ current' = Epoch
    BY <1>3 DEF Keep, Epoch
  <2>2. streams' \in Seq(Streams) /\ Len(streams') = Len(streams)
        /\ \A e \in 1..Len(streams') : streams'[e] = IF e = Epoch THEN s ELSE streams[e]
    BY <1>1, <1>3, <2>1
  <2>3. \A e \in 1..Len(streams) : streams[e].first <= NextId(streams[e]) BY DEF BridgeOK
  <2>4. \A e \in 1..Len(streams') : streams'[e].first <= NextId(streams'[e])
    BY <1>1, <2>2, <2>3 DEF NextId
  <2>5. Epoch <= Len(streams) /\ current' \in 1..Len(streams') BY <1>1, <1>3, <2>1, <2>2
  <2>6. ~(Epoch > Len(streams)) BY <1>1, <2>1
  <2>7. QED BY <2>2, <2>4, <2>5, <2>6
<1>4. QED BY <1>2, <1>3

\* publish puts back the stream with one entry more and perhaps a later start.
LEMMA PublishOK ==
    ASSUME BridgeOK, NEW x \in Entries, Publish(x)
    PROVE  \E s \in Streams :
              /\ s.first <= Len(s.log) + 1
              /\ s.log = Append(Stream.log, x)
              /\ ~Stream.ended /\ ~s.ended
              /\ Keep(s) /\ timer' = timer
<1>1. Stream \in Streams BY StreamOK
<1>2. PICK first \in Stream.first..(Len(Append(Stream.log, x)) + 1) :
        Keep([Stream EXCEPT !.log = Append(Stream.log, x), !.first = first])
  BY DEF Publish
<1> DEFINE s == [Stream EXCEPT !.log = Append(Stream.log, x), !.first = first]
<1>3. Append(Stream.log, x) \in Seq(Entries) /\ Len(Append(Stream.log, x)) \in Nat
  BY <1>1 DEF Streams
<1>4. first \in Nat \ {0} /\ first <= Len(Append(Stream.log, x)) + 1
  BY <1>1, <1>2, <1>3 DEF Streams
<1>5. s \in Streams /\ s.first = first /\ s.log = Append(Stream.log, x) /\ s.ended = Stream.ended
  BY <1>1, <1>3, <1>4 DEF Streams
<1>6. ~Stream.ended /\ timer' = timer BY DEF Publish
<1>7. QED BY <1>2, <1>4, <1>5, <1>6

-----------------------------------------------------------------------------
(* Types                                                                   *)

\* A connection that is off is typed.
LEMMA OffTyped == conn' = Off => ConnOK'
<1> SUFFICES ASSUME conn' = Off PROVE ConnOK' OBVIOUS
<1>1. NoCursor \in Nat \X Nat BY DEF NoCursor
<1>2. 1 \in Nat \ {0} /\ 0 \in Nat OBVIOUS
<1>3. QED BY <1>1, <1>2 DEF ConnOK, Off

\* The initial state is typed.
LEMMA TypeInit == Init => TypeOK
<1> SUFFICES ASSUME Init PROVE TypeOK OBVIOUS
<1>1. Messages \in Nat \ {0} /\ Pieces \in Nat \ {0} BY Positive
<1>2. RowsOK /\ up \in {"up", "closing", "down"} BY <1>1 DEF Init, RowsOK
<1>3. BridgeOK BY DEF Init, BridgeOK
<1>4. PublisherOK BY <1>1 DEF Init, PublisherOK, MessageIds
<1>5. ConnOK /\ PlaceOK BY DEF Init, ConnOK, PlaceOK, Off, NoCursor
<1>6. ViewOK
  <2>1. Cleared \in [MessageIds -> Seq(1..Pieces)] BY DEF Cleared
  <2>2. QED BY <1>1, <2>1 DEF Init, ViewOK, NoCursor
<1>7. FaultsOK BY StreamAssumption DEF Init, FaultsOK
<1>8. QED BY <1>2, <1>3, <1>4, <1>5, <1>6, <1>7 DEF TypeOK

\* The operations of the bridge keep its type.
LEMMA PublishTyped ==
    ASSUME BridgeOK, NEW x \in Entries, Publish(x)
    PROVE  BridgeOK' /\ Len(streams) <= Len(streams')
<1>1. PICK s \in Streams : s.first <= Len(s.log) + 1 /\ Keep(s) /\ timer' = timer
  BY PublishOK
<1>2. Len(streams) \in Nat /\ Len(streams') \in Nat /\ Len(streams) <= Len(streams')
  BY <1>1, KeepOK, StreamOK
<1>3. streams' \in Seq(Streams) /\ current' \in 0..Len(streams')
      /\ \A e \in 1..Len(streams') : streams'[e].first <= NextId(streams'[e])
  BY <1>1, <1>2, KeepOK
<1>4. timer' \in 0..Len(streams') BY <1>1, <1>2 DEF BridgeOK
<1>5. QED BY <1>2, <1>3, <1>4 DEF BridgeOK

\* publish_end, likewise, also where it makes the stream it ends.
LEMMA EndTyped ==
    ASSUME BridgeOK, EndStream
    PROVE  BridgeOK' /\ Len(streams) <= Len(streams')
<1>1. PICK s \in Streams : s.first <= Len(s.log) + 1 /\ Keep(s)
  <2>1. [Stream EXCEPT !.ended = TRUE] \in Streams BY StreamOK DEF Streams
  <2>2. [Stream EXCEPT !.ended = TRUE].first <= Len([Stream EXCEPT !.ended = TRUE].log) + 1
    BY StreamOK DEF Streams
  <2>3. QED BY <2>1, <2>2 DEF EndStream
<1>2. Len(streams) \in Nat /\ Len(streams') \in Nat /\ Len(streams) <= Len(streams')
      /\ Epoch \in 1..Len(streams')
  BY <1>1, KeepOK, StreamOK
<1>3. streams' \in Seq(Streams) /\ current' \in 0..Len(streams')
      /\ \A e \in 1..Len(streams') : streams'[e].first <= NextId(streams'[e])
  BY <1>1, <1>2, KeepOK
<1>4. timer' \in 0..Len(streams') BY <1>2 DEF BridgeOK, EndStream
<1>5. QED BY <1>2, <1>3, <1>4 DEF BridgeOK

\* Faults are counted up to their bounds.
LEMMA FaultTyped ==
    ASSUME FaultsOK, Drop \/ DbFault \/ ProcessEnds \/ UNCHANGED faults
    PROVE  FaultsOK'
BY StreamAssumption DEF FaultsOK, Drop, DbFault, ProcessEnds

\* What is published is an entry.
LEMMA ResultsOK ==
    /\ \A s \in Terminal, b \in BOOLEAN : Result(s, b) \in Results
    /\ \A k \in MessageIds, p \in 1..Pieces : Piece(k, p) \in Entries
    /\ \A k \in MessageIds : Whole(k) \in Entries
    /\ \A result \in Results : Told(result) \in Entries
BY DEF Result, Results, Entries

\* The task: what it does to the rows, the bridge and itself.
LEMMA TypePublisher ==
    ASSUME TypeOK, Publisher \/ Fail \/ CancelLate
    PROVE  TypeOK'
<1>1. RowsOK /\ BridgeOK /\ PublisherOK /\ FaultsOK /\ ConnOK /\ ViewOK
      /\ up \in {"up", "closing", "down"}
  BY DEF TypeOK
<1>2. Messages \in Nat \ {0} /\ Pieces \in Nat \ {0} BY Positive
<1>3. /\ UNCHANGED <<up, conn, viewVars>>
  BY DEF Publisher, PublishPiece, ReplyComplete, SaveMessage, PublishWhole, Finish, Announce, End,
         Fail, CancelLate
<1>4. ConnOK' /\ ViewOK' /\ up' \in {"up", "closing", "down"}
  BY <1>1, <1>3 DEF ConnOK, ViewOK, viewVars
<1>5. FaultsOK'
  BY <1>1, FaultTyped
     DEF Publisher, PublishPiece, ReplyComplete, SaveMessage, PublishWhole, Finish, Announce, End,
         Fail, CancelLate
<1>6. RowsOK'
  <2>1. saved' = saved \/ saved' = msg
    BY DEF Publisher, PublishPiece, ReplyComplete, SaveMessage, PublishWhole, Finish, Announce, End,
           Fail, CancelLate, dbVars
  <2>2. saved' \in 0..Messages BY <1>1, <1>2, <2>1 DEF RowsOK, PublisherOK, MessageIds
  <2>3. status' = status \/ status' \in {"success", "error", "interrupted"}
    BY DEF Publisher, PublishPiece, ReplyComplete, SaveMessage, PublishWhole, Finish, Announce, End,
           Fail, CancelLate, dbVars
  <2>4. QED BY <1>1, <2>2, <2>3 DEF RowsOK, Terminal
<1>7. BridgeOK' /\ Len(streams) <= Len(streams')
  <2>1. CASE PublishPiece
    <3>1. Piece(msg, piece) \in Entries
      BY <1>1, <1>2, <2>1, ResultsOK DEF PublishPiece, PublisherOK
    <3>2. QED BY <1>1, <2>1, <3>1, PublishTyped DEF PublishPiece
  <2>2. CASE PublishWhole
    BY <1>1, <2>2, ResultsOK, PublishTyped DEF PublishWhole, PublisherOK
  <2>3. CASE Announce /\ ~Stream.ended
    BY <1>1, <2>3, ResultsOK, PublishTyped DEF Announce, PublisherOK
  <2>4. CASE End
    BY <1>1, <2>4, EndTyped DEF End
  <2>5. CASE UNCHANGED bridgeVars
    BY <1>1, <2>5, StreamOK DEF BridgeOK, bridgeVars
  <2>6. QED
    BY <2>1, <2>2, <2>3, <2>4, <2>5
       DEF Publisher, ReplyComplete, SaveMessage, Finish, Announce, Fail, CancelLate
<1>8. PublisherOK'
  <2>1. \A s \in Terminal : Result(s, TRUE) \in Results /\ Result(s, FALSE) \in Results
    BY ResultsOK
  <2>2. CASE PublishPiece BY <1>1, <1>2, <2>2 DEF PublishPiece, PublisherOK
  <2>3. CASE PublishWhole BY <1>1, <1>2, <2>3 DEF PublishWhole, PublisherOK, MessageIds
  <2>4. CASE Finish \/ Fail \/ CancelLate
    BY <1>1, <2>1, <2>4 DEF Finish, Fail, CancelLate, PublisherOK, Terminal
  <2>5. CASE ReplyComplete \/ SaveMessage \/ Announce \/ End
    BY <1>1, <2>5 DEF ReplyComplete, SaveMessage, Announce, End, PublisherOK
  <2>6. QED BY <2>2, <2>3, <2>4, <2>5 DEF Publisher
<1>9. PlaceOK' BY <1>1, <1>3, <1>7, StreamOK DEF PlaceOK, BridgeOK, TypeOK
<1>10. QED BY <1>4, <1>5, <1>6, <1>7, <1>8, <1>9 DEF TypeOK

\* The rest of the process.
LEMMA TypeProcess ==
    ASSUME TypeOK, Cleanup \/ CloseBridge \/ Crash \/ Exit \/ Restart
    PROVE  TypeOK'
<1>1. RowsOK /\ BridgeOK /\ PublisherOK /\ FaultsOK /\ ConnOK /\ ViewOK
  BY DEF TypeOK
<1>2. UNCHANGED viewVars /\ ViewOK' /\ up' \in {"up", "closing", "down"}
  BY <1>1 DEF Cleanup, CloseBridge, Crash, Exit, Gone, Restart, ViewOK, viewVars, TypeOK
<1>3. ConnOK'
  <2>1. conn' = conn \/ conn' = Off
    BY DEF Cleanup, CloseBridge, Crash, Exit, Gone, Restart
  <2>2. QED BY <1>1, <2>1, OffTyped DEF ConnOK
<1>4. FaultsOK'
  BY <1>1, FaultTyped DEF Cleanup, CloseBridge, Crash, Exit, Restart
<1>5. RowsOK'
  BY <1>1 DEF Cleanup, CloseBridge, Crash, Exit, Gone, Restart, RowsOK, Terminal, dbVars
<1>6. PublisherOK'
  BY <1>1 DEF Cleanup, CloseBridge, Crash, Exit, Gone, Restart, PublisherOK, pubVars
<1>7. BridgeOK' /\ Len(streams) <= Len(streams')
  <2>1. Len(streams) \in Nat /\ streams \in Seq(Streams) BY <1>1 DEF BridgeOK
  <2>2. CASE Cleanup
    BY <1>1, <2>1, <2>2 DEF Cleanup, BridgeOK
  <2>3. CASE CloseBridge
    <3>1. /\ streams' \in Seq(Streams) /\ Len(streams') = Len(streams)
          /\ \A e \in 1..Len(streams) : streams'[e].first = streams[e].first
                                         /\ streams'[e].log = streams[e].log
      <4>1. streams' = [e \in 1..Len(streams) |->
                           [streams[e] EXCEPT !.ended = @ \/ e = current]]
        BY <2>1, <2>3 DEF CloseBridge
      <4>2. ASSUME NEW e \in 1..Len(streams)
            PROVE  /\ streams'[e] \in Streams
                   /\ streams'[e].first = streams[e].first
                   /\ streams'[e].log = streams[e].log
        <5>1. streams[e] \in Streams BY <2>1
        <5>2. (streams[e].ended \/ e = current) \in BOOLEAN OBVIOUS
        <5>3. streams'[e] = [streams[e] EXCEPT !.ended = (streams[e].ended \/ e = current)]
          BY <4>1
        <5>4. QED BY <5>1, <5>2, <5>3 DEF Streams
      <4>3. DOMAIN streams' = 1..Len(streams) BY <4>1
      <4>4. streams' \in [1..Len(streams) -> Streams] BY <4>1, <4>2
      <4>5. QED BY <2>1, <4>2, <4>4
    <3>2. QED BY <1>1, <2>1, <2>3, <3>1 DEF CloseBridge, BridgeOK, NextId
  <2>4. CASE Crash \/ Exit
    <3>1. streams' \in Seq(Streams) /\ Len(streams') = Len(streams)
          /\ \A e \in 1..Len(streams) : streams'[e] = Dead
      BY <2>1, <2>4, NewStreamsOK DEF Crash, Exit, Gone
    <3>2. Dead.first <= NextId(Dead) BY DEF Dead, NextId
    <3>3. QED BY <2>1, <2>4, <3>1, <3>2 DEF Crash, Exit, Gone, BridgeOK
  <2>5. CASE Restart /\ ~UNCHANGED bridgeVars
    <3> DEFINE s == [log |-> <<Told(Result("error", FALSE))>>, first |-> 1, ended |-> TRUE]
    <3>1. Told(Result("error", FALSE)) \in Entries BY ResultsOK DEF Terminal
    <3>2. s \in Streams /\ s.first = 1 /\ Len(s.log) \in Nat
      BY <3>1, OneEntry
    <3> HIDE DEF s
    <3>3. streams' = Append(streams, s) /\ current' = Len(streams) + 1
          /\ timer' = Len(streams) + 1
      BY <2>5 DEF Restart, s
    <3>4. streams' \in Seq(Streams) /\ Len(streams') = Len(streams) + 1
          /\ \A e \in 1..Len(streams') :
                streams'[e] = IF e = Len(streams) + 1 THEN s ELSE streams[e]
      BY <2>1, <3>2, <3>3
    <3>5. s.first <= Len(s.log) + 1 BY <3>2
    <3>6. \A e \in 1..Len(streams) : streams[e].first <= NextId(streams[e]) BY <1>1 DEF BridgeOK
    <3>7. \A e \in 1..Len(streams') : streams'[e].first <= NextId(streams'[e])
      BY <2>1, <3>4, <3>5, <3>6 DEF NextId
    <3>8. QED BY <2>1, <3>3, <3>4, <3>7 DEF BridgeOK
  <2>6. CASE UNCHANGED bridgeVars
    BY <1>1, <2>6, StreamOK DEF BridgeOK, bridgeVars
  <2>7. QED BY <2>2, <2>3, <2>4, <2>5, <2>6 DEF Restart
<1>8. PlaceOK'
  <2>1. conn' = conn \/ conn' = Off
    BY DEF Cleanup, CloseBridge, Crash, Exit, Gone, Restart
  <2>2. Len(streams) \in Nat /\ Len(streams') \in Nat BY <1>1, <1>7 DEF BridgeOK
  <2>3. QED BY <1>7, <2>1, <2>2 DEF PlaceOK, TypeOK, Off
<1>9. QED BY <1>2, <1>3, <1>4, <1>5, <1>6, <1>7, <1>8 DEF TypeOK

\* What the browser makes of an entry.
LEMMA ReceiveTyped ==
    ASSUME ViewOK, NEW x \in Entries, NEW id \in Nat \X Nat, Receive(x, id)
    PROVE  ViewOK'
<1>1. text \in [MessageIds -> Seq(1..Pieces)] /\ whole \in SUBSET MessageIds
      /\ outcome \in Results \cup {Nothing, Unconfirmed}
  BY DEF ViewOK
<1>2. text' \in [MessageIds -> Seq(1..Pieces)] /\ whole' \in SUBSET MessageIds
      /\ outcome' \in Results \cup {Nothing, Unconfirmed}
  <2>1. CASE id \in seen
    BY <1>1, <2>1 DEF Receive
  <2>2. CASE x.kind = "piece" /\ ShowPiece(x.msg, x.n)
    <3>1. x.msg \in MessageIds /\ x.n \in 1..Pieces BY <2>2, EntryKinds
    <3>2. Append(text[x.msg], x.n) \in Seq(1..Pieces) BY <1>1, <3>1
    <3>3. QED BY <1>1, <2>2, <3>1, <3>2 DEF ShowPiece
  <2>3. CASE x.kind = "whole" /\ ShowWhole(x.msg)
    <3>1. x.msg \in MessageIds BY <2>3, EntryKinds
    <3>2. <<>> \in Seq(1..Pieces) OBVIOUS
    <3>3. QED BY <1>1, <2>3, <3>1, <3>2 DEF ShowWhole
  <2>4. CASE x.kind = "told" /\ ShowTold(x.result)
    BY <1>1, <2>4, EntryKinds DEF ShowTold
  <2>5. QED BY <2>1, <2>2, <2>3, <2>4 DEF Receive, Show
<1>3. lastId' \in Nat \X Nat /\ seen' \in SUBSET (Nat \X Nat) /\ snap' \in 0..Messages
  BY DEF Receive, ViewOK
<1>4. QED BY <1>2, <1>3 DEF ViewOK

\* The fields of the connection, one by one.
LEMMA ConnFields ==
    ASSUME ConnOK
    PROVE  /\ conn.status \in Terminal \cup {"running"} /\ conn.stream \in Nat
           /\ conn.next \in Nat \ {0} /\ conn.gap \in BOOLEAN /\ conn.cursor \in Nat \X Nat
BY DEF ConnOK

\* The connection of each turn of the handler is typed.
LEMMA TypeConn ==
    ASSUME TypeOK, Connect \/ Generator \/ Disconnect \/ Reload
    PROVE  ConnOK'
<1>1. ConnOK /\ RowsOK /\ BridgeOK /\ ViewOK BY DEF TypeOK
<1>2. CASE conn' = Off BY <1>2, OffTyped
<1>3. CASE Connect
  <2>1. lastId \in Nat \X Nat BY <1>1 DEF ViewOK
  <2>2. 1 \in Nat \ {0} /\ 0 \in Nat OBVIOUS
  <2>3. CASE conn' = [Off EXCEPT !.at = "open", !.cursor = lastId]
    BY <2>1, <2>2, <2>3 DEF Off, ConnOK
  <2>4. CASE conn' = [Off EXCEPT !.at = "refused"]
    BY <2>2, <2>4 DEF Off, ConnOK, NoCursor
  <2>5. QED BY <1>3, <2>3, <2>4 DEF Connect
<1>4. CASE ReadStatus
  BY <1>1, <1>4 DEF ReadStatus, ConnOK, RowsOK
<1>5. CASE \E from \in {"initial", "lost", "gapSnapshot", "gapHistory", "history", "loop", "beat"},
              to \in {"choose", "history", "gapHistory", "loop", "finish", "beat"} : Step(from, to)
  BY <1>1, <1>5 DEF Step, ConnOK
<1>6. CASE NoStream
  BY <1>1, <1>6 DEF NoStream, ConnOK
<1>7. CASE Subscribe
  <2> DEFINE start == Resolve(Epoch, Stream, conn.cursor)
  <2>1. Stream.first \in Nat \ {0} /\ Epoch \in Nat
    BY <1>1, StreamOK DEF Streams
  <2>2. conn.cursor \in Nat \X Nat BY <1>1, ConnFields
  <2>3. start.next \in Nat \ {0}
    BY <2>1, <2>2 DEF Resolve
  <2>4. start.gap \in BOOLEAN
    BY DEF Resolve
  <2> HIDE DEF start
  <2>5. conn' = [conn EXCEPT !.at = "loop", !.stream = Epoch, !.next = start.next,
                             !.gap = start.gap]
    BY <1>7 DEF Subscribe, start
  <2>6. QED BY <1>1, <2>1, <2>3, <2>4, <2>5 DEF ConnOK
<1>8. CASE LoopGap
  <2>1. conn' = [conn EXCEPT !.at = "gapSnapshot", !.gap = FALSE, !.next = conn'.next]
        /\ (conn'.next = conn.next \/ (conn'.next = Followed.first /\ conn.next < Followed.first))
    <3>1. PICK n : conn' = [conn EXCEPT !.at = "gapSnapshot", !.gap = FALSE, !.next = n]
                   /\ n = IF conn.next < Followed.first THEN Followed.first ELSE conn.next
      BY <1>8 DEF LoopGap
    <3>2. conn'.next = n BY <1>1, <3>1 DEF ConnOK
    <3>3. conn'.next = conn.next \/ (conn'.next = Followed.first /\ conn.next < Followed.first)
      BY <3>1, <3>2
    <3>4. QED BY <3>1, <3>2, <3>3
  <2>2. conn'.next \in Nat \ {0}
    <3>1. streams[conn.stream] \in Streams
      BY <1>1, <1>8 DEF TypeOK, PlaceOK, LoopGap, BridgeOK
    <3>2. QED BY <1>1, <2>1, <3>1 DEF ConnOK, Followed, Streams
  <2>3. QED BY <1>1, <2>1, <2>2 DEF ConnOK
<1>9. CASE LoopEntry
  BY <1>1, <1>2, <1>9, SMTT(40) DEF LoopEntry, ConnOK
<1>10. QED
  BY <1>2, <1>3, <1>4, <1>5, <1>6, <1>7, <1>8, <1>9
     DEF Generator, SendInitial, SendLost, SendGapSnapshot, SendSnapshot, LoopEnd, Heartbeat,
         BeatReads, SendHistory, SendTerminal, Disconnect, Reload, CaughtUp

\* Subscribing puts a stream back as it was, or makes a new one.
LEMMA SubscribeOK ==
    ASSUME BridgeOK, Keep(Stream)
    PROVE  /\ streams' \in Seq(Streams)
           /\ Len(streams') = IF Epoch > Len(streams) THEN Len(streams) + 1 ELSE Len(streams)
           /\ \A e \in 1..Len(streams') : streams'[e] = IF e = Epoch THEN Stream ELSE streams[e]
           /\ \A e \in 1..Len(streams') : streams'[e].first <= NextId(streams'[e])
           /\ current' \in 1..Len(streams')
           /\ Len(streams) <= Len(streams') /\ Epoch \in 1..Len(streams')
<1>1. Stream \in Streams /\ Stream.first <= Len(Stream.log) + 1 BY StreamOK
<1>2. PICK s \in Streams : s = Stream BY <1>1
<1>3. Keep(s) /\ s.first <= Len(s.log) + 1 BY <1>1, <1>2
<1>4. /\ streams' \in Seq(Streams)
      /\ Len(streams') = IF Epoch > Len(streams) THEN Len(streams) + 1 ELSE Len(streams)
      /\ \A e \in 1..Len(streams') : streams'[e] = IF e = Epoch THEN s ELSE streams[e]
      /\ \A e \in 1..Len(streams') : streams'[e].first <= NextId(streams'[e])
      /\ current' \in 1..Len(streams')
  BY <1>3, KeepOK
<1>5. Len(streams) <= Len(streams') /\ Epoch \in 1..Len(streams')
  BY <1>4, StreamOK
<1>6. QED BY <1>2, <1>4, <1>5

\* The browser and the handler.
LEMMA TypeFollower ==
    ASSUME TypeOK, Connect \/ Generator \/ Disconnect \/ Reload
    PROVE  TypeOK'
<1>1. RowsOK /\ BridgeOK /\ PublisherOK /\ FaultsOK /\ ConnOK /\ PlaceOK /\ ViewOK
  BY DEF TypeOK
<1>2. ConnOK' BY TypeConn
<1>3. UNCHANGED <<dbVars, up, pubVars>>
  BY DEF Connect, Disconnect, Reload, Generator, ReadStatus, SendInitial, Subscribe, NoStream,
         SendLost, LoopGap, LoopEntry, LoopEnd, Heartbeat, BeatReads, SendGapSnapshot, SendHistory,
         SendTerminal, SendSnapshot
<1>4. RowsOK' /\ PublisherOK' /\ up' \in {"up", "closing", "down"}
  BY <1>1, <1>3 DEF RowsOK, PublisherOK, dbVars, pubVars, TypeOK
<1>5. FaultsOK'
  BY <1>1, FaultTyped
     DEF Connect, Disconnect, Reload, Generator, ReadStatus, SendInitial, Subscribe, NoStream,
         SendLost, LoopGap, LoopEntry, LoopEnd, Heartbeat, BeatReads, SendGapSnapshot, SendHistory,
         SendTerminal, SendSnapshot
<1>6. Len(streams) \in Nat BY <1>1, StreamOK
<1>7. CASE Subscribe
  <2>1. BridgeOK'
    BY <1>1, <1>6, <1>7, SubscribeOK DEF Subscribe, BridgeOK
  <2>2. conn'.stream = Epoch BY <1>1, <1>7 DEF Subscribe, ConnOK
  <2>3. PlaceOK' BY <1>1, <1>7, <2>2, SubscribeOK DEF Subscribe, PlaceOK
  <2>4. ViewOK' BY <1>1, <1>7 DEF Subscribe, ViewOK, viewVars
  <2>5. QED BY <1>2, <1>4, <1>5, <2>1, <2>3, <2>4 DEF TypeOK
<1>8. CASE ~Subscribe
  <2>1. UNCHANGED bridgeVars
    BY <1>8 DEF Connect, Disconnect, Reload, Generator, ReadStatus, SendInitial, NoStream,
           SendLost, LoopGap, LoopEntry, LoopEnd, Heartbeat, BeatReads, SendGapSnapshot,
           SendHistory, SendTerminal, SendSnapshot
  <2>2. BridgeOK' BY <1>1, <2>1 DEF BridgeOK, bridgeVars
  <2>3. PlaceOK'
    <3>1. conn' = Off \/ conn'.at \in {"refused", "open", "initial", "choose", "lost", "history", "finish"}
          \/ (conn'.stream = conn.stream
              /\ conn.at \in {"loop", "beat", "gapSnapshot", "gapHistory"})
      BY <1>1, <1>8
         DEF ConnOK, Connect, Disconnect, Reload, Generator, ReadStatus, SendInitial, NoStream,
             SendLost, LoopGap, LoopEntry, LoopEnd, Heartbeat, BeatReads, SendGapSnapshot,
             SendHistory, SendTerminal, SendSnapshot, Step, CaughtUp, Off
    <3>2. QED BY <1>1, <2>1, <3>1 DEF PlaceOK, bridgeVars, Off
  <2>4. ViewOK'
    <3>1. CASE LoopEntry
      <4>1. Followed \in Streams BY <1>1, <3>1 DEF LoopEntry, PlaceOK, BridgeOK, Followed
      <4>2. Followed.log[conn.next] \in Entries
        BY <1>1, <3>1, <4>1 DEF LoopEntry, Streams, ConnOK
      <4>3. Cursor(conn.stream, conn.next) \in Nat \X Nat
        BY <1>1, ConnFields DEF Cursor
      <4>4. QED BY <1>1, <3>1, <4>2, <4>3, ReceiveTyped DEF LoopEntry
    <3>2. CASE Reload
      <4>1. Cleared \in [MessageIds -> Seq(1..Pieces)] BY DEF Cleared
      <4>2. QED BY <1>1, <3>2, <4>1, Positive DEF Reload, ViewOK, NoCursor
    <3>3. CASE SendInitial \/ SendLost \/ SendGapSnapshot
      <4>1. Cleared \in [MessageIds -> Seq(1..Pieces)] BY DEF Cleared
      <4>2. Reset BY <3>3 DEF SendInitial, SendLost, SendGapSnapshot, SendSnapshot
      <4>3. QED BY <1>1, <4>1, <4>2 DEF Reset, ViewOK, RowsOK
    <3>4. CASE SendHistory
      <4>1. Foreign \in Nat \X Nat BY DEF Foreign
      <4>2. QED BY <1>1, <3>4, <4>1 DEF SendHistory, ViewOK
    <3>5. CASE SendTerminal
      <4>1. status \in Terminal => Result(status, TRUE) \in Results BY ResultsOK
      <4>2. QED BY <1>1, <3>5, <4>1 DEF SendTerminal, ViewOK
    <3>6. CASE UNCHANGED viewVars BY <1>1, <3>6 DEF ViewOK, viewVars
    <3>7. QED
      BY <1>8, <3>1, <3>2, <3>3, <3>4, <3>5, <3>6
         DEF Connect, Disconnect, Generator, ReadStatus, NoStream, LoopGap, LoopEnd, Heartbeat,
             BeatReads
  <2>5. QED BY <1>2, <1>4, <1>5, <2>2, <2>3, <2>4 DEF TypeOK
<1>9. QED BY <1>7, <1>8

\* Every step keeps the types.
LEMMA TypeStep == TypeOK /\ [Next]_vars => TypeOK'
<1> SUFFICES ASSUME TypeOK, [Next]_vars PROVE TypeOK' OBVIOUS
<1>1. CASE Next BY <1>1, TypePublisher, TypeProcess, TypeFollower DEF Next
<1>2. CASE UNCHANGED vars
  BY <1>2 DEF vars, dbVars, bridgeVars, pubVars, viewVars, TypeOK, RowsOK, BridgeOK, PublisherOK,
              ConnOK, PlaceOK, ViewOK, FaultsOK
<1>3. QED BY <1>1, <1>2

\* Every variable of the stream, its publisher and its follower stays in its type.
THEOREM TypeCorrect == Spec => []TypeOK
<1>1. Init => TypeOK BY TypeInit
<1>2. TypeOK /\ [Next]_vars => TypeOK' BY TypeStep
<1>3. QED BY <1>1, <1>2, PTL DEF Spec

-----------------------------------------------------------------------------
(* The invariant                                                           *)

\* What may be said: complete messages that are saved, confirmed outcomes that
\* are the committed one.
Honest ==
    {x \in Entries : /\ x.kind = "whole" => x.msg <= saved
                     /\ x.kind = "told" /\ x.result.confirmed => x.result.status = status}

LogsOK ==
    \A e \in 1..Len(streams) : \A i \in 1..Len(streams[e].log) : streams[e].log[i] \in Honest

\* A task at work belongs to a running Run and saves messages in order.
TaskOK ==
    /\ pub \in {"pieces", "save", "whole", "finish"} => status = "running"
    /\ pub \in {"pieces", "save"} => saved <= msg
    /\ pub = "whole" => saved = msg
    /\ pub = "announce" /\ news.confirmed => news.status = status

KnownIsSaved == \A k \in Known : k <= saved

\* A place n in stream e that nothing new can be put before.
Settled(e, n) ==
    /\ e <= Len(streams)
    /\ e \in 1..Len(streams) /\ ~streams[e].ended => n <= Len(streams[e].log)

\* The browser knows every complete message up to place n of stream e.
Passed(e, n) ==
    e \in 1..Len(streams) =>
        \A i \in 1..Len(streams[e].log) :
            i <= n /\ streams[e].log[i].kind = "whole" => streams[e].log[i].msg \in Known

InStream == conn.at \in {"loop", "beat", "gapSnapshot", "gapHistory"}
Placed ==
    /\ InStream => conn.stream \in 1..Len(streams) /\ Settled(conn.stream, conn.next - 1)
    /\ conn.at \in {"open", "initial", "choose"} => conn.cursor = lastId

SeenOK == \A c \in seen \cup {lastId} : Settled(c[1], c[2]) /\ Passed(c[1], c[2])

FollowOK ==
    conn.at \in {"loop", "beat", "gapHistory"} /\ ~conn.gap => Passed(conn.stream, conn.next - 1)

IInv ==
    /\ TypeOK /\ LogsOK /\ TaskOK /\ OutcomeIsTrue /\ KnownIsSaved /\ Placed
    /\ SeenOK /\ FollowOK

\* How streams change: ended ones get nothing more, the others keep what they
\* have and get entries from X after it, or die.
Grows(X) ==
    /\ Len(streams) <= Len(streams')
    /\ \A e \in 1..Len(streams') : \A i \in 1..Len(streams'[e].log) :
          \/ /\ e <= Len(streams) /\ i <= Len(streams[e].log)
             /\ streams'[e].log[i] = streams[e].log[i]
          \/ /\ e <= Len(streams) => ~streams[e].ended /\ i > Len(streams[e].log)
             /\ streams'[e].log[i] \in X
    /\ \A e \in 1..Len(streams) :
          ~streams'[e].ended => /\ ~streams[e].ended
                                /\ Len(streams[e].log) <= Len(streams'[e].log)

-----------------------------------------------------------------------------
(* What a step does to the rows and the streams                            *)

\* Saved messages are not taken back, and only a running Run changes its status.
LEMMA RowsStep ==
    ASSUME TypeOK, TaskOK, Next
    PROVE  /\ saved <= saved'
           /\ status' = status \/ status = "running"
           /\ Honest \subseteq Honest'
           /\ TaskOK'
<1>1. RowsOK /\ PublisherOK /\ RowsOK' BY TypeStep DEF TypeOK
<1>2. Messages \in Nat /\ saved \in Nat /\ saved' \in Nat /\ msg \in Nat
  BY <1>1, Positive DEF RowsOK, PublisherOK, MessageIds
<1>3. CASE Connect \/ Generator \/ Disconnect \/ Reload \/ Cleanup
  <2>1. UNCHANGED <<dbVars, pubVars>>
    BY <1>3 DEF Cleanup, Connect, Disconnect, Reload, Generator, ReadStatus, SendInitial, Subscribe,
           NoStream, SendLost, LoopGap, LoopEntry, LoopEnd, Heartbeat, BeatReads, SendGapSnapshot,
           SendHistory, SendTerminal, SendSnapshot
  <2>2. QED BY <1>2, <2>1 DEF dbVars, pubVars, TaskOK, Honest
<1>4. CASE CloseBridge \/ Crash \/ Exit \/ Restart
  <2>1. saved' = saved /\ (status' = status \/ status = "running")
        /\ pub' \in {"over", "gone"}
    BY <1>4 DEF CloseBridge, Crash, Exit, Gone, Restart, dbVars, pubVars
  <2>2. TaskOK' BY <2>1 DEF TaskOK
  <2>3. Honest \subseteq Honest'
    <3>1. ASSUME NEW x \in Honest PROVE x \in Honest'
      <4>1. x.kind = "told" => x.result \in Results BY EntryKinds DEF Honest
      <4>2. QED BY <2>1, <4>1 DEF Honest, Results, Terminal
    <3>2. QED BY <3>1
  <2>4. QED BY <1>2, <2>1, <2>2, <2>3
<1>5. CASE Publisher \/ Fail \/ CancelLate
  <2>1. saved <= saved'
    <3>1. saved' = saved \/ (saved' = msg /\ pub = "save")
      BY <1>5
         DEF Publisher, PublishPiece, ReplyComplete, SaveMessage, PublishWhole, Finish, Announce,
             End, Fail, CancelLate, dbVars
    <3>2. QED BY <1>2, <3>1 DEF TaskOK
  <2>2. status' = status \/ status = "running"
    BY <1>5
       DEF Publisher, PublishPiece, ReplyComplete, SaveMessage, PublishWhole, Finish, Announce, End,
           Fail, CancelLate, dbVars, TaskOK
  <2>3. TaskOK'
    <3>1. CASE PublishPiece \/ ReplyComplete \/ SaveMessage
      BY <1>2, <3>1 DEF PublishPiece, ReplyComplete, SaveMessage, TaskOK, dbVars
    <3>2. CASE PublishWhole
      BY <1>2, <3>2 DEF PublishWhole, TaskOK, dbVars
    <3>3. CASE Finish \/ Fail \/ CancelLate
      BY <3>3 DEF Finish, Fail, CancelLate, TaskOK, Result
    <3>4. CASE Announce \/ End
      BY <3>4 DEF Announce, End, TaskOK
    <3>5. QED BY <1>5, <3>1, <3>2, <3>3, <3>4 DEF Publisher
  <2>4. Honest \subseteq Honest'
    <3>1. ASSUME NEW x \in Honest PROVE x \in Honest'
      <4>1. x.kind = "told" => x.result \in Results BY EntryKinds DEF Honest
      <4>2. x.kind = "told" /\ x.result.confirmed => x.result.status = status'
        BY <2>2, <4>1 DEF Honest, Results, Terminal
      <4>3. x.kind = "whole" => x.msg \in Nat /\ x.msg <= saved
        BY EntryKinds, Positive DEF Honest, MessageIds
      <4>4. x.kind = "whole" => x.msg <= saved'
        BY <1>2, <2>1, <4>3
      <4>5. QED BY <4>2, <4>4 DEF Honest
    <3>2. QED BY <3>1
  <2>5. QED BY <2>1, <2>2, <2>3, <2>4
<1>6. QED BY <1>3, <1>4, <1>5 DEF Next

\* Streams that stay as they are.
LEMMA StayGrows ==
    ASSUME TypeOK, NEW X, UNCHANGED streams
    PROVE  Grows(X)
<1>1. Len(streams) \in Nat /\ \A e \in 1..Len(streams) : streams[e] \in Streams
  BY DEF TypeOK, BridgeOK
<1>2. \A e \in 1..Len(streams) : Len(streams[e].log) \in Nat BY <1>1 DEF Streams
<1>3. QED BY <1>1, <1>2 DEF Grows

\* One stream is put back, or is new, with entries of X after those it had.
LEMMA KeepGrows ==
    ASSUME TypeOK, NEW X, NEW s \in Streams, s.first <= Len(s.log) + 1, Keep(s),
           Len(Stream.log) <= Len(s.log),
           \A i \in 1..Len(Stream.log) : s.log[i] = Stream.log[i],
           \A i \in 1..Len(s.log) : i > Len(Stream.log) => ~Stream.ended /\ s.log[i] \in X,
           Stream.ended => s.ended
    PROVE  Grows(X)
<1>1. BridgeOK BY DEF TypeOK
<1>2. /\ streams' \in Seq(Streams)
      /\ Len(streams') = IF Epoch > Len(streams) THEN Len(streams) + 1 ELSE Len(streams)
      /\ \A e \in 1..Len(streams') : streams'[e] = IF e = Epoch THEN s ELSE streams[e]
  BY <1>1, KeepOK
<1>3. /\ Epoch \in 1..(Len(streams) + 1)
      /\ Epoch <= Len(streams) => Stream = streams[Epoch]
      /\ Epoch > Len(streams) => Stream = NewStream
      /\ Len(streams) \in Nat /\ Stream \in Streams
  BY <1>1, StreamOK
<1>4. Len(streams) <= Len(streams') BY <1>2, <1>3
<1>5. Len(Stream.log) \in Nat /\ Len(s.log) \in Nat BY <1>3 DEF Streams
<1>6. ASSUME NEW e \in 1..Len(streams'), NEW i \in 1..Len(streams'[e].log)
      PROVE  \/ /\ e <= Len(streams) /\ i <= Len(streams[e].log)
                /\ streams'[e].log[i] = streams[e].log[i]
             \/ /\ e <= Len(streams) => ~streams[e].ended /\ i > Len(streams[e].log)
                /\ streams'[e].log[i] \in X
  <2>1. CASE e # Epoch
    <3>1. e <= Len(streams) /\ streams'[e] = streams[e] BY <1>2, <1>3, <2>1
    <3>2. QED BY <3>1
  <2>2. CASE e = Epoch /\ e <= Len(streams)
    <3>1. streams'[e] = s /\ streams[e] = Stream BY <1>2, <1>3, <2>2
    <3>2. i \in 1..Len(s.log) BY <1>6, <3>1
    <3>3. CASE i <= Len(Stream.log)
      <4>1. s.log[i] = Stream.log[i] BY <1>5, <3>2, <3>3
      <4>2. QED BY <2>2, <3>1, <3>3, <4>1
    <3>4. CASE i > Len(Stream.log)
      <4>1. ~Stream.ended /\ s.log[i] \in X BY <3>2, <3>4
      <4>2. QED BY <3>1, <3>4, <4>1
    <3>5. QED BY <1>5, <3>2, <3>3, <3>4
  <2>3. CASE e = Epoch /\ e > Len(streams)
    <3>1. Len(Stream.log) = 0 BY <1>3, <2>3 DEF NewStream
    <3>2. s.log[i] \in X /\ streams'[e] = s BY <1>2, <1>5, <2>3, <3>1
    <3>3. ~(e <= Len(streams)) BY <1>3, <2>3
    <3>4. QED BY <3>2, <3>3
  <2>4. QED BY <1>2, <1>3, <2>1, <2>2, <2>3
<1>7. ASSUME NEW e \in 1..Len(streams), ~streams'[e].ended
      PROVE  ~streams[e].ended /\ Len(streams[e].log) <= Len(streams'[e].log)
  <2>1. e \in 1..Len(streams') /\ streams[e] \in Streams
    BY <1>1, <1>2, <1>3, <1>4 DEF BridgeOK
  <2>2. CASE e = Epoch BY <1>2, <1>3, <1>7, <2>1, <2>2
  <2>3. CASE e # Epoch
    <3>1. streams'[e] = streams[e] BY <1>2, <2>1, <2>3
    <3>2. Len(streams[e].log) \in Nat BY <2>1 DEF Streams
    <3>3. QED BY <1>7, <3>1, <3>2
  <2>4. QED BY <2>2, <2>3
<1>8. QED BY <1>4, <1>6, <1>7 DEF Grows

\* Publishing adds one entry at the end of a stream.
LEMMA PublishGrows ==
    ASSUME TypeOK, NEW X, NEW x \in Entries, x \in X, Publish(x)
    PROVE  Grows(X)
<1>1. BridgeOK BY DEF TypeOK
<1>2. PICK s \in Streams :
        s.first <= Len(s.log) + 1 /\ s.log = Append(Stream.log, x) /\ ~Stream.ended /\ Keep(s)
  BY <1>1, PublishOK
<1>3. Stream.log \in Seq(Entries) BY <1>1, StreamOK DEF Streams
<1>4. /\ Len(Stream.log) <= Len(s.log)
      /\ \A i \in 1..Len(Stream.log) : s.log[i] = Stream.log[i]
      /\ \A i \in 1..Len(s.log) : i > Len(Stream.log) => s.log[i] \in X
  BY <1>2, <1>3
<1>5. QED BY <1>2, <1>4, KeepGrows

\* Streams that keep what they have, or die.
LEMMA EndsGrow ==
    ASSUME TypeOK, NEW X, CloseBridge \/ Gone
    PROVE  Grows(X)
<1>1. Len(streams) \in Nat /\ streams \in Seq(Streams) BY DEF TypeOK, BridgeOK
<1>2. CASE CloseBridge
  <2>1. streams' = [e \in 1..Len(streams) |->
                       [streams[e] EXCEPT !.ended = @ \/ e = current]]
    BY <1>1, <1>2 DEF CloseBridge
  <2>2. BridgeOK' BY TypeProcess, <1>2 DEF TypeOK
  <2>3. Len(streams') = Len(streams)
    <3>1. DOMAIN streams' = 1..Len(streams) /\ DOMAIN streams' = 1..Len(streams')
      BY <2>1, <2>2 DEF BridgeOK
    <3>2. Len(streams') \in Nat BY <2>2 DEF BridgeOK
    <3>3. QED BY <1>1, <3>1, <3>2
  <2>4. ASSUME NEW e \in 1..Len(streams)
        PROVE  /\ streams'[e].log = streams[e].log
               /\ ~streams'[e].ended => ~streams[e].ended
               /\ Len(streams[e].log) \in Nat
    <3>1. streams[e] \in Streams BY <1>1
    <3>2. streams'[e] = [streams[e] EXCEPT !.ended = (streams[e].ended \/ e = current)]
      BY <2>1
    <3>3. streams'[e].ended = (streams[e].ended \/ e = current) /\ streams'[e].log = streams[e].log
      BY <3>1, <3>2 DEF Streams
    <3>4. QED BY <3>1, <3>3 DEF Streams
  <2>5. QED BY <1>1, <2>3, <2>4 DEF Grows
<1>3. CASE Gone
  <2>1. Len(streams') = Len(streams) /\ \A e \in 1..Len(streams) : streams'[e] = Dead
    BY <1>1, <1>3 DEF Gone
  <2>2. Len(Dead.log) = 0 /\ Dead.ended BY DEF Dead
  <2>3. QED BY <1>1, <2>1, <2>2 DEF Grows
<1>4. QED BY <1>2, <1>3

\* Restart tells of the orphaned Run in a stream of its own.
LEMMA RestartGrows ==
    ASSUME TypeOK, Restart
    PROVE  Grows(Honest')
<1> DEFINE x == Told(Result("error", FALSE))
           s == [log |-> <<x>>, first |-> 1, ended |-> TRUE]
<1>1. CASE UNCHANGED streams BY <1>1, StayGrows
<1>2. CASE ~UNCHANGED streams
  <2>1. x \in Entries BY ResultsOK DEF Terminal
  <2>2. x.kind = "told" /\ ~x.result.confirmed BY DEF Told, Result
  <2>3. x \in Honest' BY <2>1, <2>2 DEF Honest
  <2>4. s \in Streams /\ Len(s.log) = 1 /\ s.log[1] = x BY <2>1, OneEntry
  <2>5. streams' = Append(streams, s)
    BY <1>2 DEF Restart, bridgeVars
  <2> HIDE DEF x, s
  <2>6. Len(streams) \in Nat /\ streams \in Seq(Streams) BY DEF TypeOK, BridgeOK
  <2>7. Len(streams') = Len(streams) + 1
        /\ \A e \in 1..Len(streams') : streams'[e] = IF e = Len(streams) + 1 THEN s ELSE streams[e]
    BY <2>4, <2>5, <2>6
  <2>8. \A e \in 1..Len(streams) : streams'[e] = streams[e] /\ Len(streams[e].log) \in Nat
    BY <2>6, <2>7 DEF Streams
  <2>9. ASSUME NEW i \in 1..Len(streams'[Len(streams) + 1].log)
        PROVE  streams'[Len(streams) + 1].log[i] \in Honest'
    BY <2>3, <2>4, <2>6, <2>7
  <2>10. \A e \in 1..Len(streams') : e \in 1..Len(streams) \/ e = Len(streams) + 1
    BY <2>6, <2>7
  <2>11. QED BY <2>6, <2>7, <2>8, <2>9, <2>10 DEF Grows
<1>3. QED BY <1>1, <1>2

\* Every step only adds to the streams, and what it adds is true when it is added.
LEMMA StreamsGrow ==
    ASSUME TypeOK, TaskOK, Next
    PROVE  Grows(Honest')
<1>1. BridgeOK /\ PublisherOK /\ RowsOK BY DEF TypeOK
<1>2. msg \in MessageIds /\ piece \in 1..(Pieces + 1) /\ saved' \in Nat
      /\ Pieces \in Nat /\ Messages \in Nat
  BY <1>1, TypeStep, Positive DEF PublisherOK, TypeOK, RowsOK
<1>3. CASE PublishPiece
  <2>1. Piece(msg, piece) \in Entries
    BY <1>2, <1>3, ResultsOK DEF PublishPiece
  <2>2. Piece(msg, piece) \in Honest' BY <2>1 DEF Honest, Piece
  <2>3. QED BY <1>3, <2>1, <2>2, PublishGrows DEF PublishPiece
<1>4. CASE PublishWhole
  <2>1. Whole(msg) \in Entries BY <1>2, ResultsOK
  <2>2. msg <= saved' /\ Publish(Whole(msg))
    BY <1>2, <1>4 DEF PublishWhole, dbVars, TaskOK, MessageIds
  <2>3. Whole(msg) \in Honest' BY <2>1, <2>2 DEF Honest, Whole
  <2>4. QED BY <2>1, <2>2, <2>3, PublishGrows
<1>5. CASE Announce /\ ~Stream.ended
  <2>1. news \in Results /\ status' = status /\ Publish(Told(news))
    BY <1>1, <1>5 DEF Announce, PublisherOK, dbVars
  <2>2. Told(news) \in Entries BY <2>1, ResultsOK
  <2>3. news.confirmed => news.status = status' BY <1>5, <2>1 DEF TaskOK, Announce
  <2>4. Told(news) \in Honest' BY <2>2, <2>3 DEF Honest, Told
  <2>5. QED BY <2>1, <2>2, <2>4, PublishGrows
<1>6. CASE End
  <2>1. Stream \in Streams /\ Stream.first <= Len(Stream.log) + 1 BY <1>1, StreamOK
  <2>2. PICK s \in Streams : s = [Stream EXCEPT !.ended = TRUE] BY <2>1 DEF Streams
  <2>3. s.log = Stream.log /\ s.first = Stream.first /\ s.ended
    BY <2>1, <2>2 DEF Streams
  <2>4. Len(s.log) \in Nat BY <2>1, <2>3 DEF Streams
  <2>5. Keep(s) BY <1>6, <2>2 DEF End, EndStream
  <2>6. QED BY <2>1, <2>3, <2>4, <2>5, KeepGrows
<1>7. CASE Subscribe
  <2>1. Stream \in Streams /\ Stream.first <= Len(Stream.log) + 1 BY <1>1, StreamOK
  <2>2. PICK s \in Streams : s = Stream BY <2>1
  <2>3. Len(s.log) \in Nat BY <2>2 DEF Streams
  <2>4. Keep(s) BY <1>7, <2>2 DEF Subscribe
  <2>5. QED BY <2>1, <2>2, <2>3, <2>4, KeepGrows
<1>8. CASE CloseBridge \/ Crash \/ Exit
  BY <1>8, EndsGrow DEF Crash, Exit
<1>9. CASE Restart BY <1>9, RestartGrows
<1>10. CASE UNCHANGED streams BY <1>10, StayGrows
<1>11. QED
  BY <1>3, <1>4, <1>5, <1>6, <1>7, <1>8, <1>9, <1>10
     DEF Next, Publisher, ReplyComplete, SaveMessage, Finish, Announce, Fail, CancelLate, Cleanup,
         Connect, Disconnect, Reload, Generator, ReadStatus, SendInitial, NoStream, SendLost,
         LoopGap, LoopEntry, LoopEnd, Heartbeat, BeatReads, SendGapSnapshot, SendHistory,
         SendTerminal, SendSnapshot, bridgeVars

\* So what streams say stays true.
LEMMA LogsStep ==
    ASSUME TypeOK, TaskOK, LogsOK, Next
    PROVE  LogsOK'
<1>1. Grows(Honest') /\ Honest \subseteq Honest' BY StreamsGrow, RowsStep
<1>2. Len(streams) \in Nat /\ BridgeOK' BY StreamOK, TypeStep DEF TypeOK
<1>3. ASSUME NEW e \in 1..Len(streams'), NEW i \in 1..Len(streams'[e].log)
      PROVE  streams'[e].log[i] \in Honest'
  <2>1. CASE e <= Len(streams) /\ i <= Len(streams[e].log) /\ streams'[e].log[i] = streams[e].log[i]
    <3>1. e \in 1..Len(streams) BY <1>2, <2>1 DEF BridgeOK
    <3>2. Len(streams[e].log) \in Nat BY <3>1 DEF TypeOK, BridgeOK, Streams
    <3>3. streams'[e] \in Streams BY <1>2 DEF BridgeOK
    <3>4. Len(streams'[e].log) \in Nat BY <3>3 DEF Streams
    <3>5. i \in 1..Len(streams[e].log) BY <2>1, <3>2, <3>4
    <3>6. QED BY <1>1, <2>1, <3>1, <3>5 DEF LogsOK
  <2>2. QED BY <1>1, <1>3, <2>1 DEF Grows
<1>4. QED BY <1>3 DEF LogsOK

\* A place that was passed stays passed while the browser forgets nothing.
LEMMA PassedStays ==
    ASSUME TypeOK, TypeOK', NEW X, Grows(X), Known \subseteq Known',
           NEW e \in Nat, NEW n \in Nat, Settled(e, n), Passed(e, n)
    PROVE  Settled(e, n)' /\ Passed(e, n)'
<1>1. Len(streams) \in Nat /\ Len(streams') \in Nat /\ Len(streams) <= Len(streams')
      /\ e <= Len(streams)
  BY DEF TypeOK, BridgeOK, Settled, Grows
<1>2. CASE e = 0 BY <1>1, <1>2 DEF Settled, Passed
<1>3. CASE e \in 1..Len(streams)
  <2>1. e \in 1..Len(streams') /\ streams[e] \in Streams /\ streams'[e] \in Streams
    BY <1>1, <1>3 DEF TypeOK, BridgeOK
  <2>2. Len(streams[e].log) \in Nat /\ Len(streams'[e].log) \in Nat BY <2>1 DEF Streams
  <2>3. Settled(e, n)' BY <1>1, <1>3, <2>1, <2>2 DEF Settled, Grows
  <2>4. ASSUME NEW i \in 1..Len(streams'[e].log), i <= n, streams'[e].log[i].kind = "whole"
        PROVE  streams'[e].log[i].msg \in Known'
    <3>1. ~(~streams[e].ended /\ i > Len(streams[e].log))
      BY <1>3, <2>2, <2>4 DEF Settled
    <3>2. i \in 1..Len(streams[e].log) /\ streams'[e].log[i] = streams[e].log[i]
      BY <1>1, <1>3, <2>1, <2>2, <3>1 DEF Grows
    <3>3. QED BY <1>3, <2>4, <3>2 DEF Passed
  <2>5. QED BY <2>3, <2>4 DEF Passed
<1>4. QED BY <1>1, <1>2, <1>3

-----------------------------------------------------------------------------
(* Every step keeps the invariant                                          *)

\* Cursors the browser keeps, or gets from no stream of this Run.
LEMMA SeenStays ==
    ASSUME IInv, Next, Known \subseteq Known', seen' \subseteq seen,
           lastId' \in {lastId, NoCursor, Foreign}
    PROVE  SeenOK'
<1>1. TypeOK /\ TypeOK' /\ Grows(Honest') BY TypeStep, StreamsGrow DEF IInv
<1>2. ASSUME NEW c \in seen' \cup {lastId'}
      PROVE  Settled(c[1], c[2])' /\ Passed(c[1], c[2])'
  <2>1. CASE c \in seen \cup {lastId}
    <3>1. c[1] \in Nat /\ c[2] \in Nat BY <1>1, <2>1 DEF TypeOK, ViewOK
    <3>2. Settled(c[1], c[2]) /\ Passed(c[1], c[2]) BY <2>1 DEF IInv, SeenOK
    <3>3. QED BY <1>1, <3>1, <3>2, PassedStays
  <2>2. CASE c \in {NoCursor, Foreign}
    <3>1. c[1] = 0 BY <2>2 DEF NoCursor, Foreign
    <3>2. Len(streams') \in Nat BY <1>1 DEF TypeOK, BridgeOK
    <3>3. QED BY <3>1, <3>2 DEF Settled, Passed
  <2>3. QED BY <1>2, <2>1, <2>2
<1>3. QED BY <1>2 DEF SeenOK

\* The place of the handler, while it stays where it is.
LEMMA PlaceStays ==
    ASSUME IInv, Next, Known \subseteq Known', InStream,
           NEW e, NEW n, e = conn.stream, n = conn.next - 1
    PROVE  /\ e \in Nat /\ n \in Nat
           /\ e \in 1..Len(streams')
           /\ Settled(e, n)'
           /\ conn.at \in {"loop", "beat", "gapHistory"} /\ ~conn.gap => Passed(e, n)'
<1>1. TypeOK /\ TypeOK' /\ Grows(Honest') BY TypeStep, StreamsGrow DEF IInv
<1>2. Len(streams) \in Nat /\ Len(streams') \in Nat /\ Len(streams) <= Len(streams')
  BY <1>1 DEF TypeOK, BridgeOK, Grows
<1>3. e \in 1..Len(streams) /\ e \in Nat /\ n \in Nat /\ Settled(e, n)
  BY <1>1 DEF IInv, Placed, TypeOK, ConnOK
<1>4. CASE Passed(e, n)
  BY <1>1, <1>2, <1>3, <1>4, PassedStays
<1>5. CASE ~Passed(e, n)
  <2>1. ~(conn.at \in {"loop", "beat", "gapHistory"} /\ ~conn.gap)
    BY <1>5 DEF IInv, FollowOK
  <2>2. streams[e] \in Streams /\ streams'[e] \in Streams BY <1>1, <1>2, <1>3 DEF TypeOK, BridgeOK
  <2>3. Len(streams[e].log) \in Nat /\ Len(streams'[e].log) \in Nat BY <2>2 DEF Streams
  <2>4. Settled(e, n)' BY <1>1, <1>2, <1>3, <2>3 DEF Settled, Grows
  <2>5. QED BY <1>2, <1>3, <2>1, <2>4
<1>6. QED BY <1>4, <1>5

\* What the browser was told stays true as long as it is told nothing new.
LEMMA OutcomeStays ==
    ASSUME TypeOK, TaskOK, OutcomeIsTrue, Next, outcome' = outcome
    PROVE  OutcomeIsTrue'
<1>1. outcome \in Results \cup {Nothing, Unconfirmed} BY DEF TypeOK, ViewOK
<1>2. outcome.confirmed => outcome.status \in Terminal
  BY <1>1 DEF Results, Nothing, Unconfirmed
<1>3. status' = status \/ status = "running" BY RowsStep
<1>4. QED BY <1>2, <1>3 DEF OutcomeIsTrue, Terminal

\* A step that leaves the browser alone.
LEMMA ViewStays ==
    ASSUME IInv, Next, UNCHANGED viewVars
    PROVE  OutcomeIsTrue' /\ KnownIsSaved' /\ SeenOK' /\ Known' = Known
<1>1. Known' = Known BY DEF Known, viewVars
<1>2. SeenOK' BY <1>1, SeenStays DEF viewVars
<1>3. OutcomeIsTrue' BY OutcomeStays DEF viewVars, IInv
<1>4. KnownIsSaved'
  <2>1. saved <= saved' /\ saved \in Nat /\ saved' \in Nat /\ snap \in Nat
        /\ MessageIds \subseteq Nat /\ Messages \in Nat
    BY RowsStep, TypeStep, Positive DEF IInv, TypeOK, RowsOK, ViewOK, MessageIds
  <2>2. \A k \in Known : k \in Nat /\ k <= saved
    BY <2>1 DEF IInv, KnownIsSaved, Known, TypeOK, ViewOK
  <2>3. QED BY <1>1, <2>1, <2>2 DEF KnownIsSaved
<1>5. QED BY <1>1, <1>2, <1>3, <1>4

\* The connection stays, or moves within the stream it follows without a gap.
LEMMA ConnStays ==
    ASSUME IInv, Next, Known \subseteq Known', lastId' = lastId,
           \/ conn' = conn
           \/ /\ conn.at \in {"loop", "beat"} /\ ~conn.gap
              /\ \E a \in {"loop", "beat", "finish"} : conn' = [conn EXCEPT !.at = a]
    PROVE  Placed' /\ FollowOK'
<1>1. ConnOK BY DEF IInv, TypeOK
<1>2. /\ conn'.stream = conn.stream /\ conn'.next = conn.next /\ conn'.gap = conn.gap
      /\ conn'.cursor = conn.cursor
      /\ conn'.at = conn.at \/ (conn.at \in {"loop", "beat"} /\ ~conn.gap
                                 /\ conn'.at \in {"loop", "beat", "finish"})
  BY <1>1 DEF ConnOK
<1>3. CASE InStream
  <2>1. PICK e, n : e = conn.stream /\ n = conn.next - 1 OBVIOUS
  <2>2. /\ e \in 1..Len(streams') /\ Settled(e, n)'
        /\ conn.at \in {"loop", "beat", "gapHistory"} /\ ~conn.gap => Passed(e, n)'
    BY <1>3, <2>1, PlaceStays
  <2>3. Settled(conn.stream, conn.next - 1)' /\ conn'.stream \in 1..Len(streams')
    BY <1>2, <2>1, <2>2 DEF Settled
  <2>4. conn.at \in {"loop", "beat", "gapHistory"} /\ ~conn.gap =>
            Passed(conn.stream, conn.next - 1)'
    BY <1>2, <2>1, <2>2 DEF Passed
  <2>5. QED BY <1>2, <1>3, <2>3, <2>4 DEF Placed, FollowOK, InStream
<1>4. CASE ~InStream
  BY <1>2, <1>4 DEF Placed, FollowOK, InStream, IInv
<1>5. QED BY <1>3, <1>4

\* Where no stream is followed.
LEMMA ConnElsewhere ==
    ASSUME \/ conn' = Off \/ conn'.at \in {"refused", "lost", "history", "finish"}
           \/ conn'.at \in {"open", "initial", "choose"} /\ conn'.cursor = lastId'
    PROVE  Placed' /\ FollowOK'
BY DEF Placed, FollowOK, InStream, Off

\* Subscribing: the place Last-Event-ID gives was passed, or is a gap, or is
\* the beginning.
LEMMA SubscribeKeeps ==
    ASSUME IInv, Subscribe
    PROVE  Placed' /\ FollowOK'
<1> DEFINE start == Resolve(Epoch, Stream, conn.cursor)
<1>1. TypeOK /\ TypeOK' /\ BridgeOK /\ ConnOK /\ Next
  BY TypeStep DEF IInv, TypeOK, Next, Generator
<1>2. /\ Stream \in Streams /\ Epoch \in Nat /\ Epoch \in 1..Len(streams')
      /\ Stream.first <= Len(Stream.log) + 1
      /\ streams'[Epoch] = Stream /\ Len(Stream.log) \in Nat /\ Stream.first \in Nat \ {0}
  <2>1. Stream \in Streams /\ Stream.first <= Len(Stream.log) + 1 BY <1>1, StreamOK
  <2>2. Len(Stream.log) \in Nat /\ Stream.first \in Nat \ {0} BY <2>1 DEF Streams
  <2>3. Keep(Stream) BY DEF Subscribe
  <2>4. Epoch \in 1..Len(streams') /\ streams'[Epoch] = Stream BY <1>1, <2>3, SubscribeOK
  <2>5. QED BY <2>1, <2>2, <2>4
<1>3. Known' = Known /\ lastId' = lastId /\ conn.cursor = lastId
  BY DEF Subscribe, viewVars, Known, IInv, Placed
<1>4. lastId \in Nat \X Nat BY <1>1 DEF TypeOK, ViewOK
<1>5. /\ conn'.at = "loop" /\ conn'.stream = Epoch /\ conn'.next = start.next
      /\ conn'.gap = start.gap
  BY <1>1 DEF Subscribe, ConnOK
<1>6. CASE lastId[1] = Epoch /\ lastId[2] \in 1..Len(Stream.log) /\ lastId[2] + 1 >= Stream.first
  <2>1. start.next = lastId[2] + 1 BY <1>3, <1>6 DEF Resolve
  <2>2. Epoch \in 1..Len(streams) /\ streams[Epoch] = Stream
    <3>1. Epoch <= Len(streams) \/ Stream = NewStream BY <1>1, StreamOK
    <3>2. Len(Stream.log) # 0 BY <1>2, <1>6
    <3>3. Epoch <= Len(streams) BY <3>1, <3>2 DEF NewStream
    <3>4. QED BY <1>1, <3>3, StreamOK
  <2>3. Passed(lastId[1], lastId[2]) BY DEF IInv, SeenOK
  <2>4. \A i \in 1..Len(Stream.log) :
          i <= lastId[2] /\ Stream.log[i].kind = "whole" => Stream.log[i].msg \in Known
    BY <1>6, <2>2, <2>3 DEF Passed
  <2>5. start.next - 1 = lastId[2] BY <1>4, <2>1
  <2>6. Passed(conn.stream, conn.next - 1)'
    BY <1>2, <1>3, <1>5, <2>4, <2>5 DEF Passed
  <2>7. Settled(conn.stream, conn.next - 1)'
    BY <1>2, <1>5, <1>6, <2>5 DEF Settled
  <2>8. QED BY <1>2, <1>5, <2>6, <2>7 DEF Placed, FollowOK, InStream
<1>7. CASE ~(lastId[1] = Epoch /\ lastId[2] \in 1..Len(Stream.log) /\ lastId[2] + 1 >= Stream.first)
  <2>1. start.next = Stream.first /\ (start.gap = (lastId # NoCursor \/ Stream.first > 1))
    BY <1>3, <1>7 DEF Resolve
  <2>2. Settled(conn.stream, conn.next - 1)'
    <3>1. start.next - 1 <= Len(Stream.log) BY <1>2, <2>1
    <3>2. Epoch <= Len(streams') BY <1>1, <1>2 DEF TypeOK, BridgeOK
    <3>3. QED BY <1>2, <1>5, <3>1, <3>2 DEF Settled
  <2>3. ~start.gap => Passed(conn.stream, conn.next - 1)'
    <3>1. ~start.gap => start.next - 1 = 0
      <4>1. ~start.gap => ~(Stream.first > 1) BY <2>1
      <4>2. ~(Stream.first > 1) => Stream.first - 1 = 0 BY <1>2
      <4>3. QED BY <2>1, <4>1, <4>2
    <3>2. QED BY <1>2, <1>5, <3>1 DEF Passed
  <2>4. QED BY <1>2, <1>5, <2>2, <2>3 DEF Placed, FollowOK, InStream
<1>8. QED BY <1>6, <1>7

\* A gap moves the place to the first entry that is left.
LEMMA LoopGapKeeps ==
    ASSUME IInv, LoopGap
    PROVE  Placed' /\ FollowOK'
<1>1. TypeOK /\ TypeOK' /\ BridgeOK /\ ConnOK /\ Next
  BY TypeStep DEF IInv, TypeOK, Next, Generator
<1>2. UNCHANGED streams /\ conn.at = "loop" BY DEF LoopGap, bridgeVars
<1>3. /\ conn.stream \in 1..Len(streams) /\ Len(streams) \in Nat /\ Followed \in Streams
      /\ Followed.first <= Len(Followed.log) + 1
  <2>1. conn.stream \in 1..Len(streams) BY <1>1, <1>2 DEF TypeOK, PlaceOK
  <2>2. Len(streams) \in Nat BY <1>1 DEF BridgeOK
  <2>3. Followed \in Streams /\ Followed.first <= Len(Followed.log) + 1
    BY <1>1, <2>1 DEF BridgeOK, Followed, NextId
  <2>4. QED BY <2>1, <2>2, <2>3
<1>4. /\ conn'.at = "gapSnapshot" /\ conn'.stream = conn.stream
      /\ conn'.next = conn.next \/ conn'.next = Followed.first
  BY <1>1 DEF LoopGap, ConnOK
<1>5. Settled(conn.stream, conn.next - 1) BY <1>2 DEF IInv, Placed, InStream
<1>6. Len(Followed.log) \in Nat /\ Followed.first \in Nat BY <1>3 DEF Streams
<1>7. Settled(conn.stream, conn.next - 1)'
  <2>1. CASE conn'.next = conn.next BY <1>2, <1>4, <1>5, <2>1 DEF Settled
  <2>2. CASE conn'.next = Followed.first
    <3>1. conn'.next - 1 <= Len(streams[conn.stream].log) BY <1>3, <1>6, <2>2 DEF Followed
    <3>2. QED BY <1>2, <1>3, <1>4, <3>1 DEF Settled
  <2>3. QED BY <1>4, <2>1, <2>2
<1>8. QED BY <1>2, <1>3, <1>4, <1>7 DEF Placed, FollowOK, InStream

\* A snapshot holds everything that was called complete.
LEMMA SnapshotKeeps ==
    ASSUME IInv, SendInitial \/ SendLost \/ SendGapSnapshot
    PROVE  /\ OutcomeIsTrue' /\ KnownIsSaved' /\ Placed' /\ SeenOK' /\ FollowOK'
           /\ Known \subseteq Known'
<1>1. TypeOK /\ TypeOK' /\ RowsOK /\ ViewOK /\ ConnOK /\ Next
  BY TypeStep DEF IInv, TypeOK, Next, Generator
<1>2. Reset /\ UNCHANGED <<saved, streams>>
  BY DEF SendInitial, SendLost, SendGapSnapshot, SendSnapshot, dbVars, bridgeVars
<1>3. saved \in Nat /\ MessageIds \subseteq Nat /\ Messages \in Nat
  BY <1>1, Positive DEF RowsOK, MessageIds
<1>4. Known' = {k \in MessageIds : k <= saved} BY <1>2 DEF Known, Reset
<1>5. Known \subseteq Known'
  <2>1. Known \subseteq MessageIds BY <1>1 DEF Known, ViewOK
  <2>2. QED BY <1>4, <2>1 DEF IInv, KnownIsSaved
<1>6. KnownIsSaved' BY <1>2, <1>4 DEF KnownIsSaved
<1>7. OutcomeIsTrue' BY <1>1, <1>2, OutcomeStays DEF Reset, IInv
<1>8. SeenOK' BY <1>1, <1>2, <1>5, SeenStays DEF Reset
<1>9. Placed' /\ FollowOK'
  <2>1. CASE SendInitial
    <3>1. conn'.at = "choose" /\ conn'.cursor = conn.cursor
      BY <1>1, <2>1 DEF SendInitial, SendSnapshot, Step, ConnOK
    <3>2. conn.cursor = lastId /\ lastId' = lastId
      BY <1>2, <2>1 DEF IInv, Placed, SendInitial, SendSnapshot, Step, Reset
    <3>3. QED BY <3>1, <3>2, ConnElsewhere
  <2>2. CASE SendLost
    BY <1>1, <2>2, ConnElsewhere DEF SendLost, SendSnapshot, Step, ConnOK
  <2>3. CASE SendGapSnapshot
    <3>1. conn.at = "gapSnapshot" /\ conn'.at = "gapHistory" /\ conn'.stream = conn.stream
          /\ conn'.next = conn.next
      BY <1>1, <2>3 DEF SendGapSnapshot, SendSnapshot, Step, ConnOK
    <3>2. conn.stream \in 1..Len(streams) /\ Settled(conn.stream, conn.next - 1)
      BY <3>1 DEF IInv, Placed, InStream
    <3>3. conn'.stream \in 1..Len(streams') /\ Settled(conn.stream, conn.next - 1)'
      BY <1>2, <3>1, <3>2 DEF Settled
    <3>4. ASSUME NEW i \in 1..Len(streams[conn.stream].log),
                 streams[conn.stream].log[i].kind = "whole"
          PROVE  streams[conn.stream].log[i].msg \in Known'
      <4>1. streams[conn.stream].log[i] \in Honest BY <3>2 DEF IInv, LogsOK
      <4>2. QED BY <1>4, <3>4, <4>1, EntryKinds DEF Honest
    <3>5. Passed(conn.stream, conn.next - 1)' BY <1>2, <3>1, <3>4 DEF Passed
    <3>6. QED BY <3>1, <3>3, <3>5 DEF Placed, FollowOK, InStream
  <2>4. QED BY <2>1, <2>2, <2>3
<1>10. QED BY <1>5, <1>6, <1>7, <1>8, <1>9

\* Nothing the browser knows is taken back by an entry, and what the entry
\* calls complete is known then.
LEMMA ReceiveKnown ==
    ASSUME ViewOK, NEW x \in Entries, NEW id, Receive(x, id),
           id \in seen /\ x.kind = "whole" => x.msg \in Known
    PROVE  /\ Known \subseteq Known'
           /\ \A k \in Known' : k \in Known \/ (x.kind = "whole" /\ k = x.msg)
           /\ x.kind = "whole" => x.msg \in Known'
           /\ outcome' = outcome \/ (x.kind = "told" /\ outcome' = x.result)
<1>1. snap' = snap BY DEF Receive
<1>2. CASE id \in seen
  BY <1>1, <1>2 DEF Receive, Known
<1>3. CASE id \notin seen /\ x.kind = "piece"
  BY <1>1, <1>3 DEF Receive, Known, Show, ShowPiece
<1>4. CASE id \notin seen /\ x.kind = "whole"
  <2>1. x.msg \in MessageIds /\ ShowWhole(x.msg) BY <1>4, EntryKinds DEF Receive, Show
  <2>2. QED BY <1>1, <1>4, <2>1 DEF ShowWhole, Known
<1>5. CASE id \notin seen /\ x.kind = "told"
  BY <1>1, <1>5 DEF Receive, Known, Show, ShowTold
<1>6. QED BY <1>2, <1>3, <1>4, <1>5, EntryKinds

\* One entry shown: its place is passed now.
LEMMA LoopEntryKeeps ==
    ASSUME IInv, LoopEntry
    PROVE  /\ OutcomeIsTrue' /\ KnownIsSaved' /\ Placed' /\ SeenOK' /\ FollowOK'
           /\ Known \subseteq Known'
<1>1. TypeOK /\ TypeOK' /\ BridgeOK /\ ViewOK /\ ConnOK /\ Next
  BY TypeStep DEF IInv, TypeOK, Next, Generator
<1>2. UNCHANGED <<streams, saved, status>> /\ conn.at = "loop" /\ ~conn.gap
  BY DEF LoopEntry, bridgeVars, dbVars
<1>3. PICK e, n, x, id :
         e = conn.stream /\ n = conn.next /\ x = Followed.log[conn.next] /\ id = <<e, n>>
  OBVIOUS
<1>4. e \in Nat /\ n \in Nat \ {0} /\ e \in 1..Len(streams) /\ Len(streams) \in Nat
  BY <1>1, <1>2, <1>3, StreamOK DEF ConnOK, TypeOK, PlaceOK
<1>5. Len(streams[e].log) \in Nat
  <2>1. streams[e] \in Streams BY <1>1, <1>4 DEF BridgeOK
  <2>2. QED BY <2>1 DEF Streams
<1>6. n \in 1..Len(streams[e].log) /\ x = streams[e].log[n]
  BY <1>3, <1>4, <1>5 DEF LoopEntry, Followed
<1>7. x \in Honest /\ x \in Entries BY <1>4, <1>6 DEF IInv, LogsOK, Honest
<1>8. Receive(x, id) BY <1>3 DEF LoopEntry, Cursor
<1>9. id \in seen /\ x.kind = "whole" => x.msg \in Known
  <2>1. id \in seen => Passed(e, n) BY <1>3 DEF IInv, SeenOK
  <2>2. n <= n BY <1>4
  <2>3. QED BY <1>4, <1>6, <2>1, <2>2 DEF Passed
<1>10. /\ Known \subseteq Known'
       /\ \A k \in Known' : k \in Known \/ (x.kind = "whole" /\ k = x.msg)
       /\ x.kind = "whole" => x.msg \in Known'
       /\ outcome' = outcome \/ (x.kind = "told" /\ outcome' = x.result)
  BY <1>1, <1>7, <1>8, <1>9, ReceiveKnown
<1>11. OutcomeIsTrue'
  <2>1. CASE outcome' = outcome BY <1>1, <2>1, OutcomeStays DEF IInv
  <2>2. CASE x.kind = "told" /\ outcome' = x.result
    BY <1>2, <1>7, <2>2 DEF Honest, OutcomeIsTrue
  <2>3. QED BY <1>10, <2>1, <2>2
<1>12. KnownIsSaved' BY <1>2, <1>7, <1>10 DEF KnownIsSaved, IInv, Honest
<1>13. Settled(e, n) /\ Settled(e, n)'
  BY <1>2, <1>4, <1>6 DEF Settled
<1>14. ASSUME NEW i \in 1..Len(streams[e].log), i <= n, streams[e].log[i].kind = "whole"
       PROVE  streams[e].log[i].msg \in Known'
  <2>1. CASE i = n BY <1>6, <1>10, <1>14, <2>1
  <2>2. CASE i # n
    <3>1. i <= n - 1 BY <1>4, <1>5, <1>14, <2>2
    <3>2. Passed(conn.stream, conn.next - 1) BY <1>2 DEF IInv, FollowOK
    <3>3. QED BY <1>3, <1>4, <1>10, <1>14, <3>1, <3>2 DEF Passed
  <2>3. QED BY <2>1, <2>2
<1>15. Passed(e, n)' BY <1>2, <1>14 DEF Passed
<1>16. SeenOK'
  <2>1. ASSUME NEW c \in seen
        PROVE  Settled(c[1], c[2])' /\ Passed(c[1], c[2])'
    <3>1. c[1] \in Nat /\ c[2] \in Nat BY <1>1 DEF ViewOK
    <3>2. Settled(c[1], c[2]) /\ Passed(c[1], c[2]) BY DEF IInv, SeenOK
    <3>3. Grows({}) BY <1>1, <1>2, StayGrows
    <3>4. QED BY <1>1, <1>10, <3>1, <3>2, <3>3, PassedStays
  <2>2. seen' = seen \cup {id} /\ lastId' = id BY <1>8 DEF Receive
  <2>3. id[1] = e /\ id[2] = n BY <1>3
  <2>4. QED BY <1>13, <1>15, <2>1, <2>2, <2>3 DEF SeenOK
<1>17. Placed' /\ FollowOK'
  <2>1. CASE conn' = Off BY <2>1, ConnElsewhere
  <2>2. CASE conn' = [conn EXCEPT !.next = @ + 1]
    <3>1. conn'.stream = e /\ conn'.next = n + 1 /\ conn'.at = "loop"
      BY <1>1, <1>2, <1>3, <2>2 DEF ConnOK
    <3>2. conn'.next - 1 = n BY <1>4, <3>1
    <3>3. Settled(conn.stream, conn.next - 1)' BY <1>13, <3>1, <3>2 DEF Settled
    <3>4. Passed(conn.stream, conn.next - 1)' BY <1>15, <3>1, <3>2 DEF Passed
    <3>5. QED BY <1>2, <1>4, <3>1, <3>3, <3>4 DEF Placed, FollowOK, InStream
  <2>3. QED BY <2>1, <2>2 DEF LoopEntry
<1>18. QED BY <1>10, <1>11, <1>12, <1>16, <1>17

\* The saved events leave the browser what it has.
LEMMA HistoryKeeps ==
    ASSUME IInv, SendHistory
    PROVE  /\ OutcomeIsTrue' /\ KnownIsSaved' /\ Placed' /\ SeenOK' /\ FollowOK'
           /\ Known' = Known
<1>1. TypeOK /\ ConnOK /\ Next BY DEF IInv, TypeOK, Next, Generator
<1>2. Known' = Known /\ UNCHANGED <<saved, streams, outcome, seen>>
      /\ lastId' \in {lastId, NoCursor, Foreign}
  BY DEF SendHistory, Known, dbVars, bridgeVars
<1>3. OutcomeIsTrue' /\ KnownIsSaved' /\ SeenOK'
  BY <1>1, <1>2, OutcomeStays, SeenStays DEF IInv, KnownIsSaved
<1>4. CASE Step("history", "finish")
  BY <1>1, <1>2, <1>3, <1>4, ConnElsewhere DEF Step, ConnOK
<1>5. CASE Step("gapHistory", "loop")
  <2>1. conn.at = "gapHistory" /\ conn'.at = "loop" /\ conn'.stream = conn.stream
        /\ conn'.next = conn.next /\ conn'.gap = conn.gap
    BY <1>1, <1>5 DEF Step, ConnOK
  <2>2. PICK e, n : e = conn.stream /\ n = conn.next - 1 OBVIOUS
  <2>3. e \in 1..Len(streams') /\ Settled(e, n)' /\ (~conn.gap => Passed(e, n)')
    BY <1>1, <1>2, <2>1, <2>2, PlaceStays DEF InStream
  <2>4. Settled(conn.stream, conn.next - 1)' /\ conn'.stream \in 1..Len(streams')
    BY <2>1, <2>2, <2>3 DEF Settled
  <2>5. ~conn.gap => Passed(conn.stream, conn.next - 1)'
    BY <2>1, <2>2, <2>3 DEF Passed
  <2>6. QED BY <1>2, <1>3, <2>1, <2>4, <2>5 DEF Placed, FollowOK, InStream
<1>6. QED BY <1>4, <1>5 DEF SendHistory

\* The last read of the status is the committed one.
LEMMA TerminalKeeps ==
    ASSUME IInv, SendTerminal
    PROVE  /\ OutcomeIsTrue' /\ KnownIsSaved' /\ Placed' /\ SeenOK' /\ FollowOK'
           /\ Known' = Known
<1>1. TypeOK /\ Next BY DEF IInv, Next, Generator
<1>2. Known' = Known /\ UNCHANGED <<saved, status, seen, lastId>> /\ conn' = Off
  BY DEF SendTerminal, Known, dbVars
<1>3. OutcomeIsTrue' BY <1>2 DEF SendTerminal, OutcomeIsTrue, Result, Unconfirmed
<1>4. KnownIsSaved' /\ SeenOK' BY <1>1, <1>2, SeenStays DEF IInv, KnownIsSaved
<1>5. QED BY <1>2, <1>3, <1>4, ConnElsewhere

\* The invariant holds at first.
LEMMA InvInit == Init => IInv
<1> SUFFICES ASSUME Init PROVE IInv OBVIOUS
<1>1. TypeOK /\ Messages \in Nat BY TypeInit, Positive
<1>2. LogsOK BY DEF Init, LogsOK
<1>3. TaskOK BY DEF Init, TaskOK
<1>4. OutcomeIsTrue BY DEF Init, OutcomeIsTrue, Nothing
<1>5. KnownIsSaved BY <1>1 DEF Init, KnownIsSaved, Known, MessageIds
<1>6. Placed /\ FollowOK BY DEF Init, Placed, FollowOK, InStream, Off
<1>7. SeenOK
  <2>1. lastId[1] = 0 /\ seen = {} /\ Len(streams) = 0 BY DEF Init, NoCursor
  <2>2. QED BY <2>1 DEF SeenOK, Settled, Passed
<1>8. QED BY <1>1, <1>2, <1>3, <1>4, <1>5, <1>6, <1>7 DEF IInv

\* A page loaded again knows nothing and follows nothing.
LEMMA ReloadKeeps ==
    ASSUME IInv, Reload
    PROVE  OutcomeIsTrue' /\ KnownIsSaved' /\ Placed' /\ SeenOK' /\ FollowOK'
<1>1. TypeOK /\ TypeOK' /\ Next /\ Messages \in Nat BY TypeStep, Positive DEF IInv, Next
<1>2. OutcomeIsTrue' BY <1>1, OutcomeStays DEF Reload, IInv
<1>3. Known' = {}
  <2>1. snap' = 0 /\ whole' = {} BY DEF Reload
  <2>2. QED BY <1>1, <2>1 DEF Known, MessageIds
<1>4. KnownIsSaved' BY <1>3 DEF KnownIsSaved
<1>5. Placed' /\ FollowOK' BY ConnElsewhere DEF Reload
<1>6. SeenOK'
  <2>1. lastId'[1] = 0 /\ seen' = {} BY DEF Reload, NoCursor
  <2>2. Len(streams') \in Nat BY <1>1 DEF TypeOK, BridgeOK
  <2>3. QED BY <2>1, <2>2 DEF SeenOK, Settled, Passed
<1>7. QED BY <1>2, <1>4, <1>5, <1>6

\* A step that leaves the browser alone, by what it does to the connection.
LEMMA QuietKeeps ==
    ASSUME IInv, Next, UNCHANGED viewVars
    PROVE  Placed' /\ FollowOK'
<1>1. ConnOK BY DEF IInv, TypeOK
<1>2. Known' = Known /\ lastId' = lastId BY DEF Known, viewVars
<1>3. CASE Subscribe BY <1>3, SubscribeKeeps
<1>4. CASE LoopGap BY <1>4, LoopGapKeeps
<1>5. CASE conn' = conn BY <1>2, <1>5, ConnStays
<1>6. CASE LoopEnd \/ Heartbeat \/ BeatReads
  <2>1. CASE LoopEnd \/ Heartbeat
    BY <1>2, <2>1, ConnStays DEF LoopEnd, Heartbeat, CaughtUp, Step
  <2>2. CASE BeatReads /\ ~conn.gap
    BY <1>2, <2>2, ConnStays DEF BeatReads, Step
  <2>3. CASE BeatReads /\ conn.gap
    <3>1. conn.at = "beat" /\ conn'.at \in {"loop", "finish"} /\ conn'.stream = conn.stream
          /\ conn'.next = conn.next /\ conn'.gap = conn.gap
      BY <1>1, <2>3 DEF BeatReads, Step, ConnOK
    <3>2. UNCHANGED streams BY <2>3 DEF BeatReads, bridgeVars
    <3>3. conn.stream \in 1..Len(streams) /\ Settled(conn.stream, conn.next - 1)
      BY <3>1 DEF IInv, Placed, InStream
    <3>4. conn'.stream \in 1..Len(streams') /\ Settled(conn.stream, conn.next - 1)'
      BY <3>1, <3>2, <3>3 DEF Settled
    <3>5. QED BY <2>3, <3>1, <3>4 DEF Placed, FollowOK, InStream
  <2>4. QED BY <1>6, <2>1, <2>2, <2>3
<1>7. CASE \/ conn' = Off \/ conn'.at \in {"refused", "lost", "history", "finish"}
           \/ conn'.at \in {"open", "initial", "choose"} /\ conn'.cursor = lastId'
  BY <1>7, ConnElsewhere
<1>8. CASE Connect
  <2>1. conn'.at = "refused" \/ (conn'.at = "open" /\ conn'.cursor = lastId)
    BY <1>8 DEF Connect, Off
  <2>2. QED BY <1>2, <1>7, <2>1
<1>9. CASE ReadStatus
  <2>1. conn'.at \in {"initial", "choose"} /\ conn'.cursor = conn.cursor /\ conn.at = "open"
    BY <1>1, <1>9 DEF ReadStatus, ConnOK
  <2>2. conn.cursor = lastId BY <2>1 DEF IInv, Placed
  <2>3. QED BY <1>2, <1>7, <2>1, <2>2
<1>10. CASE NoStream
  BY <1>1, <1>7, <1>10 DEF NoStream, ConnOK
<1>11. CASE Disconnect \/ Reload \/ SendTerminal \/ Crash \/ Exit
  <2>1. conn' = conn \/ conn' = Off
    BY <1>11 DEF Disconnect, Reload, SendTerminal, Crash, Exit, Gone
  <2>2. QED BY <1>5, <1>7, <2>1
<1>12. CASE SendInitial \/ SendLost \/ SendGapSnapshot
  BY <1>12, SnapshotKeeps
<1>13. CASE LoopEntry BY <1>13, LoopEntryKeeps
<1>14. CASE SendHistory BY <1>14, HistoryKeeps
<1>15. CASE Publisher \/ Fail \/ CancelLate \/ Cleanup \/ CloseBridge \/ Restart
  BY <1>5, <1>15
     DEF Publisher, PublishPiece, ReplyComplete, SaveMessage, PublishWhole, Finish, Announce, End,
         Fail, CancelLate, Cleanup, CloseBridge, Restart
<1>16. QED
  BY <1>3, <1>4, <1>6, <1>8, <1>9, <1>10, <1>11, <1>12, <1>13, <1>14, <1>15
     DEF Next, Generator

\* Every step keeps the invariant, and only a reload forgets messages.
LEMMA InvStep == IInv /\ [Next]_vars => IInv' /\ (Reload \/ Known \subseteq Known')
<1> SUFFICES ASSUME IInv, [Next]_vars
             PROVE  IInv' /\ (Reload \/ Known \subseteq Known')
  OBVIOUS
<1>1. CASE UNCHANGED vars
  BY <1>1 DEF vars, dbVars, bridgeVars, pubVars, viewVars, IInv, TypeOK, RowsOK, BridgeOK,
              PublisherOK, ConnOK, PlaceOK, ViewOK, FaultsOK, LogsOK, Honest, TaskOK,
              OutcomeIsTrue, KnownIsSaved, Known, Placed, InStream, SeenOK, FollowOK, Settled,
              Passed
<1>2. CASE Next
  <2>1. TypeOK' /\ TaskOK' /\ LogsOK' BY <1>2, TypeStep, RowsStep, LogsStep DEF IInv
  <2>2. OutcomeIsTrue' /\ KnownIsSaved' /\ Placed' /\ SeenOK' /\ FollowOK'
        /\ (Reload \/ Known \subseteq Known')
    <3>1. CASE UNCHANGED viewVars BY <1>2, <3>1, ViewStays, QuietKeeps
    <3>2. CASE Reload BY <3>2, ReloadKeeps
    <3>3. CASE SendInitial \/ SendLost \/ SendGapSnapshot BY <3>3, SnapshotKeeps
    <3>4. CASE LoopEntry BY <3>4, LoopEntryKeeps
    <3>5. CASE SendHistory BY <3>5, HistoryKeeps
    <3>6. CASE SendTerminal BY <3>6, TerminalKeeps
    <3>7. QED
      BY <1>2, <3>1, <3>2, <3>3, <3>4, <3>5, <3>6
         DEF Next, Generator, Publisher, PublishPiece, ReplyComplete, SaveMessage, PublishWhole,
             Finish, Announce, End, Fail, CancelLate, Cleanup, CloseBridge, Crash, Exit, Gone,
             Restart, Connect, Disconnect, ReadStatus, Subscribe, NoStream, LoopGap, LoopEnd,
             Heartbeat, BeatReads
  <2>3. QED BY <2>1, <2>2 DEF IInv
<1>3. QED BY <1>1, <1>2

\* The invariant holds throughout.
LEMMA Invariance == Spec => []IInv
<1>1. Init => IInv BY InvInit
<1>2. IInv /\ [Next]_vars => IInv' BY InvStep
<1>3. QED BY <1>1, <1>2, PTL DEF Spec

-----------------------------------------------------------------------------
(* The text of a message                                                   *)
(*                                                                         *)
(* A stream holds the pieces of a message in order, one after the other     *)
(* (InOrder), and what the browser shows of a message divides them: the     *)
(* pieces up to its place in the stream are those up to the last one shown  *)
(* (Divides).  So the piece that comes next is the next one.                *)

\* The last piece shown of message k.
Shown(k) == text[k][Len(text[k])]

\* Piece p of message k has been published.
Spoken(k, p) == k < msg \/ (k = msg /\ p < piece)

IsPiece(x, k) == x.kind = "piece" /\ x.msg = k

PiecesInOrder(log) ==
    \A i \in 1..Len(log) : \A k \in MessageIds :
        IsPiece(log[i], k) =>
            /\ \A j \in 1..Len(log) : j < i /\ IsPiece(log[j], k) => log[j].n < log[i].n
            /\ i > 1 /\ log[i].n > 1 => log[i - 1] = Piece(k, log[i].n - 1)
PiecesSpoken(log) ==
    \A i \in 1..Len(log) : \A k \in MessageIds :
        IsPiece(log[i], k) => k < msg \/ (k = msg /\ log[i].n < piece)
InOrder ==
    \A e \in 1..Len(streams) :
        PiecesInOrder(streams[e].log) /\ PiecesSpoken(streams[e].log)

\* The next piece follows the one before it in the stream, if that is there.
Continuing ==
    pub = "pieces" /\ piece > 1 /\ Len(Stream.log) > 0 =>
        Stream.log[Len(Stream.log)] = Piece(msg, piece - 1)

TextSaid == \A k \in MessageIds : text[k] # <<>> => Spoken(k, Shown(k))

KnownIsWhole == \A k \in Known : text[k] = <<>>

\* A browser without a Last-Event-ID has shown nothing.
Blank == lastId = NoCursor => text = Cleared /\ seen = {}

\* Place n divides the pieces of stream e into those shown and those to come.
Divides(e, n) ==
    /\ \A c \in seen : c[1] = e => c[2] <= n
    /\ n = 0 => text = Cleared
    /\ e \in 1..Len(streams) =>
           \A i \in 1..Len(streams[e].log) : \A k \in MessageIds :
               text[k] # <<>> /\ IsPiece(streams[e].log[i], k) =>
                   (i <= n <=> streams[e].log[i].n <= Shown(k))

LastDivides == lastId[1] # 0 => Divides(lastId[1], lastId[2])
PlaceDivides ==
    conn.at \in {"loop", "beat", "gapHistory"} /\ ~conn.gap => Divides(conn.stream, conn.next - 1)

TextInv ==
    /\ InOrder /\ Continuing /\ TextSaid /\ KnownIsWhole /\ Blank /\ LastDivides
    /\ PlaceDivides /\ TextIsContiguous

\* What a step does to the log of a stream: nothing, or the stream died or is
\* new, or the entry x was published to it.
NothingToRead(log) == \A i \in 1..Len(log) : log[i].kind # "piece"
Published(e, x) == e = Epoch /\ ~Stream.ended /\ streams'[e].log = Append(Stream.log, x)

\* Publishing touches the registered stream only.
LEMMA PublishLogs ==
    ASSUME BridgeOK, NEW x \in Entries, Publish(x), NEW e \in 1..Len(streams')
    PROVE  \/ e \in 1..Len(streams) /\ streams'[e].log = streams[e].log
           \/ Published(e, x)
<1>1. PICK s \in Streams :
        s.first <= Len(s.log) + 1 /\ s.log = Append(Stream.log, x) /\ ~Stream.ended /\ Keep(s)
  BY PublishOK
<1>2. streams'[e] = IF e = Epoch THEN s ELSE streams[e] BY <1>1, KeepOK
<1>3. CASE e = Epoch BY <1>1, <1>2, <1>3 DEF Published
<1>4. CASE e # Epoch
  <2>1. e \in 1..Len(streams) BY <1>1, <1>4, KeepOK, StreamOK
  <2>2. QED BY <1>2, <1>4, <2>1
<1>5. QED BY <1>3, <1>4

\* Putting the registered stream back with the log it had, or a new one.
LEMMA KeepLogs ==
    ASSUME BridgeOK, NEW s \in Streams, s.first <= Len(s.log) + 1, s.log = Stream.log, Keep(s),
           NEW e \in 1..Len(streams')
    PROVE  \/ e \in 1..Len(streams) /\ streams'[e].log = streams[e].log
           \/ NothingToRead(streams'[e].log)
<1>1. streams'[e] = IF e = Epoch THEN s ELSE streams[e] BY KeepOK
<1>2. CASE e \in 1..Len(streams) BY <1>1, <1>2, StreamOK
<1>3. CASE e \notin 1..Len(streams)
  <2>1. e = Epoch /\ Epoch > Len(streams) BY <1>3, KeepOK, StreamOK
  <2>2. streams'[e].log = <<>> BY <1>1, <2>1, StreamOK DEF NewStream
  <2>3. QED BY <2>2 DEF NothingToRead
<1>4. QED BY <1>2, <1>3

\* Every step, stream by stream.
LEMMA LogSteps ==
    ASSUME TypeOK, Next, NEW e \in 1..Len(streams')
    PROVE  \/ e \in 1..Len(streams) /\ streams'[e].log = streams[e].log
           \/ NothingToRead(streams'[e].log)
           \/ PublishPiece /\ Piece(msg, piece) \in Entries /\ Published(e, Piece(msg, piece))
           \/ \E x \in Entries : x.kind # "piece" /\ Published(e, x)
<1>1. BridgeOK /\ PublisherOK /\ BridgeOK' /\ Len(streams) \in Nat
  BY TypeStep DEF TypeOK, BridgeOK
<1>2. CASE PublishPiece
  <2>1. Piece(msg, piece) \in Entries
    BY <1>1, <1>2, ResultsOK, Positive DEF PublishPiece, PublisherOK
  <2>2. QED BY <1>1, <1>2, <2>1, PublishLogs DEF PublishPiece
<1>3. CASE PublishWhole
  <2>1. Whole(msg) \in Entries /\ Whole(msg).kind # "piece"
    BY <1>1, ResultsOK DEF PublisherOK, Whole
  <2>2. QED BY <1>1, <1>3, <2>1, PublishLogs DEF PublishWhole
<1>4. CASE Announce /\ ~Stream.ended
  <2>1. Told(news) \in Entries /\ Told(news).kind # "piece"
    BY <1>1, <1>4, ResultsOK DEF PublisherOK, Announce, Told
  <2>2. QED BY <1>1, <1>4, <2>1, PublishLogs DEF Announce
<1>5. CASE End
  <2>1. Stream \in Streams /\ Stream.first <= Len(Stream.log) + 1 BY <1>1, StreamOK
  <2>2. PICK s \in Streams : s = [Stream EXCEPT !.ended = TRUE] BY <2>1 DEF Streams
  <2>3. s.log = Stream.log /\ s.first = Stream.first BY <2>1, <2>2 DEF Streams
  <2>4. Keep(s) BY <1>5, <2>2 DEF End, EndStream
  <2>5. QED BY <1>1, <2>1, <2>3, <2>4, KeepLogs
<1>6. CASE Subscribe
  <2>1. Stream \in Streams /\ Stream.first <= Len(Stream.log) + 1 BY <1>1, StreamOK
  <2>2. PICK s \in Streams : s = Stream BY <2>1
  <2>3. Keep(s) BY <1>6, <2>2 DEF Subscribe
  <2>4. QED BY <1>1, <2>1, <2>2, <2>3, KeepLogs
<1>7. CASE CloseBridge
  <2>1. streams' = [d \in 1..Len(streams) |->
                       [streams[d] EXCEPT !.ended = @ \/ d = current]]
    BY <1>1, <1>7 DEF CloseBridge, BridgeOK
  <2>2. e \in 1..Len(streams)
    <3>1. DOMAIN streams' = 1..Len(streams) /\ DOMAIN streams' = 1..Len(streams')
      BY <1>1, <2>1 DEF BridgeOK
    <3>2. QED BY <3>1
  <2>3. streams[e] \in Streams BY <1>1, <2>2 DEF BridgeOK
  <2>4. streams'[e] = [streams[e] EXCEPT !.ended = (streams[e].ended \/ e = current)]
    BY <2>1, <2>2
  <2>5. streams'[e].log = streams[e].log BY <2>3, <2>4 DEF Streams
  <2>6. QED BY <2>2, <2>5
<1>8. CASE Crash \/ Exit
  <2>1. streams'[e] = Dead BY <1>1, <1>8 DEF Crash, Exit, Gone, BridgeOK
  <2>2. QED BY <2>1 DEF Dead, NothingToRead
<1>9. CASE Restart /\ ~UNCHANGED streams
  <2> DEFINE x == Told(Result("error", FALSE))
             s == [log |-> <<x>>, first |-> 1, ended |-> TRUE]
  <2>1. x \in Entries /\ x.kind # "piece" BY ResultsOK DEF Terminal, Told
  <2>2. s \in Streams /\ s.log = <<x>> BY <2>1, OneEntry
  <2>4. streams' = Append(streams, s) BY <1>9 DEF Restart, bridgeVars
  <2> HIDE DEF x, s
  <2>3. NothingToRead(<<x>>)
    <3>1. \A i \in 1..Len(<<x>>) : <<x>>[i] = x OBVIOUS
    <3>2. QED BY <2>1, <3>1 DEF NothingToRead
  <2>5. streams'[e] = IF e = Len(streams) + 1 THEN s ELSE streams[e]
    BY <1>1, <2>2, <2>4 DEF BridgeOK
  <2>6. e \in 1..Len(streams) \/ e = Len(streams) + 1 BY <1>1, <2>2, <2>4 DEF BridgeOK
  <2>7. CASE e = Len(streams) + 1 BY <2>2, <2>3, <2>5, <2>7
  <2>8. CASE e \in 1..Len(streams) BY <1>1, <2>5, <2>8
  <2>9. QED BY <2>6, <2>7, <2>8
<1>10. CASE UNCHANGED streams BY <1>10
<1>11. QED
  BY <1>2, <1>3, <1>4, <1>5, <1>6, <1>7, <1>8, <1>9, <1>10
     DEF Next, Publisher, ReplyComplete, SaveMessage, Finish, Announce, Fail, CancelLate, Cleanup,
         Connect, Disconnect, Reload, Generator, ReadStatus, SendInitial, NoStream, SendLost,
         LoopGap, LoopEntry, LoopEnd, Heartbeat, BeatReads, SendGapSnapshot, SendHistory,
         SendTerminal, SendSnapshot, bridgeVars

\* What has been published stays so; a piece is published once.
LEMMA SpokenStays ==
    ASSUME TypeOK, Next
    PROVE  /\ \A k \in MessageIds, p \in 1..Pieces : Spoken(k, p) => Spoken(k, p)'
           /\ PublishPiece =>
                  \A k, p : k = msg /\ p = piece => Spoken(k, p)' /\ ~Spoken(k, p)
<1>1. msg \in Nat /\ piece \in Nat /\ MessageIds \subseteq Nat /\ 1..Pieces \subseteq Nat
  BY Positive DEF TypeOK, PublisherOK, MessageIds
<1>2. CASE PublishPiece
  <2>1. msg' = msg /\ piece' = piece + 1 BY <1>2 DEF PublishPiece
  <2>2. \A k, p : k = msg /\ p = piece => Spoken(k, p)' /\ ~Spoken(k, p)
    <3>1. ASSUME NEW k, NEW p, k = msg, p = piece
          PROVE  Spoken(k, p)' /\ ~Spoken(k, p)
      BY <1>1, <2>1, <3>1 DEF Spoken
    <3>2. QED BY <3>1
  <2>3. \A k \in MessageIds, p \in 1..Pieces : Spoken(k, p) => Spoken(k, p)'
    BY <1>1, <2>1 DEF Spoken
  <2>4. QED BY <2>2, <2>3
<1>3. CASE PublishWhole
  <2>1. (msg' = msg + 1 /\ piece' = 1) \/ (msg' = msg /\ piece' = piece)
    BY <1>3 DEF PublishWhole
  <2>2. ~PublishPiece BY <1>3 DEF PublishPiece, PublishWhole
  <2>3. QED BY <1>1, <2>1, <2>2 DEF Spoken
<1>4. CASE ~PublishPiece /\ ~PublishWhole
  <2>1. msg' = msg /\ piece' = piece
    BY <1>4 DEF Next, Publisher, ReplyComplete, SaveMessage, Finish, Announce, End, Fail,
         CancelLate, Cleanup, CloseBridge, Crash, Exit, Gone, Restart, Connect, Disconnect, Reload,
         Generator, ReadStatus, SendInitial, Subscribe, NoStream, SendLost, LoopGap, LoopEntry,
         LoopEnd, Heartbeat, BeatReads, SendGapSnapshot, SendHistory, SendTerminal, SendSnapshot,
         pubVars
  <2>2. QED BY <1>4, <2>1 DEF Spoken
<1>5. QED BY <1>2, <1>3, <1>4

\* What has been published stays published.
LEMMA SpokenLogs ==
    ASSUME TypeOK, Next, NEW log \in Seq(Entries), PiecesSpoken(log)
    PROVE  PiecesSpoken(log)'
<1> SUFFICES ASSUME NEW i \in 1..Len(log), NEW k \in MessageIds, IsPiece(log[i], k)
             PROVE  (k < msg \/ (k = msg /\ log[i].n < piece))'
  BY DEF PiecesSpoken
<1>1. log[i] \in Entries /\ log[i].kind = "piece" BY DEF IsPiece
<1>2. PICK p \in 1..Pieces : p = log[i].n BY <1>1, EntryKinds
<1>3. Spoken(k, p) BY <1>2 DEF PiecesSpoken, Spoken
<1>4. Spoken(k, p)' BY <1>3, SpokenStays
<1>5. QED BY <1>2, <1>4 DEF Spoken

\* One entry more: a piece is the one after the last.
LEMMA OrderGrows ==
    ASSUME NEW old \in Seq(Entries), NEW x \in Entries, PiecesInOrder(old), PiecesSpoken(old),
           x.kind = "piece" => /\ msg \in Nat /\ x = Piece(msg, piece)
                               /\ Len(old) > 0 /\ piece > 1 => old[Len(old)] = Piece(msg, piece - 1)
    PROVE  PiecesInOrder(Append(old, x))
<1>1. PICK log : log = Append(old, x) OBVIOUS
<1>2. /\ Len(log) = Len(old) + 1 /\ log[Len(old) + 1] = x /\ Len(old) \in Nat
      /\ \A i \in 1..Len(old) : log[i] = old[i]
  BY <1>1
<1>3. ASSUME NEW i \in 1..Len(log), NEW k \in MessageIds, IsPiece(log[i], k)
      PROVE  /\ \A j \in 1..Len(log) : j < i /\ IsPiece(log[j], k) => log[j].n < log[i].n
             /\ i > 1 /\ log[i].n > 1 => log[i - 1] = Piece(k, log[i].n - 1)
  <2>1. CASE i \in 1..Len(old)
    <3>1. /\ \A j \in 1..Len(old) : j < i /\ IsPiece(old[j], k) => old[j].n < old[i].n
          /\ i > 1 /\ old[i].n > 1 => old[i - 1] = Piece(k, old[i].n - 1)
      BY <1>2, <1>3, <2>1 DEF PiecesInOrder
    <3>2. \A j \in 1..Len(log) : j < i => j \in 1..Len(old) /\ log[j] = old[j]
      BY <1>2, <2>1
    <3>3. i > 1 => i - 1 \in 1..Len(old) /\ log[i - 1] = old[i - 1] BY <1>2, <2>1
    <3>4. log[i] = old[i] BY <1>2, <2>1
    <3>5. QED BY <3>1, <3>2, <3>3, <3>4
  <2>2. CASE i = Len(old) + 1
    <3>1. log[i] = x /\ x.n = piece /\ k = msg /\ msg \in Nat
          /\ (Len(old) > 0 /\ piece > 1 => old[Len(old)] = Piece(k, piece - 1))
      BY <1>2, <1>3, <2>2 DEF IsPiece, Piece
    <3>2. \A j \in 1..Len(log) : j < i /\ IsPiece(log[j], k) => log[j].n < piece
      <4>1. ASSUME NEW j \in 1..Len(old), IsPiece(old[j], k) PROVE old[j].n < piece
        <5>1. k < msg \/ (k = msg /\ old[j].n < piece) BY <4>1 DEF PiecesSpoken
        <5>2. ~(k < msg) BY <3>1
        <5>3. QED BY <5>1, <5>2
      <4>2. \A j \in 1..Len(log) : j < i => j \in 1..Len(old) /\ log[j] = old[j]
        BY <1>2, <2>2
      <4>3. QED BY <4>1, <4>2
    <3>3. i > 1 => Len(old) > 0 /\ log[i - 1] = old[Len(old)] BY <1>2, <2>2
    <3>4. QED BY <3>1, <3>2, <3>3
  <2>3. QED BY <1>2, <2>1, <2>2
<1>4. QED BY <1>1, <1>3 DEF PiecesInOrder

\* The logs stay in order.
LEMMA OrderStep ==
    ASSUME TypeOK, Next, InOrder, Continuing
    PROVE  InOrder'
<1>1. BridgeOK /\ PublisherOK /\ BridgeOK' /\ Len(streams) \in Nat
  BY TypeStep DEF TypeOK, BridgeOK
<1>2. ASSUME NEW e \in 1..Len(streams'), NEW log, log = streams'[e].log
      PROVE  PiecesInOrder(log) /\ PiecesSpoken(log)'
  <2>1. log \in Seq(Entries) /\ Len(log) \in Nat
    <3>1. streams'[e] \in Streams BY <1>1 DEF BridgeOK
    <3>2. QED BY <1>2, <3>1 DEF Streams
  <2>2. CASE e \in 1..Len(streams) /\ streams'[e].log = streams[e].log
    <3>1. log = streams[e].log /\ PiecesInOrder(log) /\ PiecesSpoken(log)
      BY <1>2, <2>2 DEF InOrder
    <3>2. QED BY <2>1, <3>1, SpokenLogs
  <2>3. CASE NothingToRead(log)
    BY <2>3 DEF NothingToRead, PiecesInOrder, PiecesSpoken, IsPiece
  <2>4. ASSUME NEW x \in Entries, Published(e, x),
               x.kind = "piece" => PublishPiece /\ x = Piece(msg, piece)
        PROVE  PiecesInOrder(log) /\ PiecesSpoken(log)'
    <3>1. PICK old : old = Stream.log OBVIOUS
    <3>2. old \in Seq(Entries) /\ Len(old) \in Nat BY <1>1, <3>1, StreamOK DEF Streams
    <3>3. log = Append(old, x) BY <1>2, <2>4, <3>1 DEF Published
    <3>4. PiecesInOrder(old) /\ PiecesSpoken(old)
      <4>1. CASE Epoch \in 1..Len(streams)
        BY <1>1, <3>1, <4>1, StreamOK DEF InOrder
      <4>2. CASE Epoch \notin 1..Len(streams)
        <5>1. old = <<>> BY <1>1, <3>1, <4>2, StreamOK DEF NewStream
        <5>2. QED BY <5>1 DEF PiecesInOrder, PiecesSpoken
      <4>3. QED BY <4>1, <4>2
    <3>5. msg \in Nat BY <1>1 DEF PublisherOK, MessageIds
    <3>6. PublishPiece /\ Len(old) > 0 /\ piece > 1 => old[Len(old)] = Piece(msg, piece - 1)
      BY <3>1 DEF Continuing, PublishPiece
    <3>7. PiecesInOrder(log) BY <2>4, <3>2, <3>3, <3>4, <3>5, <3>6, OrderGrows
    <3>8. PiecesSpoken(old)' BY <3>2, <3>4, SpokenLogs
    <3>9. ASSUME NEW i \in 1..Len(log), NEW k \in MessageIds, IsPiece(log[i], k)
          PROVE  (k < msg \/ (k = msg /\ log[i].n < piece))'
      <4>1. CASE i \in 1..Len(old)
        <5>1. log[i] = old[i] BY <3>2, <3>3, <4>1
        <5>2. QED BY <3>8, <3>9, <4>1, <5>1 DEF PiecesSpoken
      <4>2. CASE i = Len(old) + 1
        <5>1. log[i] = x BY <3>2, <3>3, <4>2
        <5>2. PublishPiece /\ k = msg /\ x.n = piece
          BY <2>4, <3>9, <5>1 DEF IsPiece, Piece
        <5>3. PICK p : p = piece OBVIOUS
        <5>4. Spoken(k, p)' BY <5>2, <5>3, SpokenStays
        <5>5. log[i].n = p BY <5>1, <5>2, <5>3
        <5>6. QED BY <5>4, <5>5 DEF Spoken
      <4>3. QED BY <3>2, <3>3, <4>1, <4>2
    <3>10. QED BY <3>7, <3>9 DEF PiecesSpoken
  <2>5. Piece(msg, piece) \in Entries /\ PublishPiece /\ Published(e, Piece(msg, piece)) =>
            PiecesInOrder(log) /\ PiecesSpoken(log)'
    BY <2>4
  <2>6. (\E x \in Entries : x.kind # "piece" /\ Published(e, x)) =>
            PiecesInOrder(log) /\ PiecesSpoken(log)'
    BY <2>4
  <2>7. QED BY <1>2, <2>2, <2>3, <2>5, <2>6, LogSteps
<1>3. QED BY <1>2 DEF InOrder, PiecesSpoken

\* The task goes on where the stream ends.
LEMMA ContinuingStep ==
    ASSUME TypeOK, Next, Continuing
    PROVE  Continuing'
<1>1. BridgeOK /\ PublisherOK /\ BridgeOK' BY TypeStep DEF TypeOK
<1>2. CASE PublishPiece
  <2>1. Piece(msg, piece) \in Entries
    BY <1>1, <1>2, ResultsOK, Positive DEF PublishPiece, PublisherOK
  <2>2. PICK s \in Streams :
          /\ s.first <= Len(s.log) + 1
          /\ s.log = Append(Stream.log, Piece(msg, piece)) /\ Keep(s)
    BY <1>1, <1>2, <2>1, PublishOK DEF PublishPiece
  <2>3. Stream' = s
    <3>1. current' = Epoch /\ current' \in 1..Len(streams') /\ streams'[Epoch] = s
      BY <1>1, <2>2, KeepOK DEF Keep
    <3>2. current' # 0 BY <3>1
    <3>3. QED BY <3>1, <3>2 DEF Stream
  <2>4. Stream.log \in Seq(Entries) BY <1>1, StreamOK DEF Streams
  <2>5. s.log[Len(s.log)] = Piece(msg, piece) BY <2>2, <2>4
  <2>6. msg' = msg /\ piece' = piece + 1 /\ piece' - 1 = piece
    BY <1>1, <1>2, Positive DEF PublishPiece, PublisherOK
  <2>7. QED BY <2>3, <2>5, <2>6 DEF Continuing
<1>3. CASE Subscribe
  <2>1. streams'[Epoch] = Stream /\ current' = Epoch /\ current' \in 1..Len(streams')
    BY <1>1, <1>3, SubscribeOK DEF Subscribe, Keep
  <2>2. Stream' = Stream
    <3>1. current' # 0 BY <2>1
    <3>2. QED BY <2>1, <3>1 DEF Stream
  <2>3. QED BY <1>3, <2>2 DEF Subscribe, Continuing, pubVars
<1>4. CASE Cleanup
  <2>1. CASE current' = 0
    <3>1. Len(Stream'.log) = 0 BY <2>1 DEF Stream, NewStream
    <3>2. QED BY <3>1 DEF Continuing
  <2>2. CASE current' # 0
    <3>1. current' = current /\ streams' = streams BY <1>4, <2>2 DEF Cleanup
    <3>2. QED BY <1>4, <3>1 DEF Continuing, Stream, Cleanup, pubVars
  <2>3. QED BY <2>1, <2>2
<1>5. CASE PublishWhole
  <2>1. pub' = "finish" \/ piece' = 1 BY <1>5 DEF PublishWhole
  <2>2. ~(1 > 1) OBVIOUS
  <2>3. QED BY <2>1, <2>2 DEF Continuing
<1>6. CASE ReplyComplete \/ SaveMessage \/ Finish \/ Announce \/ End \/ Fail \/ CancelLate
           \/ CloseBridge \/ Crash \/ Exit \/ Restart
  <2>1. pub' # "pieces"
    BY <1>6 DEF ReplyComplete, SaveMessage, Finish, Announce, End, Fail, CancelLate, CloseBridge,
         Crash, Exit, Gone, Restart, pubVars
  <2>2. QED BY <2>1 DEF Continuing
<1>7. CASE UNCHANGED <<bridgeVars, pubVars>>
  BY <1>7 DEF bridgeVars, pubVars, Continuing, Stream
<1>8. QED
  BY <1>2, <1>3, <1>4, <1>5, <1>6, <1>7
     DEF Next, Publisher, Connect, Disconnect, Reload, Generator, ReadStatus, SendInitial, NoStream,
         SendLost, LoopGap, LoopEntry, LoopEnd, Heartbeat, BeatReads, SendGapSnapshot, SendHistory,
         SendTerminal, SendSnapshot

-----------------------------------------------------------------------------
(* What the browser shows of it                                            *)

BrowserText == TextSaid /\ KnownIsWhole /\ Blank /\ LastDivides /\ PlaceDivides /\ TextIsContiguous

\* The last piece shown is a piece.
LEMMA ShownIsPiece ==
    ASSUME TypeOK, NEW k \in MessageIds, text[k] # <<>>
    PROVE  /\ Shown(k) \in 1..Pieces /\ Shown(k) \in Nat
           /\ Len(text[k]) \in Nat /\ Len(text[k]) > 0 /\ text[k] \in Seq(1..Pieces)
<1>1. text[k] \in Seq(1..Pieces) BY DEF TypeOK, ViewOK
<1>2. PICK t : t = text[k] OBVIOUS
<1>3. t \in Seq(1..Pieces) /\ t # <<>> BY <1>1, <1>2
<1>4. Len(t) \in Nat /\ Len(t) > 0 BY <1>3
<1>5. t[Len(t)] \in 1..Pieces
  <2>1. Len(t) \in 1..Len(t) BY <1>4
  <2>2. PICK S : S = 1..Pieces OBVIOUS
  <2>3. t \in Seq(S) BY <1>3, <2>2
  <2>4. \A i \in 1..Len(t) : t[i] \in S BY <2>3
  <2>5. QED BY <2>1, <2>2, <2>4
<1>6. QED BY <1>1, <1>2, <1>4, <1>5, Positive DEF Shown

\* A place that divides the pieces still does when nothing more is shown.
LEMMA DividesStays ==
    ASSUME TypeOK, Next, TextSaid, text' = text, seen' = seen,
           NEW e \in Nat, NEW n \in Nat, Settled(e, n), Divides(e, n)
    PROVE  Divides(e, n)'
<1>1. BridgeOK /\ BridgeOK' /\ PublisherOK /\ Len(streams) \in Nat
  BY TypeStep DEF TypeOK, BridgeOK
<1>2. (n = 0 => text' = Cleared) /\ \A c \in seen' : c[1] = e => c[2] <= n BY DEF Divides
<1>3. ASSUME e \in 1..Len(streams'), NEW i \in 1..Len(streams'[e].log), NEW k \in MessageIds,
             text[k] # <<>>, IsPiece(streams'[e].log[i], k)
      PROVE  i <= n <=> streams'[e].log[i].n <= Shown(k)
  <2>1. PICK log : log = streams'[e].log OBVIOUS
  <2>2. PICK l \in Nat : l = Shown(k) BY <1>3, ShownIsPiece
  <2>3. CASE e \in 1..Len(streams) /\ streams'[e].log = streams[e].log
    BY <1>3, <2>3 DEF Divides
  <2>4. ASSUME NothingToRead(streams'[e].log) PROVE FALSE
    BY <1>3, <2>4 DEF NothingToRead, IsPiece
  <2>5. ASSUME NEW x \in Entries, Published(e, x),
               x.kind = "piece" => PublishPiece /\ x = Piece(msg, piece)
        PROVE  i <= n <=> log[i].n <= Shown(k)
    <3>1. PICK old : old = Stream.log OBVIOUS
    <3>2. old \in Seq(Entries) /\ Len(old) \in Nat BY <1>1, <3>1, StreamOK DEF Streams
    <3>3. log = Append(old, x) BY <2>1, <2>5, <3>1 DEF Published
    <3>4. e \in 1..Len(streams) /\ old = streams[e].log /\ ~streams[e].ended
      <4>1. e <= Len(streams) BY DEF Settled
      <4>2. e \in 1..Len(streams) BY <1>1, <1>3, <4>1
      <4>3. QED BY <1>1, <2>5, <3>1, <4>2, StreamOK DEF Published
    <3>5. n <= Len(old) BY <3>4 DEF Settled
    <3>6. CASE i \in 1..Len(old)
      <4>1. log[i] = old[i] BY <3>2, <3>3, <3>6
      <4>2. QED BY <1>3, <2>1, <3>4, <3>6, <4>1 DEF Divides
    <3>7. CASE i = Len(old) + 1
      <4>1. log[i] = x BY <3>2, <3>3, <3>7
      <4>2. x.n = piece /\ k = msg BY <1>3, <2>1, <2>5, <4>1 DEF IsPiece, Piece
      <4>3. l < piece
        <5>1. Spoken(k, l) BY <1>3, <2>2 DEF TextSaid
        <5>2. k \in Nat BY <1>1, <4>2 DEF PublisherOK, MessageIds
        <5>3. QED BY <4>2, <5>1, <5>2 DEF Spoken
      <4>4. ~(i <= n) BY <3>2, <3>5, <3>7
      <4>5. piece \in Nat BY <1>1, Positive DEF PublisherOK
      <4>6. ~(piece <= l) BY <4>3, <4>5, <2>2
      <4>7. QED BY <2>2, <4>1, <4>2, <4>4, <4>6
    <3>8. i \in 1..(Len(old) + 1) BY <1>3, <2>1, <3>2, <3>3
    <3>9. QED BY <3>2, <3>6, <3>7, <3>8
  <2>6. PublishPiece /\ Piece(msg, piece) \in Entries /\ Published(e, Piece(msg, piece)) =>
            (i <= n <=> log[i].n <= Shown(k))
    BY <2>5
  <2>7. (\E x \in Entries : x.kind # "piece" /\ Published(e, x)) =>
            (i <= n <=> log[i].n <= Shown(k))
    BY <2>5
  <2>8. QED BY <1>3, <2>1, <2>3, <2>4, <2>6, <2>7, LogSteps
<1>4. QED BY <1>2, <1>3 DEF Divides, Shown

\* Where the browser shows no text and has seen nothing, every place divides.
LEMMA NothingShown ==
    ASSUME text = Cleared, seen = {}, NEW e, NEW n
    PROVE  Divides(e, n)
BY DEF Divides, Cleared

\* What a reset leaves of the text.
LEMMA ClearedText ==
    ASSUME TypeOK', text' = Cleared, seen' = {}
    PROVE  BrowserText'
<1>1. LastDivides' BY DEF LastDivides, Divides, Cleared
<1>2. PlaceDivides' BY DEF PlaceDivides, Divides, Cleared
<1>3. TextSaid' /\ TextIsContiguous' BY DEF TextSaid, TextIsContiguous, Cleared
<1>4. KnownIsWhole'
  <2>1. Known' \subseteq MessageIds BY DEF TypeOK, ViewOK, Known
  <2>2. QED BY <2>1 DEF KnownIsWhole, Cleared
<1>5. Blank' BY DEF Blank
<1>6. QED BY <1>1, <1>2, <1>3, <1>4, <1>5 DEF BrowserText

\* The parts of it that speak of the text alone.
LEMMA TextAlone ==
    ASSUME TypeOK, Next, BrowserText, text' = text, Known' = Known
    PROVE  TextSaid' /\ KnownIsWhole' /\ TextIsContiguous'
<1>1. KnownIsWhole' /\ TextIsContiguous' BY DEF BrowserText, KnownIsWhole, TextIsContiguous
<1>2. ASSUME NEW k \in MessageIds, text[k] # <<>>, NEW l, l = Shown(k) PROVE Spoken(k, l)'
  <2>1. l \in 1..Pieces BY <1>2, ShownIsPiece
  <2>2. Spoken(k, l) BY <1>2 DEF BrowserText, TextSaid
  <2>3. QED BY <2>1, <2>2, SpokenStays
<1>3. TextSaid' BY <1>2 DEF TextSaid, Shown, Spoken
<1>4. QED BY <1>1, <1>3

\* The place Last-Event-ID gives.
LEMMA LastStays ==
    ASSUME IInv, Next, BrowserText, text' = text, seen' = seen, lastId' \in {lastId, Foreign}
    PROVE  Blank' /\ LastDivides'
<1>1. Blank' BY DEF BrowserText, Blank, NoCursor, Foreign
<1>2. CASE lastId' = Foreign BY <1>1, <1>2 DEF LastDivides, Foreign
<1>3. CASE lastId' = lastId /\ lastId[1] # 0
  <2>1. PICK e, n : e = lastId[1] /\ n = lastId[2] OBVIOUS
  <2>2. e \in Nat /\ n \in Nat BY <2>1 DEF IInv, TypeOK, ViewOK
  <2>3. Settled(e, n) /\ Divides(e, n)
    BY <1>3, <2>1 DEF IInv, SeenOK, BrowserText, LastDivides
  <2>4. Divides(e, n)' BY <2>2, <2>3, DividesStays DEF IInv, BrowserText
  <2>5. lastId'[1] = e /\ lastId'[2] = n BY <1>3, <2>1
  <2>6. QED BY <1>1, <2>4, <2>5 DEF LastDivides, Divides
<1>4. CASE lastId' = lastId /\ lastId[1] = 0 BY <1>1, <1>4 DEF LastDivides
<1>5. QED BY <1>1, <1>2, <1>3, <1>4

\* The place of the handler while it stays in its stream.
LEMMA DivisionStays ==
    ASSUME IInv, Next, BrowserText, text' = text, seen' = seen,
           \/ conn'.at \notin {"loop", "beat", "gapHistory"}
           \/ /\ conn.at \in {"loop", "beat", "gapHistory"}
              /\ conn'.stream = conn.stream /\ conn'.next = conn.next /\ conn'.gap = conn.gap
    PROVE  PlaceDivides'
<1> SUFFICES ASSUME conn'.at \in {"loop", "beat", "gapHistory"}, ~conn'.gap
             PROVE  Divides(conn.stream, conn.next - 1)'
  BY DEF PlaceDivides
<1>1. PICK e, n : e = conn.stream /\ n = conn.next - 1 OBVIOUS
<1>2. InStream /\ ~conn.gap BY DEF InStream
<1>3. e \in Nat /\ n \in Nat /\ Settled(e, n) /\ Divides(e, n)
  BY <1>1, <1>2 DEF IInv, TypeOK, ConnOK, Placed, BrowserText, PlaceDivides
<1>4. Divides(e, n)' BY <1>3, DividesStays DEF IInv, BrowserText
<1>5. e = conn'.stream /\ n = conn'.next - 1 BY <1>1
<1>6. QED BY <1>4, <1>5 DEF Divides

\* Subscribing goes on at Last-Event-ID, or tells of a gap, or begins.
LEMMA SubscribeDivides ==
    ASSUME IInv, BrowserText, Subscribe
    PROVE  PlaceDivides'
<1> DEFINE start == Resolve(Epoch, Stream, conn.cursor)
<1>1. TypeOK /\ TypeOK' /\ BridgeOK /\ ConnOK /\ Next
  BY TypeStep DEF IInv, TypeOK, Next, Generator
<1>2. /\ Stream \in Streams /\ Epoch \in Nat /\ Epoch # 0
      /\ Len(Stream.log) \in Nat /\ Stream.first \in Nat \ {0}
  BY <1>1, StreamOK DEF Streams
<1>3. UNCHANGED viewVars /\ text' = text /\ seen' = seen /\ conn.cursor = lastId
  BY DEF Subscribe, viewVars, IInv, Placed
<1>4. lastId \in Nat \X Nat BY <1>1 DEF TypeOK, ViewOK
<1>5. /\ conn'.at = "loop" /\ conn'.stream = Epoch /\ conn'.next = start.next
      /\ conn'.gap = start.gap
  BY <1>1 DEF Subscribe, ConnOK
<1>6. CASE lastId[1] = Epoch /\ lastId[2] \in 1..Len(Stream.log) /\ lastId[2] + 1 >= Stream.first
  <2>1. start.next = lastId[2] + 1 BY <1>3, <1>6 DEF Resolve
  <2>2. PICK e, n : e = lastId[1] /\ n = lastId[2] OBVIOUS
  <2>3. e \in Nat /\ n \in Nat BY <1>4, <2>2
  <2>4. Settled(e, n) /\ Divides(e, n)
    BY <1>2, <1>6, <2>2 DEF IInv, SeenOK, BrowserText, LastDivides
  <2>5. Divides(e, n)' BY <1>1, <1>3, <2>3, <2>4, DividesStays DEF BrowserText
  <2>6. conn'.stream = e /\ conn'.next - 1 = n BY <1>5, <1>6, <2>1, <2>2, <2>3
  <2>7. QED BY <2>5, <2>6 DEF PlaceDivides, Divides
<1>7. CASE ~(lastId[1] = Epoch /\ lastId[2] \in 1..Len(Stream.log)
             /\ lastId[2] + 1 >= Stream.first)
  <2>1. start.gap = (lastId # NoCursor \/ Stream.first > 1) BY <1>3, <1>7 DEF Resolve
  <2>2. CASE lastId = NoCursor
    <3>1. text' = Cleared /\ seen' = {} BY <1>3, <2>2 DEF BrowserText, Blank
    <3>2. QED BY <1>1, <3>1, ClearedText DEF BrowserText
  <2>3. CASE lastId # NoCursor BY <1>5, <2>1, <2>3 DEF PlaceDivides
  <2>4. QED BY <2>2, <2>3
<1>8. QED BY <1>6, <1>7

\* One entry shown.  If it is a piece of a message that is not complete, it is the
\* one after the last shown, and its place divides the pieces now.
LEMMA EntryShown ==
    ASSUME IInv, InOrder, BrowserText, LoopEntry
    PROVE  BrowserText'
<1>1. TypeOK /\ TypeOK' /\ BridgeOK /\ ViewOK /\ ConnOK /\ Next
  BY TypeStep DEF IInv, TypeOK, Next, Generator
<1>2. UNCHANGED <<streams, msg, piece>> /\ conn.at = "loop" /\ ~conn.gap
  BY DEF LoopEntry, bridgeVars, pubVars
<1>3. PICK e, n, x, id, log :
         /\ e = conn.stream /\ n = conn.next /\ x = Followed.log[conn.next] /\ id = <<e, n>>
         /\ log = streams[e].log
  OBVIOUS
<1>4. e \in Nat /\ n \in Nat \ {0} /\ e \in 1..Len(streams) /\ Len(streams) \in Nat
  BY <1>1, <1>2, <1>3, StreamOK DEF ConnOK, TypeOK, PlaceOK
<1>5. Len(log) \in Nat /\ log \in Seq(Entries)
  <2>1. streams[e] \in Streams BY <1>1, <1>4 DEF BridgeOK
  <2>2. QED BY <1>3, <2>1 DEF Streams
<1>6. n \in 1..Len(log) /\ x = log[n] /\ x \in Entries
  BY <1>3, <1>4, <1>5 DEF LoopEntry, Followed
<1>7. Receive(x, id) BY <1>3 DEF LoopEntry, Cursor
<1>8. PiecesInOrder(log) /\ PiecesSpoken(log) BY <1>3, <1>4 DEF InOrder
<1>9. PICK m \in Nat : m = n - 1 BY <1>4
<1>10. Divides(e, m) BY <1>2, <1>3, <1>9 DEF BrowserText, PlaceDivides
<1>11. id \notin seen /\ seen' = seen \cup {id} /\ lastId' = id /\ snap' = snap
  <2>1. id[1] = e /\ id[2] = n /\ ~(n <= m) BY <1>3, <1>4, <1>9
  <2>2. QED BY <1>7, <1>10, <2>1 DEF Divides, Receive
<1>12. Show(x) BY <1>7, <1>11 DEF Receive
\* It is enough to look at the text after the entry.
<1>13. ASSUME KnownIsWhole', TextSaid', TextIsContiguous',
              \A i \in 1..Len(log) : \A k \in MessageIds :
                  text'[k] # <<>> /\ IsPiece(log[i], k) =>
                      (i <= n <=> log[i].n <= text'[k][Len(text'[k])])
       PROVE  BrowserText'
  <2>1. n # 0 BY <1>4
  <2>2. ASSUME NEW c \in seen', c[1] = e PROVE c[2] <= n
    <3>1. CASE c = id BY <1>3, <1>4, <3>1
    <3>2. CASE c \in seen
      <4>1. c[2] \in Nat /\ c[2] <= m BY <1>1, <1>10, <2>2, <3>2 DEF ViewOK, Divides
      <4>2. QED BY <1>4, <1>9, <4>1
    <3>3. QED BY <1>11, <2>2, <3>1, <3>2
  <2>3. Divides(e, n)' BY <1>2, <1>3, <1>13, <2>1, <2>2 DEF Divides, Shown
  <2>4. lastId'[1] = e /\ lastId'[2] = n BY <1>3, <1>11
  <2>5. LastDivides' BY <2>3, <2>4 DEF LastDivides, Divides
  <2>6. Blank' BY <1>3, <1>4, <1>11 DEF Blank, NoCursor
  <2>7. PlaceDivides'
    <3>1. CASE conn' = Off BY <3>1 DEF PlaceDivides, Off
    <3>2. CASE conn' = [conn EXCEPT !.next = @ + 1]
      <4>1. conn'.stream = e /\ conn'.next - 1 = n BY <1>1, <1>3, <1>4, <3>2 DEF ConnOK
      <4>2. QED BY <2>3, <4>1 DEF PlaceDivides, Divides
    <3>3. QED BY <3>1, <3>2 DEF LoopEntry
  <2>8. QED BY <1>13, <2>5, <2>6, <2>7 DEF BrowserText
\* A message of which nothing was shown now, and whose pieces are not here.
<1>14. ASSUME NEW k \in MessageIds, text'[k] = text[k], text[k] # <<>>,
              ~IsPiece(x, k), NEW i \in 1..Len(log), IsPiece(log[i], k)
       PROVE  i <= n <=> log[i].n <= text'[k][Len(text'[k])]
  <2>1. i <= m <=> log[i].n <= Shown(k) BY <1>3, <1>4, <1>10, <1>14 DEF Divides
  <2>2. i # n BY <1>6, <1>14
  <2>3. i <= m <=> i <= n BY <1>4, <1>5, <1>9, <2>2
  <2>4. QED BY <1>14, <2>1, <2>3 DEF Shown
<1>15. \A k \in MessageIds : text[k] # <<>> => Spoken(k, Shown(k))
  BY DEF BrowserText, TextSaid
<1>16. CASE x.kind = "piece" /\ x.msg \notin Known
  <2>1. PICK k \in MessageIds, q \in 1..Pieces : k = x.msg /\ q = x.n
    BY <1>6, <1>16, EntryKinds
  <2>2. IsPiece(x, k) /\ \A j \in MessageIds : j # k => ~IsPiece(x, j)
    BY <1>16, <2>1 DEF IsPiece
  <2>3. text' = [text EXCEPT ![k] = Append(@, q)] /\ whole' = whole
    BY <1>12, <1>16, <2>1 DEF Show, ShowPiece
  <2>4. text \in [MessageIds -> Seq(1..Pieces)] BY <1>1 DEF ViewOK
  <2>5. PICK old \in Seq(1..Pieces) : old = text[k] BY <2>4
  <2>6. PICK new : new = Append(old, q) OBVIOUS
  <2>7. /\ Len(old) \in Nat /\ Len(new) = Len(old) + 1 /\ new # <<>> /\ new[Len(new)] = q
        /\ \A i \in 1..Len(old) : new[i] = old[i]
    <3>1. PICK S : S = 1..Pieces OBVIOUS
    <3>2. old \in Seq(S) /\ q \in S BY <2>1, <2>5, <3>1
    <3>3. /\ Len(old) \in Nat /\ Len(new) = Len(old) + 1 /\ new[Len(old) + 1] = q
          /\ \A i \in 1..Len(old) : new[i] = old[i]
      BY <2>6, <3>2
    <3>4. QED BY <3>3
  <2>8. text'[k] = new /\ \A j \in MessageIds : j # k => text'[j] = text[j]
    BY <2>3, <2>4, <2>5, <2>6
  <2>9. KnownIsWhole'
    <3>1. Known' = Known BY <1>11, <2>3 DEF Known
    <3>2. Known \subseteq MessageIds BY <1>1 DEF Known, ViewOK
    <3>3. QED BY <1>16, <2>1, <2>8, <3>1, <3>2 DEF BrowserText, KnownIsWhole
  <2>10. Spoken(k, q) BY <1>6, <1>8, <2>1, <2>2 DEF PiecesSpoken, Spoken
  <2>11. TextSaid'
    <3>1. ASSUME NEW j \in MessageIds, text'[j] # <<>>
          PROVE  Spoken(j, text'[j][Len(text'[j])])
      <4>1. CASE j = k BY <2>7, <2>8, <2>10, <4>1
      <4>2. CASE j # k BY <1>15, <2>8, <3>1, <4>2 DEF Shown
      <4>3. QED BY <4>1, <4>2
    <3>2. QED BY <1>2, <3>1 DEF TextSaid, Spoken, Shown
  <2>12. ASSUME NEW i \in 1..Len(log), IsPiece(log[i], k)
         PROVE  i <= n <=> log[i].n <= q
    <3>1. log[i] \in Entries BY <1>5, <2>12
    <3>2. log[i].n \in Nat BY <2>12, <3>1, EntryKinds, Positive DEF IsPiece
    <3>3. log[n].n = q /\ IsPiece(log[n], k) BY <1>6, <2>1, <2>2
    <3>4. i < n => log[i].n < q BY <1>6, <1>8, <2>12, <3>3 DEF PiecesInOrder
    <3>5. n < i => q < log[i].n BY <1>6, <1>8, <2>12, <3>3 DEF PiecesInOrder
    <3>6. QED BY <1>4, <1>5, <2>1, <2>12, <3>2, <3>3, <3>4, <3>5, Positive
  <2>13. ASSUME old # <<>> PROVE q = old[Len(old)] + 1
    <3>1. PICK l \in Nat : l = Shown(k) /\ l = old[Len(old)]
      BY <1>1, <2>5, <2>13, ShownIsPiece DEF Shown
    <3>2. \A i \in 1..Len(log) : IsPiece(log[i], k) => (i <= m <=> log[i].n <= l)
      BY <1>3, <1>4, <1>10, <2>5, <2>13, <3>1 DEF Divides
    <3>3. ~(n <= m) /\ q \in Nat BY <1>4, <1>9, <2>1, Positive
    <3>4. ~(q <= l) BY <1>6, <2>1, <2>2, <3>2, <3>3
    <3>5. CASE q = 1
      <4>1. l \in 1..Pieces BY <1>1, <2>5, <2>13, <3>1, ShownIsPiece
      <4>2. QED BY <3>4, <3>5, <4>1
    <3>6. CASE q > 1
      <4>1. m # 0
        <5>1. m = 0 => text = Cleared BY <1>10 DEF Divides
        <5>2. text # Cleared BY <2>5, <2>13 DEF Cleared
        <5>3. QED BY <5>1, <5>2
      <4>2. n > 1 /\ m \in 1..Len(log) /\ m <= m /\ n - 1 = m BY <1>4, <1>5, <1>6, <1>9, <4>1
      <4>3. log[m] = Piece(k, q - 1)
        BY <1>6, <1>8, <2>1, <2>2, <3>6, <4>2 DEF PiecesInOrder
      <4>4. IsPiece(log[m], k) /\ log[m].n = q - 1 BY <4>3 DEF IsPiece, Piece
      <4>5. q - 1 <= l BY <3>2, <4>2, <4>4
      <4>6. QED BY <3>1, <3>3, <3>4, <4>5
    <3>7. QED BY <2>1, <3>3, <3>5, <3>6
  <2>14. TextIsContiguous'
    <3>1. ASSUME NEW j \in MessageIds, NEW i \in DOMAIN text'[j], i > 1
          PROVE  text'[j][i] = text'[j][i - 1] + 1
      <4>1. CASE j # k
        <5>1. text'[j] = text[j] BY <2>8, <4>1
        <5>2. QED BY <3>1, <5>1 DEF BrowserText, TextIsContiguous
      <4>2. CASE j = k
        <5>1. text'[j] = new /\ i \in 1..Len(new) BY <2>1, <2>5, <2>6, <2>8, <3>1, <4>2
        <5>2. CASE i \in 1..Len(old)
          <6>1. new[i] = old[i] /\ new[i - 1] = old[i - 1] /\ i \in DOMAIN old
            <7>1. i - 1 \in 1..Len(old) BY <2>7, <3>1, <5>2
            <7>2. DOMAIN old = 1..Len(old) BY <2>5
            <7>3. QED BY <2>7, <5>2, <7>1, <7>2
          <6>2. old[i] = old[i - 1] + 1
            BY <2>5, <3>1, <6>1 DEF BrowserText, TextIsContiguous
          <6>3. QED BY <5>1, <6>1, <6>2
        <5>3. CASE i = Len(old) + 1
          <6>1. old # <<>> /\ i - 1 = Len(old) /\ i - 1 \in 1..Len(old)
            BY <2>7, <3>1, <5>3
          <6>2. new[i] = q /\ new[i - 1] = old[Len(old)] BY <2>7, <5>3, <6>1
          <6>3. QED BY <2>13, <5>1, <6>1, <6>2
        <5>4. QED BY <2>7, <5>1, <5>2, <5>3
      <4>3. QED BY <4>1, <4>2
    <3>2. QED BY <3>1 DEF TextIsContiguous
  <2>15. \A i \in 1..Len(log) : \A j \in MessageIds :
            text'[j] # <<>> /\ IsPiece(log[i], j) =>
                (i <= n <=> log[i].n <= text'[j][Len(text'[j])])
    BY <1>14, <2>2, <2>7, <2>8, <2>12
  <2>16. QED BY <1>13, <2>9, <2>11, <2>14, <2>15
<1>17. CASE ~(x.kind = "piece" /\ x.msg \notin Known)
  <2>1. \A k \in MessageIds : text'[k] = text[k] \/ text'[k] = <<>>
    <3>1. CASE x.kind = "piece" BY <1>12, <1>17, <3>1 DEF Show, ShowPiece
    <3>2. CASE x.kind = "whole"
      <4>1. x.msg \in MessageIds BY <1>6, <3>2, EntryKinds
      <4>2. QED BY <1>1, <1>12, <3>2, <4>1 DEF Show, ShowWhole, ViewOK
    <3>3. CASE x.kind = "told" BY <1>12, <3>3 DEF Show, ShowTold
    <3>4. QED BY <1>6, <3>1, <3>2, <3>3, EntryKinds
  <2>2. KnownIsWhole'
    <3>1. Known \subseteq MessageIds BY <1>1 DEF Known, ViewOK
    <3>2. CASE x.kind = "whole" /\ x.msg > snap
      <4>1. x.msg \in MessageIds BY <1>6, <3>2, EntryKinds
      <4>2. ~(x.msg <= snap)
        <5>1. snap \in Nat /\ x.msg \in Nat BY <1>1, <4>1, Positive DEF ViewOK, MessageIds
        <5>2. QED BY <3>2, <5>1
      <4>3. text' = [text EXCEPT ![x.msg] = <<>>] /\ whole' = whole \cup {x.msg}
        BY <1>12, <3>2, <4>2 DEF Show, ShowWhole
      <4>4. Known' = Known \cup {x.msg} BY <1>11, <4>1, <4>3 DEF Known
      <4>5. text'[x.msg] = <<>> BY <1>1, <4>1, <4>3 DEF ViewOK
      <4>6. QED BY <2>1, <3>1, <4>4, <4>5 DEF BrowserText, KnownIsWhole
    <3>3. CASE ~(x.kind = "whole" /\ x.msg > snap)
      <4>1. whole' = whole
        <5>1. CASE x.kind = "whole"
          <6>1. x.msg \in MessageIds BY <1>6, <5>1, EntryKinds
          <6>2. snap \in Nat /\ x.msg \in Nat BY <1>1, <6>1, Positive DEF ViewOK, MessageIds
          <6>3. x.msg <= snap BY <3>3, <5>1, <6>2
          <6>4. QED BY <1>12, <5>1, <6>3 DEF Show, ShowWhole
        <5>2. CASE x.kind # "whole" BY <1>12, <5>2 DEF Show, ShowPiece, ShowTold
        <5>3. QED BY <5>1, <5>2
      <4>2. Known' = Known BY <1>11, <4>1 DEF Known
      <4>3. QED BY <2>1, <3>1, <4>2 DEF BrowserText, KnownIsWhole
    <3>4. QED BY <3>2, <3>3
  <2>3. TextSaid'
    <3>1. ASSUME NEW j \in MessageIds, text'[j] # <<>>
          PROVE  Spoken(j, text'[j][Len(text'[j])])
      BY <1>15, <2>1, <3>1 DEF Shown
    <3>2. QED BY <1>2, <3>1 DEF TextSaid, Spoken, Shown
  <2>4. TextIsContiguous'
    <3>1. ASSUME NEW j \in MessageIds, NEW i \in DOMAIN text'[j], i > 1
          PROVE  text'[j][i] = text'[j][i - 1] + 1
      <4>1. text'[j] = text[j] BY <2>1, <3>1
      <4>2. QED BY <3>1, <4>1 DEF BrowserText, TextIsContiguous
    <3>2. QED BY <3>1 DEF TextIsContiguous
  <2>5. ASSUME NEW i \in 1..Len(log), NEW j \in MessageIds, text'[j] # <<>>, IsPiece(log[i], j)
        PROVE  i <= n <=> log[i].n <= text'[j][Len(text'[j])]
    <3>1. text'[j] = text[j] /\ text[j] # <<>> BY <2>1, <2>5
    <3>2. ~IsPiece(x, j)
      <4>1. j \in Known => text[j] = <<>> BY DEF BrowserText, KnownIsWhole
      <4>2. QED BY <1>17, <3>1, <4>1 DEF IsPiece
    <3>3. QED BY <1>14, <2>5, <3>1, <3>2
  <2>6. QED BY <1>13, <2>2, <2>3, <2>4, <2>5
<1>18. QED BY <1>16, <1>17

\* Every step keeps what the browser shows in order.
LEMMA TextStep ==
    ASSUME IInv, TextInv, [Next]_vars
    PROVE  TextInv'
<1>1. TypeOK /\ TypeOK' /\ BrowserText /\ InOrder /\ Continuing
  BY TypeStep DEF IInv, TextInv, BrowserText
<1>2. CASE UNCHANGED vars
  BY <1>2 DEF vars, dbVars, bridgeVars, pubVars, viewVars, TextInv, InOrder, PiecesInOrder,
       PiecesSpoken, Continuing, Stream, TextSaid, Spoken, Shown, KnownIsWhole, Known, Blank,
       LastDivides, PlaceDivides, Divides, TextIsContiguous
<1>3. CASE Next
  <2>1. InOrder' /\ Continuing' BY <1>1, <1>3, OrderStep, ContinuingStep
  <2>2. BrowserText'
    <3>1. CASE Reload \/ SendInitial \/ SendLost \/ SendGapSnapshot
      BY <1>1, <3>1, ClearedText
         DEF Reload, SendInitial, SendLost, SendGapSnapshot, SendSnapshot, Reset
    <3>2. CASE LoopEntry BY <1>1, <3>2, EntryShown
    <3>3. ASSUME text' = text, seen' = seen, Known' = Known, lastId' \in {lastId, Foreign},
                 PlaceDivides'
          PROVE  BrowserText'
      BY <1>1, <1>3, <3>3, TextAlone, LastStays DEF BrowserText
    <3>4. CASE SendHistory
      <4>1. text' = text /\ seen' = seen /\ Known' = Known /\ lastId' \in {lastId, Foreign}
        BY <3>4 DEF SendHistory, Known
      <4>2. \/ conn'.at \notin {"loop", "beat", "gapHistory"}
            \/ /\ conn.at \in {"loop", "beat", "gapHistory"}
               /\ conn'.stream = conn.stream /\ conn'.next = conn.next /\ conn'.gap = conn.gap
        BY <1>1, <3>4 DEF SendHistory, Step, TypeOK, ConnOK
      <4>3. PlaceDivides' BY <1>1, <1>3, <4>1, <4>2, DivisionStays
      <4>4. QED BY <3>3, <4>1, <4>3
    <3>5. CASE Subscribe
      <4>1. text' = text /\ seen' = seen /\ Known' = Known /\ lastId' = lastId
        BY <3>5 DEF Subscribe, viewVars, Known
      <4>2. QED BY <1>1, <3>3, <3>5, <4>1, SubscribeDivides
    <3>6. CASE ~(Reload \/ SendInitial \/ SendLost \/ SendGapSnapshot \/ LoopEntry
                 \/ SendHistory \/ Subscribe)
      <4>1. UNCHANGED <<text, seen, snap, whole, lastId>>
        BY <1>3, <3>6 DEF Next, Publisher, PublishPiece, ReplyComplete, SaveMessage, PublishWhole,
             Finish, Announce, End, Fail, CancelLate, Cleanup, CloseBridge, Crash, Exit, Gone,
             Restart, Connect, Disconnect, Generator, ReadStatus, NoStream, LoopGap, LoopEnd,
             Heartbeat, BeatReads, SendTerminal, viewVars
      <4>2. \/ conn'.at \notin {"loop", "beat", "gapHistory"}
            \/ /\ conn.at \in {"loop", "beat", "gapHistory"}
               /\ conn'.stream = conn.stream /\ conn'.next = conn.next /\ conn'.gap = conn.gap
        <5>1. CASE conn' = conn BY <5>1
        <5>2. CASE conn' = Off BY <5>2 DEF Off
        <5>3. CASE Connect \/ ReadStatus \/ NoStream \/ LoopGap \/ LoopEnd \/ Heartbeat \/ BeatReads
          <6>1. CASE Connect BY <6>1 DEF Connect, Off
          <6>2. CASE ReadStatus \/ NoStream \/ LoopGap
            BY <1>1, <6>2 DEF ReadStatus, NoStream, LoopGap, TypeOK, ConnOK
          <6>3. CASE LoopEnd \/ Heartbeat \/ BeatReads
            BY <1>1, <6>3 DEF LoopEnd, Heartbeat, BeatReads, CaughtUp, Step, TypeOK, ConnOK
          <6>4. QED BY <5>3, <6>1, <6>2, <6>3
        <5>4. QED
          BY <1>3, <3>6, <5>1, <5>2, <5>3
             DEF Next, Publisher, PublishPiece, ReplyComplete, SaveMessage, PublishWhole, Finish,
                 Announce, End, Fail, CancelLate, Cleanup, CloseBridge, Crash, Exit, Gone, Restart,
                 Disconnect, Generator, SendTerminal
      <4>3. PlaceDivides' BY <1>1, <1>3, <4>1, <4>2, DivisionStays
      <4>4. Known' = Known BY <4>1 DEF Known
      <4>5. QED BY <3>3, <4>1, <4>3, <4>4
    <3>7. QED BY <3>1, <3>2, <3>4, <3>5, <3>6
  <2>3. QED BY <2>1, <2>2 DEF TextInv, BrowserText
<1>4. QED BY <1>2, <1>3

\* At first nothing is published and nothing shown.
LEMMA TextInit == Init => TextInv
<1> SUFFICES ASSUME Init PROVE TextInv OBVIOUS
<1>1. InOrder BY DEF Init, InOrder
<1>2. Continuing
  <2>1. Len(Stream.log) = 0 BY DEF Init, Stream, NewStream
  <2>2. QED BY <2>1 DEF Continuing
<1>3. text = Cleared /\ seen = {} /\ snap = 0 /\ whole = {} BY DEF Init
<1>4. Known \subseteq MessageIds BY <1>3 DEF Known
<1>5. TextSaid /\ KnownIsWhole /\ Blank /\ TextIsContiguous
  BY <1>3, <1>4 DEF TextSaid, KnownIsWhole, Blank, TextIsContiguous, Cleared
<1>6. LastDivides /\ PlaceDivides BY <1>3, NothingShown DEF LastDivides, PlaceDivides
<1>7. QED BY <1>1, <1>2, <1>5, <1>6 DEF TextInv

\* The order of pieces and text holds throughout.
LEMMA TextInvariance == Spec => []TextInv
<1>1. Init => TextInv BY TextInit
<1>2. IInv /\ TextInv /\ [Next]_vars => TextInv' BY TextStep
<1>3. QED BY <1>1, <1>2, Invariance, PTL DEF Spec

-----------------------------------------------------------------------------
(* The properties                                                          *)

\* What a stream calls complete is in a checkpoint.
THEOREM CompleteMessagesAreSaved == Spec => []CompleteIsSaved
<1>1. IInv => CompleteIsSaved
  <2> SUFFICES ASSUME IInv, NEW e \in DOMAIN streams, NEW i \in DOMAIN streams[e].log,
                      streams[e].log[i].kind = "whole"
               PROVE  streams[e].log[i].msg <= saved
    BY DEF CompleteIsSaved
  <2>1. e \in 1..Len(streams) BY DEF IInv, TypeOK, BridgeOK
  <2>2. streams[e] \in Streams BY <2>1 DEF IInv, TypeOK, BridgeOK
  <2>3. i \in 1..Len(streams[e].log) BY <2>2 DEF Streams
  <2>4. streams[e].log[i] \in Honest BY <2>1, <2>3 DEF IInv, LogsOK
  <2>5. QED BY <2>4 DEF Honest
<1>2. QED BY <1>1, Invariance, PTL

\* A follower with no gap left to tell of has missed no complete message.
THEOREM NothingIsSkipped == Spec => []NothingSkipped
<1>1. IInv => NothingSkipped
  <2> SUFFICES ASSUME IInv, conn.at \in {"loop", "beat"}, ~conn.gap,
                      NEW i \in DOMAIN Followed.log, i < conn.next,
                      Followed.log[i].kind = "whole"
               PROVE  Followed.log[i].msg \in Known
    BY DEF NothingSkipped
  <2>1. conn.stream \in 1..Len(streams) /\ conn.next \in Nat
    BY DEF IInv, TypeOK, PlaceOK, ConnOK
  <2>2. streams[conn.stream] \in Streams BY <2>1 DEF IInv, TypeOK, BridgeOK
  <2>3. i \in 1..Len(streams[conn.stream].log) /\ i \in Nat BY <2>2 DEF Streams, Followed
  <2>4. i <= conn.next - 1 BY <2>1, <2>3
  <2>5. Passed(conn.stream, conn.next - 1) BY DEF IInv, FollowOK
  <2>6. QED BY <2>1, <2>3, <2>4, <2>5 DEF Passed, Followed
<1>2. QED BY <1>1, Invariance, PTL

\* The text shown of a message is a run of its pieces: none is missing, none comes
\* twice and none is out of order.
THEOREM TextHasNoHole == Spec => []TextIsContiguous
<1>1. TextInv => TextIsContiguous BY DEF TextInv
<1>2. QED BY <1>1, TextInvariance, PTL

\* A confirmed outcome the browser was told is the one in SQLite.
THEOREM OutcomeIsCommitted == Spec => []OutcomeIsTrue
<1>1. IInv => OutcomeIsTrue BY DEF IInv
<1>2. QED BY <1>1, Invariance, PTL

\* Only loading the page again takes a complete message away.
THEOREM ShownMessagesStay == Spec => ShownStays
<1>1. IInv /\ [Next]_vars => [Reload \/ Known \subseteq Known']_vars BY InvStep
<1>2. QED BY <1>1, Invariance, PTL DEF Spec, ShownStays

-----------------------------------------------------------------------------
(* The journal: what is in it                                               *)

\* The events of a sequence were published one after the other.
Rising(s) == \A i, j \in 1..Len(s) : i < j => s[i].n < s[j].n

\* Events wait in the order they were published, those being written first.
Queued ==
    \A r \in Recorders :
        /\ \A i \in 1..Len(buffer[r]) : buffer[r][i].of = r /\ buffer[r][i].n <= made[r]
        /\ \A i \in 1..Len(batch[r]) : batch[r][i].of = r /\ batch[r][i].n <= made[r]
        /\ Rising(buffer[r]) /\ Rising(batch[r])
        /\ \A i \in 1..Len(batch[r]), j \in 1..Len(buffer[r]) : batch[r][i].n < buffer[r][j].n

\* What is saved was published before whatever waits.
SavedBefore ==
    \A i \in 1..Len(rows) : LET r == rows[i].of IN
        /\ rows[i].n <= made[r]
        /\ \A j \in 1..Len(buffer[r]) : rows[i].n < buffer[r][j].n

\* A batch is saved as a whole, or comes behind all that is saved.
Tried ==
    \A r \in Recorders :
        \/ \A j \in 1..Len(batch[r]) : In(batch[r][j], rows)
        \/ \A i \in 1..Len(rows), j \in 1..Len(batch[r]) :
               rows[i].of = r => rows[i].n < batch[r][j].n

\* A writer has a batch only while it writes it, and waits only if it may try again.
InTime ==
    \A r \in Recorders :
        /\ writer[r] \notin {"writing", "waiting"} => batch[r] = <<>>
        /\ writer[r] = "waiting" => attempt[r] < MaxAttempts

\* No more is lost than was counted.
Lost(r) == {n \in 1..made[r] : n \notin Held(r)}
Counted == exists => \A r \in Recorders : Cardinality(Lost(r)) <= dropped[r]

Journal ==
    JournalTypeOK /\ InTime /\ Queued /\ SavedBefore /\ Tried /\ JournalIsInOrder /\ Counted

\* A set of numbers that is not empty has a least one.
LEMMA LeastNumber ==
  ASSUME NEW T \in SUBSET Nat, T # {}
  PROVE \E x \in T : \A y \in T : ~(y < x)
<1> DEFINE R == StrictSubsetOrdering(Nat)
           F == {1..x : x \in T}
<1>1. IsWellFoundedOn(R, FiniteSubsetsOf(Nat))
  BY FS_StrictSubsetOrderingWellFounded
<1>2. F \subseteq FiniteSubsetsOf(Nat)
  <2>1. ASSUME NEW x \in T PROVE IsFiniteSet(1..x) /\ 1..x \in SUBSET Nat
    BY FS_Interval
  <2> QED BY <2>1 DEF FiniteSubsetsOf
<1>3. F # {}
  OBVIOUS
<1>4. \E X \in F : \A Y \in F : ~ (<<Y, X>> \in R)
  <2> HIDE DEF R, F
  <2> QED BY <1>1, <1>2, <1>3, WFMin
<1>5. PICK x \in T : \A y \in T : ~ (<<1..y, 1..x>> \in R)
  BY <1>4
<1>6. ASSUME NEW y \in T, y < x PROVE FALSE
  <2>1. /\ 1..y \in SUBSET Nat /\ 1..x \in SUBSET Nat
        /\ 1..y \subseteq 1..x /\ x \in 1..x /\ x \notin 1..y
    BY <1>6
  <2>2. <<1..y, 1..x>> \in R
    BY <2>1 DEF StrictSubsetOrdering
  <2> QED BY <1>5, <2>2
<1> QED BY <1>6

-----------------------------------------------------------------------------
(* append_batch                                                             *)

\* What the loop of append_batch has made of the rows after each event.
Loop(events, after) ==
    after = [k \in 0..Len(events) |->
        IF k = 0 THEN rows
        ELSE IF In(events[k], after[k - 1]) THEN after[k - 1]
        ELSE Append(after[k - 1], events[k])]

\* If the loop can be run at all, the rows are what it ends with.
LEMMA LoopRuns ==
  ASSUME NEW B, NEW g, Loop(B, g), AppendBatch(B)
  PROVE \E after : Loop(B, after) /\ rows' = after[Len(B)]
<1> DEFINE f == CHOOSE after : Loop(B, after)
<1>1. Loop(B, f)
  <2> HIDE DEF Loop
  <2> QED BY Zenon
<1>2. rows' = f[Len(B)]
  BY Zenon DEF AppendBatch, Loop
<1> HIDE DEF f
<1> QED BY <1>1, <1>2

\* What the loop does with one event.
LEMMA LoopStep ==
  ASSUME NEW B \in Seq(Event), NEW after, Loop(B, after), NEW k \in 1..Len(B)
  PROVE after[k] = IF In(B[k], after[k - 1]) THEN after[k - 1] ELSE Append(after[k - 1], B[k])
<1>1. k \in 0..Len(B) /\ k # 0
  OBVIOUS
<1> QED BY <1>1, Zenon DEF Loop

\* A batch that was saved by an earlier attempt is not saved again.
LEMMA SavedAlready ==
  ASSUME NEW B \in Seq(Event), \A k \in 1..Len(B) : In(B[k], rows), AppendBatch(B)
  PROVE rows' = rows
<1> DEFINE g == [k \in 0..Len(B) |-> rows]
<1>0. Len(B) \in Nat
  OBVIOUS
<1>1. Loop(B, g)
  BY <1>0 DEF Loop
<1>2. PICK after : Loop(B, after) /\ rows' = after[Len(B)]
  BY <1>1, LoopRuns
<1> DEFINE T == {k \in 0..Len(B) : after[k] # rows}
<1>3. T = {}
  <2> SUFFICES ASSUME T # {} PROVE FALSE
    OBVIOUS
  <2>1. PICK k \in T : \A m \in T : ~(m < k)
    <3>1. T \in SUBSET Nat
      BY <1>0
    <3> HIDE DEF T
    <3> QED BY <3>1, LeastNumber
  <2>2. after[0] = rows
    BY <1>0, <1>2 DEF Loop
  <2>3. k \in 1..Len(B) /\ k - 1 \in 0..Len(B) /\ k - 1 < k
    BY <1>0, <2>2
  <2>4. after[k - 1] = rows
    BY <2>1, <2>3
  <2>5. after[k] = IF In(B[k], after[k - 1]) THEN after[k - 1] ELSE Append(after[k - 1], B[k])
    BY <1>2, <2>3, LoopStep
  <2> QED BY <2>3, <2>4, <2>5
<1> QED BY <1>0, <1>2, <1>3

\* One that was not is saved as it is, behind the others.
LEMMA SavedBehind ==
  ASSUME NEW B \in Seq(Event), rows \in Seq(Event), AppendBatch(B),
         \A k \in 1..Len(B) : ~In(B[k], rows) /\ \A j \in 1..k - 1 : B[j] # B[k]
  PROVE rows' = rows \o B
<1> DEFINE part(k) == rows \o SubSeq(B, 1, k)
           g == [k \in 0..Len(B) |-> part(k)]
<1>0. Len(B) \in Nat /\ Len(rows) \in Nat
  OBVIOUS
<1>1. part(0) = rows /\ part(Len(B)) = rows \o B
  BY SubSeqFull, SubSeqEmpty, ConcatEmptySeq
<1>2. ASSUME NEW k \in 1..Len(B)
      PROVE ~In(B[k], part(k - 1)) /\ part(k) = Append(part(k - 1), B[k])
  <2>1. /\ SubSeq(B, 1, k - 1) \in Seq(Event) /\ Len(SubSeq(B, 1, k - 1)) = k - 1
        /\ \A i \in 1..k - 1 : SubSeq(B, 1, k - 1)[i] = B[i]
    <3>1. \A i \in 1..k - 1 : B[i] \in Event /\ 1 + i - 1 = i
      BY <1>0
    <3>2. k - 1 \in Int /\ k - 1 - 1 + 1 = k - 1 /\ (1 <= k - 1 \/ k - 1 = 0)
      BY <1>0
    <3> QED BY <3>1, <3>2, SubSeqProperties
  <2>2. /\ part(k - 1) \in Seq(Event) /\ Len(part(k - 1)) = Len(rows) + (k - 1)
        /\ \A i \in 1..Len(rows) + (k - 1) :
               part(k - 1)[i] = IF i <= Len(rows) THEN rows[i] ELSE B[i - Len(rows)]
    <3>1. \A i \in 1..Len(rows) + (k - 1) : i <= Len(rows) \/ i - Len(rows) \in 1..k - 1
      BY <1>0
    <3> QED BY <2>1, <3>1, ConcatProperties
  <2>3. ~In(B[k], part(k - 1))
    <3>1. \A i \in 1..Len(rows) + (k - 1) :
              (i <= Len(rows) /\ i \in 1..Len(rows)) \/ i - Len(rows) \in 1..k - 1
      BY <1>0
    <3> DEFINE q == part(k - 1)
    <3>2. /\ Len(q) = Len(rows) + (k - 1)
          /\ \A i \in 1..Len(rows) + (k - 1) :
                 q[i] = IF i <= Len(rows) THEN rows[i] ELSE B[i - Len(rows)]
      BY <2>2
    <3> HIDE DEF q
    <3>3. \A i \in 1..Len(q) : q[i] # B[k]
      <4> SUFFICES ASSUME NEW i \in 1..Len(q) PROVE q[i] # B[k]
        OBVIOUS
      <4>1. CASE i <= Len(rows)
        BY <4>1, <3>1, <3>2 DEF In
      <4>2. CASE ~(i <= Len(rows))
        BY <4>2, <3>1, <3>2
      <4> QED BY <4>1, <4>2
    <3> QED BY <3>3 DEF In, q
  <2>4. SubSeq(B, 1, k) = SubSeq(B, 1, k - 1) \o <<B[k]>>
    <3>1. 1 \in 1..Len(B) /\ k \in 1..Len(B)
      BY <1>0
    <3> QED BY <3>1, SubSeqRecursiveSecond
  <2>5. part(k) = part(k - 1) \o <<B[k]>>
    <3>1. <<B[k]>> \in Seq(Event)
      OBVIOUS
    <3> QED BY <2>1, <2>4, <3>1, ConcatAssociative, SMTT(40)
  <2>6. Append(part(k - 1), B[k]) = part(k - 1) \o <<B[k]>>
    <3>1. B[k] \in Event
      OBVIOUS
    <3> HIDE DEF part
    <3> QED BY <2>2, <3>1, AppendIsConcat
  <2> QED BY <2>3, <2>5, <2>6
<1> HIDE DEF part
<1>3. Loop(B, g)
  <2> SUFFICES ASSUME NEW k \in 0..Len(B)
               PROVE g[k] = IF k = 0 THEN rows
                            ELSE IF In(B[k], g[k - 1]) THEN g[k - 1] ELSE Append(g[k - 1], B[k])
    BY DEF Loop
  <2>1. CASE k = 0
    BY <2>1, <1>0, <1>1
  <2>2. CASE k # 0
    <3>1. k \in 1..Len(B) /\ k - 1 \in 0..Len(B)
      BY <2>2, <1>0
    <3> QED BY <2>2, <3>1, <1>2
  <2> QED BY <2>1, <2>2
<1>4. PICK after : Loop(B, after) /\ rows' = after[Len(B)]
  <2> HIDE DEF g
  <2> QED BY <1>3, LoopRuns
<1> DEFINE T == {k \in 0..Len(B) : after[k] # part(k)}
<1>5. T = {}
  <2> SUFFICES ASSUME T # {} PROVE FALSE
    OBVIOUS
  <2>1. PICK k \in T : \A m \in T : ~(m < k)
    <3>1. T \in SUBSET Nat
      BY <1>0
    <3> HIDE DEF T
    <3> QED BY <3>1, LeastNumber
  <2>2. after[0] = part(0)
    BY <1>0, <1>1, <1>4 DEF Loop
  <2>3. k \in 1..Len(B) /\ k - 1 \in 0..Len(B) /\ k - 1 < k
    BY <1>0, <2>2
  <2>4. after[k - 1] = part(k - 1)
    BY <2>1, <2>3
  <2>5. after[k] = IF In(B[k], after[k - 1]) THEN after[k - 1] ELSE Append(after[k - 1], B[k])
    <3> HIDE DEF T
    <3> QED BY <1>4, <2>3, LoopStep
  <2> QED BY <1>2, <2>1, <2>3, <2>4, <2>5
<1>6. after[Len(B)] = part(Len(B))
  BY <1>0, <1>5
<1> QED BY <1>1, <1>4, <1>6

-----------------------------------------------------------------------------
(* What a step does to the events                                           *)

\* An event is published: it waits, or is counted as dropped.
Publishes(r) ==
    /\ made[r] < MaxRecorded /\ made' = [made EXCEPT ![r] = @ + 1]
    /\ \/ buffer' = [buffer EXCEPT ![r] = Append(@, New(r))] /\ dropped' = dropped
       \/ buffer' = buffer /\ CountDropped(r, 1)
    /\ rows' = rows /\ exists' = exists /\ batch' = batch
\* The next events are taken to be written.
Takes(r) ==
    /\ batch[r] = <<>>
    /\ \E n \in 1..Len(buffer[r]) :
           /\ batch' = [batch EXCEPT ![r] = SubSeq(buffer[r], 1, n)]
           /\ buffer' = [buffer EXCEPT ![r] = SubSeq(@, n + 1, Len(@))]
    /\ rows' = rows /\ exists' = exists /\ made' = made /\ dropped' = dropped
\* A batch is saved, tried again or given up.
Tries(r) ==
    /\ rows' = rows \/ (exists /\ AppendBatch(batch[r]))
    /\ batch' = batch \/ batch' = [batch EXCEPT ![r] = <<>>]
    /\ dropped' = dropped \/ CountDropped(r, Len(batch[r]))
    /\ AppendBatch(batch[r]) \/ batch' = batch \/ CountDropped(r, Len(batch[r]))
    /\ exists' = exists /\ made' = made /\ buffer' = buffer
\* What waits is given up.
Discards(r) ==
    /\ buffer' = [buffer EXCEPT ![r] = <<>>] /\ CountDropped(r, Len(buffer[r]))
    /\ rows' = rows /\ exists' = exists /\ made' = made /\ batch' = batch
Deletes ==
    /\ exists' = FALSE /\ rows' = <<>>
    /\ made' = made /\ buffer' = buffer /\ batch' = batch /\ dropped' = dropped
Rests ==
    /\ rows' = rows /\ exists' = exists
    /\ made' = made /\ buffer' = buffer /\ batch' = batch /\ dropped' = dropped

LEMMA JournalMoves ==
  ASSUME JournalTypeOK, InTime, [JournalNext]_journalVars
  PROVE \/ \E r \in Recorders : Publishes(r) \/ Takes(r) \/ Tries(r) \/ Discards(r)
        \/ Deletes \/ Rests
<1>1. ASSUME NEW r \in Recorders, RecordEvent(r) PROVE Publishes(r)
  BY <1>1 DEF RecordEvent, Publishes
<1>2. ASSUME NEW r \in Recorders, TakeBatch(r) PROVE Takes(r)
  <2>1. batch[r] = <<>>
    BY <1>2 DEF TakeBatch, InTime
  <2>2. Smaller(BatchSize, Len(buffer[r])) \in 1..Len(buffer[r])
    <3>1. Len(buffer[r]) \in Nat /\ BatchSize \in Nat
      BY JournalAssumption DEF JournalTypeOK
    <3> QED BY <1>2, <3>1 DEF TakeBatch, Smaller
  <2> QED BY <1>2, <2>1, <2>2 DEF TakeBatch, Takes
<1>3. ASSUME NEW r \in Recorders, Write(r) \/ WriteFails(r) \/ WriteRefused(r) \/ Retry(r)
      PROVE Tries(r)
  <2>1. GiveUp(r) => CountDropped(r, Len(batch[r])) /\ batch' = [batch EXCEPT ![r] = <<>>]
    BY DEF GiveUp, BatchDone
  <2>2. Failed(r) => GiveUp(r) \/ (batch' = batch /\ dropped' = dropped)
    BY DEF Failed
  <2>3. CASE Write(r)
    BY <2>3 DEF Write, BatchDone, MayAppend, Tries
  <2>4. CASE WriteFails(r)
    <3>1. /\ rows' = rows \/ (exists /\ AppendBatch(batch[r]))
          /\ exists' = exists /\ made' = made /\ buffer' = buffer /\ Failed(r)
      BY <2>4, Zenon DEF WriteFails, MayAppend
    <3> QED BY <2>1, <2>2, <3>1, Zenon DEF Tries
  <2>5. CASE WriteRefused(r)
    <3>1. /\ rows' = rows /\ exists' = exists /\ made' = made /\ buffer' = buffer /\ Failed(r)
      BY <2>5 DEF WriteRefused
    <3> QED BY <2>1, <2>2, <3>1, Zenon DEF Tries
  <2>6. CASE Retry(r)
    <3>1. /\ rows' = rows /\ exists' = exists /\ made' = made /\ buffer' = buffer
          /\ GiveUp(r) \/ (batch' = batch /\ dropped' = dropped)
      BY <2>6 DEF Retry
    <3> QED BY <2>1, <3>1, Zenon DEF Tries
  <2> QED BY <1>3, <2>3, <2>4, <2>5, <2>6
<1>4. ASSUME NEW r \in Recorders, CloseTimeout(r) PROVE Discards(r)
  BY <1>4 DEF CloseTimeout, CloseDrops, Discards
<1>5. ASSUME NEW r \in Recorders, WriterEnds(r) \/ Close(r) PROVE Rests
  BY <1>5 DEF WriterEnds, Close, Rests
<1>6. CASE DeleteThread
  BY <1>6 DEF DeleteThread, recorder, Deletes
<1>7. CASE Done \/ UNCHANGED journalVars
  BY <1>7 DEF Done, journalVars, recorder, Rests
<1> QED BY <1>1, <1>2, <1>3, <1>4, <1>5, <1>6, <1>7 DEF JournalNext, WriterStep

\* The rows after append_batch: as before, or with the whole batch behind them.
LEMMA Insertion ==
  ASSUME JournalTypeOK, Queued, Tried, NEW r \in Recorders, AppendBatch(batch[r])
  PROVE \/ rows' = rows /\ \A j \in 1..Len(batch[r]) : In(batch[r][j], rows)
        \/ /\ rows' = rows \o batch[r]
           /\ \A i \in 1..Len(rows), j \in 1..Len(batch[r]) :
                  rows[i].of = r => rows[i].n < batch[r][j].n
<1> DEFINE B == batch[r]
<1>1. B \in Seq(Event) /\ rows \in Seq(Event) /\ Len(B) \in Nat
  BY DEF JournalTypeOK
<1>2. (\A j \in 1..Len(B) : B[j].of = r) /\ Rising(B)
  BY DEF Queued
<1>3. \/ \A j \in 1..Len(B) : In(B[j], rows)
      \/ \A i \in 1..Len(rows), j \in 1..Len(B) : rows[i].of = r => rows[i].n < B[j].n
  BY DEF Tried
<1> HIDE DEF B
<1>4. CASE \A j \in 1..Len(B) : In(B[j], rows)
  <2>1. rows' = rows
    BY <1>1, <1>4, SavedAlready DEF B
  <2> QED BY <1>4, <2>1 DEF B
<1>5. CASE \A i \in 1..Len(rows), j \in 1..Len(B) : rows[i].of = r => rows[i].n < B[j].n
  <2>1. \A k \in 1..Len(B) : B[k] \in Event
    BY <1>1
  <2>2. \A k \in 1..Len(B) : B[k].n \in Nat
    BY <2>1 DEF Event
  <2>3. ASSUME NEW k \in 1..Len(B) PROVE ~In(B[k], rows) /\ \A j \in 1..k - 1 : B[j] # B[k]
    <3>1. ASSUME NEW i \in 1..Len(rows), rows[i] = B[k] PROVE FALSE
      <4>1. rows[i].n < B[k].n /\ rows[i].n = B[k].n
        BY <1>2, <1>5, <3>1
      <4> QED BY <2>2, <4>1
    <3>2. ASSUME NEW j \in 1..k - 1, B[j] = B[k] PROVE FALSE
      <4>1. j \in 1..Len(B) /\ j < k
        BY <1>1
      <4>2. B[j].n < B[k].n /\ B[j].n = B[k].n
        BY <1>2, <3>2, <4>1 DEF Rising
      <4> QED BY <2>2, <4>2
    <3> QED BY <3>1, <3>2 DEF In
  <2>4. rows' = rows \o B
    BY <1>1, <2>3, SavedBehind DEF B
  <2> QED BY <1>5, <2>4 DEF B
<1> QED BY <1>3, <1>4, <1>5

\* The types of the events that are saved or wait.
EventTypes ==
    /\ rows \in Seq(Event) /\ exists \in BOOLEAN
    /\ made \in [Recorders -> 0..MaxRecorded] /\ dropped \in [Recorders -> Nat]
    /\ buffer \in [Recorders -> Seq(Event)] /\ batch \in [Recorders -> Seq(Event)]

LEMMA EventTypesStep ==
  ASSUME JournalTypeOK, InTime, Queued, Tried, [JournalNext]_journalVars
  PROVE EventTypes'
<1>0. EventTypes
  BY DEF JournalTypeOK, EventTypes
<1>1. ASSUME NEW r \in Recorders, Publishes(r) PROVE EventTypes'
  <2>1. made[r] + 1 \in 1..MaxRecorded /\ dropped[r] + 1 \in Nat
    BY <1>0, <1>1, JournalAssumption DEF EventTypes, Publishes
  <2>2. New(r) \in Event
    BY <2>1 DEF New, Event
  <2>3. Append(buffer[r], New(r)) \in Seq(Event)
    BY <1>0, <2>2 DEF EventTypes
  <2>4. made' \in [Recorders -> 0..MaxRecorded]
    BY <1>0, <1>1, <2>1 DEF EventTypes, Publishes
  <2>5. dropped' \in [Recorders -> Nat] /\ buffer' \in [Recorders -> Seq(Event)]
    BY <1>0, <1>1, <2>1, <2>3 DEF EventTypes, Publishes, CountDropped
  <2> QED BY <1>0, <1>1, <2>4, <2>5 DEF EventTypes, Publishes
<1>2. ASSUME NEW r \in Recorders, Takes(r) PROVE EventTypes'
  <2>1. PICK n \in 1..Len(buffer[r]) :
            /\ batch' = [batch EXCEPT ![r] = SubSeq(buffer[r], 1, n)]
            /\ buffer' = [buffer EXCEPT ![r] = SubSeq(@, n + 1, Len(@))]
    BY <1>2 DEF Takes
  <2>2. buffer[r] \in Seq(Event) /\ Len(buffer[r]) \in Nat
    BY <1>0 DEF EventTypes
  <2>3. /\ SubSeq(buffer[r], 1, n) \in Seq(Event)
        /\ SubSeq(buffer[r], n + 1, Len(buffer[r])) \in Seq(Event)
    <3>1. /\ \A i \in 1..n : buffer[r][i] \in Event
          /\ \A i \in n + 1..Len(buffer[r]) : buffer[r][i] \in Event
      BY <2>2
    <3> QED BY <2>2, <3>1, SubSeqProperties
  <2> QED BY <1>0, <1>2, <2>1, <2>3 DEF EventTypes, Takes
<1>3. ASSUME NEW r \in Recorders, Tries(r) PROVE EventTypes'
  <2>1. batch[r] \in Seq(Event) /\ dropped[r] + Len(batch[r]) \in Nat /\ <<>> \in Seq(Event)
    BY <1>0 DEF EventTypes
  <2>2. rows' \in Seq(Event)
    <3>1. rows \in Seq(Event) /\ rows \o batch[r] \in Seq(Event)
      BY <1>0, <2>1, ConcatProperties DEF EventTypes
    <3> QED BY <1>3, <3>1, Insertion DEF Tries
  <2>3. dropped' \in [Recorders -> Nat] /\ batch' \in [Recorders -> Seq(Event)]
    BY <1>0, <1>3, <2>1 DEF EventTypes, Tries, CountDropped
  <2> QED BY <1>0, <1>3, <2>2, <2>3 DEF EventTypes, Tries
<1>4. ASSUME NEW r \in Recorders, Discards(r) PROVE EventTypes'
  <2>1. dropped[r] + Len(buffer[r]) \in Nat /\ <<>> \in Seq(Event)
    BY <1>0 DEF EventTypes
  <2> QED BY <1>0, <1>4, <2>1 DEF EventTypes, Discards, CountDropped
<1>5. CASE Deletes \/ Rests
  <2>1. /\ rows' = rows \/ rows' = <<>>
        /\ exists' = exists \/ exists' = FALSE
        /\ made' = made /\ buffer' = buffer /\ batch' = batch /\ dropped' = dropped
    BY <1>5 DEF Deletes, Rests
  <2>2. rows' \in Seq(Event)
    <3>1. rows \in Seq(Event) /\ <<>> \in Seq(Event)
      BY <1>0 DEF EventTypes
    <3> QED BY <2>1, <3>1
  <2>3. exists' \in BOOLEAN
    BY <1>0, <2>1, Zenon DEF EventTypes
  <2> QED BY <1>0, <2>1, <2>2, <2>3, Zenon DEF EventTypes
<1> QED BY <1>1, <1>2, <1>3, <1>4, <1>5, JournalMoves

\* The other variables keep their types, and a writer its place.
LEMMA WriterTypesStep ==
  ASSUME JournalTypeOK, InTime, [JournalNext]_journalVars
  PROVE /\ writer' \in [Recorders -> {"none", "loop", "writing", "waiting", "ended"}]
        /\ attempt' \in [Recorders -> 0..MaxAttempts]
        /\ closing' \in [Recorders -> BOOLEAN] /\ abandon' \in [Recorders -> BOOLEAN]
        /\ failures' \in 0..MaxFailures
        /\ InTime'
<1> DEFINE W == {"none", "loop", "writing", "waiting", "ended"}
           WT == /\ writer \in [Recorders -> W] /\ attempt \in [Recorders -> 0..MaxAttempts]
                 /\ batch \in [Recorders -> Seq(Event)]
           CT == closing \in [Recorders -> BOOLEAN] /\ abandon \in [Recorders -> BOOLEAN]
           FT == failures \in 0..MaxFailures
           WT1 == /\ writer' \in [Recorders -> W] /\ attempt' \in [Recorders -> 0..MaxAttempts]
                  /\ InTime'
           CT1 == closing' \in [Recorders -> BOOLEAN] /\ abandon' \in [Recorders -> BOOLEAN]
           FT1 == failures' \in 0..MaxFailures
<1>0. /\ WT /\ CT /\ FT
      /\ MaxAttempts \in Nat \ {0} /\ MaxFailures \in Nat
  BY JournalAssumption DEF JournalTypeOK
<1> SUFFICES WT1 /\ CT1 /\ FT1
  OBVIOUS
<1>1. ASSUME NEW r \in Recorders, RecordEvent(r) PROVE WT1 /\ CT1 /\ FT1
  <2>1. /\ writer' = writer \/ writer' = [writer EXCEPT ![r] = IF @ = "none" THEN "loop" ELSE @]
        /\ batch' = batch /\ attempt' = attempt
    BY <1>1 DEF RecordEvent
  <2>2. closing' = closing /\ abandon' = abandon /\ failures' = failures
    BY <1>1 DEF RecordEvent
  <2>3. WT1
    BY <1>0, <2>1 DEF InTime
  <2>4. CT1
    BY <1>0, <2>2, Zenon
  <2>5. FT1
    BY <1>0, <2>2
  <2> QED BY <2>3, <2>4, <2>5
<1>2. ASSUME NEW r \in Recorders, TakeBatch(r) \/ WriterEnds(r) PROVE WT1 /\ CT1 /\ FT1
  <2>1. \/ /\ writer' = [writer EXCEPT ![r] = "writing"] /\ attempt' = [attempt EXCEPT ![r] = 1]
           /\ \A q \in Recorders : q # r => batch'[q] = batch[q]
        \/ /\ writer' = [writer EXCEPT ![r] = "ended"] /\ writer[r] = "loop"
           /\ batch' = batch /\ attempt' = attempt
    BY <1>0, <1>2 DEF TakeBatch, WriterEnds
  <2>2. closing' = closing /\ abandon' = abandon /\ failures' = failures
    BY <1>2 DEF TakeBatch, WriterEnds
  <2>3. WT1
    <3>1. CASE /\ writer' = [writer EXCEPT ![r] = "writing"] /\ attempt' = [attempt EXCEPT ![r] = 1]
               /\ \A q \in Recorders : q # r => batch'[q] = batch[q]
      <4>1. \A q \in Recorders : writer'[q] = IF q = r THEN "writing" ELSE writer[q]
        BY <1>0, <3>1
      <4>2. \A q \in Recorders : q # r => attempt'[q] = attempt[q]
        BY <1>0, <3>1
      <4>3. InTime'
        BY <3>1, <4>1, <4>2 DEF InTime
      <4> QED BY <1>0, <3>1, <4>3
    <3>2. CASE writer' = [writer EXCEPT ![r] = "ended"] /\ writer[r] = "loop" /\ batch' = batch
               /\ attempt' = attempt
      BY <1>0, <3>2 DEF InTime
    <3> QED BY <2>1, <3>1, <3>2
  <2>4. CT1
    BY <1>0, <2>2, Zenon
  <2>5. FT1
    BY <1>0, <2>2
  <2> QED BY <2>3, <2>4, <2>5
<1>3. ASSUME NEW r \in Recorders, Write(r) \/ WriteFails(r) \/ WriteRefused(r) \/ Retry(r)
      PROVE WT1 /\ CT1 /\ FT1
  <2>1. BatchDone(r) => WT1
    <3> HAVE BatchDone(r)
    <3>1. /\ writer' = [writer EXCEPT ![r] = "loop"] /\ attempt' = [attempt EXCEPT ![r] = 0]
          /\ batch' = [batch EXCEPT ![r] = <<>>]
      BY DEF BatchDone
    <3> QED BY <1>0, <3>1 DEF InTime
  <2>2. Failed(r) => WT1
    <3>1. CASE attempt[r] < MaxAttempts /\ ~abandon[r]
      <4> HAVE Failed(r)
      <4>1. /\ writer' = [writer EXCEPT ![r] = "waiting"]
            /\ batch' = batch /\ attempt' = attempt /\ attempt[r] < MaxAttempts
        BY <3>1 DEF Failed
      <4> QED BY <1>0, <4>1 DEF InTime
    <3>2. CASE ~(attempt[r] < MaxAttempts /\ ~abandon[r])
      BY <2>1, <3>2 DEF Failed, GiveUp
    <3> QED BY <3>1, <3>2
  <2>3. CASE Write(r)
    <3>1. BatchDone(r) /\ closing' = closing /\ abandon' = abandon /\ failures' = failures
      BY <2>3 DEF Write
    <3>2. CT1
      BY <1>0, <3>1, Zenon
    <3> QED BY <1>0, <2>1, <3>1, <3>2
  <2>4. CASE WriteFails(r) \/ WriteRefused(r)
    <3>1. /\ Failed(r) /\ closing' = closing /\ abandon' = abandon
          /\ failures' = failures \/ (failures < MaxFailures /\ failures' = failures + 1)
      BY <2>4 DEF WriteFails, WriteRefused
    <3>2. CT1
      BY <1>0, <3>1, Zenon
    <3>3. FT1
      BY <1>0, <3>1
    <3> QED BY <2>2, <3>1, <3>2, <3>3
  <2>5. CASE Retry(r)
    <3>1. closing' = closing /\ abandon' = abandon /\ failures' = failures
      BY <2>5 DEF Retry
    <3>2. CT1
      BY <1>0, <3>1, Zenon
    <3>3. WT1
      <4>1. CASE abandon[r]
        BY <2>1, <2>5, <4>1 DEF Retry, GiveUp
      <4>2. CASE ~abandon[r]
        <5>1. /\ writer' = [writer EXCEPT ![r] = "writing"] /\ attempt' = [attempt EXCEPT ![r] = @ + 1]
              /\ batch' = batch /\ writer[r] = "waiting"
          BY <2>5, <4>2 DEF Retry
        <5>2. attempt[r] + 1 \in 0..MaxAttempts
          BY <1>0, <5>1 DEF InTime
        <5> QED BY <1>0, <5>1, <5>2 DEF InTime
      <4> QED BY <4>1, <4>2
    <3> QED BY <1>0, <3>1, <3>2, <3>3
  <2> QED BY <1>3, <2>3, <2>4, <2>5
<1>4. ASSUME NEW r \in Recorders, Close(r) \/ CloseTimeout(r) PROVE WT1 /\ CT1 /\ FT1
  <2>1. /\ writer' = writer /\ attempt' = attempt /\ batch' = batch /\ failures' = failures
    BY <1>4 DEF Close, CloseTimeout
  <2>2. /\ closing' = closing \/ closing' = [closing EXCEPT ![r] = TRUE]
        /\ abandon' = abandon \/ abandon' = [abandon EXCEPT ![r] = TRUE]
    BY <1>4 DEF Close, CloseTimeout
  <2>3. CT1
    BY <1>0, <2>2
  <2>4. WT1
    BY <1>0, <2>1 DEF InTime
  <2> QED BY <1>0, <2>1, <2>3, <2>4
<1>5. CASE DeleteThread \/ Done \/ UNCHANGED journalVars
  <2>1. /\ writer' = writer /\ attempt' = attempt /\ batch' = batch /\ failures' = failures
        /\ closing' = closing /\ abandon' = abandon
    BY <1>5 DEF DeleteThread, Done, journalVars, recorder
  <2>2. CT1
    BY <1>0, <2>1, Zenon
  <2>3. WT1
    BY <1>0, <2>1 DEF InTime
  <2> QED BY <1>0, <2>1, <2>2, <2>3
<1> QED BY <1>1, <1>2, <1>3, <1>4, <1>5 DEF JournalNext, WriterStep

\* What an attempt adds to the rows.
LEMMA RowsGrow ==
  ASSUME JournalTypeOK, Queued, Tried, NEW r \in Recorders, Tries(r)
  PROVE LET L == Len(rows)
            B == batch[r]
        IN /\ L \in Nat /\ Len(B) \in Nat /\ Len(rows') \in {L, L + Len(B)}
           /\ \A i \in 1..L : rows'[i] = rows[i]
           /\ Len(rows') # L =>
                  /\ exists /\ Len(rows') = L + Len(B)
                  /\ \A j \in 1..Len(B) : rows'[L + j] = B[j]
                  /\ \A i \in 1..L, j \in 1..Len(B) : rows[i].of = r => rows[i].n < B[j].n
           /\ rows' = rows \/ exists
           /\ AppendBatch(B) => \A j \in 1..Len(B) : In(B[j], rows')
<1> DEFINE L == Len(rows)
           B == batch[r]
<1>1. B \in Seq(Event) /\ rows \in Seq(Event) /\ Len(B) \in Nat /\ L \in Nat
  BY DEF JournalTypeOK
<1>2. CASE rows' = rows /\ (AppendBatch(B) => \A j \in 1..Len(B) : In(B[j], rows))
  BY <1>1, <1>2
<1>3. CASE /\ rows' = rows \o B /\ exists
           /\ \A i \in 1..L, j \in 1..Len(B) : rows[i].of = r => rows[i].n < B[j].n
  <2>1. /\ Len(rows') = L + Len(B) /\ \A i \in 1..L : rows'[i] = rows[i]
        /\ \A j \in 1..Len(B) : rows'[L + j] = B[j]
    <3>1. /\ \A i \in 1..L : i \in 1..L + Len(B) /\ i <= L
          /\ \A j \in 1..Len(B) : L + j \in 1..L + Len(B) /\ ~(L + j <= L) /\ L + j - L = j
      BY <1>1
    <3> HIDE DEF B
    <3> QED BY <1>1, <1>3, <3>1, ConcatProperties
  <2>2. \A j \in 1..Len(B) : In(B[j], rows')
    <3>1. \A j \in 1..Len(B) : L + j \in 1..Len(rows')
      BY <1>1, <2>1
    <3> QED BY <2>1, <3>1 DEF In
  <2> QED BY <1>1, <1>3, <2>1, <2>2
<1>4. \/ rows' = rows /\ ~AppendBatch(B)
      \/ AppendBatch(B) /\ (rows' = rows \/ exists)
  BY DEF Tries
<1>5. AppendBatch(B) =>
          \/ rows' = rows /\ \A j \in 1..Len(B) : In(B[j], rows)
          \/ /\ rows' = rows \o B
             /\ \A i \in 1..L, j \in 1..Len(B) : rows[i].of = r => rows[i].n < B[j].n
  BY Insertion
<1>6. CASE B = <<>> /\ rows' = rows \o B
  <2>1. rows' = rows /\ \A j \in 1..Len(B) : In(B[j], rows)
    BY <1>1, <1>6
  <2> QED BY <1>2, <2>1
<1> HIDE DEF L, B
<1>7. CASE rows' = rows /\ rows' = rows \o B /\ B # <<>>
  BY <1>1, <1>7, ConcatEqualIffEmpty
<1> QED BY <1>2, <1>3, <1>4, <1>5, <1>6, <1>7 DEF L, B

\* Who is not concerned keeps what waits; a published event comes last.
LEMMA PublishIs ==
  ASSUME JournalTypeOK, NEW r \in Recorders, Publishes(r)
  PROVE LET L == Len(buffer[r])
        IN /\ L \in Nat /\ made[r] \in Nat /\ made'[r] = made[r] + 1
           /\ \A q \in Recorders : q # r => buffer'[q] = buffer[q] /\ made'[q] = made[q]
           /\ \/ buffer'[r] = buffer[r]
              \/ /\ Len(buffer'[r]) = L + 1 /\ buffer'[r][L + 1] = New(r)
                 /\ \A i \in 1..L : buffer'[r][i] = buffer[r][i]
<1> DEFINE B == buffer[r]
           L == Len(B)
<1>1. B \in Seq(Event) /\ L \in Nat /\ made[r] \in Nat
  BY DEF JournalTypeOK
<1>2. /\ made'[r] = made[r] + 1 /\ \A q \in Recorders : q # r => made'[q] = made[q]
  BY DEF JournalTypeOK, Publishes
<1>3. /\ buffer'[r] \in {B, Append(B, New(r))}
      /\ \A q \in Recorders : q # r => buffer'[q] = buffer[q]
  BY DEF JournalTypeOK, Publishes
<1>4. New(r) \in Event
  <2>1. made[r] + 1 \in 1..MaxRecorded
    BY <1>1, JournalAssumption DEF Publishes
  <2> QED BY <2>1 DEF New, Event
<1>5. /\ Len(Append(B, New(r))) = L + 1 /\ Append(B, New(r))[L + 1] = New(r)
      /\ \A i \in 1..L : Append(B, New(r))[i] = B[i]
  <2> HIDE DEF B
  <2> QED BY <1>1, <1>4, AppendProperties
<1> QED BY <1>1, <1>2, <1>3, <1>5

\* The batch taken is the first part of what waits.
LEMMA TakeIs ==
  ASSUME JournalTypeOK, NEW r \in Recorders, Takes(r)
  PROVE /\ \A q \in Recorders : q # r => buffer'[q] = buffer[q] /\ batch'[q] = batch[q]
        /\ batch[r] = <<>> /\ Len(buffer[r]) \in Nat
        /\ \E n \in 1..Len(buffer[r]) :
               /\ Len(batch'[r]) = n /\ Len(buffer'[r]) = Len(buffer[r]) - n
               /\ \A i \in 1..n : batch'[r][i] = buffer[r][i]
               /\ \A i \in 1..Len(buffer[r]) - n : buffer'[r][i] = buffer[r][n + i]
<1> DEFINE B == buffer[r]
           L == Len(B)
<1>1. PICK n \in 1..Len(buffer[r]) :
          /\ batch' = [batch EXCEPT ![r] = SubSeq(buffer[r], 1, n)]
          /\ buffer' = [buffer EXCEPT ![r] = SubSeq(@, n + 1, Len(@))]
  BY DEF Takes
<1>2. B \in Seq(Event) /\ L \in Nat
  BY DEF JournalTypeOK
<1>3. /\ batch'[r] = SubSeq(B, 1, n) /\ buffer'[r] = SubSeq(B, n + 1, L)
      /\ \A q \in Recorders : q # r => buffer'[q] = buffer[q] /\ batch'[q] = batch[q]
  BY <1>1 DEF JournalTypeOK
<1> HIDE DEF B
<1>4. Len(SubSeq(B, 1, n)) = n /\ \A i \in 1..n : SubSeq(B, 1, n)[i] = B[i]
  <2>1. /\ n \in Int /\ 1 <= n /\ n - 1 + 1 = n
        /\ \A i \in 1..n : B[i] \in Event /\ 1 + i - 1 = i
    BY <1>2 DEF B
  <2> QED BY <2>1, SubSeqProperties
<1>5. /\ Len(SubSeq(B, n + 1, L)) = L - n
      /\ \A i \in 1..L - n : SubSeq(B, n + 1, L)[i] = B[n + i]
  <2>1. /\ n + 1 \in Int /\ L \in Int /\ L - (n + 1) + 1 = L - n
        /\ (IF n + 1 <= L THEN L - (n + 1) + 1 ELSE 0) = L - n
        /\ \A i \in n + 1..L : B[i] \in Event
        /\ \A i \in 1..L - n : n + 1 + i - 1 = n + i
    BY <1>2 DEF B
  <2> HIDE DEF L
  <2>2. /\ Len(SubSeq(B, n + 1, L)) = IF n + 1 <= L THEN L - (n + 1) + 1 ELSE 0
        /\ \A i \in 1..L - (n + 1) + 1 : SubSeq(B, n + 1, L)[i] = B[n + 1 + i - 1]
    BY <2>1, SubSeqProperties
  <2> QED BY <2>1, <2>2
<1>6. batch[r] = <<>>
  BY DEF Takes
<1>7. /\ Len(batch'[r]) = n /\ Len(buffer'[r]) = L - n
      /\ \A i \in 1..n : batch'[r][i] = B[i]
      /\ \A i \in 1..L - n : buffer'[r][i] = B[n + i]
  BY <1>3, <1>4, <1>5
<1> QED BY <1>2, <1>3, <1>6, <1>7 DEF B

LEMMA QueuedStep ==
  ASSUME JournalTypeOK, InTime, Queued, [JournalNext]_journalVars
  PROVE Queued'
<1>0. \A q \in Recorders : /\ made[q] \in Nat /\ Len(batch[q]) \in Nat /\ Len(buffer[q]) \in Nat
                           /\ \A i \in 1..Len(batch[q]) : batch[q][i].n \in Nat
                           /\ \A i \in 1..Len(buffer[q]) : buffer[q][i].n \in Nat
  <2> SUFFICES ASSUME NEW q \in Recorders
               PROVE /\ made[q] \in Nat /\ Len(batch[q]) \in Nat /\ Len(buffer[q]) \in Nat
                     /\ \A i \in 1..Len(batch[q]) : batch[q][i].n \in Nat
                     /\ \A i \in 1..Len(buffer[q]) : buffer[q][i].n \in Nat
    OBVIOUS
  <2>1. batch[q] \in Seq(Event) /\ buffer[q] \in Seq(Event) /\ made[q] \in Nat
    BY DEF JournalTypeOK
  <2>2. /\ \A i \in 1..Len(batch[q]) : batch[q][i] \in Event
        /\ \A i \in 1..Len(buffer[q]) : buffer[q][i] \in Event
    BY <2>1
  <2> QED BY <2>1, <2>2 DEF Event
<1>1. ASSUME NEW r \in Recorders, Publishes(r) PROVE Queued'
  <2>1. batch' = batch
    BY <1>1 DEF Publishes
  <2>2. New(r).of = r /\ New(r).n = made[r] + 1
    BY DEF New
  <2> SUFFICES ASSUME NEW q \in Recorders
               PROVE /\ \A i \in 1..Len(buffer'[q]) :
                            buffer'[q][i].of = q /\ buffer'[q][i].n <= made'[q]
                     /\ \A i \in 1..Len(batch[q]) : batch[q][i].of = q /\ batch[q][i].n <= made'[q]
                     /\ Rising(buffer'[q]) /\ Rising(batch[q])
                     /\ \A i \in 1..Len(batch[q]), j \in 1..Len(buffer'[q]) :
                            batch[q][i].n < buffer'[q][j].n
    BY <2>1 DEF Queued
  <2>3. CASE buffer'[q] = buffer[q]
    <3>1. made'[q] \in {made[q], made[q] + 1}
      BY <1>1, PublishIs
    <3>2. /\ Rising(buffer[q]) /\ Rising(batch[q])
          /\ \A i \in 1..Len(buffer[q]) : buffer[q][i].of = q /\ buffer[q][i].n <= made[q]
          /\ \A i \in 1..Len(batch[q]) : batch[q][i].of = q /\ batch[q][i].n <= made[q]
          /\ \A i \in 1..Len(batch[q]), j \in 1..Len(buffer[q]) :
                 batch[q][i].n < buffer[q][j].n
      BY DEF Queued
    <3>3. /\ \A i \in 1..Len(buffer[q]) : buffer[q][i].n <= made'[q]
          /\ \A i \in 1..Len(batch[q]) : batch[q][i].n <= made'[q]
      BY <1>0, <3>1, <3>2
    <3> QED BY <2>3, <3>2, <3>3
  <2>4. CASE buffer'[q] # buffer[q]
    <3>1. /\ q = r /\ made'[r] = made[r] + 1
          /\ Len(buffer'[r]) = Len(buffer[r]) + 1 /\ buffer'[r][Len(buffer[r]) + 1] = New(r)
          /\ \A i \in 1..Len(buffer[r]) : buffer'[r][i] = buffer[r][i]
      BY <1>1, <2>4, PublishIs
    <3>2. \A i \in 1..Len(buffer'[r]) : i \in 1..Len(buffer[r]) \/ i = Len(buffer[r]) + 1
      BY <1>0, <3>1
    <3>3. \A i \in 1..Len(buffer[r]) :
              buffer[r][i].of = r /\ buffer[r][i].n <= made[r] /\ buffer[r][i].n < made[r] + 1
      <4>1. \A i \in 1..Len(buffer[r]) : buffer[r][i].of = r /\ buffer[r][i].n <= made[r]
        BY DEF Queued
      <4> QED BY <1>0, <4>1
    <3>4. \A i \in 1..Len(buffer'[r]) : buffer'[r][i].of = r /\ buffer'[r][i].n <= made'[r]
      <4> SUFFICES ASSUME NEW i \in 1..Len(buffer'[r])
                   PROVE buffer'[r][i].of = r /\ buffer'[r][i].n <= made[r] + 1
        BY <3>1
      <4>1. CASE i \in 1..Len(buffer[r])
        <5>1. buffer'[r][i] = buffer[r][i]
          BY <3>1, <4>1
        <5>2. buffer[r][i].of = r /\ buffer[r][i].n < made[r] + 1
          BY <3>3, <4>1
        <5>3. buffer[r][i].n \in Int /\ made[r] \in Int
          BY <1>0, <4>1
        <5> QED BY <5>1, <5>2, <5>3
      <4>2. CASE i = Len(buffer[r]) + 1
        <5>1. buffer'[r][i] = New(r)
          BY <3>1, <4>2
        <5>2. made[r] + 1 <= made[r] + 1
          BY <1>0
        <5> QED BY <2>2, <5>1, <5>2
      <4> QED BY <3>2, <4>1, <4>2
    <3>5. \A i \in 1..Len(batch[r]) :
              /\ batch[r][i].of = r /\ batch[r][i].n <= made'[r] /\ batch[r][i].n < made[r] + 1
      BY <1>0, <3>1 DEF Queued
    <3>6. Rising(buffer'[r])
      <4> SUFFICES ASSUME NEW i \in 1..Len(buffer'[r]), NEW j \in 1..Len(buffer'[r]), i < j
                   PROVE buffer'[r][i].n < buffer'[r][j].n
        BY DEF Rising
      <4>1. i \in 1..Len(buffer[r])
        BY <1>0, <3>1
      <4>2. CASE j \in 1..Len(buffer[r])
        BY <3>1, <4>1, <4>2 DEF Queued, Rising
      <4>3. CASE j = Len(buffer[r]) + 1
        BY <2>2, <3>1, <3>3, <4>1, <4>3
      <4> QED BY <3>2, <4>2, <4>3
    <3>7. \A i \in 1..Len(batch[r]), j \in 1..Len(buffer'[r]) : batch[r][i].n < buffer'[r][j].n
      BY <2>2, <3>1, <3>2, <3>5 DEF Queued
    <3> QED BY <3>1, <3>4, <3>5, <3>6, <3>7 DEF Queued
  <2> QED BY <2>3, <2>4
<1>2. ASSUME NEW r \in Recorders, Takes(r) PROVE Queued'
  <2>1. made' = made /\ \A q \in Recorders : q # r => buffer'[q] = buffer[q] /\ batch'[q] = batch[q]
    BY <1>2, TakeIs DEF Takes
  <2>2. PICK n \in 1..Len(buffer[r]) :
            /\ Len(batch'[r]) = n /\ Len(buffer'[r]) = Len(buffer[r]) - n
            /\ \A i \in 1..n : batch'[r][i] = buffer[r][i]
            /\ \A i \in 1..Len(buffer[r]) - n : buffer'[r][i] = buffer[r][n + i]
    BY <1>2, TakeIs
  <2>3. /\ \A i \in 1..n : i \in 1..Len(buffer[r])
        /\ \A i \in 1..Len(buffer[r]) - n : n + i \in 1..Len(buffer[r])
        /\ \A i \in 1..n, j \in 1..Len(buffer[r]) - n : i < n + j
        /\ \A i, j \in 1..Len(buffer[r]) - n : i < j => n + i < n + j
    BY <1>0
  <2>4. /\ \A i \in 1..Len(buffer[r]) : buffer[r][i].of = r /\ buffer[r][i].n <= made[r]
        /\ Rising(buffer[r])
    BY DEF Queued
  <2>5. /\ \A i \in 1..Len(buffer'[r]) : buffer'[r][i].of = r /\ buffer'[r][i].n <= made[r]
        /\ \A i \in 1..Len(batch'[r]) : batch'[r][i].of = r /\ batch'[r][i].n <= made[r]
    BY <2>2, <2>3, <2>4, SMTT(40)
  <2>6. /\ Rising(buffer'[r]) /\ Rising(batch'[r])
        /\ \A i \in 1..Len(batch'[r]), j \in 1..Len(buffer'[r]) : batch'[r][i].n < buffer'[r][j].n
    <3>1. \A i, j \in 1..Len(buffer[r]) : i < j => buffer[r][i].n < buffer[r][j].n
      BY <2>4 DEF Rising
    <3>2. Rising(batch'[r])
      BY <2>2, <2>3, <3>1 DEF Rising
    <3>3. Rising(buffer'[r])
      <4> SUFFICES ASSUME NEW i \in 1..Len(buffer[r]) - n, NEW j \in 1..Len(buffer[r]) - n, i < j
                   PROVE buffer'[r][i].n < buffer'[r][j].n
        BY <2>2 DEF Rising
      <4>1. n + i \in 1..Len(buffer[r]) /\ n + j \in 1..Len(buffer[r]) /\ n + i < n + j
        BY <2>3
      <4>2. buffer'[r][i] = buffer[r][n + i] /\ buffer'[r][j] = buffer[r][n + j]
        BY <2>2
      <4> QED BY <3>1, <4>1, <4>2
    <3>4. \A i \in 1..Len(batch'[r]), j \in 1..Len(buffer'[r]) : batch'[r][i].n < buffer'[r][j].n
      BY <2>2, <2>3, <3>1
    <3> QED BY <3>2, <3>3, <3>4
  <2> SUFFICES ASSUME NEW q \in Recorders
               PROVE /\ \A i \in 1..Len(buffer'[q]) :
                            buffer'[q][i].of = q /\ buffer'[q][i].n <= made[q]
                     /\ \A i \in 1..Len(batch'[q]) : batch'[q][i].of = q /\ batch'[q][i].n <= made[q]
                     /\ Rising(buffer'[q]) /\ Rising(batch'[q])
                     /\ \A i \in 1..Len(batch'[q]), j \in 1..Len(buffer'[q]) :
                            batch'[q][i].n < buffer'[q][j].n
    BY <2>1 DEF Queued
  <2>7. CASE q = r
    BY <2>5, <2>6, <2>7
  <2>8. CASE q # r
    BY <2>1, <2>8 DEF Queued
  <2> QED BY <2>7, <2>8
<1>3. CASE /\ made' = made
           /\ \A q \in Recorders : /\ buffer'[q] \in {buffer[q], <<>>}
                                   /\ batch'[q] \in {batch[q], <<>>}
  <2> SUFFICES ASSUME NEW q \in Recorders
               PROVE /\ \A i \in 1..Len(buffer'[q]) :
                            buffer'[q][i].of = q /\ buffer'[q][i].n <= made[q]
                     /\ \A i \in 1..Len(batch'[q]) : batch'[q][i].of = q /\ batch'[q][i].n <= made[q]
                     /\ Rising(buffer'[q]) /\ Rising(batch'[q])
                     /\ \A i \in 1..Len(batch'[q]), j \in 1..Len(buffer'[q]) :
                            batch'[q][i].n < buffer'[q][j].n
    BY <1>3 DEF Queued
  <2>1. buffer'[q] = buffer[q] \/ Len(buffer'[q]) = 0
    BY <1>3
  <2>2. batch'[q] = batch[q] \/ Len(batch'[q]) = 0
    BY <1>3
  <2>3. /\ \A i \in 1..Len(buffer'[q]) : buffer'[q][i].of = q /\ buffer'[q][i].n <= made[q]
        /\ Rising(buffer'[q])
    BY <2>1 DEF Queued, Rising
  <2>4. /\ \A i \in 1..Len(batch'[q]) : batch'[q][i].of = q /\ batch'[q][i].n <= made[q]
        /\ Rising(batch'[q])
    BY <2>2 DEF Queued, Rising
  <2>5. \A i \in 1..Len(batch'[q]), j \in 1..Len(buffer'[q]) : batch'[q][i].n < buffer'[q][j].n
    BY <2>1, <2>2 DEF Queued
  <2> QED BY <2>3, <2>4, <2>5
<1>4. ASSUME NEW r \in Recorders, Tries(r) \/ Discards(r)
      PROVE /\ made' = made
            /\ \A q \in Recorders : buffer'[q] \in {buffer[q], <<>>} /\ batch'[q] \in {batch[q], <<>>}
  <2>1. /\ buffer' = buffer \/ buffer' = [buffer EXCEPT ![r] = <<>>]
        /\ batch' = batch \/ batch' = [batch EXCEPT ![r] = <<>>]
        /\ made' = made
    BY <1>4 DEF Tries, Discards
  <2> QED BY <2>1 DEF JournalTypeOK
<1>5. Deletes \/ Rests => buffer' = buffer /\ batch' = batch /\ made' = made
  BY DEF Deletes, Rests
<1> QED BY <1>1, <1>2, <1>3, <1>4, <1>5, JournalMoves

\* The numbers of events are numbers.
LEMMA NumbersAre ==
  ASSUME JournalTypeOK
  PROVE /\ Len(rows) \in Nat
        /\ \A i \in 1..Len(rows) : rows[i].of \in Recorders /\ rows[i].n \in Nat
        /\ \A q \in Recorders :
               /\ made[q] \in Nat /\ Len(batch[q]) \in Nat /\ Len(buffer[q]) \in Nat
               /\ \A i \in 1..Len(batch[q]) : batch[q][i].n \in Nat
               /\ \A i \in 1..Len(buffer[q]) : buffer[q][i].n \in Nat
<1>1. rows \in Seq(Event) /\ \A i \in 1..Len(rows) : rows[i] \in Event
  BY DEF JournalTypeOK
<1>2. ASSUME NEW q \in Recorders
      PROVE /\ made[q] \in Nat /\ Len(batch[q]) \in Nat /\ Len(buffer[q]) \in Nat
            /\ \A i \in 1..Len(batch[q]) : batch[q][i].n \in Nat
            /\ \A i \in 1..Len(buffer[q]) : buffer[q][i].n \in Nat
  <2>1. batch[q] \in Seq(Event) /\ buffer[q] \in Seq(Event) /\ made[q] \in Nat
    BY DEF JournalTypeOK
  <2>2. /\ \A i \in 1..Len(batch[q]) : batch[q][i] \in Event
        /\ \A i \in 1..Len(buffer[q]) : buffer[q][i] \in Event
    BY <2>1
  <2> QED BY <2>1, <2>2 DEF Event
<1> QED BY <1>1, <1>2 DEF Event

LEMMA SavedBeforeStep ==
  ASSUME JournalTypeOK, InTime, Queued, Tried, SavedBefore, [JournalNext]_journalVars
  PROVE SavedBefore'
<1> DEFINE Before(x, m, b) == /\ x.n <= m[x.of]
                              /\ \A j \in 1..Len(b[x.of]) : x.n < b[x.of][j].n
<1>0. \A i \in 1..Len(rows) : rows[i].of \in Recorders /\ rows[i].n \in Nat
  BY NumbersAre
<1>1. \A i \in 1..Len(rows) : Before(rows[i], made, buffer)
  BY DEF SavedBefore
<1> SUFFICES \A i \in 1..Len(rows') : Before(rows'[i], made', buffer')
  BY DEF SavedBefore
<1>2. ASSUME NEW r \in Recorders, Publishes(r), NEW i \in 1..Len(rows)
      PROVE Before(rows[i], made', buffer')
  <2> DEFINE q == rows[i].of
             L == Len(buffer[q])
  <2>1. q \in Recorders /\ rows[i].n \in Nat /\ made[q] \in Nat /\ L \in Nat
    BY NumbersAre
  <2>2. rows[i].n <= made[q] /\ \A j \in 1..L : rows[i].n < buffer[q][j].n
    BY <1>1
  <2>3. made'[q] \in {made[q], made[q] + 1}
    BY <1>2, <2>1, PublishIs
  <2>4. CASE buffer'[q] = buffer[q]
    BY <2>1, <2>2, <2>3, <2>4
  <2>5. CASE buffer'[q] # buffer[q]
    <3>1. /\ q = r /\ Len(buffer'[q]) = L + 1 /\ buffer'[q][L + 1] = New(r)
          /\ \A j \in 1..L : buffer'[q][j] = buffer[q][j]
      BY <1>2, <2>1, <2>5, PublishIs
    <3>2. New(r).n = made[q] + 1
      BY <3>1 DEF New
    <3>3. \A j \in 1..L + 1 : j \in 1..L \/ j = L + 1
      BY <2>1
    <3>4. rows[i].n < made[q] + 1
      BY <2>1, <2>2
    <3>5. \A j \in 1..Len(buffer'[q]) : rows[i].n < buffer'[q][j].n
      BY <2>2, <3>1, <3>2, <3>3, <3>4
    <3> QED BY <2>1, <2>2, <2>3, <3>5
  <2> QED BY <2>4, <2>5
<1>3. ASSUME NEW r \in Recorders, Takes(r), NEW i \in 1..Len(rows)
      PROVE Before(rows[i], made', buffer')
  <2> DEFINE q == rows[i].of
  <2>1. made' = made /\ q \in Recorders
    BY <1>0, <1>3 DEF Takes
  <2>2. \A j \in 1..Len(buffer'[q]) : \E k \in 1..Len(buffer[q]) : buffer'[q][j] = buffer[q][k]
    <3>1. CASE q # r
      BY <1>3, <2>1, <3>1, TakeIs
    <3>2. CASE q = r
      <4>1. PICK n \in 1..Len(buffer[r]) :
                /\ Len(buffer'[r]) = Len(buffer[r]) - n
                /\ \A j \in 1..Len(buffer[r]) - n : buffer'[r][j] = buffer[r][n + j]
        BY <1>3, TakeIs
      <4>2. \A j \in 1..Len(buffer[r]) - n : n + j \in 1..Len(buffer[r])
        BY NumbersAre
      <4> QED BY <3>2, <4>1, <4>2
    <3> QED BY <3>1, <3>2
  <2> QED BY <1>1, <2>1, <2>2
<1>4. ASSUME NEW r \in Recorders, Tries(r), NEW i \in 1..Len(rows')
      PROVE Before(rows'[i], made', buffer')
  <2> DEFINE L == Len(rows)
             B == batch[r]
  <2>1. /\ L \in Nat /\ Len(B) \in Nat /\ Len(rows') \in {L, L + Len(B)}
        /\ \A k \in 1..L : rows'[k] = rows[k]
        /\ Len(rows') # L => \A j \in 1..Len(B) : rows'[L + j] = B[j]
    BY <1>4, RowsGrow
  <2>2. made' = made /\ buffer' = buffer
    BY <1>4 DEF Tries
  <2>3. CASE i \in 1..L
    BY <1>1, <2>1, <2>2, <2>3
  <2>4. CASE i \notin 1..L
    <3>1. i - L \in 1..Len(B) /\ L + (i - L) = i /\ Len(rows') # L
      BY <2>1, <2>4
    <3>2. rows'[i] = B[i - L]
      BY <2>1, <3>1
    <3>3. /\ B[i - L].of = r /\ B[i - L].n <= made[r]
          /\ \A j \in 1..Len(buffer[r]) : B[i - L].n < buffer[r][j].n
      BY <3>1 DEF Queued
    <3> QED BY <2>2, <3>2, <3>3
  <2> QED BY <2>3, <2>4
<1>5. ASSUME NEW r \in Recorders, Discards(r), NEW i \in 1..Len(rows)
      PROVE Before(rows[i], made', buffer')
  <2> DEFINE q == rows[i].of
  <2>1. made' = made /\ q \in Recorders /\ buffer'[q] \in {buffer[q], <<>>}
    BY <1>0, <1>5 DEF Discards, JournalTypeOK
  <2>2. buffer'[q] = buffer[q] \/ Len(buffer'[q]) = 0
    BY <2>1
  <2> QED BY <1>1, <2>1, <2>2
<1>6. CASE Deletes
  BY <1>6 DEF Deletes
<1>7. CASE Rests
  BY <1>1, <1>7 DEF Rests
<1>8. \A r \in Recorders : Publishes(r) \/ Takes(r) \/ Discards(r) => rows' = rows
  BY DEF Publishes, Takes, Discards
<1> HIDE DEF Before
<1> QED BY <1>2, <1>3, <1>4, <1>5, <1>6, <1>7, <1>8, JournalMoves

LEMMA TriedStep ==
  ASSUME JournalTypeOK, InTime, Queued, Tried, SavedBefore, [JournalNext]_journalVars
  PROVE Tried'
<1> DEFINE Good(q, b, s) ==
        \/ \A j \in 1..Len(b[q]) : In(b[q][j], s)
        \/ \A i \in 1..Len(s), j \in 1..Len(b[q]) : s[i].of = q => s[i].n < b[q][j].n
<1>1. \A q \in Recorders : Good(q, batch, rows)
  BY DEF Tried
<1> SUFFICES ASSUME NEW q \in Recorders PROVE Good(q, batch', rows')
  BY DEF Tried
<1>2. CASE batch'[q] = batch[q] /\ rows' = rows
  BY <1>1, <1>2
<1>3. CASE batch'[q] = <<>>
  <2>1. Len(batch'[q]) = 0
    BY <1>3
  <2> QED BY <2>1
<1>4. ASSUME NEW r \in Recorders, Takes(r) PROVE Good(q, batch', rows')
  <2>1. rows' = rows
    BY <1>4 DEF Takes
  <2>2. CASE q = r
    <3>1. PICK n \in 1..Len(buffer[r]) :
              Len(batch'[r]) = n /\ \A j \in 1..n : batch'[r][j] = buffer[r][j]
      BY <1>4, TakeIs
    <3>2. \A j \in 1..n : j \in 1..Len(buffer[r])
      BY NumbersAre
    <3>3. \A i \in 1..Len(rows), j \in 1..Len(buffer[r]) :
              rows[i].of = r => rows[i].n < buffer[r][j].n
      BY DEF SavedBefore
    <3> QED BY <2>1, <2>2, <3>1, <3>2, <3>3
  <2>3. CASE q # r
    BY <1>2, <1>4, <2>1, <2>3, TakeIs
  <2> QED BY <2>2, <2>3
<1>5. ASSUME NEW r \in Recorders, Tries(r) PROVE Good(q, batch', rows')
  <2> DEFINE L == Len(rows)
             B == batch[r]
  <2>1. /\ L \in Nat /\ Len(B) \in Nat /\ Len(rows') \in {L, L + Len(B)}
        /\ \A k \in 1..L : rows'[k] = rows[k]
        /\ Len(rows') # L => \A j \in 1..Len(B) : rows'[L + j] = B[j]
        /\ AppendBatch(B) => \A j \in 1..Len(B) : In(B[j], rows')
    BY <1>5, RowsGrow
  <2>2. batch'[q] \in {batch[q], <<>>} /\ (q # r => batch'[q] = batch[q])
    BY <1>5 DEF Tries, JournalTypeOK
  <2>3. CASE q = r /\ batch'[q] = batch[q]
    <3>1. CASE AppendBatch(B)
      BY <2>1, <2>3, <3>1
    <3>2. CASE ~AppendBatch(B)
      <4>1. rows' = rows
        BY <1>5, <3>2 DEF Tries
      <4> QED BY <1>2, <2>3, <4>1
    <3> QED BY <3>1, <3>2
  <2>4. CASE q # r
    <3>1. batch'[q] = batch[q]
      BY <2>2, <2>4
    <3>2. CASE \A j \in 1..Len(batch[q]) : In(batch[q][j], rows)
      <4>1. \A x : In(x, rows) => In(x, rows')
        <5>1. \A i \in 1..L : i \in 1..Len(rows')
          BY <2>1
        <5> QED BY <2>1, <5>1 DEF In
      <4> QED BY <3>1, <3>2, <4>1
    <3>3. CASE \A i \in 1..L, j \in 1..Len(batch[q]) : rows[i].of = q => rows[i].n < batch[q][j].n
      <4>1. ASSUME NEW i \in 1..Len(rows'), rows'[i].of = q PROVE i \in 1..L
        <5>1. CASE i \notin 1..L
          <6>1. i - L \in 1..Len(B) /\ L + (i - L) = i /\ Len(rows') # L
            BY <2>1, <5>1
          <6>2. rows'[i] = B[i - L] /\ B[i - L].of = r
            BY <2>1, <6>1 DEF Queued
          <6> QED BY <2>4, <4>1, <6>2
        <5> QED BY <5>1
      <4> QED BY <2>1, <3>1, <3>3, <4>1
    <3> QED BY <1>1, <3>2, <3>3
  <2> QED BY <1>3, <2>2, <2>3, <2>4
<1>6. ASSUME NEW r \in Recorders, Publishes(r) \/ Discards(r) PROVE Good(q, batch', rows')
  BY <1>2, <1>6 DEF Publishes, Discards
<1>7. CASE Deletes
  <2>1. Len(rows') = 0
    BY <1>7 DEF Deletes
  <2> QED BY <2>1
<1>8. CASE Rests
  BY <1>2, <1>8 DEF Rests
<1> HIDE DEF Good
<1> QED BY <1>4, <1>5, <1>6, <1>7, <1>8, JournalMoves

LEMMA JournalOrderStep ==
  ASSUME JournalTypeOK, InTime, Queued, Tried, JournalIsInOrder, [JournalNext]_journalVars
  PROVE JournalIsInOrder'
<1>1. CASE rows' = rows /\ exists' = exists
  BY <1>1 DEF JournalIsInOrder
<1>2. ASSUME NEW r \in Recorders, Tries(r) PROVE JournalIsInOrder'
  <2> DEFINE L == Len(rows)
             B == batch[r]
  <2>1. /\ L \in Nat /\ Len(B) \in Nat /\ Len(rows') \in {L, L + Len(B)}
        /\ \A k \in 1..L : rows'[k] = rows[k]
        /\ Len(rows') # L =>
               /\ \A j \in 1..Len(B) : rows'[L + j] = B[j]
               /\ \A i \in 1..L, j \in 1..Len(B) : rows[i].of = r => rows[i].n < B[j].n
        /\ rows' = rows \/ exists
    BY <1>2, RowsGrow
  <2>2. /\ \A i, j \in 1..Len(B) : i < j => B[i].n < B[j].n
        /\ \A i \in 1..Len(B) : B[i].of = r
    BY DEF Queued, Rising
  <2>3. ASSUME NEW i \in 1..Len(rows'), NEW j \in 1..Len(rows'), i < j,
               rows'[i].of = rows'[j].of
        PROVE rows'[i].n < rows'[j].n
    <3>1. CASE j \in 1..L
      <4>1. i \in 1..L
        BY <2>1, <2>3, <3>1
      <4> QED BY <2>1, <2>3, <3>1, <4>1 DEF JournalIsInOrder
    <3>2. CASE j \notin 1..L
      <4>1. j - L \in 1..Len(B) /\ L + (j - L) = j /\ Len(rows') # L
        BY <2>1, <3>2
      <4>2. rows'[j] = B[j - L] /\ rows'[j].of = r
        BY <2>1, <2>2, <4>1, ZenonT(40)
      <4>3. CASE i \in 1..L
        BY <2>1, <2>3, <4>1, <4>2, <4>3, ZenonT(40)
      <4>4. CASE i \notin 1..L
        <5>1. i - L \in 1..Len(B) /\ L + (i - L) = i /\ i - L < j - L
          BY <2>1, <2>3, <4>1, <4>4
        <5>2. rows'[i] = B[i - L]
          BY <2>1, <4>1, <5>1
        <5> QED BY <2>2, <4>1, <4>2, <5>1, <5>2
      <4> QED BY <4>3, <4>4
    <3> QED BY <3>1, <3>2
  <2>4. ~exists' => rows' = <<>>
    BY <1>2, <2>1 DEF Tries, JournalIsInOrder
  <2> QED BY <2>3, <2>4 DEF JournalIsInOrder
<1>3. CASE Deletes
  BY <1>3 DEF Deletes, JournalIsInOrder
<1>4. (\A r \in Recorders : Publishes(r) \/ Takes(r) \/ Discards(r) => rows' = rows /\ exists' = exists)
      /\ (Rests => rows' = rows /\ exists' = exists)
  BY DEF Publishes, Takes, Discards, Rests
<1> QED BY <1>1, <1>2, <1>3, <1>4, JournalMoves

\* As many numbers as events, at most.
Numbers(s) == {s[i].n : i \in 1..Len(s)}

LEMMA NumbersAreCounted ==
  ASSUME NEW s \in Seq(Event)
  PROVE IsFiniteSet(Numbers(s)) /\ Cardinality(Numbers(s)) <= Len(s)
<1> DEFINE D == 1..Len(s)
           f == [i \in D |-> s[i].n]
<1>1. Len(s) \in Nat
  OBVIOUS
<1>2. IsFiniteSet(D) /\ Cardinality(D) = Len(s)
  BY <1>1, FS_Interval
<1>3. f \in Surjection(D, Numbers(s))
  <2>1. f \in [D -> Numbers(s)] /\ \A y \in Numbers(s) : \E x \in D : f[x] = y
    BY DEF Numbers
  <2> HIDE DEF f, D
  <2> QED BY <2>1 DEF Surjection
<1> HIDE DEF f, D
<1> QED BY <1>2, <1>3, FS_Surjection

LEMMA LostAre ==
  ASSUME NEW q \in Recorders, NEW n
  PROVE LET e == [of |-> q, n |-> n]
        IN n \in Lost(q) <=> /\ n \in 1..made[q]
                             /\ ~In(e, rows) /\ ~In(e, buffer[q]) /\ ~In(e, batch[q])
BY DEF Lost, Held

\* Whoever loses no more than he counts stays honest.
LEMMA LostStep ==
  ASSUME JournalTypeOK, NEW q \in Recorders, NEW X, IsFiniteSet(X), NEW k \in Nat,
         Cardinality(X) <= k, Lost(q)' \subseteq Lost(q) \cup X,
         Cardinality(Lost(q)) <= dropped[q], dropped'[q] = dropped[q] + k
  PROVE Cardinality(Lost(q)') <= dropped'[q]
<1>1. IsFiniteSet(Lost(q)) /\ Cardinality(Lost(q)) \in Nat
  <2>1. made[q] \in Nat
    BY NumbersAre
  <2>2. IsFiniteSet(1..made[q])
    BY <2>1, FS_Interval
  <2>3. Lost(q) \subseteq 1..made[q]
    BY DEF Lost
  <2> QED BY <2>2, <2>3, FS_Subset, FS_CardinalityType
<1>2. Cardinality(X) \in Nat
  BY FS_CardinalityType
<1>3. /\ IsFiniteSet(Lost(q) \cup X)
      /\ Cardinality(Lost(q) \cup X) =
             Cardinality(Lost(q)) + Cardinality(X) - Cardinality(Lost(q) \cap X)
  BY <1>1, FS_Union
<1>4. Cardinality(Lost(q) \cap X) \in Nat
  <2>1. Lost(q) \cap X \subseteq X
    OBVIOUS
  <2> QED BY <2>1, FS_Subset, FS_CardinalityType
<1>5. Cardinality(Lost(q)') <= Cardinality(Lost(q) \cup X) /\ Cardinality(Lost(q)') \in Nat
  BY <1>3, FS_Subset, FS_CardinalityType
<1>6. Cardinality(Lost(q) \cup X) <= Cardinality(Lost(q)) + Cardinality(X)
  BY <1>1, <1>2, <1>3, <1>4
<1>7. dropped[q] \in Nat
  BY DEF JournalTypeOK
<1>8. Cardinality(Lost(q) \cup X) \in Nat
  BY <1>3, FS_CardinalityType
<1> QED BY <1>1, <1>2, <1>5, <1>6, <1>7, <1>8

LEMMA CountedStep ==
  ASSUME JournalTypeOK, InTime, Queued, Tried, Counted, [JournalNext]_journalVars
  PROVE Counted'
<1> SUFFICES ASSUME exists', NEW q \in Recorders
             PROVE Cardinality(Lost(q)') <= dropped'[q]
  BY DEF Counted
<1> DEFINE e(n) == [of |-> q, n |-> n]
           Counts(X, k) == /\ IsFiniteSet(X) /\ k \in Nat /\ Cardinality(X) <= k
                           /\ Lost(q)' \subseteq Lost(q) \cup X /\ dropped'[q] = dropped[q] + k
<1>0. dropped[q] \in Nat /\ IsFiniteSet({}) /\ Cardinality({}) = 0
  BY FS_EmptySet DEF JournalTypeOK
<1>1. \A n : n \in Lost(q) <=> /\ n \in 1..made[q]
                               /\ ~In(e(n), rows) /\ ~In(e(n), buffer[q]) /\ ~In(e(n), batch[q])
  BY LostAre
<1>2. \A n : n \in Lost(q)' <=> /\ n \in 1..made'[q]
                                /\ ~In(e(n), rows') /\ ~In(e(n), buffer'[q])
                                /\ ~In(e(n), batch'[q])
  BY DEF Lost, Held
<1>3. ASSUME exists' = exists, NEW X, NEW k, Counts(X, k)
      PROVE Cardinality(Lost(q)') <= dropped'[q]
  <2>1. Cardinality(Lost(q)) <= dropped[q]
    BY <1>3 DEF Counted
  <2> QED BY <1>3, <2>1, LostStep
<1>4. ASSUME NEW r \in Recorders, Publishes(r) PROVE \E X, k : Counts(X, k)
  <2>1. rows' = rows /\ batch' = batch
    BY <1>4 DEF Publishes
  <2>2. CASE buffer'[q] = buffer[q] /\ q # r
    <3>1. made'[q] = made[q] /\ dropped'[q] = dropped[q]
      BY <1>4, <2>2, PublishIs DEF Publishes, CountDropped, JournalTypeOK
    <3>2. Lost(q)' \subseteq Lost(q) \cup {}
      BY <1>1, <1>2, <2>1, <2>2, <3>1
    <3>3. Counts({}, 0)
      BY <1>0, <3>1, <3>2
    <3> QED BY <3>3
  <2>3. CASE q = r /\ buffer'[q] # buffer[q]
    <3> DEFINE L == Len(buffer[r])
    <3>1. /\ L \in Nat /\ made[r] \in Nat /\ made'[r] = made[r] + 1
          /\ Len(buffer'[r]) = L + 1 /\ buffer'[r][L + 1] = New(r)
          /\ \A i \in 1..L : buffer'[r][i] = buffer[r][i]
      BY <1>4, <2>3, PublishIs
    <3>2. In(New(r), buffer'[r]) /\ \A x : In(x, buffer[r]) => In(x, buffer'[r])
      <4>1. L + 1 \in 1..Len(buffer'[r]) /\ \A i \in 1..L : i \in 1..Len(buffer'[r])
        BY <3>1
      <4> QED BY <3>1, <4>1 DEF In
    <3>3. New(r) = e(made[r] + 1) /\ \A n \in 1..made'[r] : n \in 1..made[r] \/ n = made[r] + 1
      BY <2>3, <3>1 DEF New
    <3>4. Lost(q)' \subseteq Lost(q) \cup {}
      <4> HIDE DEF e
      <4> QED BY <1>1, <1>2, <2>1, <2>3, <3>2, <3>3
    <3>5. dropped'[q] = dropped[q]
      BY <1>4, <2>3 DEF Publishes
    <3>6. Counts({}, 0)
      BY <1>0, <3>4, <3>5
    <3> QED BY <3>6
  <2>4. CASE q = r /\ buffer'[q] = buffer[q]
    <3>1. made[r] \in Nat /\ made'[r] = made[r] + 1
      BY <1>4, PublishIs
    <3>2. \A n \in 1..made'[q] : n \in 1..made[q] \/ n = made[q] + 1
      BY <2>4, <3>1
    <3>3. Lost(q)' \subseteq Lost(q) \cup {made[q] + 1}
      BY <1>1, <1>2, <2>1, <2>4, <3>2
    <3>4. dropped'[q] = dropped[q] + 1
      <4>1. CASE CountDropped(r, 1)
        BY <2>4, <4>1 DEF CountDropped, JournalTypeOK
      <4>2. CASE buffer' = [buffer EXCEPT ![r] = Append(@, New(r))]
        <5>1. buffer[r] \in Seq(Event)
          BY DEF JournalTypeOK
        <5>2. Len(Append(buffer[r], New(r))) = Len(buffer[r]) + 1 /\ Len(buffer[r]) \in Nat
          BY <5>1
        <5>3. buffer'[r] = Append(buffer[r], New(r))
          BY <4>2 DEF JournalTypeOK
        <5> QED BY <2>4, <5>2, <5>3
      <4> QED BY <1>4, <4>1, <4>2 DEF Publishes
    <3>5. IsFiniteSet({made[q] + 1}) /\ Cardinality({made[q] + 1}) = 1
      BY FS_Singleton
    <3>6. Counts({made[q] + 1}, 1)
      BY <3>3, <3>4, <3>5
    <3> QED BY <3>6
  <2>5. q # r => buffer'[q] = buffer[q]
    BY <1>4, PublishIs
  <2> QED BY <2>2, <2>3, <2>4, <2>5
<1>5. ASSUME NEW r \in Recorders, Takes(r) PROVE Counts({}, 0)
  <2>1. rows' = rows /\ made' = made /\ dropped' = dropped
    BY <1>5 DEF Takes
  <2>2. \A x : In(x, buffer[q]) \/ In(x, batch[q]) => In(x, buffer'[q]) \/ In(x, batch'[q])
    <3>1. CASE q # r
      BY <1>5, <3>1, TakeIs
    <3>2. CASE q = r
      <4>1. PICK n \in 1..Len(buffer[r]) :
                /\ Len(batch'[r]) = n /\ Len(buffer'[r]) = Len(buffer[r]) - n
                /\ \A i \in 1..n : batch'[r][i] = buffer[r][i]
                /\ \A i \in 1..Len(buffer[r]) - n : buffer'[r][i] = buffer[r][n + i]
        BY <1>5, TakeIs
      <4>2. batch[r] = <<>>
        BY <1>5, TakeIs
      <4>3. ASSUME NEW i \in 1..Len(buffer[r])
            PROVE In(buffer[r][i], buffer'[r]) \/ In(buffer[r][i], batch'[r])
        <5>1. CASE i <= n
          BY <4>1, <5>1, NumbersAre DEF In
        <5>2. CASE ~(i <= n)
          <6>1. i - n \in 1..Len(buffer[r]) - n /\ n + (i - n) = i
            BY <5>2, NumbersAre
          <6> QED BY <4>1, <6>1, ZenonT(40) DEF In
        <5> QED BY <5>1, <5>2
      <4>4. \A x : ~In(x, batch[r])
        BY <4>2 DEF In
      <4>5. \A x : In(x, buffer[r]) => In(x, buffer'[r]) \/ In(x, batch'[r])
        BY <4>3 DEF In
      <4> QED BY <3>2, <4>4, <4>5
    <3> QED BY <3>1, <3>2
  <2>3. Lost(q)' \subseteq Lost(q) \cup {}
    <3> HIDE DEF e
    <3> QED BY <1>1, <1>2, <2>1, <2>2
  <2> QED BY <1>0, <2>1, <2>3
<1>6. ASSUME NEW r \in Recorders, Tries(r) PROVE \E X, k : Counts(X, k)
  <2> DEFINE L == Len(rows)
             B == batch[r]
  <2>1. /\ L \in Nat /\ Len(B) \in Nat /\ Len(rows') \in {L, L + Len(B)}
        /\ \A i \in 1..L : rows'[i] = rows[i]
        /\ AppendBatch(B) => \A j \in 1..Len(B) : In(B[j], rows')
    BY <1>6, RowsGrow
  <2>2. \A x : In(x, rows) => In(x, rows')
    <3>1. \A i \in 1..L : i \in 1..Len(rows')
      BY <2>1
    <3> QED BY <2>1, <3>1 DEF In
  <2>3. made' = made /\ buffer' = buffer
    BY <1>6 DEF Tries
  <2>4. dropped'[q] = dropped[q] \/ (q = r /\ dropped'[q] = dropped[q] + Len(B))
    BY <1>6 DEF Tries, CountDropped, JournalTypeOK
  <2>5. batch'[q] = batch[q] \/ (q = r /\ batch'[q] = <<>>)
    BY <1>6 DEF Tries, JournalTypeOK
  <2>6. PICK k \in {0, Len(B)} : dropped'[q] = dropped[q] + k
    BY <1>0, <2>1, <2>4
  <2>7. k \in Nat /\ 0 <= k
    BY <2>1
  <2>8. CASE batch'[q] = batch[q] \/ AppendBatch(B)
    <3>1. \A x : In(x, batch[q]) => In(x, rows') \/ In(x, batch'[q])
      BY <2>1, <2>5, <2>8 DEF In
    <3>2. Lost(q)' \subseteq Lost(q) \cup {}
      <4> HIDE DEF e
      <4> QED BY <1>1, <1>2, <2>2, <2>3, <3>1
    <3>3. Counts({}, k)
      BY <1>0, <2>6, <2>7, <3>2
    <3> QED BY <3>3
  <2>9. CASE batch'[q] # batch[q] /\ ~AppendBatch(B)
    <3>1. q = r /\ CountDropped(r, Len(B))
      BY <1>6, <2>5, <2>9 DEF Tries
    <3>2. dropped'[q] = dropped[q] + Len(B)
      BY <3>1 DEF CountDropped, JournalTypeOK
    <3>3. IsFiniteSet(Numbers(B)) /\ Cardinality(Numbers(B)) <= Len(B)
      <4>1. B \in Seq(Event)
        BY DEF JournalTypeOK
      <4> HIDE DEF B
      <4> QED BY <4>1, NumbersAreCounted
    <3>4. \A n : In(e(n), B) => n \in Numbers(B)
      BY DEF In, Numbers
    <3>5. Lost(q)' \subseteq Lost(q) \cup Numbers(B)
      <4> HIDE DEF e
      <4> QED BY <1>1, <1>2, <2>2, <2>3, <3>1, <3>4
    <3>6. Counts(Numbers(B), Len(B))
      BY <2>1, <3>2, <3>3, <3>5
    <3> QED BY <3>6
  <2> QED BY <2>8, <2>9
<1>7. ASSUME NEW r \in Recorders, Discards(r) PROVE \E X, k : Counts(X, k)
  <2> DEFINE B == buffer[r]
  <2>1. rows' = rows /\ made' = made /\ batch' = batch
    BY <1>7 DEF Discards
  <2>2. CASE q # r
    <3>1. buffer'[q] = buffer[q] /\ dropped'[q] = dropped[q]
      BY <1>7, <2>2 DEF Discards, CountDropped, JournalTypeOK
    <3>2. Lost(q)' \subseteq Lost(q) \cup {}
      BY <1>1, <1>2, <2>1, <3>1
    <3>3. Counts({}, 0)
      BY <1>0, <3>1, <3>2
    <3> QED BY <3>3
  <2>3. CASE q = r
    <3>1. dropped'[q] = dropped[q] + Len(B)
      BY <1>7, <2>3 DEF Discards, CountDropped, JournalTypeOK
    <3>2. IsFiniteSet(Numbers(B)) /\ Cardinality(Numbers(B)) <= Len(B) /\ Len(B) \in Nat
      <4>1. B \in Seq(Event)
        BY DEF JournalTypeOK
      <4> HIDE DEF B
      <4> QED BY <4>1, NumbersAreCounted
    <3>3. \A n : In(e(n), B) => n \in Numbers(B)
      BY DEF In, Numbers
    <3>4. Lost(q)' \subseteq Lost(q) \cup Numbers(B)
      <4> HIDE DEF e
      <4> QED BY <1>1, <1>2, <2>1, <2>3, <3>3
    <3>5. Counts(Numbers(B), Len(B))
      BY <3>1, <3>2, <3>4
    <3> QED BY <3>5
  <2> QED BY <2>2, <2>3
<1>8. CASE Deletes
  BY <1>8 DEF Deletes
<1>9. CASE Rests
  <2>1. /\ rows' = rows /\ made' = made /\ buffer' = buffer /\ batch' = batch
        /\ dropped' = dropped /\ exists' = exists
    BY <1>9 DEF Rests
  <2>2. Lost(q)' \subseteq Lost(q) \cup {}
    BY <1>1, <1>2, <2>1
  <2>3. Counts({}, 0)
    BY <1>0, <2>1, <2>2
  <2> QED BY <1>3, <2>1, <2>3
<1>10. \A r \in Recorders : Publishes(r) \/ Takes(r) \/ Tries(r) \/ Discards(r) => exists' = exists
  BY DEF Publishes, Takes, Tries, Discards
<1> HIDE DEF Counts
<1> QED BY <1>3, <1>4, <1>5, <1>6, <1>7, <1>8, <1>9, <1>10, JournalMoves

\* The journal holds together in every step.
LEMMA JournalHolds == JournalSpec => []Journal
<1>1. JournalInit => Journal
  <2> SUFFICES ASSUME JournalInit PROVE Journal
    OBVIOUS
  <2>1. /\ rows = <<>> /\ exists = TRUE /\ failures = 0
        /\ made = [r \in Recorders |-> 0] /\ dropped = [r \in Recorders |-> 0]
        /\ buffer = [r \in Recorders |-> <<>>] /\ batch = [r \in Recorders |-> <<>>]
        /\ writer = [r \in Recorders |-> "none"] /\ attempt = [r \in Recorders |-> 0]
        /\ closing = [r \in Recorders |-> FALSE] /\ abandon = [r \in Recorders |-> FALSE]
    BY DEF JournalInit
  <2>2. JournalTypeOK
    <3>1. /\ 0 \in 0..MaxRecorded /\ 0 \in 0..MaxFailures /\ 0 \in 0..MaxAttempts
          /\ <<>> \in Seq(Event)
      BY JournalAssumption
    <3> QED BY <2>1, <3>1 DEF JournalTypeOK
  <2>3. \A r \in Recorders : Len(buffer[r]) = 0 /\ Len(batch[r]) = 0 /\ Len(rows) = 0
    BY <2>1
  <2>4. InTime /\ Queued /\ SavedBefore /\ Tried /\ JournalIsInOrder
    BY <2>1, <2>3 DEF InTime, Queued, SavedBefore, Tried, JournalIsInOrder, Rising
  <2>5. Counted
    <3> SUFFICES ASSUME NEW r \in Recorders PROVE Cardinality(Lost(r)) <= dropped[r]
      BY DEF Counted
    <3>1. made[r] = 0 /\ dropped[r] = 0
      BY <2>1
    <3>2. Lost(r) = {}
      BY <3>1 DEF Lost
    <3> QED BY <3>1, <3>2, FS_EmptySet
  <2> QED BY <2>2, <2>4, <2>5 DEF Journal
<1>2. Journal /\ [JournalNext]_journalVars => Journal'
  <2> SUFFICES ASSUME Journal, [JournalNext]_journalVars PROVE Journal'
    OBVIOUS
  <2>1. JournalTypeOK /\ InTime /\ Queued /\ SavedBefore /\ Tried /\ JournalIsInOrder /\ Counted
    BY DEF Journal
  <2>2. JournalTypeOK' /\ InTime'
    BY <2>1, EventTypesStep, WriterTypesStep DEF EventTypes, JournalTypeOK
  <2> QED BY <2>1, <2>2, QueuedStep, SavedBeforeStep, TriedStep, JournalOrderStep, CountedStep
      DEF Journal
<1> QED BY <1>1, <1>2, PTL DEF JournalSpec

\* The journal of a Run tells its events in order, each once, brings nothing back of a deleted
\* Thread, and what it lacks was counted.  (append_batch, _write_batch, close)
THEOREM JournalTellsTheTruth == JournalSpec => []JournalIsTrue
<1>1. Journal => JournalIsTrue
  <2> SUFFICES ASSUME Journal PROVE NothingVanishes
    BY DEF Journal, JournalIsTrue
  <2> SUFFICES ASSUME exists, NEW r \in Recorders
               PROVE made[r] - Cardinality(Held(r)) <= dropped[r]
    BY DEF NothingVanishes
  <2> DEFINE D == 1..made[r]
  <2>1. made[r] \in Nat /\ dropped[r] \in Nat
    BY DEF Journal, JournalTypeOK
  <2>2. IsFiniteSet(D) /\ Cardinality(D) = made[r]
    <3>1. 1 \in Int /\ made[r] \in Int /\ (IF 1 > made[r] THEN 0 ELSE made[r] - 1 + 1) = made[r]
      BY <2>1
    <3> QED BY <3>1, FS_Interval
  <2>3. Held(r) \subseteq D /\ Lost(r) = D \ Held(r)
    BY DEF Held, Lost
  <2> HIDE DEF D
  <2>4. Cardinality(Lost(r)) = Cardinality(D) - Cardinality(D \cap Held(r))
    BY <2>2, <2>3, FS_Difference
  <2>5. D \cap Held(r) = Held(r)
    BY <2>3
  <2>6. Cardinality(Lost(r)) <= dropped[r]
    BY DEF Journal, Counted
  <2> QED BY <2>2, <2>4, <2>5, <2>6
<1> QED BY <1>1, JournalHolds, PTL
=============================================================================
