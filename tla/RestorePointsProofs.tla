-------------------------- MODULE RestorePointsProofs -------------------------
(***************************************************************************)
(* Proofs about the restore points of a Thread, for any number of files,    *)
(* contents and points and any limits: every point can be built, what it    *)
(* saves is one moment of the files, those that are needed stay, and a      *)
(* Thread that has its row has its files.                                   *)
(***************************************************************************)
EXTENDS RestorePoints, TLAPS

\* The steps of a capture and of the restore it is made for.
WalkPcs == {"read", "compare", "add"}
CapturePcs == {"collect"} \cup WalkPcs \cup {"tidy", "confirm", "build", "prepare"}

\* Where the process is tells where the directory is, and whether there is a row.
PlaceOK ==
    /\ ~row => points = {} /\ op = NoOp
    /\ row => place # "none"
    /\ pc = "insert" => ~row /\ place = "live" /\ latest = None
    /\ pc \in CapturePcs => row /\ ~Pending /\ place = "live"
    /\ pc \in {"swap", "clean"} => row /\ place = "live" /\ Pending
    /\ pc = "recover" => Pending /\ place = "live"
    /\ pc = "drop" => row /\ place = "deleting"
    /\ pc = "dropOnly" => row
    /\ pc = "erase" => ~row
    /\ pc = "idle" /\ row /\ ~astray => place = "live"

\* A point that is made is younger than those there are.
CountOK ==
    /\ \A p \in points : p.id <= made
    /\ latest <= made
    /\ pc \in {"collect"} \cup WalkPcs => made < MaxMade

\* The newest recovery point is the latest that was made.
LatestOK ==
    row => /\ latest # None => \E p \in points : p.id = latest /\ p.kind = "recovery"
           /\ \A p \in points : p.kind = "recovery" => p.id <= latest

\* The points a restore is about.
CallOK ==
    /\ call.kind = "recovery" => pc \in CapturePcs /\ Has(call.target)
    /\ pc \in {"confirm", "build", "prepare"} => call.kind = "recovery"
PendingOK == Pending => Has(op.target) /\ Has(op.recovery)

\* What the first walk has read is in the object store, and is what the files
\* hold unless they are known to have changed; the second walk compares that
\* with the moment the first one ended.
WalkOK ==
    /\ pc \notin WalkPcs => i = 1 /\ seen = Bare /\ touched = {}
    /\ ObjectsOf(seen) \subseteq objects
    /\ pc = "read" =>
           \A k \in 1..(i - 1) :
               PathOrder[k] \notin touched => seen[PathOrder[k]] = live[PathOrder[k]]
    /\ pc = "compare" =>
           /\ \A p \in Paths \ touched : seen[p] = moment[p]
           /\ \A k \in 1..(i - 1) : seen[PathOrder[k]] = moment[PathOrder[k]]
    /\ pc = "add" => seen = moment

IInv ==
    /\ TypeOK /\ PlaceOK /\ CountOK /\ LatestOK /\ CallOK /\ PendingOK /\ WalkOK
    /\ EveryPointIsWhole

-----------------------------------------------------------------------------
(* Facts about the helpers                                                 *)

\* A tree without files is a tree, and needs no object.
LEMMA BareTree == Bare \in Trees /\ ObjectsOf(Bare) = {}
  BY DEF Bare, Trees, ObjectsOf

\* The walk is at one of the files.
LEMMA FileIsPath == ASSUME TypeOK PROVE File \in Paths
  BY PointsAssumption DEF TypeOK, File, Paths

\* What a point with a given number is.
LEMMA AtIsPoint ==
  ASSUME NEW id, Has(id), TypeOK
  PROVE  At(id) \in points /\ At(id) \in Point /\ At(id).files \in Trees
  <1>1. At(id) \in points
    BY DEF Has, At
  <1> QED  BY <1>1 DEF TypeOK, Point

\* What is protected is not evicted, and the target of a restore is protected,
\* as is the newest recovery point unless a new one takes its place.
LEMMA EvictedIsFree ==
  ASSUME NEW ids, Evicted(ids), TypeOK, LatestOK, row
  PROVE  /\ call.kind = "recovery" => call.target \notin ids
         /\ call.kind = "turn" /\ latest # None => latest \notin ids
  <1>1. ids \cap Protected = {}
    BY DEF Evicted, Oldest
  <1>2. call.kind = "recovery" => call.target \in Protected
    BY DEF Protected, Pins
  <1>3. latest # None => latest \in Newest
    BY DEF LatestOK, Newest, Recoveries
  <1>4. call.kind = "turn" /\ latest # None => latest \in Protected
    BY <1>3 DEF Protected, Pinned
  <1> QED  BY <1>1, <1>2, <1>4

-----------------------------------------------------------------------------
(* The steps                                                               *)

\* Every step keeps the types.
LEMMA TypeKeeps ==
  ASSUME TypeOK, PlaceOK, CountOK, CallOK, PendingOK, Next PROVE TypeOK'
  <1> USE DEF TypeOK, Pcs, CapturePcs, WalkPcs, diskVars, dbVars, scanVars, walkVars, pastVars
  <1>1. ASSUME NEW p \in Paths, NEW c \in Contents \cup {NoFile}, Write(p, c) PROVE TypeOK'
    BY <1>1 DEF Write, Trees
  <1>2. ASSUME NEW id \in Ids, Restore(id) PROVE TypeOK'
    BY <1>2 DEF Restore, Ready
  <1>3. CASE CaptureTurn
    BY <1>3, BareTree DEF CaptureTurn, Ready, Goto
  <1>4. CASE CollectFirst
    BY <1>4, BareTree DEF CollectFirst, Collect, Goto, Kept
  <1>5. CASE CollectFails
    BY <1>5, BareTree DEF CollectFails, Leave, EndScan, NoCall
  <1>6. CASE ReadFile
    BY <1>6, FileIsPath, PointsAssumption DEF ReadFile, Next1, File, Trees
  <1>7. CASE CompareFile
    BY <1>7, PointsAssumption DEF CompareFile, Next1
  <1>8. CASE CaptureFails
    BY <1>8, BareTree DEF CaptureFails, Leave, EndScan, NoCall
  <1>9. CASE AddPoint
    <2> PICK ids \in SUBSET Ids : Evicted(ids) /\ Recorded(ids)
      BY <1>9 DEF AddPoint
    <2>1. made + 1 \in Ids /\ made + 1 \in 1..MaxMade
      BY <1>9, PointsAssumption DEF AddPoint, CountOK, Ids
    <2>2. New \in Point
      BY <2>1 DEF New, Point
    <2> QED  BY <1>9, <2>1, <2>2, BareTree DEF AddPoint, Recorded, New, Without, EndScan, Ids
  <1>10. CASE AddPointUnsure
    <2> PICK ids \in SUBSET Ids : Evicted(ids) /\ Recorded(ids)
      BY <1>10 DEF AddPointUnsure
    <2>1. made + 1 \in Ids /\ made + 1 \in 1..MaxMade
      BY <1>10, PointsAssumption DEF AddPointUnsure, CountOK, Ids
    <2>2. New \in Point
      BY <2>1 DEF New, Point
    <2> QED  BY <1>10, <2>1, <2>2, BareTree DEF AddPointUnsure, Recorded, New, Without, Leave, EndScan, NoCall, Ids
  <1>11. CASE Tidy
    BY <1>11, BareTree DEF Tidy, Leave, EndScan, NoCall, Goto, Kept
  <1>12. CASE Confirm
    BY <1>12, BareTree DEF Confirm, Goto
  <1>13. CASE Build
    BY <1>13, BareTree DEF Build, Goto
  <1>14. CASE Prepare
    <2>1. call.target \in Ids \cup {None} /\ made \in Ids \cup {None}
      BY PointsAssumption DEF Ids, None
    <2>2. op' \in [target : Ids \cup {None}, recovery : Ids \cup {None},
                  status : {"cleaned", "prepared", "committed", "rolled_back"}]
      BY <1>14, <2>1 DEF Prepare
    <2> QED  BY <1>14, <2>2, BareTree DEF Prepare, Leave, EndScan, NoCall
  <1>15. CASE Commit
    BY <1>15, AtIsPoint DEF Commit, Settles
  <1>16. CASE RollBack
    BY <1>16, AtIsPoint DEF RollBack, Settles
  <1>17. CASE StaysOpen
    BY <1>17, BareTree DEF StaysOpen
  <1>18. CASE Clean
    BY <1>18, BareTree DEF Clean
  <1>19. CASE Create
    <2>1. made' \in 0..MaxMade /\ latest' \in Ids \cup {None}
      BY <1>19, PointsAssumption DEF Create
    <2> QED  BY <1>19, <2>1, BareTree DEF Create
  <1>20. CASE Insert
    BY <1>20, BareTree DEF Insert
  <1>21. CASE InsertFails
    BY <1>21, BareTree DEF InsertFails
  <1>22. CASE Delete
    BY <1>22, BareTree DEF Delete
  <1>23. CASE DropRow
    BY <1>23 DEF DropRow, Dropped, NoOp
  <1>24. CASE DropRowFails
    <2>1. CASE Dropped
      BY <1>24, <2>1 DEF DropRowFails, Dropped, NoOp
    <2>2. CASE UNCHANGED dbVars
      BY <1>24, <2>2 DEF DropRowFails
    <2> QED  BY <1>24, <2>1, <2>2 DEF DropRowFails
  <1>25. CASE Erase
    BY <1>25, BareTree DEF Erase, Removed
  <1>26. CASE EraseFails
    BY <1>26, BareTree DEF EraseFails
  <1>27. CASE Crash
    BY <1>27, BareTree DEF Crash, Leave, EndScan, NoCall
  <1>28. CASE Start
    BY <1>28, BareTree DEF Start, CleanUp, Mine, Removed
  <1>29. CASE RecoverRollsBack
    BY <1>29, AtIsPoint DEF RecoverRollsBack, Settles
  <1>30. CASE RecoverCleans
    BY <1>30, BareTree DEF RecoverCleans
  <1>31. CASE RecoverFails
    BY <1>31, BareTree DEF RecoverFails
  <1> QED  BY <1>1, <1>2, <1>3, <1>4, <1>5, <1>6, <1>7, <1>8, <1>9, <1>10, <1>11, <1>12, <1>13, <1>14, <1>15, <1>16, <1>17, <1>18, <1>19, <1>20, <1>21, <1>22, <1>23, <1>24, <1>25, <1>26, <1>27, <1>28, <1>29, <1>30, <1>31 DEF Next

\* Where the process is keeps telling where the directory is.
LEMMA PlaceKeeps ==
  ASSUME TypeOK, PlaceOK, Next PROVE PlaceOK'
  <1> USE DEF PlaceOK, CapturePcs, WalkPcs, Pending, NoOp, diskVars, dbVars, scanVars, walkVars, pastVars
  <1>1. ASSUME NEW p \in Paths, NEW c \in Contents \cup {NoFile}, Write(p, c) PROVE PlaceOK'
    BY <1>1 DEF Write
  <1>2. ASSUME NEW id \in Ids, Restore(id) PROVE PlaceOK'
    BY <1>2 DEF Restore, Ready
  <1>3. CASE CaptureTurn
    BY <1>3 DEF CaptureTurn, Ready, Goto
  <1>4. CASE CollectFirst
    BY <1>4 DEF CollectFirst, Collect, Goto, Kept
  <1>5. CASE CollectFails
    BY <1>5 DEF CollectFails, Leave, EndScan, NoCall
  <1>6. CASE ReadFile
    BY <1>6 DEF ReadFile, Next1, File
  <1>7. CASE CompareFile
    BY <1>7 DEF CompareFile, Next1
  <1>8. CASE CaptureFails
    BY <1>8 DEF CaptureFails, Leave, EndScan, NoCall
  <1>9. CASE AddPoint
    BY <1>9 DEF AddPoint, Recorded, New, Without, EndScan
  <1>10. CASE AddPointUnsure
    BY <1>10 DEF AddPointUnsure, Recorded, New, Without, Leave, EndScan, NoCall
  <1>11. CASE Tidy
    BY <1>11 DEF Tidy, Leave, EndScan, NoCall, Goto, Kept
  <1>12. CASE Confirm
    BY <1>12 DEF Confirm, Goto
  <1>13. CASE Build
    BY <1>13 DEF Build, Goto
  <1>14. CASE Prepare
    BY <1>14 DEF Prepare, Leave, EndScan, NoCall
  <1>15. CASE Commit
    BY <1>15 DEF Commit, Settles
  <1>16. CASE RollBack
    BY <1>16 DEF RollBack, Settles
  <1>17. CASE StaysOpen
    BY <1>17 DEF StaysOpen
  <1>18. CASE Clean
    BY <1>18 DEF Clean
  <1>19. CASE Create
    BY <1>19 DEF Create
  <1>20. CASE Insert
    BY <1>20 DEF Insert
  <1>21. CASE InsertFails
    BY <1>21 DEF InsertFails
  <1>22. CASE Delete
    BY <1>22 DEF Delete
  <1>23. CASE DropRow
    BY <1>23 DEF DropRow, Dropped
  <1>24. CASE DropRowFails
    BY <1>24 DEF DropRowFails, Dropped
  <1>25. CASE Erase
    BY <1>25 DEF Erase, Removed
  <1>26. CASE EraseFails
    BY <1>26 DEF EraseFails
  <1>27. CASE Crash
    BY <1>27 DEF Crash, Leave, EndScan, NoCall
  <1>28. CASE Start
    <2>1. CASE place # "deleting"
      <3>1. row => place = "live"
        BY <2>1 DEF TypeOK
      <3> QED  BY <1>28, <2>1, <3>1 DEF Start, CleanUp
    <2>2. CASE place = "deleting" /\ Mine /\ place' = "live" /\ astray' = FALSE
      BY <1>28, <2>2 DEF Start, Mine
    <2>3. CASE place = "deleting" /\ ~Mine /\ Removed
      BY <1>28, <2>3 DEF Start, Mine, Removed
    <2>4. CASE place = "deleting" /\ UNCHANGED diskVars /\ astray' = TRUE
      BY <1>28, <2>4 DEF Start
    <2> QED  BY <1>28, <2>1, <2>2, <2>3, <2>4 DEF Start, CleanUp
  <1>29. CASE RecoverRollsBack
    BY <1>29 DEF RecoverRollsBack, Settles
  <1>30. CASE RecoverCleans
    BY <1>30 DEF RecoverCleans
  <1>31. CASE RecoverFails
    BY <1>31 DEF RecoverFails
  <1> QED  BY <1>1, <1>2, <1>3, <1>4, <1>5, <1>6, <1>7, <1>8, <1>9, <1>10, <1>11, <1>12, <1>13, <1>14, <1>15, <1>16, <1>17, <1>18, <1>19, <1>20, <1>21, <1>22, <1>23, <1>24, <1>25, <1>26, <1>27, <1>28, <1>29, <1>30, <1>31 DEF Next

\* The points are left alone, or a capture adds one, or they end with the row,
\* or a new Thread has none.
LEMMA WhatChangesPoints ==
  ASSUME PlaceOK, Next
  PROVE  \/ /\ UNCHANGED <<points, latest, made>> /\ (row' => row \/ (latest = None /\ points = {}))
            /\ pc' \in {"collect"} \cup WalkPcs => pc \in {"collect"} \cup WalkPcs \/ made < MaxMade
         \/ /\ pc = "add" /\ row /\ pc' \in {"tidy", "idle"} /\ UNCHANGED op
            /\ \E ids \in SUBSET Ids : Evicted(ids) /\ Recorded(ids)
         \/ /\ ~row' /\ points' = {} /\ op' = NoOp /\ pc' \in {"insert", "erase", "idle"}
            /\ UNCHANGED <<latest, made>> \/ (latest' = None /\ made' = 0)
  <1> USE DEF diskVars, dbVars, scanVars, walkVars, pastVars, WalkPcs
  <1> DEFINE Same ==
        /\ UNCHANGED <<points, latest, made>> /\ (row' => row \/ (latest = None /\ points = {}))
        /\ pc' \in {"collect"} \cup WalkPcs => pc \in {"collect"} \cup WalkPcs \/ made < MaxMade
  <1>1. ASSUME NEW p \in Paths, NEW c \in Contents \cup {NoFile}, Write(p, c) PROVE Same
    BY <1>1 DEF Write
  <1>2. ASSUME NEW id \in Ids, Restore(id) PROVE Same
    BY <1>2 DEF Restore, Ready
  <1>3. CASE CaptureTurn
    BY <1>3 DEF CaptureTurn, Ready, Goto
  <1>4. CASE CollectFirst
    BY <1>4 DEF CollectFirst, Collect, Goto
  <1>5. CASE CollectFails
    BY <1>5 DEF CollectFails, Leave
  <1>6. CASE ReadFile
    BY <1>6 DEF ReadFile, Next1
  <1>7. CASE CompareFile
    BY <1>7 DEF CompareFile, Next1
  <1>8. CASE CaptureFails
    BY <1>8 DEF CaptureFails, Leave
  <1>9. CASE Tidy
    BY <1>9 DEF Tidy, Leave, Goto
  <1>10. CASE Confirm
    BY <1>10 DEF Confirm, Goto
  <1>11. CASE Build
    BY <1>11 DEF Build, Goto
  <1>12. CASE Prepare
    BY <1>12 DEF Prepare, Leave
  <1>13. CASE Commit
    BY <1>13 DEF Commit, Settles
  <1>14. CASE RollBack
    BY <1>14 DEF RollBack, Settles
  <1>15. CASE StaysOpen
    BY <1>15 DEF StaysOpen
  <1>16. CASE Clean
    BY <1>16 DEF Clean
  <1>17. CASE Insert
    BY <1>17 DEF Insert, PlaceOK
  <1>18. CASE InsertFails
    BY <1>18 DEF InsertFails
  <1>19. CASE Delete
    BY <1>19 DEF Delete
  <1>20. CASE Erase
    BY <1>20 DEF Erase
  <1>21. CASE EraseFails
    BY <1>21 DEF EraseFails
  <1>22. CASE Crash
    BY <1>22 DEF Crash, Leave
  <1>23. CASE Start
    BY <1>23 DEF Start
  <1>24. CASE RecoverRollsBack
    BY <1>24 DEF RecoverRollsBack, Settles
  <1>25. CASE RecoverCleans
    BY <1>25 DEF RecoverCleans
  <1>26. CASE RecoverFails
    BY <1>26 DEF RecoverFails
  <1>27. CASE AddPoint \/ AddPointUnsure
    BY <1>27 DEF AddPoint, AddPointUnsure, Leave, PlaceOK, CapturePcs
  <1>28. CASE Create
    BY <1>28 DEF Create, PlaceOK
  <1>29. CASE DropRow
    BY <1>29 DEF DropRow, Dropped
  <1>30. CASE DropRowFails
    BY <1>30 DEF DropRowFails, Dropped
  <1> QED  BY <1>1, <1>2, <1>3, <1>4, <1>5, <1>6, <1>7, <1>8, <1>9, <1>10, <1>11, <1>12, <1>13, <1>14, <1>15, <1>16, <1>17, <1>18, <1>19, <1>20, <1>21, <1>22, <1>23, <1>24, <1>25, <1>26, <1>27, <1>28, <1>29, <1>30 DEF Next

\* Every step keeps the points older than the next one.
LEMMA CountKeeps ==
  ASSUME TypeOK, PlaceOK, CountOK, Next PROVE CountOK'
  <1>1. CASE /\ UNCHANGED <<points, latest, made>> /\ (row' => row \/ (latest = None /\ points = {}))
             /\ pc' \in {"collect"} \cup WalkPcs => pc \in {"collect"} \cup WalkPcs \/ made < MaxMade
    BY <1>1 DEF CountOK
  <1>2. ASSUME NEW ids \in SUBSET Ids, Recorded(ids), pc' \in {"tidy", "idle"} PROVE CountOK'
    <2>1. \A p \in points' : p.id <= made'
      <3> SUFFICES ASSUME NEW p \in points' PROVE p.id <= made'
        OBVIOUS
      <3>1. CASE p = New
        BY <1>2, <3>1 DEF New, Recorded, TypeOK
      <3>2. CASE p \in points
        BY <1>2, <3>2 DEF Recorded, CountOK, TypeOK, Point, Ids
      <3> QED  BY <1>2, <3>1, <3>2 DEF Recorded, Without
    <2>2. latest' <= made'
      BY <1>2 DEF Recorded, CountOK, TypeOK, Ids, None
    <2> QED  BY <1>2, <2>1, <2>2 DEF CountOK, WalkPcs
  <1>3. CASE /\ ~row' /\ points' = {} /\ op' = NoOp /\ pc' \in {"insert", "erase", "idle"}
             /\ UNCHANGED <<latest, made>> \/ (latest' = None /\ made' = 0)
    BY <1>3 DEF CountOK, WalkPcs, None
  <1> QED  BY <1>1, <1>2, <1>3, WhatChangesPoints

\* Every step keeps the newest recovery point the latest that was made.
LEMMA LatestKeeps ==
  ASSUME TypeOK, PlaceOK, CountOK, LatestOK, Next PROVE LatestOK'
  <1>1. CASE /\ UNCHANGED <<points, latest, made>> /\ (row' => row \/ (latest = None /\ points = {}))
             /\ pc' \in {"collect"} \cup WalkPcs => pc \in {"collect"} \cup WalkPcs \/ made < MaxMade
    BY <1>1 DEF LatestOK
  <1>2. ASSUME NEW ids \in SUBSET Ids, row, Evicted(ids), Recorded(ids) PROVE LatestOK'
    <2>1. CASE call.kind = "recovery"
      <3>1. latest' = made + 1 /\ New \in points' /\ New.id = latest' /\ New.kind = "recovery"
        BY <1>2, <2>1 DEF Recorded, New
      <3>2. \A p \in points' : p.id <= latest'
        <4> SUFFICES ASSUME NEW p \in points' PROVE p.id <= latest'
          OBVIOUS
        <4>1. CASE p = New
          BY <3>1, <4>1 DEF TypeOK
        <4>2. CASE p \in points
          BY <3>1, <4>2 DEF CountOK, TypeOK, Point, Ids
        <4> QED  BY <1>2, <4>1, <4>2 DEF Recorded, Without
      <3> QED  BY <3>1, <3>2 DEF LatestOK
    <2>2. CASE call.kind = "turn"
      <3>1. latest' = latest /\ New.kind = "turn" /\ points' = Without(points, ids) \cup {New}
        BY <1>2, <2>2 DEF Recorded, New
      <3>2. latest # None => latest \notin ids
        BY <1>2, <2>2, EvictedIsFree
      <3> QED  BY <1>2, <3>1, <3>2 DEF LatestOK, Without
    <2> QED  BY <2>1, <2>2 DEF TypeOK
  <1>3. CASE /\ ~row' /\ points' = {} /\ op' = NoOp /\ pc' \in {"insert", "erase", "idle"}
             /\ UNCHANGED <<latest, made>> \/ (latest' = None /\ made' = 0)
    BY <1>3 DEF LatestOK
  <1> QED  BY <1>1, <1>2, <1>3, WhatChangesPoints

\* Every step keeps the points a restore in its capture is about.
LEMMA CallKeeps ==
  ASSUME TypeOK, PlaceOK, LatestOK, CallOK, Next PROVE CallOK'
  <1> USE DEF CallOK, CapturePcs, WalkPcs, Has, diskVars, dbVars, scanVars, walkVars, pastVars
  <1>1. ASSUME NEW p \in Paths, NEW c \in Contents \cup {NoFile}, Write(p, c) PROVE CallOK'
    BY <1>1 DEF Write
  <1>2. ASSUME NEW id \in Ids, Restore(id) PROVE CallOK'
    BY <1>2 DEF Restore, Ready
  <1>3. CASE CaptureTurn
    BY <1>3 DEF CaptureTurn, Ready, Goto
  <1>4. CASE CollectFirst
    BY <1>4 DEF CollectFirst, Collect, Goto
  <1>5. CASE CollectFails
    BY <1>5 DEF CollectFails, Leave, EndScan, NoCall
  <1>6. CASE ReadFile
    BY <1>6 DEF ReadFile, Next1
  <1>7. CASE CompareFile
    BY <1>7 DEF CompareFile, Next1
  <1>8. CASE CaptureFails
    BY <1>8 DEF CaptureFails, Leave, EndScan, NoCall
  <1>9. CASE AddPoint
    <2> PICK ids \in SUBSET Ids : Evicted(ids) /\ Recorded(ids)
      BY <1>9 DEF AddPoint
    <2>1. call.kind = "recovery" => call.target \notin ids
      BY <1>9, EvictedIsFree DEF AddPoint, PlaceOK, CapturePcs, WalkPcs
    <2> QED  BY <1>9, <2>1 DEF AddPoint, Recorded, Without
  <1>10. CASE AddPointUnsure
    <2> PICK ids \in SUBSET Ids : Evicted(ids) /\ Recorded(ids)
      BY <1>10 DEF AddPointUnsure
    <2>1. call.kind = "recovery" => call.target \notin ids
      BY <1>10, EvictedIsFree DEF AddPointUnsure, PlaceOK, CapturePcs, WalkPcs
    <2> QED  BY <1>10, <2>1 DEF AddPointUnsure, Recorded, Without, Leave, NoCall
  <1>11. CASE Tidy
    <2>1. call.kind \in {"turn", "recovery"}
      BY DEF TypeOK
    <2> QED  BY <1>11, <2>1 DEF Tidy, Leave, EndScan, NoCall, Goto
  <1>12. CASE Confirm
    BY <1>12 DEF Confirm, Goto
  <1>13. CASE Build
    BY <1>13 DEF Build, Goto
  <1>14. CASE Prepare
    BY <1>14 DEF Prepare, Leave, EndScan, NoCall
  <1>15. CASE Commit
    BY <1>15 DEF Commit, Settles
  <1>16. CASE RollBack
    BY <1>16 DEF RollBack, Settles
  <1>17. CASE StaysOpen
    BY <1>17 DEF StaysOpen
  <1>18. CASE Clean
    BY <1>18 DEF Clean
  <1>19. CASE Create
    BY <1>19 DEF Create
  <1>20. CASE Insert
    BY <1>20 DEF Insert
  <1>21. CASE InsertFails
    BY <1>21 DEF InsertFails
  <1>22. CASE Delete
    BY <1>22 DEF Delete
  <1>23. CASE DropRow
    BY <1>23 DEF DropRow, Dropped, NoOp
  <1>24. CASE DropRowFails
    BY <1>24 DEF DropRowFails, Dropped, NoOp
  <1>25. CASE Erase
    BY <1>25 DEF Erase, Removed
  <1>26. CASE EraseFails
    BY <1>26 DEF EraseFails
  <1>27. CASE Crash
    BY <1>27 DEF Crash, Leave, EndScan, NoCall
  <1>28. CASE Start
    BY <1>28 DEF Start, CleanUp, Removed
  <1>29. CASE RecoverRollsBack
    BY <1>29 DEF RecoverRollsBack, Settles
  <1>30. CASE RecoverCleans
    BY <1>30 DEF RecoverCleans
  <1>31. CASE RecoverFails
    BY <1>31 DEF RecoverFails
  <1> QED  BY <1>1, <1>2, <1>3, <1>4, <1>5, <1>6, <1>7, <1>8, <1>9, <1>10, <1>11, <1>12, <1>13, <1>14, <1>15, <1>16, <1>17, <1>18, <1>19, <1>20, <1>21, <1>22, <1>23, <1>24, <1>25, <1>26, <1>27, <1>28, <1>29, <1>30, <1>31 DEF Next

\* Every step keeps the points an open operation is about.
LEMMA PendingKeeps ==
  ASSUME TypeOK, PlaceOK, PendingOK, Next PROVE PendingOK'
  <1> USE DEF PendingOK, Pending, Has, diskVars, dbVars, scanVars, walkVars, pastVars
  <1>1. ASSUME NEW p \in Paths, NEW c \in Contents \cup {NoFile}, Write(p, c) PROVE PendingOK'
    BY <1>1 DEF Write
  <1>2. ASSUME NEW id \in Ids, Restore(id) PROVE PendingOK'
    BY <1>2 DEF Restore, Ready
  <1>3. CASE CaptureTurn
    BY <1>3 DEF CaptureTurn, Ready, Goto
  <1>4. CASE CollectFirst
    BY <1>4 DEF CollectFirst, Collect, Goto
  <1>5. CASE CollectFails
    BY <1>5 DEF CollectFails, Leave, EndScan, NoCall
  <1>6. CASE ReadFile
    BY <1>6 DEF ReadFile, Next1
  <1>7. CASE CompareFile
    BY <1>7 DEF CompareFile, Next1
  <1>8. CASE CaptureFails
    BY <1>8 DEF CaptureFails, Leave, EndScan, NoCall
  <1>9. CASE AddPoint
    BY <1>9 DEF AddPoint, PlaceOK, CapturePcs, WalkPcs
  <1>10. CASE AddPointUnsure
    BY <1>10 DEF AddPointUnsure, PlaceOK, CapturePcs, WalkPcs
  <1>11. CASE Tidy
    BY <1>11 DEF Tidy, Leave, EndScan, NoCall, Goto
  <1>12. CASE Confirm
    BY <1>12 DEF Confirm, Goto
  <1>13. CASE Build
    BY <1>13 DEF Build, Goto
  <1>14. CASE Prepare
    BY <1>14 DEF Prepare, Leave, EndScan, NoCall
  <1>15. CASE Commit
    <2>1. op'.target = op.target /\ op'.recovery = op.recovery /\ points' = points
      BY <1>15 DEF Commit, Settles, TypeOK
    <2> QED  BY <1>15, <2>1 DEF Commit, PlaceOK
  <1>16. CASE RollBack
    <2>1. op'.target = op.target /\ op'.recovery = op.recovery /\ points' = points
      BY <1>16 DEF RollBack, Settles, TypeOK
    <2> QED  BY <1>16, <2>1 DEF RollBack, PlaceOK
  <1>17. CASE StaysOpen
    BY <1>17 DEF StaysOpen
  <1>18. CASE Clean
    BY <1>18 DEF Clean
  <1>19. CASE Create
    BY <1>19 DEF Create
  <1>20. CASE Insert
    BY <1>20 DEF Insert
  <1>21. CASE InsertFails
    BY <1>21 DEF InsertFails
  <1>22. CASE Delete
    BY <1>22 DEF Delete
  <1>23. CASE DropRow
    BY <1>23 DEF DropRow, Dropped, NoOp
  <1>24. CASE DropRowFails
    BY <1>24 DEF DropRowFails, Dropped, NoOp
  <1>25. CASE Erase
    BY <1>25 DEF Erase, Removed
  <1>26. CASE EraseFails
    BY <1>26 DEF EraseFails
  <1>27. CASE Crash
    BY <1>27 DEF Crash, Leave, EndScan, NoCall
  <1>28. CASE Start
    BY <1>28 DEF Start, CleanUp, Removed
  <1>29. CASE RecoverRollsBack
    BY <1>29 DEF RecoverRollsBack, Settles
  <1>30. CASE RecoverCleans
    BY <1>30 DEF RecoverCleans
  <1>31. CASE RecoverFails
    BY <1>31 DEF RecoverFails
  <1> QED  BY <1>1, <1>2, <1>3, <1>4, <1>5, <1>6, <1>7, <1>8, <1>9, <1>10, <1>11, <1>12, <1>13, <1>14, <1>15, <1>16, <1>17, <1>18, <1>19, <1>20, <1>21, <1>22, <1>23, <1>24, <1>25, <1>26, <1>27, <1>28, <1>29, <1>30, <1>31 DEF Next

\* Every step keeps what a capture has read in step with the files and objects.
LEMMA WalkKeeps ==
  ASSUME TypeOK, PlaceOK, WalkOK, Next PROVE WalkOK'
  <1> USE DEF WalkOK, WalkPcs, diskVars, dbVars, scanVars, walkVars, pastVars
  <1>1. ASSUME NEW p \in Paths, NEW c \in Contents \cup {NoFile}, Write(p, c) PROVE WalkOK'
    <2>1. /\ live' = [live EXCEPT ![p] = c] /\ UNCHANGED <<objects, pc, i, seen, moment>>
         /\ touched' = IF Read(p) THEN touched \cup {p} ELSE touched
      BY <1>1 DEF Write
    <2>2. CASE pc \notin {"read", "compare"}
      BY <2>1, <2>2 DEF Read
    <2>3. CASE pc = "read"
      <3>1. ASSUME NEW k \in 1..(i - 1), PathOrder[k] \notin touched'
            PROVE  seen[PathOrder[k]] = live'[PathOrder[k]]
        <4>1. PathOrder[k] # p
          BY <2>1, <2>3, <3>1 DEF Read
        <4>2. PathOrder[k] \notin touched
          BY <2>1, <3>1
        <4>3. live'[PathOrder[k]] = live[PathOrder[k]]
          BY <2>1, <4>1 DEF TypeOK, Trees
        <4> QED  BY <2>3, <4>2, <4>3
      <3> QED  BY <2>1, <2>3, <3>1
    <2>4. CASE pc = "compare"
      BY <2>1, <2>4
    <2> QED  BY <2>2, <2>3, <2>4
  <1>2. ASSUME NEW id \in Ids, Restore(id) PROVE WalkOK'
    BY <1>2 DEF Restore, Ready
  <1>3. CASE CaptureTurn
    BY <1>3, BareTree DEF CaptureTurn, Ready, Goto
  <1>4. CASE CollectFirst
    BY <1>4, BareTree DEF CollectFirst, Collect, Goto
  <1>5. CASE CollectFails
    BY <1>5, BareTree DEF CollectFails, Leave, EndScan, NoCall
  <1>6. CASE ReadFile
    <2>1. /\ pc = "read" /\ seen' = [seen EXCEPT ![File] = live[File]]
         /\ objects' = objects \cup ({live[File]} \ {NoFile})
         /\ touched' = touched \ {File} /\ moment' = live /\ live' = live
      BY <1>6 DEF ReadFile
    <2>2. File \in Paths /\ seen' \in Trees /\ seen'[File] = live[File]
         /\ \A p \in Paths \ {File} : seen'[p] = seen[p]
      BY <2>1, FileIsPath DEF TypeOK, Trees
    <2>3. ObjectsOf(seen') \subseteq objects'
      BY <2>1, <2>2 DEF ObjectsOf
    <2>4. \A k \in 1..i : PathOrder[k] \notin touched' => seen'[PathOrder[k]] = live[PathOrder[k]]
      <3> SUFFICES ASSUME NEW k \in 1..i, PathOrder[k] \notin touched'
                   PROVE  seen'[PathOrder[k]] = live[PathOrder[k]]
        OBVIOUS
      <3>1. PathOrder[k] \in Paths
        BY PointsAssumption DEF TypeOK, Paths
      <3>2. CASE PathOrder[k] = File
        BY <2>2, <3>2
      <3>3. CASE PathOrder[k] # File
        <4>1. k \in 1..(i - 1)
          BY <3>3, PointsAssumption DEF TypeOK, File
        <4> QED  BY <2>1, <2>2, <3>1, <3>3, <4>1
      <3> QED  BY <3>2, <3>3
    <2>5. CASE i < Len(PathOrder)
      <3>1. pc' = "read" /\ i' = i + 1 /\ 1..(i' - 1) = 1..i
        BY <1>6, <2>1, <2>5, PointsAssumption DEF ReadFile, Next1, TypeOK
      <3> QED  BY <2>1, <2>3, <2>4, <3>1
    <2>6. CASE ~(i < Len(PathOrder))
      <3>1. pc' = "compare" /\ i' = 1 /\ 1..(i' - 1) = {} /\ i = Len(PathOrder)
        BY <1>6, <2>1, <2>6, PointsAssumption DEF ReadFile, Next1, TypeOK
      <3>2. \A p \in Paths \ touched' : seen'[p] = moment'[p]
        BY <2>1, <2>4, <3>1 DEF Paths
      <3> QED  BY <2>3, <3>1, <3>2
    <2> QED  BY <2>5, <2>6
  <1>7. CASE CompareFile
    <2>1. pc = "compare" /\ File \notin touched /\ UNCHANGED <<objects, live, seen, touched, moment>>
      BY <1>7 DEF CompareFile, Unchanged
    <2>2. \A k \in 1..i : seen[PathOrder[k]] = moment[PathOrder[k]]
      <3> SUFFICES ASSUME NEW k \in 1..i PROVE seen[PathOrder[k]] = moment[PathOrder[k]]
        OBVIOUS
      <3>1. CASE k = i
        BY <2>1, <3>1, FileIsPath DEF File
      <3>2. CASE k # i
        <4>1. k \in 1..(i - 1)
          BY <3>2 DEF TypeOK
        <4> QED  BY <2>1, <4>1
      <3> QED  BY <3>1, <3>2
    <2>3. CASE i < Len(PathOrder)
      <3>1. pc' = "compare" /\ i' = i + 1 /\ 1..(i' - 1) = 1..i
        BY <1>7, <2>1, <2>3, PointsAssumption DEF CompareFile, Next1, TypeOK
      <3> QED  BY <2>1, <2>2, <3>1
    <2>4. CASE ~(i < Len(PathOrder))
      <3>1. pc' = "add" /\ i' = 1 /\ i = Len(PathOrder)
        BY <1>7, <2>1, <2>4, PointsAssumption DEF CompareFile, Next1, TypeOK
      <3>2. \A p \in Paths : seen[p] = moment[p]
        BY <2>2, <3>1 DEF Paths
      <3>3. seen = moment
        BY <3>2 DEF TypeOK, Trees
      <3> QED  BY <2>1, <3>1, <3>3
    <2> QED  BY <2>3, <2>4
  <1>8. CASE CaptureFails
    BY <1>8, BareTree DEF CaptureFails, Leave, EndScan, NoCall
  <1>9. CASE AddPoint
    BY <1>9, BareTree DEF AddPoint, EndScan
  <1>10. CASE AddPointUnsure
    BY <1>10, BareTree DEF AddPointUnsure, Leave, EndScan, NoCall
  <1>11. CASE Tidy
    BY <1>11, BareTree DEF Tidy, Leave, EndScan, NoCall, Goto
  <1>12. CASE Confirm
    BY <1>12, BareTree DEF Confirm, Goto
  <1>13. CASE Build
    BY <1>13, BareTree DEF Build, Goto
  <1>14. CASE Prepare
    BY <1>14, BareTree DEF Prepare, Leave, EndScan, NoCall
  <1>15. CASE Commit
    BY <1>15, BareTree DEF Commit, Settles
  <1>16. CASE RollBack
    BY <1>16, BareTree DEF RollBack, Settles
  <1>17. CASE StaysOpen
    BY <1>17, BareTree DEF StaysOpen
  <1>18. CASE Clean
    BY <1>18, BareTree DEF Clean
  <1>19. CASE Create
    BY <1>19, BareTree DEF Create
  <1>20. CASE Insert
    BY <1>20, BareTree DEF Insert
  <1>21. CASE InsertFails
    BY <1>21, BareTree DEF InsertFails
  <1>22. CASE Delete
    BY <1>22, BareTree DEF Delete
  <1>23. CASE DropRow
    BY <1>23, BareTree DEF DropRow, Dropped, NoOp
  <1>24. CASE DropRowFails
    BY <1>24, BareTree DEF DropRowFails, Dropped, NoOp
  <1>25. CASE Erase
    BY <1>25, BareTree DEF Erase, Removed
  <1>26. CASE EraseFails
    BY <1>26, BareTree DEF EraseFails
  <1>27. CASE Crash
    BY <1>27, BareTree DEF Crash, Leave, EndScan, NoCall
  <1>28. CASE Start
    BY <1>28, BareTree DEF Start, CleanUp, Removed
  <1>29. CASE RecoverRollsBack
    BY <1>29, BareTree DEF RecoverRollsBack, Settles
  <1>30. CASE RecoverCleans
    BY <1>30, BareTree DEF RecoverCleans
  <1>31. CASE RecoverFails
    BY <1>31, BareTree DEF RecoverFails
  <1> QED  BY <1>1, <1>2, <1>3, <1>4, <1>5, <1>6, <1>7, <1>8, <1>9, <1>10, <1>11, <1>12, <1>13, <1>14, <1>15, <1>16, <1>17, <1>18, <1>19, <1>20, <1>21, <1>22, <1>23, <1>24, <1>25, <1>26, <1>27, <1>28, <1>29, <1>30, <1>31 DEF Next

\* Every step keeps the objects of every point: only what no point needs is
\* removed, and a new point is made of what was installed.
LEMMA WholeKeeps ==
  ASSUME TypeOK, PlaceOK, WalkOK, EveryPointIsWhole, Next PROVE EveryPointIsWhole'
  <1> USE DEF EveryPointIsWhole, AllObjects, diskVars, dbVars, scanVars, walkVars, pastVars
  <1>1. ASSUME NEW p \in Paths, NEW c \in Contents \cup {NoFile}, Write(p, c) PROVE EveryPointIsWhole'
    BY <1>1 DEF Write
  <1>2. ASSUME NEW id \in Ids, Restore(id) PROVE EveryPointIsWhole'
    BY <1>2 DEF Restore, Ready
  <1>3. CASE CaptureTurn
    BY <1>3 DEF CaptureTurn, Ready, Goto
  <1>4. CASE CollectFirst
    BY <1>4 DEF CollectFirst, Collect, Kept, AllObjects
  <1>5. CASE CollectFails
    BY <1>5 DEF CollectFails, Kept, AllObjects
  <1>6. CASE ReadFile
    BY <1>6 DEF ReadFile, Next1
  <1>7. CASE CompareFile
    BY <1>7 DEF CompareFile, Next1
  <1>8. CASE CaptureFails
    BY <1>8 DEF CaptureFails, Leave, EndScan, NoCall
  <1>9. CASE AddPoint
    <2> PICK ids \in SUBSET Ids : Evicted(ids) /\ Recorded(ids)
      BY <1>9 DEF AddPoint
    <2>1. ObjectsOf(New.files) \subseteq objects /\ objects' = objects
      BY <1>9 DEF AddPoint, New, WalkOK
    <2> QED  BY <2>1 DEF Recorded, Without
  <1>10. CASE AddPointUnsure
    <2> PICK ids \in SUBSET Ids : Evicted(ids) /\ Recorded(ids)
      BY <1>10 DEF AddPointUnsure
    <2>1. ObjectsOf(New.files) \subseteq objects /\ objects' = objects
      BY <1>10 DEF AddPointUnsure, New, WalkOK
    <2> QED  BY <2>1 DEF Recorded, Without
  <1>11. CASE Tidy
    BY <1>11 DEF Tidy, Kept, AllObjects
  <1>12. CASE Confirm
    BY <1>12 DEF Confirm, Goto
  <1>13. CASE Build
    BY <1>13 DEF Build, Goto
  <1>14. CASE Prepare
    BY <1>14 DEF Prepare, Leave, EndScan, NoCall
  <1>15. CASE Commit
    BY <1>15 DEF Commit, Settles
  <1>16. CASE RollBack
    BY <1>16 DEF RollBack, Settles
  <1>17. CASE StaysOpen
    BY <1>17 DEF StaysOpen
  <1>18. CASE Clean
    BY <1>18 DEF Clean
  <1>19. CASE Create
    BY <1>19 DEF Create, PlaceOK
  <1>20. CASE Insert
    BY <1>20 DEF Insert
  <1>21. CASE InsertFails
    BY <1>21 DEF InsertFails
  <1>22. CASE Delete
    BY <1>22 DEF Delete
  <1>23. CASE DropRow
    BY <1>23 DEF DropRow, Dropped, NoOp
  <1>24. CASE DropRowFails
    BY <1>24 DEF DropRowFails, Dropped, NoOp
  <1>25. CASE Erase
    BY <1>25 DEF Erase, Removed, PlaceOK
  <1>26. CASE EraseFails
    BY <1>26 DEF EraseFails
  <1>27. CASE Crash
    BY <1>27 DEF Crash, Leave, EndScan, NoCall
  <1>28. CASE Start
    <2>1. UNCHANGED points /\ (UNCHANGED objects \/ ~row)
      BY <1>28 DEF Start, CleanUp, Mine, Removed
    <2> QED  BY <2>1 DEF PlaceOK
  <1>29. CASE RecoverRollsBack
    BY <1>29 DEF RecoverRollsBack, Settles
  <1>30. CASE RecoverCleans
    BY <1>30 DEF RecoverCleans
  <1>31. CASE RecoverFails
    BY <1>31 DEF RecoverFails
  <1> QED  BY <1>1, <1>2, <1>3, <1>4, <1>5, <1>6, <1>7, <1>8, <1>9, <1>10, <1>11, <1>12, <1>13, <1>14, <1>15, <1>16, <1>17, <1>18, <1>19, <1>20, <1>21, <1>22, <1>23, <1>24, <1>25, <1>26, <1>27, <1>28, <1>29, <1>30, <1>31 DEF Next

-----------------------------------------------------------------------------
(* The theorems                                                            *)

\* The invariant holds at the start and is kept.
LEMMA Inductive == Spec => []IInv
  <1>1. Init => IInv
    <2> SUFFICES ASSUME Init PROVE IInv
      OBVIOUS
    <2>1. TypeOK
      <3>1. i \in 1..Len(PathOrder) /\ made \in 0..MaxMade /\ latest \in Ids \cup {None}
        BY PointsAssumption DEF Init
      <3>2. NoOp \in [target : Ids \cup {None}, recovery : Ids \cup {None},
                     status : {"cleaned", "prepared", "committed", "rolled_back"}]
        BY DEF NoOp
      <3>3. NoCall \in [kind : {"turn", "recovery"}, target : Ids \cup {None}, shown : Trees]
        BY BareTree DEF NoCall
      <3> QED  BY <3>1, <3>2, <3>3, BareTree DEF Init, TypeOK, Pcs
    <2>2. PlaceOK /\ LatestOK /\ CallOK /\ PendingOK /\ EveryPointIsWhole
      BY DEF Init, PlaceOK, LatestOK, CallOK, PendingOK, Pending, NoOp, NoCall,
             EveryPointIsWhole, AllObjects, CapturePcs, WalkPcs
    <2>3. CountOK
      BY DEF Init, CountOK, WalkPcs, None
    <2>4. WalkOK
      BY BareTree DEF Init, WalkOK, WalkPcs
    <2> QED  BY <2>1, <2>2, <2>3, <2>4 DEF IInv
  <1>2. IInv /\ [Next]_vars => IInv'
    <2> SUFFICES ASSUME IInv, [Next]_vars PROVE IInv'
      OBVIOUS
    <2>1. CASE Next
      BY <2>1, TypeKeeps, PlaceKeeps, CountKeeps, LatestKeeps, CallKeeps, PendingKeeps,
         WalkKeeps, WholeKeeps DEF IInv
    <2>2. CASE UNCHANGED vars
      <3> USE <2>2 DEF vars, diskVars, dbVars, walkVars, scanVars, pastVars
      <3>1. TypeOK'
        BY DEF IInv, TypeOK
      <3>2. PlaceOK' /\ CountOK' /\ LatestOK'
        BY DEF IInv, PlaceOK, CountOK, LatestOK, Pending
      <3>3. CallOK' /\ PendingOK' /\ EveryPointIsWhole'
        BY DEF IInv, CallOK, PendingOK, Pending, Has, EveryPointIsWhole
      <3>4. WalkOK'
        BY DEF IInv, WalkOK
      <3> QED  BY <3>1, <3>2, <3>3, <3>4 DEF IInv
    <2> QED  BY <2>1, <2>2
  <1> QED  BY <1>1, <1>2, PTL DEF Spec

\* The variables keep their types.
THEOREM TypeCorrect == Spec => []TypeOK
  BY Inductive, PTL DEF IInv

\* Every restore point can be built: no collection, eviction, failure or death of
\* the process takes an object a manifest names.
THEOREM PointsAreWhole == Spec => []EveryPointIsWhole
  BY Inductive, PTL DEF IInv

\* The newest backup is kept until there is a newer one, and a restore finds its
\* target and its backup until it is settled, whatever is evicted.
THEOREM NeededPoints == Spec => []NeededPointsStay
  <1>1. IInv => NeededPointsStay
    BY DEF IInv, LatestOK, CallOK, PendingOK, NeededPointsStay, Has
  <1> QED  BY <1>1, Inductive, PTL

\* A restore has the points it names and every content of them, whatever eviction
\* and collection did before.
THEOREM UsablePoints == Spec => []PointsAreUsable
  BY PointsAreWhole, NeededPoints, PTL DEF PointsAreUsable

\* A Thread that has its row has its files, where the service looks for them
\* unless they could not be put back.
THEOREM FilesOutlive == Spec => []FilesOutliveTheRow
  <1>1. IInv => FilesOutliveTheRow
    BY DEF IInv, PlaceOK, FilesOutliveTheRow
  <1> QED  BY <1>1, Inductive, PTL

\* What a capture saves is all the files as they were at one moment, though they
\* are read one after the other and somebody may change them meanwhile.
THEOREM SavedMoment == Spec => SavedIsOneMoment
  <1>1. IInv /\ [Next]_vars =>
          [made' > made => \A p \in points' \ points : p.files = moment]_vars
    <2> SUFFICES ASSUME IInv, Next, made' > made, NEW p \in points' \ points
                 PROVE  p.files = moment
      BY DEF vars, pastVars
    <2>1. made \in Nat
      BY PointsAssumption DEF IInv, TypeOK
    <2>2. ~(made' = made) /\ ~(made' = 0)
      BY <2>1
    <2>3. pc = "add" /\ \E ids \in SUBSET Ids : Recorded(ids)
      BY <2>2, WhatChangesPoints DEF IInv
    <2>4. p = New
      BY <2>3 DEF Recorded, Without
    <2> QED  BY <2>3, <2>4 DEF IInv, WalkOK, New
  <1> QED  BY <1>1, Inductive, PTL DEF Spec, SavedIsOneMoment

=============================================================================
