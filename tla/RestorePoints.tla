----------------------------- MODULE RestorePoints -----------------------------
(***************************************************************************)
(* The restore points of one Thread and the objects they need:              *)
(* filesystem/file_snapshots.py, _capture and _evictions of                 *)
(* services/file_checkpoint_service.py with add_point of its repository,    *)
(* and what becomes of them when the Thread is created and deleted          *)
(* (services/thread_service.py).                                            *)
(*                                                                          *)
(* The admission lets one operation at a time at the files, but writers     *)
(* outside the service (a process of the container, the user) may change a  *)
(* file between any two steps, an effect may report an error, and the       *)
(* process may die.  The exchange of the directories is module FileRestore; *)
(* here it succeeds, is rolled back, or is left for the next start.         *)
(*                                                                          *)
(* A file is its content, and its digest is itself; every object has size   *)
(* 1.  A signature tells whether a file was changed since it was read.      *)
(* Bounds: MaxMade points ever made, MaxPoints and MaxBytes kept.           *)
(***************************************************************************)
EXTENDS Naturals, Sequences, FiniteSets

CONSTANTS PathOrder, Contents, NoFile, MaxMade, MaxPoints, MaxBytes, ManifestSize

Paths == {PathOrder[k] : k \in 1..Len(PathOrder)}

ASSUME PointsAssumption ==
    /\ PathOrder \in Seq(Paths) /\ Len(PathOrder) > 0
    /\ NoFile \notin Contents /\ IsFiniteSet(Contents)
    /\ {MaxMade, MaxPoints, MaxBytes, ManifestSize} \subseteq Nat

Trees == [Paths -> Contents \cup {NoFile}]
Ids == 1..MaxMade
None == 0

VARIABLES
    \* on disk
    live,     \* the files of the Thread
    objects,  \* the contents in .checkpoints/objects
    place,    \* where the Thread's directory is
    \* in SQLite
    row,      \* the Thread's row
    points,   \* file_restore_points with their manifests; a later one has a greater id
    op,       \* the latest restore operation
    \* in the process
    pc, i,    \* the next step; the file it is about
    call,     \* the capture under way: its kind, the point a restore asks for, what was shown
    seen,     \* what the first walk has read
    touched,  \* the files it has read that changed since
    \* for the properties
    moment,   \* the files when the first walk under way ended
    latest,   \* the newest recovery point ever made
    made,     \* the points made so far
    astray    \* a directory could not be put back where it belongs

diskVars == <<live, objects, place>>
dbVars == <<row, points, op>>
scanVars == <<i, seen, touched, moment>>
walkVars == <<scanVars, call>>
pastVars == <<latest, made, astray>>
vars == <<diskVars, dbVars, pc, walkVars, pastVars>>

Point == [id : Ids, kind : {"turn", "recovery"}, files : Trees]
Pcs == {"idle", "collect", "read", "compare", "add", "tidy", "confirm", "build", "prepare",
        "swap", "clean", "recover", "insert", "drop", "dropOnly", "erase", "down"}

TypeOK ==
    /\ live \in Trees /\ objects \subseteq Contents
    /\ place \in {"live", "deleting", "none"}
    /\ row \in BOOLEAN /\ points \subseteq Point
    /\ op \in [target : Ids \cup {None}, recovery : Ids \cup {None},
               status : {"cleaned", "prepared", "committed", "rolled_back"}]
    /\ pc \in Pcs /\ i \in 1..Len(PathOrder)
    /\ call \in [kind : {"turn", "recovery"}, target : Ids \cup {None}, shown : Trees]
    /\ seen \in Trees /\ touched \subseteq Paths
    /\ moment \in Trees /\ latest \in Ids \cup {None} /\ made \in 0..MaxMade
    /\ astray \in BOOLEAN

Bare == [p \in Paths |-> NoFile]
NoOp == [target |-> None, recovery |-> None, status |-> "cleaned"]
NoCall == [kind |-> "turn", target |-> None, shown |-> Bare]

Init ==
    /\ live = Bare /\ objects = {} /\ place = "none"
    /\ row = FALSE /\ points = {} /\ op = NoOp
    /\ pc = "idle" /\ i = 1 /\ call = NoCall /\ seen = Bare /\ touched = {}
    /\ moment = Bare /\ latest = None /\ made = 0 /\ astray = FALSE

ObjectsOf(files) == {files[p] : p \in Paths} \ {NoFile}
AllObjects(ps) == UNION {ObjectsOf(p.files) : p \in ps}
Has(id) == \E p \in points : p.id = id
At(id) == CHOOSE p \in points : p.id = id
Pending == op.status # "cleaned"

\* The walks, or the call, are over; their local variables end with them.
EndScan == i' = 1 /\ seen' = Bare /\ touched' = {} /\ moment' = Bare
Leave(next) == pc' = next /\ call' = NoCall /\ EndScan
Goto(next) == pc' = next /\ UNCHANGED walkVars

-----------------------------------------------------------------------------
(* The files                                                               *)

\* A tool, an upload, or somebody outside the service changes a file; what the
\* walk has read so far are the files before i, or all of them.
Read(p) == pc = "compare" \/ (pc = "read" /\ \E k \in 1..(i - 1) : PathOrder[k] = p)
Write(p, c) ==
    /\ place = "live" /\ c # live[p]
    /\ live' = [live EXCEPT ![p] = c]
    /\ touched' = IF Read(p) THEN touched \cup {p} ELSE touched
    /\ UNCHANGED <<objects, place, dbVars, pc, i, call, seen, moment, pastVars>>

-----------------------------------------------------------------------------
(* A capture                                                               *)

Ready == pc = "idle" /\ row /\ ~Pending /\ place = "live" /\ made < MaxMade

\* capture_turn, before a Run answers.
CaptureTurn ==
    /\ Ready
    /\ Goto("collect")
    /\ UNCHANGED <<diskVars, dbVars, pastVars>>

\* restore: the target is validated with its objects, and what the user was
\* shown is what the files are.
Restore(id) ==
    /\ Ready /\ Has(id) /\ ObjectsOf(At(id).files) \subseteq objects
    /\ pc' = "collect"
    /\ call' = [kind |-> "recovery", target |-> id, shown |-> live]
    /\ UNCHANGED <<diskVars, dbVars, scanVars, pastVars>>

\* collect: the objects no point refers to are removed; it may fail on the way.
Kept_Before(o) == o \in AllObjects({p \in points : p.id # made})
Kept(o) == o \in AllObjects(points)
Collect(next) ==
    /\ objects' = {o \in objects : Kept(o)}
    /\ Goto(next)
    /\ UNCHANGED <<live, place, dbVars, pastVars>>
CollectFails ==
    /\ pc \in {"collect", "tidy"}
    /\ \E o \in SUBSET {x \in objects : ~Kept(x)} : objects' = objects \ o
    /\ Leave("idle")
    /\ UNCHANGED <<live, place, dbVars, pastVars>>
CollectFirst == pc = "collect" /\ Collect("read")

File == PathOrder[i]
Next1(next) == IF i < Len(PathOrder) THEN i' = i + 1 /\ UNCHANGED pc ELSE i' = 1 /\ pc' = next

\* The first walk reads a file and installs what it holds, unless it is there.
ReadFile ==
    /\ pc = "read"
    /\ seen' = [seen EXCEPT ![File] = live[File]]
    /\ objects' = objects \cup ({live[File]} \ {NoFile})
    /\ touched' = touched \ {File}
    /\ Next1("compare")
    /\ moment' = live
    /\ UNCHANGED <<live, place, dbVars, call, pastVars>>

\* The second walk compares the signatures of the first with those it meets.
Unchanged_ByContent(p) == seen[p] = live[p]
Unchanged(p) == p \notin touched
CompareFile ==
    /\ pc = "compare" /\ Unchanged(File)
    /\ Next1("add")
    /\ UNCHANGED <<diskVars, dbVars, call, seen, touched, moment, pastVars>>

\* A file that changed, one that cannot be read, no room on the disk, more than
\* the capacity: nothing was saved, though objects were.
CaptureFails ==
    /\ pc \in {"read", "compare", "add", "confirm", "build", "prepare"}
    /\ Leave("idle")
    /\ UNCHANGED <<diskVars, dbVars, pastVars>>

-----------------------------------------------------------------------------
(* What is kept                                                            *)

\* _usage: an object counts once.
Usage(ps) == Cardinality(AllObjects(ps)) + Cardinality(ps) * ManifestSize
Without(ps, ids) == {p \in ps : p.id \notin ids}

Recoveries == {p.id : p \in {q \in points : q.kind = "recovery"}}
Newest == {id \in Recoveries : \A other \in Recoveries : other <= id}
OperationPins == IF Pending THEN {op.target, op.recovery} ELSE {}
Pinned_OperationsOnly == OperationPins
Pinned == OperationPins \cup Newest

\* _evictions: a backup replaces the newest recovery point, whatever else it must keep.
Pins == IF call.kind = "recovery" THEN {call.target} ELSE {}
Protected ==
    (Pinned \cup Pins) \ (IF call.kind = "recovery" THEN Newest \ (Pins \cup OperationPins) ELSE {})

New == [id |-> made + 1, kind |-> call.kind, files |-> seen]
Fits(ids) == LET ps == Without(points, ids) \cup {New}
             IN  Cardinality(ps) <= MaxPoints /\ Usage(ps) <= MaxBytes
\* The points up to the k-th ever made that nothing protects.
Oldest(k) == {id \in 1..k : Has(id)} \ Protected
\* They go one by one until the rest fits.
Evicted(ids) ==
    \E k \in 0..made :
        /\ ids = Oldest(k) /\ Fits(ids)
        /\ \A l \in 0..(k - 1) : ~Fits(Oldest(l))

\* add_point, one transaction: the new point, and the end of the evicted ones.
Recorded(ids) ==
    /\ points' = Without(points, ids) \cup {New}
    /\ made' = made + 1
    /\ latest' = IF call.kind = "recovery" THEN made + 1 ELSE latest
AddPoint ==
    /\ pc = "add"
    /\ \E ids \in SUBSET Ids : Evicted(ids) /\ Recorded(ids)
    /\ pc' = "tidy" /\ EndScan
    /\ UNCHANGED <<diskVars, row, op, call, astray>>
\* It takes place, but reports an error.
AddPointUnsure ==
    /\ pc = "add"
    /\ \E ids \in SUBSET Ids : Evicted(ids) /\ Recorded(ids)
    /\ Leave("idle")
    /\ UNCHANGED <<diskVars, row, op, astray>>

\* The points are read anew, so that the new one keeps its objects.
Tidy ==
    /\ pc = "tidy"
    /\ objects' = {o \in objects : Kept(o)}
    /\ IF call.kind = "turn" THEN Leave("idle") ELSE Goto("confirm")
    /\ UNCHANGED <<live, place, dbVars, pastVars>>

-----------------------------------------------------------------------------
(* A restore, after its backup                                             *)

\* The backup is what was shown; otherwise the restore is refused (CaptureFails).
Confirm ==
    /\ pc = "confirm" /\ At(made).files = call.shown
    /\ Goto("build")
    /\ UNCHANGED <<diskVars, dbVars, pastVars>>

\* materialize, from the target's objects.
Build ==
    /\ pc = "build" /\ Has(call.target) /\ ObjectsOf(At(call.target).files) \subseteq objects
    /\ Goto("prepare")
    /\ UNCHANGED <<diskVars, dbVars, pastVars>>

Prepare ==
    /\ pc = "prepare" /\ Has(call.target) /\ Has(made)
    /\ op' = [target |-> call.target, recovery |-> made, status |-> "prepared"]
    /\ Leave("swap")
    /\ UNCHANGED <<diskVars, row, points, pastVars>>

\* What FileRestore's exchange comes to: the files of a point it can build, and
\* a status that says which.
Settles(id, status) ==
    /\ Has(id) /\ ObjectsOf(At(id).files) \subseteq objects
    /\ live' = At(id).files
    /\ op' = [op EXCEPT !.status = status]
    /\ pc' = "clean"
    /\ UNCHANGED <<objects, place, row, points, walkVars, pastVars>>
Commit == pc = "swap" /\ Settles(op.target, "committed")
RollBack == pc = "swap" /\ Settles(op.recovery, "rolled_back")
\* It stays open; the Thread is closed until the next start.
StaysOpen ==
    /\ pc \in {"swap", "clean"}
    /\ pc' = "idle"
    /\ UNCHANGED <<diskVars, dbVars, walkVars, pastVars>>
Clean ==
    /\ pc = "clean"
    /\ op' = [op EXCEPT !.status = "cleaned"]
    /\ pc' = "idle"
    /\ UNCHANGED <<diskVars, row, points, walkVars, pastVars>>

-----------------------------------------------------------------------------
(* The Thread                                                              *)

\* create_thread: a new identifier, so nothing of an earlier Thread is met.
Create ==
    /\ pc = "idle" /\ ~row /\ place = "none"
    /\ place' = "live" /\ live' = Bare /\ objects' = {}
    /\ pc' = "insert"
    /\ latest' = None /\ made' = 0 /\ astray' = FALSE
    /\ UNCHANGED <<dbVars, walkVars>>
Insert ==
    /\ pc = "insert"
    /\ row' = TRUE /\ pc' = "idle"
    /\ UNCHANGED <<diskVars, points, op, walkVars, pastVars>>
InsertFails ==
    /\ pc = "insert"
    /\ place' = "none" /\ pc' = "idle"
    /\ UNCHANGED <<live, objects, dbVars, walkVars, pastVars>>

\* delete_thread: the directory is set aside, the row is deleted with all that
\* refers to it, the directory is removed.  One set aside before stays there.
Delete ==
    /\ pc = "idle" /\ row /\ ~Pending
    /\ place' = IF place = "live" THEN "deleting" ELSE place
    /\ pc' = IF place = "live" THEN "drop" ELSE "dropOnly"
    /\ UNCHANGED <<live, objects, dbVars, walkVars, pastVars>>
Dropped == row' = FALSE /\ points' = {} /\ op' = NoOp
DropRow ==
    /\ pc \in {"drop", "dropOnly"}
    /\ Dropped
    /\ pc' = IF pc = "drop" THEN "erase" ELSE "idle"
    /\ UNCHANGED <<diskVars, walkVars, pastVars>>
\* The transaction fails, or only says so; the directory is put back, if it can be.
DropRowFails ==
    /\ pc \in {"drop", "dropOnly"}
    /\ Dropped \/ UNCHANGED dbVars
    /\ \/ pc = "drop" /\ place' = "live" /\ UNCHANGED astray
       \/ UNCHANGED place /\ astray' = TRUE
    /\ pc' = "idle"
    /\ UNCHANGED <<live, objects, walkVars, latest, made>>
Removed == place' = "none" /\ objects' = {} /\ live' = Bare
Erase ==
    /\ pc = "erase"
    /\ Removed
    /\ pc' = "idle"
    /\ UNCHANGED <<dbVars, walkVars, pastVars>>
EraseFails ==
    /\ pc = "erase"
    /\ pc' = "idle"
    /\ UNCHANGED <<diskVars, dbVars, walkVars, pastVars>>

-----------------------------------------------------------------------------
(* The process                                                             *)

Crash ==
    /\ pc # "down"
    /\ Leave("down")
    /\ UNCHANGED <<diskVars, dbVars, pastVars>>

\* cleanup_pending_thread_deletions: the row decides what becomes of a
\* directory that was set aside.
Mine_Never == FALSE
Mine == row
CleanUp ==
    IF place # "deleting"
    THEN UNCHANGED diskVars /\ astray' = FALSE
    ELSE \/ Mine /\ place' = "live" /\ UNCHANGED <<live, objects>> /\ astray' = FALSE
         \/ ~Mine /\ Removed /\ astray' = FALSE
         \* the row cannot be read, or the directory not be moved or removed
         \/ UNCHANGED diskVars /\ astray' = TRUE

\* The start, and recover_pending, which settles an open operation if it can.
Start ==
    /\ pc = "down"
    /\ CleanUp
    /\ pc' = IF Pending /\ place' = "live" THEN "recover" ELSE "idle"
    /\ UNCHANGED <<dbVars, walkVars, latest, made>>

RecoverRollsBack ==
    /\ pc = "recover" /\ op.status = "prepared"
    /\ Settles(op.recovery, "rolled_back")
RecoverCleans ==
    /\ pc = "recover" /\ op.status # "prepared"
    /\ live = At(IF op.status = "committed" THEN op.target ELSE op.recovery).files
    /\ pc' = "clean"
    /\ UNCHANGED <<diskVars, dbVars, walkVars, pastVars>>
RecoverFails ==
    /\ pc = "recover"
    /\ pc' = "idle"
    /\ UNCHANGED <<diskVars, dbVars, walkVars, pastVars>>

Next ==
    \/ \E p \in Paths, c \in Contents \cup {NoFile} : Write(p, c)
    \/ CaptureTurn \/ \E id \in Ids : Restore(id)
    \/ CollectFirst \/ CollectFails \/ ReadFile \/ CompareFile \/ CaptureFails
    \/ AddPoint \/ AddPointUnsure \/ Tidy
    \/ Confirm \/ Build \/ Prepare \/ Commit \/ RollBack \/ StaysOpen \/ Clean
    \/ Create \/ Insert \/ InsertFails
    \/ Delete \/ DropRow \/ DropRowFails \/ Erase \/ EraseFails
    \/ Crash \/ Start \/ RecoverRollsBack \/ RecoverCleans \/ RecoverFails

Spec == Init /\ [][Next]_vars

-----------------------------------------------------------------------------
(* Properties                                                              *)

\* Every restore point can be built: the contents its manifest names are in the
\* object store, whatever was collected, evicted or left unfinished.
EveryPointIsWhole == AllObjects(points) \subseteq objects

\* What a restore point saves was the whole of the files at one moment, however
\* they were changed while the two walks went by.
SavedIsOneMoment == [][made' > made => \A p \in points' \ points : p.files = moment]_vars

\* The newest backup is kept until there is a newer one, and a restore finds
\* its target and its backup until it is settled.
NeededPointsStay ==
    /\ row /\ latest # None => Has(latest)
    /\ pc \in {"confirm", "build", "prepare"} => Has(call.target)
    /\ Pending => Has(op.target) /\ Has(op.recovery)

\* A restore the user may ask for, or that is under way, has all it needs: the points it
\* names and the contents of their files (_prune, collect_garbage, restore).
PointsAreUsable == EveryPointIsWhole /\ NeededPointsStay

\* While a Thread has its row its files exist, and while the service serves
\* they are where the row says, unless a directory could not be put back; the
\* directory is removed only when the row is gone.
FilesOutliveTheRow ==
    row => place # "none" /\ (pc = "idle" /\ ~astray => place = "live")
================================================================================
