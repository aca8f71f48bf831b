------------------------------- MODULE FileTools -------------------------------
(***************************************************************************)
(* mutate_file of tools/file_access.py, by which write_file and edit_file   *)
(* change one file, with AtomicWriter of storage/file_io.py.  Subagents     *)
(* call the tools at the same time, commands of the sandbox write the same  *)
(* file without the lock of the tools, and the process may die or the       *)
(* machine lose its power between any two system calls.                     *)
(*                                                                          *)
(* The file is in one directory, which may have to be made.  Its versions   *)
(* are numbered as they come: form[v] is what lies under the name in        *)
(* version v, and version 0 is a directory without the file.  Whether a     *)
(* system call fails, a text is too large or old_string is not found is     *)
(* left open.  A command does not touch the directory itself.               *)
(*                                                                          *)
(* Bounds: one call for each of ToolCalls, MaxCommands writes of commands,  *)
(* MaxDeaths ends of the process.                                           *)
(***************************************************************************)
EXTENDS Naturals

CONSTANTS ToolCalls, LockObjects, NoLock, MaxCommands, MaxDeaths

ASSUME FileToolsAssumption ==
    /\ NoLock \notin LockObjects
    /\ MaxCommands \in Nat /\ MaxDeaths \in Nat

VARIABLES
    \* on disk
    form,       \* what lies under the name, by version
    latest,     \* the last version
    now,        \* the version in place
    kept,       \* what a loss of power may leave of the entry in place ...
    stale,      \* ... and of earlier ones, until the directory is synchronised
    synced,     \* the versions whose bytes are on the disk
    parent,     \* the directory: none, made, or made and synchronised
    \* in the process
    lockEntry,  \* the Thread's entry in _locks
    lockOf,     \* the lock object a call refers to
    place,      \* the next step of a call
    kind,       \* create: write_file, overwrite: with overwrite=true
    drafts,     \* the calls whose staged file is synchronised
    looked,     \* the last version when a call looked at the file
    placed,     \* the version a call made
    reply,      \* done, refused: the tool's result; stopped: StatePersistenceError
    \* counters
    commands, deaths

fileVars == <<form, latest, now, kept, stale, synced>>
lockVars == <<lockEntry, lockOf>>
toolCounters == <<commands, deaths>>
toolVars == <<fileVars, parent, lockVars, place, kind, drafts, looked, placed, reply, toolCounters>>

Kinds == {"create", "overwrite", "edit"}
Forms == {"absent", "whole", "torn", "unsafe"}
Inside == {"open", "pin", "look", "read", "stage", "sync", "put", "settle", "close"}

ToolsTypeOK ==
    /\ latest \in Nat /\ now \in 0..latest
    /\ form \in [0..latest -> Forms]
    /\ kept \subseteq 0..latest /\ stale \subseteq 0..latest /\ synced \subseteq 0..latest
    /\ parent \in {"none", "made", "kept"}
    /\ lockEntry \in LockObjects \cup {NoLock}
    /\ lockOf \in [ToolCalls -> LockObjects \cup {NoLock}]
    /\ place \in [ToolCalls -> Inside \cup {"idle", "wait", "ended", "gone"}]
    /\ kind \in [ToolCalls -> Kinds] /\ drafts \subseteq ToolCalls
    /\ looked \in [ToolCalls -> 0..latest] /\ placed \in [ToolCalls -> 0..latest]
    /\ reply \in [ToolCalls -> {"none", "done", "refused", "stopped"}]
    /\ commands \in 0..MaxCommands /\ deaths \in 0..MaxDeaths

ToolsInit ==
    /\ latest = 1 /\ form \in {[v \in 0..1 |-> IF v = 0 THEN "absent" ELSE f] : f \in {"absent", "whole"}}
    /\ \/ parent = "none" /\ now = 0
       \/ parent = "kept" /\ now = 1
    /\ kept = {now} /\ stale = {} /\ synced = {now}
    /\ lockEntry = NoLock /\ lockOf = [c \in ToolCalls |-> NoLock]
    /\ place = [c \in ToolCalls |-> "idle"] /\ kind = [c \in ToolCalls |-> "edit"]
    /\ drafts = {} /\ looked = [c \in ToolCalls |-> 0] /\ placed = [c \in ToolCalls |-> 0]
    /\ reply = [c \in ToolCalls |-> "none"]
    /\ commands = 0 /\ deaths = 0

-----------------------------------------------------------------------------
(* The lock of a Thread                                                    *)

Referred(l) == \E c \in ToolCalls : lockOf[c] = l

Remembered_Popped(l) == NoLock
\* A WeakValueDictionary: the entry is there while somebody refers to the lock.
Remembered(l) == IF \E c \in ToolCalls : lockOf'[c] = l THEN l ELSE NoLock

\* A tool is called, and takes the lock object of the Thread or makes one.
Call(c, k, l) ==
    /\ place[c] = "idle"
    /\ IF lockEntry = NoLock THEN ~Referred(l) ELSE l = lockEntry
    /\ lockEntry' = l /\ lockOf' = [lockOf EXCEPT ![c] = l]
    /\ place' = [place EXCEPT ![c] = "wait"] /\ kind' = [kind EXCEPT ![c] = k]
    /\ UNCHANGED <<fileVars, parent, drafts, looked, placed, reply, toolCounters>>

Locked(l) == \E c \in ToolCalls : lockOf[c] = l /\ place[c] \in Inside

Go(c, p) == place' = [place EXCEPT ![c] = p] /\ UNCHANGED <<lockVars, reply>>

Acquire(c) ==
    /\ place[c] = "wait" /\ ~Locked(lockOf[c])
    /\ Go(c, "open")
    /\ UNCHANGED <<fileVars, parent, kind, drafts, looked, placed, toolCounters>>

\* The call ends, whichever way, and its with statement gives the lock back.
Leave(c, r) ==
    /\ place' = [place EXCEPT ![c] = "ended"] /\ reply' = [reply EXCEPT ![c] = r]
    /\ lockOf' = [lockOf EXCEPT ![c] = NoLock] /\ lockEntry' = Remembered(lockEntry)

-----------------------------------------------------------------------------
(* mutate_file                                                             *)

OpenParent_Known(c) ==
    /\ place[c] = "open"
    /\ \/ kind[c] = "edit" /\ parent # "none" /\ Go(c, "look") /\ UNCHANGED parent
       \/ /\ kind[c] # "edit" /\ Go(c, IF parent = "none" THEN "pin" ELSE "look")
          /\ parent' = IF parent = "none" THEN "made" ELSE parent
       \/ /\ Leave(c, "refused")
          /\ \/ UNCHANGED parent
             \/ kind[c] # "edit" /\ parent = "none" /\ parent' = "made"
    /\ UNCHANGED <<fileVars, kind, drafts, looked, placed, toolCounters>>

\* parent_fd: write_file makes the directory, which an error may leave; edit_file wants it there.
OpenParent(c) ==
    /\ place[c] = "open"
    /\ \/ kind[c] = "edit" /\ parent # "none" /\ Go(c, "look") /\ UNCHANGED parent
       \/ /\ kind[c] # "edit" /\ Go(c, "pin")
          /\ parent' = IF parent = "none" THEN "made" ELSE parent
       \/ /\ Leave(c, "refused")
          /\ \/ UNCHANGED parent
             \/ kind[c] # "edit" /\ parent = "none" /\ parent' = "made"
    /\ UNCHANGED <<fileVars, kind, drafts, looked, placed, toolCounters>>

\* child_directory_fd synchronises the entry of the directory, also of one it found.
PinParent(c) ==
    /\ place[c] = "pin"
    /\ \/ parent' = "kept" /\ Go(c, "look")
       \/ Leave(c, "stopped") /\ UNCHANGED parent
    /\ UNCHANGED <<fileVars, kind, drafts, looked, placed, toolCounters>>

\* bounded_read takes nothing but a file, and AtomicWriter replaces nothing else.
Regular == form[now] \in {"whole", "torn"}
SafeTarget == form[now] # "unsafe"

\* file_stat and what it permits.
Permits(c) ==
    CASE kind[c] = "create" -> form[now] = "absent"
      [] kind[c] = "overwrite" -> SafeTarget
      [] OTHER -> Regular

Look(c) ==
    /\ place[c] = "look"
    /\ \/ /\ Permits(c) /\ Go(c, IF kind[c] = "edit" THEN "read" ELSE "stage")
          /\ looked' = [looked EXCEPT ![c] = latest]
       \/ Leave(c, "refused") /\ UNCHANGED looked
    /\ UNCHANGED <<fileVars, parent, kind, drafts, placed, toolCounters>>

\* bounded_read and the transform of edit_file.
Read(c) ==
    /\ place[c] = "read"
    /\ \/ /\ Regular /\ Go(c, "stage")
          /\ looked' = [looked EXCEPT ![c] = latest]
       \/ Leave(c, "refused") /\ UNCHANGED looked
    /\ UNCHANGED <<fileVars, parent, kind, drafts, placed, toolCounters>>

\* AtomicWriter: the text goes to a file of its own, which an error removes again.
Stage(c) ==
    /\ place[c] = "stage"
    /\ \/ SafeTarget /\ Go(c, "sync")
       \/ Leave(c, "refused")
    /\ UNCHANGED <<fileVars, parent, kind, drafts, looked, placed, toolCounters>>

SyncDraft(c) ==
    /\ place[c] = "sync"
    /\ \/ Go(c, "put") /\ drafts' = drafts \cup {c}
       \/ Leave(c, "refused") /\ UNCHANGED drafts
    /\ UNCHANGED <<fileVars, parent, kind, looked, placed, toolCounters>>

NewVersion(f) ==
    /\ latest' = latest + 1 /\ now' = latest + 1
    /\ form' = [v \in 0..latest + 1 |-> IF v = latest + 1 THEN f ELSE form[v]]

\* Another entry is under the name; which of them a loss leaves is open.
NewEntry == stale' = stale \cup kept /\ kept' = {latest + 1}

\* os.replace, after a look at what is replaced.
Put(c) ==
    /\ place[c] = "put"
    /\ \/ /\ SafeTarget /\ Go(c, "settle")
          /\ NewVersion("whole") /\ NewEntry
          /\ synced' = IF c \in drafts THEN synced \cup {latest + 1} ELSE synced
          /\ placed' = [placed EXCEPT ![c] = latest + 1]
       \/ Leave(c, "refused") /\ UNCHANGED <<fileVars, placed>>
    /\ UNCHANGED <<parent, kind, drafts, looked, toolCounters>>

\* The directory is synchronised.
SyncEntry(c) ==
    /\ place[c] = "settle"
    /\ \/ stale' = {} /\ Go(c, "close")
       \/ Leave(c, "stopped") /\ UNCHANGED stale
    /\ UNCHANGED <<form, latest, now, kept, synced, parent, kind, drafts, looked, placed, toolCounters>>

\* The descriptors are closed; an error there still stops the Run.
CloseFiles(c) ==
    /\ place[c] = "close"
    /\ \E r \in {"done", "stopped"} : Leave(c, r)
    /\ UNCHANGED <<fileVars, parent, kind, drafts, looked, placed, toolCounters>>

-----------------------------------------------------------------------------
(* Around the tools                                                        *)

\* A command writes into the file, replaces it, removes it, or puts something else there.
Command ==
    /\ commands < MaxCommands /\ commands' = commands + 1
    /\ parent # "none"
    /\ \E f \in {"absent", "whole", "unsafe"} :
          /\ NewVersion(f)
          /\ \/ NewEntry
             \/ /\ f = "whole" /\ Regular
                /\ kept' = kept \cup {latest + 1} /\ UNCHANGED stale
    /\ UNCHANGED <<synced, parent, lockVars, place, kind, drafts, looked, placed, reply, deaths>>

\* The process ends; a call that has not answered is gone with its lock.
ProcessEnds ==
    /\ deaths < MaxDeaths /\ deaths' = deaths + 1
    /\ place' = [c \in ToolCalls |-> IF place[c] \in {"idle", "ended"} THEN place[c] ELSE "gone"]
    /\ lockOf' = [c \in ToolCalls |-> NoLock] /\ lockEntry' = NoLock
    /\ UNCHANGED <<kind, drafts, looked, placed, reply, commands>>

Kill == ProcessEnds /\ UNCHANGED <<fileVars, parent>>

\* One of the entries that may have reached the disk is found after the loss of
\* power, with its bytes or some of them ...
Remains(v) ==
    /\ now' = v /\ kept' = {v} /\ stale' = {} /\ synced' = synced \cup {v}
    /\ \/ UNCHANGED form
       \/ v \notin synced /\ form[v] = "whole" /\ form' = [form EXCEPT ![v] = "torn"]
    /\ UNCHANGED latest

\* ... or its directory is not.
PowerLoss ==
    /\ ProcessEnds
    /\ \/ /\ \E v \in kept \cup stale : Remains(v)
          /\ parent' = IF parent = "made" THEN "kept" ELSE parent
       \/ parent = "made" /\ parent' = "none" /\ Remains(0)

CallStep(c) ==
    \/ \E k \in Kinds, l \in LockObjects : Call(c, k, l)
    \/ Acquire(c) \/ OpenParent(c) \/ PinParent(c) \/ Look(c) \/ Read(c) \/ Stage(c)
    \/ SyncDraft(c) \/ Put(c) \/ SyncEntry(c) \/ CloseFiles(c)

AllAnswered == (\A c \in ToolCalls : place[c] \in {"ended", "gone"}) /\ UNCHANGED toolVars

ToolsNext ==
    \/ \E c \in ToolCalls : CallStep(c)
    \/ Command \/ Kill \/ PowerLoss
    \/ AllAnswered

ToolsSpec == ToolsInit /\ [][ToolsNext]_toolVars

-----------------------------------------------------------------------------

\* No tool loses what another one wrote: between the look or the read a change is made from
\* and the change, no other tool has changed the file (thread_lock), though lock objects come
\* and go with the calls that use them.  Commands take no lock and are not promised this.
ChangesBuildOnTheLast ==
    \A c, d \in ToolCalls :
        placed[c] > 0 => ~(looked[c] < placed[d] /\ placed[d] < placed[c])

\* What a tool answers is true.  After a refusal the file is not what the call would have
\* made of it; after "done" no loss of power leads back before the change, except that
\* edit_file does not vouch for a directory a command or a stopped call has left; and what a
\* tool puts in place is found whole ("成功仅在原子写入及 fsync 完成后返回", write_file).
MayRemain == kept \cup stale \cup (IF parent = "made" THEN {0} ELSE {})
RefusedIsUndone == \A c \in ToolCalls : reply[c] = "refused" => placed[c] = 0
DoneIsDurable ==
    \A c \in ToolCalls : reply[c] = "done" =>
        /\ placed[c] > 0
        /\ \A v \in MayRemain : v >= placed[c] \/ (kind[c] = "edit" /\ v = 0)
PlacedIsWhole == \A c \in ToolCalls : placed[c] > 0 => form[placed[c]] = "whole"
ToolsTellTheTruth == RefusedIsUndone /\ DoneIsDurable /\ PlacedIsWhole
=============================================================================
