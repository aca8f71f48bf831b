----------------------------- MODULE ThreadSandbox -----------------------------
(***************************************************************************)
(* The containers of the Threads: sandbox/manager.py (cards, one lock per   *)
(* Thread, lease, reaper, close), the way sandbox/docker_runner.py runs a   *)
(* docker client (start, wait, time limit, cancellation, cleanup), and the  *)
(* flag of repositories/sandbox_safety_repository.py.                       *)
(*                                                                          *)
(* A call is one bash tool call of a Run; it holds the lock of its Thread   *)
(* from Enter to Leave.  An operation that holds the lock for one effect    *)
(* only (removing a container) is one action that finds the lock free.  A   *)
(* name is given again once Docker knows nothing of it any more.            *)
(*                                                                          *)
(* Docker is external: a client that has been killed asks for nothing more, *)
(* and one that exits by itself has its command ended.                      *)
(*                                                                          *)
(* Bounds: MaxTrouble caps failures of Docker, ends of the process and      *)
(* cancellations, all told; Boxes the containers there are at a time.       *)
(***************************************************************************)
EXTENDS Naturals, FiniteSets

CONSTANTS Threads, Runs, Calls, Boxes,
          ThreadOf, RunOf,            \* a Run's Thread, a call's Run
          NoRun, NoBox, Free, Deleter, MaxTrouble

ASSUME SandboxAssumption ==
    /\ ThreadOf \in [Runs -> Threads] /\ RunOf \in [Calls -> Runs]
    /\ NoRun \notin Runs /\ NoBox \notin Boxes
    /\ Free \notin Calls /\ Deleter \notin Calls /\ Free # Deleter
    /\ MaxTrouble \in Nat

VARIABLES
    card,      \* _active and _warm_pool: the card of a Thread and the pool it lies in
    lock,      \* who holds the lock of a Thread over more than one step
    at,        \* where a call is in run() and _run_process
    entering,  \* the Runs whose begin_run has looked at the workspace
    todo,      \* the keys a round of the reaper, or close, still goes through
    failed,    \* close could not remove every container
    up,        \* the process: it starts, serves, closes, is down
    box,       \* Docker: the state of each container
    busy,      \* Docker: how many commands run in it
    overtaken, \* containers whose docker run goes on although nobody waits for it
    lateExec,  \* containers a docker exec is going to enter although nobody waits for it
    dirs,      \* the Threads whose directory exists
    flag,      \* SQLite: runtime_flags.sandbox_state
    used

memVars == <<card, lock, at, entering, todo, failed, up>>
dockerVars == <<box, busy, overtaken, lateExec>>
vars == <<memVars, dockerVars, dirs, flag, used>>

Th(c) == ThreadOf[RunOf[c]]
NoCard == [pool |-> "none", run |-> NoRun, box |-> NoBox, broken |-> FALSE, idle |-> "no"]
CardOf(th, b) == card[th].box = b

TypeOK ==
    /\ card \in [Threads -> [pool : {"none", "active", "warm"}, run : Runs \cup {NoRun},
                             box : Boxes \cup {NoBox}, broken : BOOLEAN,
                             idle : {"no", "short", "long"}]]
    /\ lock \in [Threads -> Calls \cup {Free, Deleter}]
    /\ at \in [Calls -> {"out", "check", "inspect", "create", "startLaunch", "startWait",
                         "execLaunch", "execWait", "startCancelled", "execCancelled",
                         "kill", "timeout", "destroy"}]
    /\ entering \subseteq Runs /\ todo \subseteq Threads /\ failed \in BOOLEAN
    /\ up \in {"down", "starting", "up", "closing"}
    /\ box \in [Boxes -> {"unused", "named", "running", "dead"}]
    /\ busy \in [Boxes -> Nat]
    /\ overtaken \subseteq Boxes /\ lateExec \subseteq Boxes
    /\ dirs \subseteq Threads /\ flag \in {"none", "active", "clear"} /\ used \in Nat

Init ==
    /\ card = [th \in Threads |-> NoCard] /\ lock = [th \in Threads |-> Free]
    /\ at = [c \in Calls |-> "out"] /\ entering = {} /\ todo = {} /\ failed = FALSE
    /\ up = "down"
    /\ box = [b \in Boxes |-> "unused"] /\ busy = [b \in Boxes |-> 0]
    /\ overtaken = {} /\ lateExec = {}
    /\ dirs = Threads /\ flag = "none" /\ used = 0

Trouble == used < MaxTrouble /\ used' = used + 1

-----------------------------------------------------------------------------
(* Docker                                                                  *)

\* docker rm -f, confirmed: the container was there, or there was none of that name.
Removed(b) ==
    /\ box' = [box EXCEPT ![b] = IF @ = "named" /\ b \in overtaken THEN @ ELSE "unused"]
    /\ busy' = [busy EXCEPT ![b] = 0]
    /\ overtaken' = IF box[b] = "named" THEN overtaken ELSE overtaken \ {b}
    /\ lateExec' = lateExec \ {b}

\* Five attempts failed, or were cut off by a further cancellation; the last may have
\* taken place all the same.
NotRemoved(b) == Trouble /\ (Removed(b) \/ UNCHANGED dockerVars)

\* _destroy: the name is only forgotten once the removal is confirmed.
DestroyOk(th) ==
    IF card[th].box = NoBox THEN UNCHANGED <<dockerVars, used>>
    ELSE Removed(card[th].box) /\ UNCHANGED used
DestroyFails(th) ==
    /\ card[th].box # NoBox /\ NotRemoved(card[th].box)
    /\ card' = [card EXCEPT ![th].broken = TRUE]
Clean(th) == [card EXCEPT ![th].box = NoBox, ![th].broken = FALSE]

\* A container ends without being asked: out of memory, or stopped by hand.
BoxDies(b) ==
    /\ box[b] = "running" /\ Trouble
    /\ box' = [box EXCEPT ![b] = "dead"] /\ busy' = [busy EXCEPT ![b] = 0]
    /\ UNCHANGED <<memVars, overtaken, lateExec, dirs, flag>>

\* The client of a launch that was abandoned comes to Docker after all.
LateStart(b) ==
    /\ b \in overtaken /\ box[b] = "named"
    /\ \/ box' = [box EXCEPT ![b] = "running"] /\ UNCHANGED overtaken
       \/ box' = [box EXCEPT ![b] = "unused"] /\ overtaken' = overtaken \ {b}
    /\ \A th \in Threads : box'[b] = "unused" => ~CardOf(th, b)
    /\ UNCHANGED <<memVars, busy, lateExec, dirs, flag, used>>

LateExec(b) ==
    /\ b \in lateExec
    /\ lateExec' = lateExec \ {b}
    /\ busy' = [busy EXCEPT ![b] = IF box[b] = "running" THEN @ + 1 ELSE @]
    /\ UNCHANGED <<memVars, box, overtaken, dirs, flag, used>>

-----------------------------------------------------------------------------
(* begin_run and end_run                                                   *)

\* The workspace is looked at before the lock is asked for.
BeginCheck(r) ==
    /\ up \in {"up", "closing"} /\ r \notin entering /\ ThreadOf[r] \in dirs
    /\ \A th \in Threads : card[th].run # r
    /\ entering' = entering \cup {r}
    /\ UNCHANGED <<card, lock, at, todo, failed, up, dockerVars, dirs, flag, used>>

\* A card of another Run, or a manager that is closed, refuses; a card of the pool is
\* taken over as it is.
BeginRun_AnyTime(r) ==
    LET th == ThreadOf[r] IN
    /\ card' = [card EXCEPT ![th].pool = "active", ![th].run = r, ![th].idle = "no"]
    /\ entering' = entering \ {r}

BeginRun(r) ==
    LET th == ThreadOf[r] IN
    /\ r \in entering /\ lock[th] = Free
    /\ \/ up = "up" /\ card[th].pool # "active" /\ BeginRun_AnyTime(r)
       \/ (up # "up" \/ card[th].pool = "active") /\ entering' = entering \ {r} /\ UNCHANGED card
    /\ UNCHANGED <<lock, at, todo, failed, up, dockerVars, dirs, flag, used>>

\* A late end_run of another Run changes nothing; a card without container is dropped.
EndRun_NoClock(r) ==
    LET th == ThreadOf[r] IN
    /\ lock[th] = Free /\ card[th].pool = "active" /\ card[th].run = r
    /\ card' = [card EXCEPT ![th] = IF @.box = NoBox THEN NoCard
                                    ELSE [@ EXCEPT !.pool = "warm", !.run = NoRun]]
    /\ UNCHANGED <<lock, at, entering, todo, failed, up, dockerVars, dirs, flag, used>>

EndRun(r) ==
    LET th == ThreadOf[r] IN
    /\ lock[th] = Free /\ card[th].pool = "active" /\ card[th].run = r
    /\ card' = [card EXCEPT ![th] = IF @.box = NoBox THEN NoCard
                                    ELSE [@ EXCEPT !.pool = "warm", !.run = NoRun, !.idle = "short"]]
    /\ UNCHANGED <<lock, at, entering, todo, failed, up, dockerVars, dirs, flag, used>>

-----------------------------------------------------------------------------
(* run: one command, under the lock                                        *)

Goto(c, place) == at' = [at EXCEPT ![c] = place]
Leave(c) == Goto(c, "out") /\ lock' = [lock EXCEPT ![Th(c)] = Free]
callRest == <<entering, todo, failed, up, dirs, flag>>

MayRun_Deleted(c) == card[Th(c)].pool = "active" /\ card[Th(c)].run = RunOf[c]
MayRun(c) == MayRun_Deleted(c) /\ Th(c) \in dirs

Enter(c) ==
    /\ up = "up" /\ at[c] = "out" /\ lock[Th(c)] = Free
    /\ MayRun(c)
    /\ lock' = [lock EXCEPT ![Th(c)] = c]
    /\ Goto(c, "check")
    /\ UNCHANGED <<card, dockerVars, used, callRest>>

\* What the last trouble left behind is removed before anything runs.
Check(c) ==
    LET th == Th(c) IN
    /\ at[c] = "check"
    /\ \/ ~card[th].broken /\ Goto(c, IF card[th].box = NoBox THEN "create" ELSE "inspect")
          /\ UNCHANGED <<lock, card, dockerVars, used>>
       \/ card[th].broken /\ DestroyOk(th) /\ card' = Clean(th) /\ Goto(c, "create") /\ UNCHANGED lock
       \/ card[th].broken /\ DestroyFails(th) /\ Leave(c)
    /\ UNCHANGED callRest

\* container_is_running; an answer that cannot be had is an error of the call, and so is
\* a cancellation: both leave the card alone.
Inspect(c) ==
    LET th == Th(c)
        b == card[th].box IN
    /\ at[c] = "inspect"
    /\ \/ box[b] = "running" /\ Goto(c, "execLaunch") /\ UNCHANGED <<lock, card, dockerVars, used>>
       \/ box[b] # "running" /\ DestroyOk(th) /\ card' = Clean(th) /\ Goto(c, "create")
          /\ UNCHANGED lock
       \/ box[b] # "running" /\ DestroyFails(th) /\ Leave(c)
       \/ Trouble /\ Leave(c) /\ UNCHANGED <<card, dockerVars>>
    /\ UNCHANGED callRest

\* The name is on the card before Docker hears of it.
Name(c) ==
    /\ at[c] = "create"
    /\ \E b \in Boxes :
        /\ box[b] = "unused" /\ \A th \in Threads : ~CardOf(th, b)
        /\ box' = [box EXCEPT ![b] = "named"]
        /\ card' = [card EXCEPT ![Th(c)].box = b]
    /\ Goto(c, "startLaunch")
    /\ UNCHANGED <<lock, busy, overtaken, lateExec, used, callRest>>

\* _start_process; a launch that was cancelled once is waited for, to be able to kill it.
Launch(c) ==
    /\ at[c] \in {"startLaunch", "execLaunch", "startCancelled", "execCancelled"}
    /\ Goto(c, CASE at[c] = "startLaunch" -> "startWait"
                 [] at[c] = "execLaunch" -> "execWait"
                 [] OTHER -> "kill")
    /\ busy' = IF at[c] = "execLaunch" /\ box[card[Th(c)].box] = "running"
               THEN [busy EXCEPT ![card[Th(c)].box] = @ + 1] ELSE busy
    /\ UNCHANGED <<lock, card, box, overtaken, lateExec, used, callRest>>

\* docker cannot be executed at all.
LaunchFails(c) ==
    /\ at[c] \in {"startLaunch", "execLaunch"} /\ Trouble
    /\ Goto(c, "destroy")
    /\ UNCHANGED <<lock, card, dockerVars, callRest>>

\* The user stops the Run, its time is over, or the process shuts down.
Cancel(c) ==
    /\ at[c] \in {"startLaunch", "execLaunch", "startWait", "execWait"} /\ Trouble
    /\ Goto(c, CASE at[c] = "startLaunch" -> "startCancelled"
                 [] at[c] = "execLaunch" -> "execCancelled"
                 [] OTHER -> "kill")
    /\ UNCHANGED <<lock, card, dockerVars, callRest>>

\* A second cancellation during the launch: what it launches is nobody's any more.
Abandon(c) ==
    LET b == card[Th(c)].box IN
    /\ at[c] \in {"startCancelled", "execCancelled"} /\ Trouble
    /\ overtaken' = IF at[c] = "startCancelled" THEN overtaken \cup {b} ELSE overtaken
    /\ lateExec' = IF at[c] = "execCancelled" THEN lateExec \cup {b} ELSE lateExec
    /\ Goto(c, "kill")
    /\ UNCHANGED <<lock, card, box, busy, callRest>>

\* The client of docker run --detach has ended.
Started(c) ==
    LET b == card[Th(c)].box IN
    /\ at[c] = "startWait"
    /\ \/ /\ box' = [box EXCEPT ![b] = "running"]
          /\ Goto(c, "execLaunch") /\ UNCHANGED used
       \/ /\ Trouble /\ Goto(c, "destroy")
          /\ UNCHANGED box \/ box' = [box EXCEPT ![b] = "dead"]
    /\ UNCHANGED <<lock, card, busy, overtaken, lateExec, callRest>>

\* The command has ended, or its container did; its output may fail to be saved.
Ended(c) ==
    LET b == card[Th(c)].box IN
    /\ at[c] = "execWait"
    /\ busy' = [busy EXCEPT ![b] = IF @ > 0 THEN @ - 1 ELSE 0]
    /\ \/ Leave(c) /\ UNCHANGED used
       \/ Trouble /\ Goto(c, "destroy") /\ UNCHANGED lock
    /\ UNCHANGED <<card, box, overtaken, lateExec, callRest>>

\* timeout_seconds are over; a command may well never end by itself.
TimeLimit(c) ==
    /\ at[c] \in {"startWait", "execWait"}
    /\ Goto(c, IF at[c] = "execWait" THEN "timeout" ELSE "kill")
    /\ UNCHANGED <<lock, card, dockerVars, used, callRest>>

\* _cleanup_cancelled_process: the client is killed, the container removed by its name.  A
\* command that ran out of time is a result, everything else an error of run().
KillRemoves_ClientOnly(c) == UNCHANGED dockerVars
KillRemoves(c) == Removed(card[Th(c)].box)

Kill(c) ==
    LET th == Th(c) IN
    /\ at[c] \in {"kill", "timeout"}
    /\ \/ KillRemoves(c) /\ UNCHANGED used
          /\ IF at[c] = "timeout"
             THEN card' = [card EXCEPT ![th].box = NoBox] /\ Leave(c)
             ELSE Goto(c, "destroy") /\ UNCHANGED <<card, lock>>
       \/ NotRemoved(card[th].box) /\ Goto(c, "destroy") /\ UNCHANGED <<card, lock>>
    /\ UNCHANGED callRest

\* The except of run(): the container is not used again, whether it could be removed or not.
Destroy(c) ==
    LET th == Th(c) IN
    /\ at[c] = "destroy"
    /\ Leave(c)
    /\ \/ DestroyOk(th) /\ card' = Clean(th)
       \/ DestroyFails(th)
    /\ UNCHANGED callRest

-----------------------------------------------------------------------------
(* Stopping, reaping, deleting, closing                                    *)

\* stop_thread, for the Runtime, a preview or a restore.
StopThread(th) ==
    /\ up \in {"up", "closing"} /\ lock[th] = Free /\ card[th].pool # "none"
    /\ \/ DestroyOk(th) /\ card' = [card EXCEPT ![th] = NoCard]
       \/ DestroyFails(th)
    /\ UNCHANGED <<lock, at, callRest>>

Ages(th) ==
    /\ card[th].idle = "short"
    /\ card' = [card EXCEPT ![th].idle = "long"]
    /\ UNCHANGED <<lock, at, dockerVars, used, callRest>>

\* reap_idle works on a copy of the keys and reads the card again under its lock.
ReapBegin ==
    /\ up = "up" /\ todo = {} /\ \E th \in Threads : card[th].pool = "warm"
    /\ todo' = {th \in Threads : card[th].pool = "warm"}
    /\ UNCHANGED <<card, lock, at, entering, failed, up, dockerVars, dirs, flag, used>>

Reapable_OfCopy(th) == TRUE
Reapable(th) == card[th].pool = "warm" /\ (card[th].broken \/ card[th].idle = "long")

Reap(th) ==
    /\ up = "up" /\ th \in todo /\ lock[th] = Free
    /\ todo' = todo \ {th}
    /\ \/ ~Reapable(th) /\ UNCHANGED <<card, dockerVars, used>>
       \/ Reapable(th) /\ DestroyOk(th) /\ card' = [card EXCEPT ![th] = NoCard]
       \/ Reapable(th) /\ DestroyFails(th)
    /\ UNCHANGED <<lock, at, entering, failed, up, dirs, flag>>

\* delete_thread: the container first, then what the caller deletes, under the same lock.
DeleteBegin(th) ==
    /\ up \in {"up", "closing"} /\ lock[th] = Free /\ th \in dirs /\ card[th].pool # "active"
    /\ \/ /\ DestroyOk(th) /\ card' = [card EXCEPT ![th] = NoCard]
          /\ lock' = [lock EXCEPT ![th] = Deleter]
       \/ DestroyFails(th) /\ UNCHANGED lock
    /\ UNCHANGED <<at, callRest>>

DeleteEnd(th) ==
    /\ lock[th] = Deleter
    /\ dirs' = dirs \ {th} \/ UNCHANGED dirs
    /\ lock' = [lock EXCEPT ![th] = Free]
    /\ UNCHANGED <<card, at, entering, todo, failed, up, dockerVars, flag, used>>

\* close: nothing new is let in, the reaper is cancelled, then one Thread after the other.
Close ==
    /\ up = "up" /\ Trouble
    /\ up' = "closing"
    /\ todo' = {th \in Threads : card[th].pool # "none"} /\ failed' = FALSE
    /\ UNCHANGED <<card, lock, at, entering, dockerVars, dirs, flag>>

CloseThread(th) ==
    /\ up = "closing" /\ th \in todo /\ lock[th] = Free
    /\ todo' = todo \ {th}
    /\ \/ DestroyOk(th) /\ card' = [card EXCEPT ![th] = NoCard] /\ UNCHANGED failed
       \/ DestroyFails(th) /\ failed' = TRUE
    /\ UNCHANGED <<lock, at, entering, up, dirs, flag>>

\* What the process held in memory is gone with it.
Forget ==
    /\ card' = [th \in Threads |-> NoCard] /\ lock' = [th \in Threads |-> Free]
    /\ at' = [c \in Calls |-> "out"] /\ entering' = {} /\ todo' = {} /\ failed' = FALSE

\* Only a close that removed everything says so.
MayClear == ~failed

CloseEnds ==
    /\ up = "closing" /\ todo = {}
    /\ up' = "down" /\ flag' = IF MayClear THEN "clear" ELSE flag
    /\ Forget
    /\ UNCHANGED <<dockerVars, dirs, used>>

\* The clients are sessions of their own: what was launched goes on.
Crash ==
    /\ up # "down" /\ Trouble
    /\ up' = "down"
    /\ overtaken' = overtaken \cup {card[Th(c)].box : c \in {d \in Calls : at[d] = "startWait"}}
    /\ box' = [b \in Boxes |-> IF box[b] = "named" /\ b \notin overtaken' THEN "unused" ELSE box[b]]
    /\ Forget
    /\ UNCHANGED <<busy, lateExec, dirs, flag>>

\* start: every container of an earlier process goes before anything is served.
Start ==
    /\ up = "down" /\ up' = "starting" /\ flag' = "active"
    /\ UNCHANGED <<card, lock, at, entering, todo, failed, dockerVars, dirs, used>>

SweepAll ==
    /\ box' = [b \in Boxes |-> IF box[b] = "named" /\ b \in overtaken THEN "named" ELSE "unused"]
    /\ busy' = [b \in Boxes |-> 0]
    /\ overtaken' = {b \in overtaken : box[b] = "named"}
    /\ lateExec' = {}

Sweep ==
    /\ up = "starting"
    /\ \/ SweepAll /\ up' = "up" /\ UNCHANGED used
       \/ Trouble /\ up' = "down" /\ (SweepAll \/ UNCHANGED dockerVars)
    /\ UNCHANGED <<card, lock, at, entering, todo, failed, dirs, flag>>

\* The tool is switched off: what an earlier process left is removed all the same.  Without
\* docker, the flag has to say that there is nothing, and nothing changes.  Such a process
\* makes no container and is left out.
StartWithout ==
    /\ up = "down" /\ SweepAll /\ flag' = "clear"
    /\ UNCHANGED <<memVars, dirs, used>>

-----------------------------------------------------------------------------
Call(c) ==
    \/ Check(c) \/ Inspect(c) \/ Name(c) \/ Launch(c) \/ Started(c) \/ TimeLimit(c)
    \/ Kill(c) \/ Destroy(c)

Next ==
    \/ \E r \in Runs : BeginCheck(r) \/ BeginRun(r) \/ EndRun(r)
    \/ \E c \in Calls : Enter(c) \/ Call(c) \/ Ended(c) \/ LaunchFails(c) \/ Cancel(c) \/ Abandon(c)
    \/ \E th \in Threads : StopThread(th) \/ Ages(th) \/ Reap(th) \/ DeleteBegin(th)
                           \/ DeleteEnd(th) \/ CloseThread(th)
    \/ \E b \in Boxes : BoxDies(b) \/ LateStart(b) \/ LateExec(b)
    \/ ReapBegin \/ Close \/ CloseEnds \/ Crash \/ Start \/ Sweep \/ StartWithout

Spec == Init /\ [][Next]_vars

\* The event loop goes on with every call, asyncio.Lock serves the reaper and close in
\* their turn, the reaper comes round, and time passes.  A Run need not end and a command
\* need not either: it is the time limit that ends it.
FairSpec ==
    /\ Spec
    /\ \A c \in Calls : WF_vars(Call(c))
    /\ \A th \in Threads : /\ WF_vars(Ages(th)) /\ WF_vars(DeleteEnd(th))
                           /\ SF_vars(Reap(th)) /\ SF_vars(CloseThread(th))
    /\ WF_vars(ReapBegin) /\ WF_vars(CloseEnds) /\ WF_vars(Sweep)

-----------------------------------------------------------------------------
(* Properties                                                              *)

\* No container is forgotten: while the process serves, one that exists is on the card of a
\* Thread, unless its launch was overtaken by a second cancellation or a death (_destroy,
\* start).  And "仅在确认本项目所有容器已经停止后记录" (mark_clear): a process without
\* docker may trust it.
NoContainerIsLost ==
    up \in {"up", "closing"} =>
        \A b \in Boxes : box[b] \in {"running", "dead"} =>
            b \in overtaken \/ \E th \in Threads : CardOf(th, b)
ClearIsTrue == flag = "clear" => \A b \in Boxes : box[b] = "running" => b \in overtaken
ContainersAreAccountedFor == NoContainerIsLost /\ ClearIsTrue

\* Nobody else is in the files a command works on.  No command runs beside another one in the
\* container of a Thread: neither a time limit nor a cancellation whose cleanup failed lets the
\* next command in beside the last (broken, run).  And the directory of a Thread is only
\* deleted when no container has it mounted, and none comes after.
OneCommandAtATime ==
    \A th \in Threads : card[th].box # NoBox => busy[card[th].box] <= 1
DeletedIsNotMounted ==
    \A th \in Threads : th \notin dirs => card[th].box = NoBox
MountIsExclusive == OneCommandAtATime /\ DeletedIsNotMounted

\* The reaper takes no environment that was leased since it looked at the pool.
ActiveIsNotReaped ==
    [][\A th \in Threads : up = "up" /\ up' = "up" /\ th \in todo /\ th \notin todo'
                           /\ card[th].pool = "active" => card'[th] = card[th]]_vars

\* A container that has been given back is taken again or removed, however often Docker fails.
IdleIsReaped == \A th \in Threads : card[th].pool = "warm" ~> card[th].pool # "warm"
=============================================================================
