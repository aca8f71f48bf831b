-------------------------- MODULE ThreadSandboxProofs --------------------------
(***************************************************************************)
(* What holds of the containers of the Threads, for any number of Threads,   *)
(* Runs, calls, containers and failures.                                    *)
(*                                                                          *)
(* IInv is inductive.  Its first parts say what the lock of a Thread is      *)
(* worth (Held, Stopped, Closed), the others what the card knows of Docker   *)
(* at each place of a call (Named, Placed, Mounted, Known) and how many      *)
(* commands may still be on their way into a container (Alone, Quiet).       *)
(***************************************************************************)
EXTENDS ThreadSandbox, TLAPS

Serving == up \in {"up", "closing"}

\* The places of a call from where the card holds a container, from where it was found sound,
\* and from where on a command may be in it.
WithBox == {"inspect", "startLaunch", "startWait", "execLaunch", "execWait", "startCancelled",
            "execCancelled", "kill", "timeout", "destroy"}
Sound == {"inspect", "create", "startLaunch", "startWait", "execLaunch", "execWait",
          "startCancelled", "execCancelled"}
Unsettled == {"execWait", "kill", "timeout", "destroy"}

\* A call inside run() holds the lock of its Thread, whose card is leased and directory there.
Held ==
    \A c \in Calls : at[c] # "out" =>
        Serving /\ lock[Th(c)] = c /\ card[Th(c)].pool = "active" /\ Th(c) \in dirs

\* A process that does not serve holds nothing; it clears the flag last of all.
Stopped ==
    /\ ~Serving => /\ \A th \in Threads : card[th] = NoCard /\ lock[th] = Free
                   /\ entering = {} /\ todo = {}
    /\ flag = "clear" => up = "down"

\* close went through a Thread for good, unless it had to say that it failed.
Closed ==
    up = "closing" /\ ~failed =>
        \A th \in Threads \ todo : card[th].pool = "none" /\ card[th].box = NoBox

\* A container is on one card, and on none that is in no pool.
Named ==
    /\ \A th \in Threads : card[th].pool = "none" => card[th].box = NoBox
    /\ \A t1, t2 \in Threads : card[t1].box = card[t2].box => t1 = t2 \/ card[t1].box = NoBox

\* What a call knows of its card at each place, and of the container on it.
Placed ==
    \A c \in Calls :
        /\ at[c] \in WithBox => card[Th(c)].box # NoBox
        /\ at[c] \in Sound => ~card[Th(c)].broken
        /\ at[c] = "create" => card[Th(c)].box = NoBox
        /\ at[c] \in {"execLaunch", "execWait", "execCancelled"} =>
               box[card[Th(c)].box] \in {"running", "dead"}

\* Nobody deletes a Thread with a container, and none is made in a deleted one.
Mounted ==
    \A th \in Threads : lock[th] = Deleter \/ th \notin dirs => card[th].box = NoBox

\* No command is in a container, or on its way into it.
Quiet(b) == busy[b] = 0 /\ b \notin lateExec

\* One command is in a container or on its way, and none in one that has not started.
Alone ==
    \A b \in Boxes :
        /\ busy[b] <= 1
        /\ b \in lateExec => busy[b] = 0
        /\ box[b] \in {"unused", "named"} => Quiet(b)

\* A card that is not marked broken has a quiet container, except while a call works on it.
Known ==
    \A th \in Threads :
        card[th].box # NoBox /\ ~card[th].broken
        /\ (\A c \in Calls : Th(c) = th => at[c] \notin Unsettled) => Quiet(card[th].box)

\* While a command is waited for, no other one is on its way.
Waited == \A c \in Calls : at[c] = "execWait" => card[Th(c)].box \notin lateExec

IInv ==
    /\ TypeOK /\ Held /\ Stopped /\ Closed /\ Named /\ Placed /\ Mounted
    /\ Alone /\ Known /\ Waited /\ NoContainerIsLost /\ ClearIsTrue

-----------------------------------------------------------------------------
(* Types                                                                   *)

Cards == [pool : {"none", "active", "warm"}, run : Runs \cup {NoRun},
          box : Boxes \cup {NoBox}, broken : BOOLEAN, idle : {"no", "short", "long"}]
CardOK == card \in [Threads -> Cards]
Places == {"out", "check", "inspect", "create", "startLaunch", "startWait", "execLaunch",
           "execWait", "startCancelled", "execCancelled", "kill", "timeout", "destroy"}
LockOK ==
    /\ lock \in [Threads -> Calls \cup {Free, Deleter}]
    /\ at \in [Calls -> Places]
ProcessOK ==
    /\ entering \subseteq Runs /\ todo \subseteq Threads /\ failed \in BOOLEAN
    /\ up \in {"down", "starting", "up", "closing"}
    /\ dirs \subseteq Threads /\ flag \in {"none", "active", "clear"}
DockerOK ==
    /\ box \in [Boxes -> {"unused", "named", "running", "dead"}]
    /\ busy \in [Boxes -> Nat]
    /\ overtaken \subseteq Boxes /\ lateExec \subseteq Boxes

\* A call goes from place to place.
LEMMA GotoType ==
  ASSUME at \in [Calls -> Places], NEW c \in Calls, NEW p \in Places, Goto(c, p)
  PROVE  at' \in [Calls -> Places]
BY DEF Goto

\* The cards _destroy and its callers leave are cards.
LEMMA DestroyCards ==
  ASSUME CardOK, NEW th \in Threads
  PROVE  /\ [card EXCEPT ![th] = NoCard] \in [Threads -> Cards]
         /\ Clean(th) \in [Threads -> Cards]
         /\ [card EXCEPT ![th].broken = TRUE] \in [Threads -> Cards]
         /\ [card EXCEPT ![th].box = NoBox] \in [Threads -> Cards]
<1>1. NoCard \in Cards
  BY DEF NoCard, Cards
<1>2. card[th] \in Cards
  BY DEF CardOK
<1>3. [card[th] EXCEPT !.broken = TRUE] \in Cards
  BY <1>2 DEF Cards
<1>4. [card[th] EXCEPT !.box = NoBox] \in Cards
  BY <1>2 DEF Cards
<1>5. [card[th] EXCEPT !.box = NoBox, !.broken = FALSE] \in Cards
  BY <1>2 DEF Cards
<1>6. [card EXCEPT ![th].broken = TRUE] \in [Threads -> Cards]
  BY <1>3 DEF CardOK
<1>7. [card EXCEPT ![th].box = NoBox] \in [Threads -> Cards]
  BY <1>4 DEF CardOK
<1>8. Clean(th) = [card EXCEPT ![th] = [card[th] EXCEPT !.box = NoBox, !.broken = FALSE]]
  BY <1>2 DEF CardOK, Clean, Cards
<1> QED  BY <1>1, <1>5, <1>6, <1>7, <1>8 DEF CardOK

\* Removing a container keeps the types of what Docker holds.
LEMMA RemovedType ==
  ASSUME DockerOK, NEW b \in Boxes, Removed(b) PROVE DockerOK'
<1>1. box' \in [Boxes -> {"unused", "named", "running", "dead"}]
  BY DEF DockerOK, Removed
<1>2. busy' \in [Boxes -> Nat]
  BY DEF DockerOK, Removed
<1>3. overtaken' \subseteq Boxes /\ lateExec' \subseteq Boxes
  BY DEF DockerOK, Removed
<1> QED  BY <1>1, <1>2, <1>3 DEF DockerOK

\* So does _destroy, however it ends, and it counts at most one trouble.
LEMMA DestroyType ==
  ASSUME DockerOK, CardOK, used \in Nat, NEW th \in Threads, DestroyOk(th) \/ DestroyFails(th)
  PROVE  DockerOK' /\ used' \in Nat
<1>1. card[th].box # NoBox => card[th].box \in Boxes
  BY DEF CardOK, Cards
<1>2. (card[th].box # NoBox /\ Removed(card[th].box)) \/ UNCHANGED dockerVars
  BY DEF DestroyOk, DestroyFails, NotRemoved
<1>3. used' = used \/ used' = used + 1
  BY DEF DestroyOk, DestroyFails, NotRemoved, Trouble
<1>4. CASE UNCHANGED dockerVars
  BY <1>3, <1>4 DEF DockerOK, dockerVars
<1>5. CASE card[th].box # NoBox /\ Removed(card[th].box)
  BY <1>1, <1>3, <1>5, RemovedType
<1> QED  BY <1>2, <1>4, <1>5

\* Every step keeps the types of the cards.
LEMMA CardTypeKeeps ==
  ASSUME CardOK, [Next]_vars PROVE CardOK'
<1>1. UNCHANGED <<card>> => CardOK'
  BY DEF CardOK
<1>2. ASSUME NEW r \in Runs, BeginCheck(r) PROVE CardOK'
  BY <1>2, <1>1 DEF BeginCheck, memVars, dockerVars, callRest
<1>3. ASSUME NEW c \in Calls, Enter(c) \/ Launch(c) \/ Started(c) \/ TimeLimit(c) \/ Ended(c)
    \/ LaunchFails(c) \/ Cancel(c) \/ Abandon(c) PROVE CardOK'
  BY <1>3, <1>1 DEF Enter, Goto, Launch, Started, TimeLimit, Ended, Leave, LaunchFails,
      Cancel, Abandon, memVars, dockerVars, callRest
<1>4. ASSUME NEW th \in Threads, DeleteEnd(th) PROVE CardOK'
  BY <1>4, <1>1 DEF DeleteEnd, memVars, dockerVars, callRest
<1>5. ASSUME NEW b \in Boxes, BoxDies(b) \/ LateStart(b) \/ LateExec(b) PROVE CardOK'
  BY <1>5, <1>1 DEF BoxDies, LateStart, LateExec, memVars, dockerVars, callRest
<1>6. CASE ReapBegin \/ Close \/ Start \/ Sweep \/ StartWithout
  BY <1>6, <1>1 DEF ReapBegin, Close, Start, Sweep, SweepAll, StartWithout, memVars,
      dockerVars, callRest
<1>7. CASE UNCHANGED vars
  BY <1>7, <1>1 DEF vars, memVars, dockerVars
<1> USE SandboxAssumption DEF CardOK, memVars, dockerVars, callRest
<1>8. ASSUME NEW r \in Runs, BeginRun(r) PROVE CardOK'
  <2>1. card[ThreadOf[r]] \in Cards
    OBVIOUS
  <2>2. [card[ThreadOf[r]] EXCEPT !.pool = "active", !.run = r, !.idle = "no"] \in Cards
    BY <2>1 DEF Cards
  <2>3. [card EXCEPT ![ThreadOf[r]].pool = "active", ![ThreadOf[r]].run = r,
      ![ThreadOf[r]].idle = "no"]
          = [card EXCEPT ![ThreadOf[r]] = [card[ThreadOf[r]] EXCEPT !.pool = "active", !.run =
              r, !.idle = "no"]]
    BY <2>1 DEF Cards
  <2> QED  BY <1>8, <2>2, <2>3 DEF BeginRun, BeginRun_AnyTime
<1>9. ASSUME NEW r \in Runs, EndRun(r) PROVE CardOK'
  <2>1. NoCard \in Cards /\ card[ThreadOf[r]] \in Cards
    BY DEF NoCard, Cards
  <2>2. [card[ThreadOf[r]] EXCEPT !.pool = "warm", !.run = NoRun, !.idle = "short"] \in Cards
    BY <2>1 DEF Cards
  <2> QED  BY <1>9, <2>1, <2>2 DEF EndRun
<1>10. ASSUME NEW c \in Calls, Check(c) PROVE CardOK'
  <2> Th(c) \in Threads
    BY DEF Th
  <2>1. Clean(Th(c)) \in [Threads -> Cards]
    BY DestroyCards
  <2>2. [card EXCEPT ![Th(c)].broken = TRUE] \in [Threads -> Cards]
    BY DestroyCards
  <2>3. card' = Clean(Th(c)) \/ card' = [card EXCEPT ![Th(c)].broken = TRUE] \/ card' = card
    BY <1>10 DEF Check, DestroyFails
  <2> QED  BY <2>1, <2>2, <2>3
<1>11. ASSUME NEW c \in Calls, Inspect(c) PROVE CardOK'
  <2> Th(c) \in Threads
    BY DEF Th
  <2>1. Clean(Th(c)) \in [Threads -> Cards]
    BY DestroyCards
  <2>2. [card EXCEPT ![Th(c)].broken = TRUE] \in [Threads -> Cards]
    BY DestroyCards
  <2>3. card' = Clean(Th(c)) \/ card' = [card EXCEPT ![Th(c)].broken = TRUE] \/ card' = card
    BY <1>11 DEF Inspect, DestroyFails
  <2> QED  BY <2>1, <2>2, <2>3
<1>12. ASSUME NEW c \in Calls, Name(c) PROVE CardOK'
  <2>0. Th(c) \in Threads
    BY DEF Th
  <2>1. card[Th(c)] \in Cards
    BY <2>0
  <2>2. \A b \in Boxes : [card[Th(c)] EXCEPT !.box = b] \in Cards
    BY <2>1 DEF Cards
  <2> QED  BY <1>12, <2>0, <2>2 DEF Name
<1>13. ASSUME NEW c \in Calls, Kill(c) PROVE CardOK'
  <2> Th(c) \in Threads
    BY DEF Th
  <2>1. [card EXCEPT ![Th(c)].box = NoBox] \in [Threads -> Cards]
    BY DestroyCards
  <2>2. card' = [card EXCEPT ![Th(c)].box = NoBox] \/ card' = card
    BY <1>13 DEF Kill
  <2> QED  BY <2>1, <2>2
<1>14. ASSUME NEW c \in Calls, Destroy(c) PROVE CardOK'
  <2> Th(c) \in Threads
    BY DEF Th
  <2>1. Clean(Th(c)) \in [Threads -> Cards]
    BY DestroyCards
  <2>2. [card EXCEPT ![Th(c)].broken = TRUE] \in [Threads -> Cards]
    BY DestroyCards
  <2>3. card' = Clean(Th(c)) \/ card' = [card EXCEPT ![Th(c)].broken = TRUE] \/ card' = card
    BY <1>14 DEF Destroy, DestroyFails
  <2> QED  BY <2>1, <2>2, <2>3
<1>15. ASSUME NEW th \in Threads, StopThread(th) PROVE CardOK'
  <2>1. [card EXCEPT ![th] = NoCard] \in [Threads -> Cards]
    BY DestroyCards
  <2>2. [card EXCEPT ![th].broken = TRUE] \in [Threads -> Cards]
    BY DestroyCards
  <2>3. card' = [card EXCEPT ![th] = NoCard] \/ card' = [card EXCEPT ![th].broken = TRUE]
           \/ card' = card
    BY <1>15 DEF StopThread, DestroyFails
  <2> QED  BY <2>1, <2>2, <2>3
<1>16. ASSUME NEW th \in Threads, Ages(th) PROVE CardOK'
  <2>1. [card[th] EXCEPT !.idle = "long"] \in Cards
    BY DEF Cards
  <2> QED  BY <1>16, <2>1 DEF Ages
<1>17. ASSUME NEW th \in Threads, Reap(th) PROVE CardOK'
  <2>1. [card EXCEPT ![th] = NoCard] \in [Threads -> Cards]
    BY DestroyCards
  <2>2. [card EXCEPT ![th].broken = TRUE] \in [Threads -> Cards]
    BY DestroyCards
  <2>3. card' = [card EXCEPT ![th] = NoCard] \/ card' = [card EXCEPT ![th].broken = TRUE]
           \/ card' = card
    BY <1>17 DEF Reap, DestroyFails
  <2> QED  BY <2>1, <2>2, <2>3
<1>18. ASSUME NEW th \in Threads, DeleteBegin(th) PROVE CardOK'
  <2>1. [card EXCEPT ![th] = NoCard] \in [Threads -> Cards]
    BY DestroyCards
  <2>2. [card EXCEPT ![th].broken = TRUE] \in [Threads -> Cards]
    BY DestroyCards
  <2>3. card' = [card EXCEPT ![th] = NoCard] \/ card' = [card EXCEPT ![th].broken = TRUE]
           \/ card' = card
    BY <1>18 DEF DeleteBegin, DestroyFails
  <2> QED  BY <2>1, <2>2, <2>3
<1>19. ASSUME NEW th \in Threads, CloseThread(th) PROVE CardOK'
  <2>1. [card EXCEPT ![th] = NoCard] \in [Threads -> Cards]
    BY DestroyCards
  <2>2. [card EXCEPT ![th].broken = TRUE] \in [Threads -> Cards]
    BY DestroyCards
  <2>3. card' = [card EXCEPT ![th] = NoCard] \/ card' = [card EXCEPT ![th].broken = TRUE]
           \/ card' = card
    BY <1>19 DEF CloseThread, DestroyFails
  <2> QED  BY <2>1, <2>2, <2>3
<1>20. CASE CloseEnds
  BY <1>20 DEF CloseEnds, Forget, NoCard, Cards
<1>21. CASE Crash
  BY <1>21 DEF Crash, Forget, NoCard, Cards
<1> QED  BY <1>2, <1>3, <1>4, <1>5, <1>6, <1>7, <1>8, <1>9, <1>10, <1>11, <1>12, <1>13, <1>14,
    <1>15, <1>16, <1>17, <1>18, <1>19, <1>20, <1>21 DEF Next, Call

\* Every step keeps the types of locks and places.
LEMMA LockTypeKeeps ==
  ASSUME LockOK, [Next]_vars PROVE LockOK'
<1>1. UNCHANGED <<at, lock>> => LockOK'
  BY DEF LockOK, Th
<1>2. ASSUME NEW r \in Runs, BeginCheck(r) \/ BeginRun(r) \/ EndRun(r) PROVE LockOK'
  BY <1>2, <1>1 DEF BeginCheck, BeginRun, EndRun, memVars, dockerVars, callRest
<1>3. ASSUME NEW th \in Threads, StopThread(th) \/ Ages(th) \/ Reap(th) \/ CloseThread(th)
    PROVE LockOK'
  BY <1>3, <1>1 DEF StopThread, DestroyOk, DestroyFails, NotRemoved, Removed, Ages, Reap,
      CloseThread, memVars, dockerVars, callRest
<1>4. ASSUME NEW b \in Boxes, BoxDies(b) \/ LateStart(b) \/ LateExec(b) PROVE LockOK'
  BY <1>4, <1>1 DEF BoxDies, LateStart, LateExec, memVars, dockerVars, callRest
<1>5. CASE ReapBegin \/ Close \/ Start \/ Sweep \/ StartWithout
  BY <1>5, <1>1 DEF ReapBegin, Close, Start, Sweep, SweepAll, StartWithout, memVars,
      dockerVars, callRest
<1>6. CASE UNCHANGED vars
  BY <1>6, <1>1 DEF vars, memVars, dockerVars
<1> USE SandboxAssumption DEF LockOK, Th, Places, memVars, dockerVars, callRest
<1>7. ASSUME NEW c \in Calls, Enter(c) PROVE LockOK'
  <2>1. \E p \in Places : Goto(c, p)
    BY <1>7 DEF Enter, Leave, Places
  <2>2. lock' = lock \/ lock' = [lock EXCEPT ![Th(c)] = c]
    BY <1>7 DEF Enter, Leave
  <2> QED  BY <2>1, <2>2, GotoType
<1>8. ASSUME NEW c \in Calls, Check(c) PROVE LockOK'
  <2>1. \E p \in Places : Goto(c, p)
    BY <1>8 DEF Check, Leave, Places
  <2>2. lock' = lock \/ lock' = [lock EXCEPT ![Th(c)] = Free]
    BY <1>8 DEF Check, Leave
  <2> QED  BY <2>1, <2>2, GotoType
<1>9. ASSUME NEW c \in Calls, Inspect(c) PROVE LockOK'
  <2>1. \E p \in Places : Goto(c, p)
    BY <1>9 DEF Inspect, Leave, Places
  <2>2. lock' = lock \/ lock' = [lock EXCEPT ![Th(c)] = Free]
    BY <1>9 DEF Inspect, Leave
  <2> QED  BY <2>1, <2>2, GotoType
<1>10. ASSUME NEW c \in Calls, Name(c) PROVE LockOK'
  BY <1>10 DEF Name, Goto, CardOf
<1>11. ASSUME NEW c \in Calls, Launch(c) PROVE LockOK'
  BY <1>11 DEF Launch, Goto
<1>12. ASSUME NEW c \in Calls, Started(c) PROVE LockOK'
  BY <1>12 DEF Started, Goto, Trouble
<1>13. ASSUME NEW c \in Calls, TimeLimit(c) PROVE LockOK'
  <2>1. \E p \in Places : Goto(c, p)
    BY <1>13 DEF TimeLimit, Leave, Places
  <2>2. lock' = lock
    BY <1>13 DEF TimeLimit, Leave
  <2> QED  BY <2>1, <2>2, GotoType
<1>14. ASSUME NEW c \in Calls, Kill(c) PROVE LockOK'
  <2>1. \E p \in Places : Goto(c, p)
    BY <1>14 DEF Kill, Leave, Places
  <2>2. lock' = lock \/ lock' = [lock EXCEPT ![Th(c)] = Free]
    BY <1>14 DEF Kill, Leave
  <2> QED  BY <2>1, <2>2, GotoType
<1>15. ASSUME NEW c \in Calls, Destroy(c) PROVE LockOK'
  <2>1. \E p \in Places : Goto(c, p)
    BY <1>15 DEF Destroy, Leave, Places
  <2>2. lock' = lock \/ lock' = [lock EXCEPT ![Th(c)] = Free]
    BY <1>15 DEF Destroy, Leave
  <2> QED  BY <2>1, <2>2, GotoType
<1>16. ASSUME NEW c \in Calls, Ended(c) PROVE LockOK'
  <2>1. \E p \in Places : Goto(c, p)
    BY <1>16 DEF Ended, Leave, Places
  <2>2. lock' = lock \/ lock' = [lock EXCEPT ![Th(c)] = Free]
    BY <1>16 DEF Ended, Leave
  <2> QED  BY <2>1, <2>2, GotoType
<1>17. ASSUME NEW c \in Calls, LaunchFails(c) PROVE LockOK'
  BY <1>17 DEF LaunchFails, Goto, Trouble
<1>18. ASSUME NEW c \in Calls, Cancel(c) PROVE LockOK'
  BY <1>18 DEF Cancel, Goto, Trouble
<1>19. ASSUME NEW c \in Calls, Abandon(c) PROVE LockOK'
  BY <1>19 DEF Abandon, Goto, Trouble
<1>20. ASSUME NEW th \in Threads, DeleteBegin(th) PROVE LockOK'
  BY <1>20 DEF DeleteBegin, DestroyOk, DestroyFails, NotRemoved, Removed, Trouble
<1>21. ASSUME NEW th \in Threads, DeleteEnd(th) PROVE LockOK'
  BY <1>21 DEF DeleteEnd
<1>22. CASE CloseEnds
  BY <1>22 DEF CloseEnds, Forget, MayClear
<1>23. CASE Crash
  BY <1>23 DEF Crash, Forget, Trouble
<1> QED  BY <1>2, <1>3, <1>4, <1>5, <1>6, <1>7, <1>8, <1>9, <1>10, <1>11, <1>12, <1>13, <1>14,
    <1>15, <1>16, <1>17, <1>18, <1>19, <1>20, <1>21, <1>22, <1>23 DEF Next, Call

\* Every step keeps the types of what the process holds.
LEMMA ProcessTypeKeeps ==
  ASSUME ProcessOK, [Next]_vars PROVE ProcessOK'
<1>1. UNCHANGED <<dirs, entering, failed, flag, todo, up>> => ProcessOK'
  BY DEF ProcessOK
<1>2. ASSUME NEW r \in Runs, EndRun(r) PROVE ProcessOK'
  BY <1>2, <1>1 DEF EndRun, memVars, dockerVars, callRest
<1>3. ASSUME NEW c \in Calls, Enter(c) \/ Check(c) \/ Inspect(c) \/ Name(c) \/ Launch(c) \/
    Started(c) \/ TimeLimit(c) \/ Kill(c) \/ Destroy(c) \/ Ended(c) \/ LaunchFails(c) \/
    Cancel(c) \/ Abandon(c) PROVE ProcessOK'
  BY <1>3, <1>1 DEF Enter, Goto, Check, DestroyOk, DestroyFails, NotRemoved, Removed, Leave,
      Inspect, Name, Launch, Started, TimeLimit, Kill, KillRemoves, Destroy, Ended,
      LaunchFails, Cancel, Abandon, memVars, dockerVars, callRest
<1>4. ASSUME NEW th \in Threads, StopThread(th) \/ Ages(th) \/ DeleteBegin(th) PROVE ProcessOK'
  BY <1>4, <1>1 DEF StopThread, DestroyOk, DestroyFails, NotRemoved, Removed, Ages,
      DeleteBegin, memVars, dockerVars, callRest
<1>5. ASSUME NEW b \in Boxes, BoxDies(b) \/ LateStart(b) \/ LateExec(b) PROVE ProcessOK'
  BY <1>5, <1>1 DEF BoxDies, LateStart, LateExec, memVars, dockerVars, callRest
<1>6. CASE UNCHANGED vars
  BY <1>6, <1>1 DEF vars, memVars, dockerVars
<1> USE SandboxAssumption DEF ProcessOK, memVars, dockerVars, callRest
<1>7. ASSUME NEW r \in Runs, BeginCheck(r) PROVE ProcessOK'
  BY <1>7 DEF BeginCheck
<1>8. ASSUME NEW r \in Runs, BeginRun(r) PROVE ProcessOK'
  BY <1>8 DEF BeginRun, BeginRun_AnyTime
<1>9. ASSUME NEW th \in Threads, Reap(th) PROVE ProcessOK'
  BY <1>9 DEF Reap, Reapable, DestroyOk, DestroyFails, NotRemoved, Removed, Trouble
<1>10. ASSUME NEW th \in Threads, DeleteEnd(th) PROVE ProcessOK'
  BY <1>10 DEF DeleteEnd
<1>11. ASSUME NEW th \in Threads, CloseThread(th) PROVE ProcessOK'
  BY <1>11 DEF CloseThread, DestroyOk, DestroyFails, NotRemoved, Removed, Trouble
<1>12. CASE ReapBegin
  BY <1>12 DEF ReapBegin
<1>13. CASE Close
  BY <1>13 DEF Close, Trouble
<1>14. CASE CloseEnds
  BY <1>14 DEF CloseEnds, Forget, MayClear
<1>15. CASE Crash
  BY <1>15 DEF Crash, Forget, Trouble
<1>16. CASE Start
  BY <1>16 DEF Start
<1>17. CASE Sweep
  BY <1>17 DEF Sweep, SweepAll, Trouble
<1>18. CASE StartWithout
  BY <1>18 DEF StartWithout, SweepAll
<1> QED  BY <1>2, <1>3, <1>4, <1>5, <1>6, <1>7, <1>8, <1>9, <1>10, <1>11, <1>12, <1>13, <1>14,
    <1>15, <1>16, <1>17, <1>18 DEF Next, Call

\* Every step keeps the types of what Docker holds.
LEMMA DockerTypeKeeps ==
  ASSUME CardOK, DockerOK, Placed, used \in Nat, [Next]_vars PROVE (DockerOK /\ used \in Nat)'
<1>1. UNCHANGED <<box, busy, lateExec, overtaken, used>> => (DockerOK /\ used \in Nat)'
  BY DEF DockerOK
<1>2. ASSUME NEW r \in Runs, BeginCheck(r) \/ BeginRun(r) \/ EndRun(r) PROVE (DockerOK /\ used
    \in Nat)'
  BY <1>2, <1>1 DEF BeginCheck, BeginRun, EndRun, memVars, dockerVars, callRest
<1>3. ASSUME NEW c \in Calls, Enter(c) \/ TimeLimit(c) PROVE (DockerOK /\ used \in Nat)'
  BY <1>3, <1>1 DEF Enter, Goto, TimeLimit, memVars, dockerVars, callRest
<1>4. ASSUME NEW th \in Threads, Ages(th) \/ DeleteEnd(th) PROVE (DockerOK /\ used \in Nat)'
  BY <1>4, <1>1 DEF Ages, DeleteEnd, memVars, dockerVars, callRest
<1>5. CASE ReapBegin \/ CloseEnds \/ Start
  BY <1>5, <1>1 DEF ReapBegin, CloseEnds, Forget, Start, memVars, dockerVars, callRest
<1>6. CASE UNCHANGED vars
  BY <1>6, <1>1 DEF vars, memVars, dockerVars
<1> USE SandboxAssumption DEF DockerOK, memVars, dockerVars, callRest
<1>7. ASSUME NEW c \in Calls, Check(c) PROVE (DockerOK /\ used \in Nat)'
  <2> Th(c) \in Threads
    BY DEF Th
  <2> QED  BY <1>7, DestroyType DEF Check
<1>8. ASSUME NEW c \in Calls, Inspect(c) PROVE (DockerOK /\ used \in Nat)'
  <2> Th(c) \in Threads
    BY DEF Th
  <2> QED  BY <1>8, DestroyType DEF Inspect, Trouble
<1>9. ASSUME NEW c \in Calls, Name(c) PROVE (DockerOK /\ used \in Nat)'
  BY <1>9 DEF Name, Goto, CardOf
<1>10. ASSUME NEW c \in Calls, Launch(c) PROVE (DockerOK /\ used \in Nat)'
  <2>0. \A n \in Nat : n + 1 \in Nat
    OBVIOUS
  <2>1. busy' \in [Boxes -> Nat]
    BY <1>10, <2>0 DEF Launch
  <2> QED  BY <1>10, <2>1 DEF Launch
<1>11. ASSUME NEW c \in Calls, Started(c) PROVE (DockerOK /\ used \in Nat)'
  BY <1>11 DEF Started, Goto, Trouble
<1>12. ASSUME NEW c \in Calls, Kill(c) PROVE (DockerOK /\ used \in Nat)'
  <2> Th(c) \in Threads
    BY DEF Th
  <2>1. card[Th(c)].box \in Boxes
    BY <1>12 DEF Kill, Placed, WithBox, CardOK, Cards, Th
  <2>2. Removed(card[Th(c)].box) \/ UNCHANGED dockerVars
    BY <1>12 DEF Kill, KillRemoves, NotRemoved
  <2>3. used' = used \/ used' = used + 1
    BY <1>12 DEF Kill, NotRemoved, Trouble
  <2>4. CASE UNCHANGED dockerVars
    BY <2>3, <2>4 DEF DockerOK
  <2>5. CASE Removed(card[Th(c)].box)
    BY <2>1, <2>3, <2>5, RemovedType
  <2> QED  BY <2>2, <2>4, <2>5
<1>13. ASSUME NEW c \in Calls, Destroy(c) PROVE (DockerOK /\ used \in Nat)'
  <2> Th(c) \in Threads
    BY DEF Th
  <2> QED  BY <1>13, DestroyType DEF Destroy
<1>14. ASSUME NEW c \in Calls, Ended(c) PROVE (DockerOK /\ used \in Nat)'
  <2>0. \A n \in Nat : (IF n > 0 THEN n - 1 ELSE 0) \in Nat
    OBVIOUS
  <2>1. busy' \in [Boxes -> Nat]
    BY <1>14, <2>0 DEF Ended
  <2>2. used' = used \/ used' = used + 1
    BY <1>14 DEF Ended, Trouble
  <2> QED  BY <1>14, <2>1, <2>2 DEF Ended
<1>15. ASSUME NEW c \in Calls, LaunchFails(c) PROVE (DockerOK /\ used \in Nat)'
  BY <1>15 DEF LaunchFails, Goto, Trouble
<1>16. ASSUME NEW c \in Calls, Cancel(c) PROVE (DockerOK /\ used \in Nat)'
  BY <1>16 DEF Cancel, Goto, Trouble
<1>17. ASSUME NEW c \in Calls, Abandon(c) PROVE (DockerOK /\ used \in Nat)'
  <2>1. card[Th(c)].box \in Boxes
    BY <1>17 DEF Abandon, Placed, WithBox, CardOK, Cards, Th
  <2> QED  BY <1>17, <2>1 DEF Abandon, Trouble
<1>18. ASSUME NEW th \in Threads, StopThread(th) PROVE (DockerOK /\ used \in Nat)'
  BY <1>18, DestroyType DEF StopThread
<1>19. ASSUME NEW th \in Threads, Reap(th) PROVE (DockerOK /\ used \in Nat)'
  BY <1>19, DestroyType DEF Reap
<1>20. ASSUME NEW th \in Threads, DeleteBegin(th) PROVE (DockerOK /\ used \in Nat)'
  BY <1>20, DestroyType DEF DeleteBegin
<1>21. ASSUME NEW th \in Threads, CloseThread(th) PROVE (DockerOK /\ used \in Nat)'
  BY <1>21, DestroyType DEF CloseThread
<1>22. ASSUME NEW b \in Boxes, BoxDies(b) PROVE (DockerOK /\ used \in Nat)'
  BY <1>22 DEF BoxDies, Trouble
<1>23. ASSUME NEW b \in Boxes, LateStart(b) PROVE (DockerOK /\ used \in Nat)'
  BY <1>23 DEF LateStart, CardOf
<1>24. ASSUME NEW b \in Boxes, LateExec(b) PROVE (DockerOK /\ used \in Nat)'
  BY <1>24 DEF LateExec
<1>25. CASE Close
  BY <1>25 DEF Close, Trouble
<1>26. CASE Crash
  <2>1. \A d \in Calls : at[d] = "startWait" => card[Th(d)].box \in Boxes
    BY DEF Placed, WithBox, CardOK, Cards, Th
  <2>2. overtaken' \subseteq Boxes
    BY <1>26, <2>1 DEF Crash
  <2>3. box' \in [Boxes -> {"unused", "named", "running", "dead"}]
    BY <1>26 DEF Crash
  <2>4. used' \in Nat
    BY <1>26 DEF Crash, Trouble
  <2> QED  BY <1>26, <2>2, <2>3, <2>4 DEF Crash
<1>27. CASE Sweep
  BY <1>27 DEF Sweep, SweepAll, Trouble
<1>28. CASE StartWithout
  BY <1>28 DEF StartWithout, SweepAll
<1> QED  BY <1>2, <1>3, <1>4, <1>5, <1>6, <1>7, <1>8, <1>9, <1>10, <1>11, <1>12, <1>13, <1>14,
    <1>15, <1>16, <1>17, <1>18, <1>19, <1>20, <1>21, <1>22, <1>23, <1>24, <1>25, <1>26, <1>27,
    <1>28 DEF Next, Call

\* The types of all the variables.
LEMMA TypeParts == TypeOK <=> CardOK /\ LockOK /\ ProcessOK /\ DockerOK /\ used \in Nat
BY DEF TypeOK, CardOK, Cards, LockOK, Places, ProcessOK, DockerOK

\* The same after a step.
LEMMA TypePartsNext ==
  ASSUME CardOK', LockOK', ProcessOK', DockerOK', used' \in Nat PROVE TypeOK'
BY DEF TypeOK, CardOK, Cards, LockOK, Places, ProcessOK, DockerOK

-----------------------------------------------------------------------------
(* What a removal does                                                     *)

\* Docker knows b no more, or starts it later without anybody waiting; the other containers
\* are left alone.
Gone(b) ==
    /\ \A x \in Boxes \ {b} : /\ box'[x] = box[x] /\ busy'[x] = busy[x]
                              /\ x \in lateExec' <=> x \in lateExec
                              /\ x \in overtaken' <=> x \in overtaken
    /\ box'[b] = "unused" \/ (box'[b] = "named" /\ b \in overtaken')
    /\ busy'[b] = 0 /\ b \notin lateExec'

Others(th) == \A t \in Threads \ {th} : card'[t] = card[t]

\* The container of a Thread is gone, and from its card.
Emptied(th) ==
    /\ Others(th) /\ card'[th].box = NoBox /\ card'[th].pool \in {card[th].pool, "none"}
    /\ \/ card[th].box = NoBox /\ UNCHANGED dockerVars
       \/ card[th].box \in Boxes /\ Gone(card[th].box)

\* It could not be removed for sure: the card is marked and keeps the name.
Spoiled(th) ==
    /\ Others(th) /\ card[th].box \in Boxes
    /\ card'[th].box = card[th].box /\ card'[th].broken /\ card'[th].pool = card[th].pool
    /\ UNCHANGED dockerVars \/ Gone(card[th].box)

\* The ways out of the steps of a call that may remove its container: it goes on with what it
\* has, or without an answer; goes on with a clean card; has a removed or a marked container
\* and leaves; has killed its client.
Passed(c) ==
    /\ \/ at[c] = "check" /\ ~card[Th(c)].broken
          /\ Goto(c, IF card[Th(c)].box = NoBox THEN "create" ELSE "inspect")
       \/ at[c] = "inspect" /\ box[card[Th(c)].box] = "running" /\ Goto(c, "execLaunch")
    /\ UNCHANGED <<lock, card, dockerVars, callRest>>
Aborted(c) == at[c] = "inspect" /\ Leave(c) /\ UNCHANGED <<card, dockerVars, callRest>>
Cleaned(c) ==
    /\ at[c] \in {"check", "inspect"} /\ Emptied(Th(c)) /\ Goto(c, "create")
    /\ card'[Th(c)].pool = card[Th(c)].pool /\ ~card'[Th(c)].broken
    /\ UNCHANGED <<lock, callRest>>
Retired(c) ==
    /\ at[c] \in {"timeout", "destroy"} /\ Emptied(Th(c)) /\ Leave(c)
    /\ card'[Th(c)].pool = card[Th(c)].pool
    /\ UNCHANGED callRest
GivenUp(c) ==
    /\ at[c] \in {"check", "inspect", "destroy"} /\ Spoiled(Th(c)) /\ Leave(c)
    /\ UNCHANGED callRest
Killed(c) ==
    /\ at[c] \in {"kill", "timeout"} /\ Goto(c, "destroy")
    /\ card[Th(c)].box \in Boxes
    /\ UNCHANGED dockerVars \/ Gone(card[Th(c)].box)
    /\ UNCHANGED <<card, lock, callRest>>

\* The ways out of an operation that takes a Thread's lock for the removal: the card is dropped,
\* it is marked, or the reaper leaves it alone.
Apart(th) ==
    /\ lock[th] = Free /\ Serving /\ todo' \in {todo, todo \ {th}}
    /\ \A t \in Threads \ {th} : lock'[t] = lock[t]
    /\ UNCHANGED <<at, entering, up, dirs, flag>>
Dropped(th) ==
    /\ Apart(th) /\ Emptied(th) /\ card'[th].pool = "none"
    /\ lock'[th] \in {Free, Deleter} /\ UNCHANGED failed
Marked(th) ==
    /\ Apart(th) /\ Spoiled(th) /\ UNCHANGED lock
    /\ failed' \/ (UNCHANGED failed /\ (UNCHANGED todo \/ up = "up"))
Skipped(th) == Apart(th) /\ up = "up" /\ UNCHANGED <<card, dockerVars, lock, failed>>

\* docker rm, confirmed.
LEMMA RemovedIsGone ==
  ASSUME TypeOK, NEW b \in Boxes, Removed(b) PROVE Gone(b)
<1>1. \A x \in Boxes \ {b} : box'[x] = box[x] /\ busy'[x] = busy[x]
  <2>1. box \in [Boxes -> {"unused", "named", "running", "dead"}] /\ busy \in [Boxes -> Nat]
    BY DEF TypeOK
  <2>2. \A x \in Boxes \ {b} : box'[x] = box[x]
    BY <2>1 DEF Removed
  <2>3. \A x \in Boxes \ {b} : busy'[x] = busy[x]
    BY <2>1 DEF Removed
  <2> QED  BY <2>2, <2>3
<1>2. \A x \in Boxes \ {b} : x \in lateExec' <=> x \in lateExec
  BY DEF Removed
<1>3. \A x \in Boxes \ {b} : x \in overtaken' <=> x \in overtaken
  BY DEF Removed
<1>4. box'[b] = "unused" \/ (box'[b] = "named" /\ b \in overtaken')
  <2>1. box \in [Boxes -> {"unused", "named", "running", "dead"}]
    BY DEF TypeOK
  <2>2. box'[b] = IF box[b] = "named" /\ b \in overtaken THEN box[b] ELSE "unused"
    BY <2>1 DEF Removed
  <2>3. box[b] = "named" => overtaken' = overtaken
    BY DEF Removed
  <2>4. CASE box[b] = "named" /\ b \in overtaken
    BY <2>2, <2>3, <2>4
  <2>5. CASE ~(box[b] = "named" /\ b \in overtaken)
    BY <2>2, <2>5
  <2> QED  BY <2>4, <2>5
<1>5. busy'[b] = 0 /\ b \notin lateExec'
  <2>1. busy \in [Boxes -> Nat]
    BY DEF TypeOK
  <2> QED  BY <2>1 DEF Removed
<1> QED  BY <1>1, <1>2, <1>3, <1>4, <1>5 DEF Gone

\* _destroy that succeeds empties the card, whichever way the caller drops it.
LEMMA OkEmpties ==
  ASSUME TypeOK, NEW th \in Threads, DestroyOk(th),
         card' = Clean(th) \/ card' = [card EXCEPT ![th] = NoCard]
  PROVE  Emptied(th)
<1> USE SandboxAssumption
<1>1. Others(th) /\ card'[th].box = NoBox /\ card'[th].pool \in {card[th].pool, "none"}
  BY DEF TypeOK, Clean, NoCard, Others
<1>2. CASE card[th].box = NoBox
  BY <1>1, <1>2 DEF DestroyOk, Emptied, dockerVars
<1>3. CASE card[th].box # NoBox
  <2>1. card[th].box \in Boxes /\ Removed(card[th].box)
    BY <1>3 DEF DestroyOk, TypeOK
  <2> QED  BY <1>1, <2>1, RemovedIsGone DEF Emptied
<1> QED  BY <1>2, <1>3

\* _destroy that fails marks the card.
LEMMA FailsSpoils ==
  ASSUME TypeOK, NEW th \in Threads, DestroyFails(th) PROVE Spoiled(th)
<1>1. card[th].box \in Boxes
  BY DEF TypeOK, DestroyFails
<1>2. /\ Others(th) /\ card'[th].box = card[th].box
      /\ card'[th].broken /\ card'[th].pool = card[th].pool
  BY DEF TypeOK, DestroyFails, Others
<1>3. UNCHANGED dockerVars \/ Removed(card[th].box)
  BY DEF DestroyFails, NotRemoved
<1> QED  BY <1>1, <1>2, <1>3, RemovedIsGone DEF Spoiled

\* Which ways out there are.
LEMMA WaysOut ==
  ASSUME TypeOK, Placed, NEW c \in Calls, Check(c) \/ Inspect(c) \/ Kill(c) \/ Destroy(c)
  PROVE  Passed(c) \/ Aborted(c) \/ Cleaned(c) \/ Retired(c) \/ GivenUp(c) \/ Killed(c)
<1> DEFINE th == Th(c)
<1>th. th \in Threads
  BY SandboxAssumption DEF Th
<1>clean. card' = Clean(th) => card'[th].pool = card[th].pool /\ ~card'[th].broken
  BY <1>th DEF TypeOK, Clean
<1>1. CASE Check(c)
  BY <1>1, <1>th, <1>clean, OkEmpties, FailsSpoils
  DEF Check, Passed, Cleaned, GivenUp, Goto, Leave, callRest
<1>2. CASE Inspect(c)
  BY <1>2, <1>th, <1>clean, OkEmpties, FailsSpoils
  DEF Inspect, Passed, Aborted, Cleaned, GivenUp, Goto, Leave, callRest
<1>3. CASE Destroy(c)
  BY <1>3, <1>th, <1>clean, OkEmpties, FailsSpoils DEF Destroy, Retired, GivenUp
<1>4. CASE Kill(c)
  <2>1. card[th].box \in Boxes
    BY <1>4, <1>th DEF Kill, TypeOK, Placed, WithBox
  <2>2. Gone(card[th].box) \/ UNCHANGED dockerVars
    BY <1>4, <2>1, RemovedIsGone DEF Kill, KillRemoves, NotRemoved
  <2>3. CASE Goto(c, "destroy") /\ UNCHANGED <<card, lock>>
    BY <1>4, <2>1, <2>2, <2>3 DEF Kill, Killed
  <2>4. CASE Removed(card[th].box) /\ at[c] = "timeout" /\ Leave(c)
             /\ card' = [card EXCEPT ![th].box = NoBox]
    <3>1. Others(th) /\ card'[th].box = NoBox /\ card'[th].pool = card[th].pool
      BY <2>4, <1>th DEF TypeOK, Others
    <3>2. Gone(card[th].box)
      BY <2>1, <2>4, RemovedIsGone
    <3> QED  BY <1>4, <2>1, <2>4, <3>1, <3>2 DEF Kill, Retired, Emptied
  <2> QED  BY <1>4, <2>3, <2>4 DEF Kill, KillRemoves, NotRemoved
<1> QED  BY <1>1, <1>2, <1>3, <1>4

\* Which ways out the operations on a Thread have.
LEMMA ThreadWaysOut ==
  ASSUME TypeOK, NEW th \in Threads,
         StopThread(th) \/ Reap(th) \/ DeleteBegin(th) \/ CloseThread(th)
  PROVE  Dropped(th) \/ Marked(th) \/ Skipped(th)
<1>1. card' = [card EXCEPT ![th] = NoCard] => card'[th].pool = "none"
  BY DEF TypeOK, NoCard
<1>2. lock' = [lock EXCEPT ![th] = Deleter] =>
          lock'[th] = Deleter /\ \A t \in Threads \ {th} : lock'[t] = lock[t]
  BY DEF TypeOK
<1>3. CASE StopThread(th)
  BY <1>1, <1>3, OkEmpties, FailsSpoils
  DEF StopThread, Dropped, Marked, Apart, Serving, callRest
<1>4. CASE Reap(th)
  BY <1>1, <1>4, OkEmpties, FailsSpoils
  DEF Reap, Dropped, Marked, Skipped, Apart, Serving
<1>5. CASE DeleteBegin(th)
  BY <1>1, <1>2, <1>5, OkEmpties, FailsSpoils
  DEF DeleteBegin, Dropped, Marked, Apart, Serving, callRest
<1>6. CASE CloseThread(th)
  BY <1>1, <1>6, OkEmpties, FailsSpoils
  DEF CloseThread, Dropped, Marked, Apart, Serving
<1> QED  BY <1>3, <1>4, <1>5, <1>6

\* A card that keeps its container, or loses it, leaves the others alone.
LEMMA NamedFrom ==
  ASSUME Named, NEW th \in Threads, Others(th), card'[th].box \in {NoBox, card[th].box},
         card'[th].pool = "none" => card[th].pool = "none" \/ card'[th].box = NoBox
  PROVE  Named'
<1>1. \A t \in Threads : card'[t].box \in {NoBox, card[t].box}
  BY DEF Others
<1>2. \A t \in Threads : card'[t].pool = "none" => card'[t].box = NoBox
  BY DEF Named, Others
<1>3. ASSUME NEW t1 \in Threads, NEW t2 \in Threads, card'[t1].box = card'[t2].box,
             card'[t1].box # NoBox
      PROVE  t1 = t2
  BY <1>1, <1>3 DEF Named
<1> QED  BY <1>2, <1>3 DEF Named

\* A container that is emptied or spoiled is not lost.
LEMMA LostFrom ==
  ASSUME TypeOK, NoContainerIsLost, NEW th \in Threads, Emptied(th) \/ Spoiled(th), UNCHANGED up
  PROVE  NoContainerIsLost'
<1> SUFFICES ASSUME up \in {"up", "closing"}, NEW b \in Boxes, box'[b] \in {"running", "dead"},
                    b \notin overtaken'
             PROVE  \E t \in Threads : card'[t].box = b
  BY DEF NoContainerIsLost, CardOf
<1>1. CASE b = card[th].box /\ Spoiled(th)
  BY <1>1 DEF Spoiled
<1>2. CASE ~(b = card[th].box /\ Spoiled(th))
  <2>1. b # card[th].box
    BY <1>2, SandboxAssumption DEF Emptied, Gone
  <2>2. box'[b] = box[b] /\ (b \in overtaken' <=> b \in overtaken)
    BY <2>1 DEF Emptied, Spoiled, Gone, dockerVars
  <2>3. PICK t \in Threads : card[t].box = b
    BY <2>2 DEF NoContainerIsLost, CardOf
  <2> QED  BY <2>1, <2>3 DEF Emptied, Spoiled, Others
<1> QED  BY <1>1, <1>2

\* A removal sends no command.
LEMMA NothingSent ==
  ASSUME NEW th \in Threads, Emptied(th) \/ Spoiled(th)
  PROVE  \A b \in Boxes : b \in lateExec' => b \in lateExec
BY DEF Emptied, Spoiled, Gone, dockerVars

\* A process that ends forgets every card.
LEMMA Forgotten ==
  ASSUME Forget PROVE \A t \in Threads : card'[t].box = NoBox
BY DEF Forget, NoCard

-----------------------------------------------------------------------------
(* What every step keeps                                                   *)

\* Every step keeps the lock of a call inside run().
LEMMA HeldKeeps ==
  ASSUME TypeOK, Placed, Held, [Next]_vars PROVE Held'
<1>1. UNCHANGED <<at, card, dirs, lock, up>> => Held'
  BY DEF Held, Serving, Th
<1>2. ASSUME NEW r \in Runs, BeginCheck(r) PROVE Held'
  BY <1>2, <1>1 DEF BeginCheck, memVars, dockerVars, callRest
<1>3. ASSUME NEW b \in Boxes, BoxDies(b) \/ LateStart(b) \/ LateExec(b) PROVE Held'
  BY <1>3, <1>1 DEF BoxDies, LateStart, LateExec, memVars, dockerVars, callRest
<1>4. CASE ReapBegin \/ StartWithout
  BY <1>4, <1>1 DEF ReapBegin, StartWithout, SweepAll, memVars, dockerVars, callRest
<1>5. CASE UNCHANGED vars
  BY <1>5, <1>1 DEF vars, memVars, dockerVars
<1> CardOK /\ LockOK
  BY TypeParts
<1> USE SandboxAssumption DEF Placed, Held, Serving, Th, CardOK, LockOK, Cards, memVars,
    dockerVars, callRest
<1>6. ASSUME NEW r \in Runs, BeginRun(r) PROVE Held'
  BY <1>6 DEF BeginRun, BeginRun_AnyTime
<1>7. ASSUME NEW r \in Runs, EndRun(r) PROVE Held'
  BY <1>7 DEF EndRun
<1>8. ASSUME NEW c \in Calls, Enter(c) PROVE Held'
  BY <1>8 DEF Enter, MayRun, MayRun_Deleted, Goto
<1>9. ASSUME NEW c \in Calls, Name(c) PROVE Held'
  BY <1>9 DEF Name, Goto, CardOf
<1>10. ASSUME NEW c \in Calls, Launch(c) PROVE Held'
  BY <1>10 DEF Launch, Goto
<1>11. ASSUME NEW c \in Calls, Started(c) PROVE Held'
  BY <1>11 DEF Started, Goto, Trouble
<1>12. ASSUME NEW c \in Calls, TimeLimit(c) PROVE Held'
  BY <1>12 DEF TimeLimit, Goto
<1>13. ASSUME NEW c \in Calls, Ended(c) PROVE Held'
  BY <1>13 DEF Ended, Goto, Leave, Trouble
<1>14. ASSUME NEW c \in Calls, LaunchFails(c) PROVE Held'
  BY <1>14 DEF LaunchFails, Goto, Trouble
<1>15. ASSUME NEW c \in Calls, Cancel(c) PROVE Held'
  BY <1>15 DEF Cancel, Goto, Trouble
<1>16. ASSUME NEW c \in Calls, Abandon(c) PROVE Held'
  BY <1>16 DEF Abandon, Goto, Trouble
<1>17. ASSUME NEW c \in Calls, Check(c) \/ Inspect(c) \/ Kill(c) \/ Destroy(c) PROVE Held'
  <2>1. CASE Passed(c)
    BY <2>1 DEF Passed, Goto
  <2>2. CASE Aborted(c)
    BY <2>2 DEF Aborted, Leave, Goto
  <2>3. CASE Cleaned(c)
    BY <2>3 DEF Cleaned, Goto, Emptied, Others
  <2>4. CASE Retired(c)
    BY <2>4 DEF Retired, Leave, Goto, Emptied, Others
  <2>5. CASE GivenUp(c)
    BY <2>5 DEF GivenUp, Leave, Goto, Spoiled, Others
  <2>6. CASE Killed(c)
    BY <2>6 DEF Killed, Goto
  <2> QED  BY <1>17, WaysOut, <2>1, <2>2, <2>3, <2>4, <2>5, <2>6
<1>18. ASSUME NEW th \in Threads, StopThread(th) \/ Reap(th) \/ DeleteBegin(th) \/ CloseThread(th)
      PROVE Held'
  <2>1. CASE Dropped(th)
    BY <2>1 DEF Dropped, Apart, Emptied, Others
  <2>2. CASE Marked(th)
    <3>1. \A t \in Threads : card'[t].pool = card[t].pool
      BY <2>2 DEF Marked, Spoiled, Others
    <3> QED  BY <2>2, <3>1 DEF Marked, Apart
  <2>3. CASE Skipped(th)
    BY <2>3 DEF Skipped, Apart
  <2> QED  BY <1>18, ThreadWaysOut, <2>1, <2>2, <2>3
<1>19. ASSUME NEW th \in Threads, Ages(th) PROVE Held'
  BY <1>19 DEF Ages
<1>20. ASSUME NEW th \in Threads, DeleteEnd(th) PROVE Held'
  BY <1>20 DEF DeleteEnd
<1>21. CASE Close
  BY <1>21 DEF Close, Trouble
<1>22. CASE CloseEnds
  BY <1>22 DEF CloseEnds, Forget, MayClear
<1>23. CASE Crash
  BY <1>23 DEF Crash, Forget, Trouble
<1>24. CASE Start
  BY <1>24 DEF Start
<1>25. CASE Sweep
  BY <1>25 DEF Sweep, SweepAll, Trouble
<1> QED  BY <1>2, <1>3, <1>4, <1>5, <1>6, <1>7, <1>8, <1>9, <1>10, <1>11, <1>12, <1>13, <1>14,
    <1>15, <1>16, <1>17, <1>18, <1>19, <1>20, <1>21, <1>22, <1>23, <1>24, <1>25 DEF Next, Call

\* A process that does not serve comes to hold nothing.
LEMMA StoppedKeeps ==
  ASSUME TypeOK, Placed, Held, Stopped, [Next]_vars PROVE Stopped'
<1>1. UNCHANGED <<card, entering, flag, lock, todo, up>> => Stopped'
  BY DEF Stopped, Serving, Th, NoCard
<1>2. ASSUME NEW c \in Calls, Launch(c) \/ Started(c) \/ TimeLimit(c) \/ LaunchFails(c) \/
    Cancel(c) \/ Abandon(c) PROVE Stopped'
  BY <1>2, <1>1 DEF Launch, Goto, Started, TimeLimit, LaunchFails, Cancel, Abandon, memVars,
      dockerVars, callRest
<1>3. ASSUME NEW b \in Boxes, BoxDies(b) \/ LateStart(b) \/ LateExec(b) PROVE Stopped'
  BY <1>3, <1>1 DEF BoxDies, LateStart, LateExec, memVars, dockerVars, callRest
<1>4. CASE UNCHANGED vars
  BY <1>4, <1>1 DEF vars, memVars, dockerVars
<1> CardOK /\ LockOK
  BY TypeParts
<1> USE SandboxAssumption DEF Placed, Held, Stopped, Serving, Th, NoCard, CardOK, LockOK,
    Cards, memVars, dockerVars, callRest
<1>5. ASSUME NEW r \in Runs, BeginCheck(r) PROVE Stopped'
  BY <1>5 DEF BeginCheck
<1>6. ASSUME NEW r \in Runs, BeginRun(r) PROVE Stopped'
  BY <1>6 DEF BeginRun, BeginRun_AnyTime
<1>7. ASSUME NEW r \in Runs, EndRun(r) PROVE Stopped'
  BY <1>7 DEF EndRun
<1>8. ASSUME NEW c \in Calls, Enter(c) PROVE Stopped'
  BY <1>8 DEF Enter, MayRun, MayRun_Deleted, Goto
<1>9. ASSUME NEW c \in Calls, Name(c) PROVE Stopped'
  BY <1>9 DEF Name, Goto, CardOf
<1>10. ASSUME NEW c \in Calls, Ended(c) PROVE Stopped'
  BY <1>10 DEF Ended, Goto, Leave, Trouble
<1>11. ASSUME NEW c \in Calls, Check(c) \/ Inspect(c) \/ Kill(c) \/ Destroy(c) PROVE Stopped'
  <2>1. CASE Passed(c)
    BY <2>1 DEF Passed, Goto
  <2>2. CASE Aborted(c)
    BY <2>2 DEF Aborted, Leave, Goto
  <2>3. CASE Cleaned(c)
    BY <2>3 DEF Cleaned, Goto, Emptied, Others
  <2>4. CASE Retired(c)
    BY <2>4 DEF Retired, Leave, Goto, Emptied, Others
  <2>5. CASE GivenUp(c)
    BY <2>5 DEF GivenUp, Leave, Goto, Spoiled, Others
  <2>6. CASE Killed(c)
    BY <2>6 DEF Killed, Goto
  <2> QED  BY <1>11, WaysOut, <2>1, <2>2, <2>3, <2>4, <2>5, <2>6
<1>12. ASSUME NEW th \in Threads, StopThread(th) \/ Reap(th) \/ DeleteBegin(th) \/ CloseThread(th)
      PROVE Stopped'
  <2>1. CASE Dropped(th)
    BY <2>1 DEF Dropped, Apart, Emptied, Others
  <2>2. CASE Marked(th)
    BY <2>2 DEF Marked, Apart, Spoiled, Others
  <2>3. CASE Skipped(th)
    BY <2>3 DEF Skipped, Apart
  <2> QED  BY <1>12, ThreadWaysOut, <2>1, <2>2, <2>3
<1>13. ASSUME NEW th \in Threads, Ages(th) PROVE Stopped'
  BY <1>13 DEF Ages
<1>14. ASSUME NEW th \in Threads, DeleteEnd(th) PROVE Stopped'
  BY <1>14 DEF DeleteEnd
<1>15. CASE ReapBegin
  BY <1>15 DEF ReapBegin
<1>16. CASE Close
  BY <1>16 DEF Close, Trouble
<1>17. CASE CloseEnds
  BY <1>17 DEF CloseEnds, Forget, MayClear
<1>18. CASE Crash
  BY <1>18 DEF Crash, Forget, Trouble
<1>19. CASE Start
  BY <1>19 DEF Start
<1>20. CASE Sweep
  BY <1>20 DEF Sweep, SweepAll, Trouble
<1>21. CASE StartWithout
  BY <1>21 DEF StartWithout, SweepAll
<1> QED  BY <1>2, <1>3, <1>4, <1>5, <1>6, <1>7, <1>8, <1>9, <1>10, <1>11, <1>12, <1>13, <1>14,
    <1>15, <1>16, <1>17, <1>18, <1>19, <1>20, <1>21 DEF Next, Call

\* close leaves a Thread it went through alone.
LEMMA ClosedKeeps ==
  ASSUME TypeOK, Placed, Held, Closed, Named, [Next]_vars PROVE Closed'
<1>1. UNCHANGED <<card, failed, todo, up>> => Closed'
  BY DEF Closed, Th, NoCard
<1>2. ASSUME NEW r \in Runs, BeginCheck(r) PROVE Closed'
  BY <1>2, <1>1 DEF BeginCheck, memVars, dockerVars, callRest
<1>3. ASSUME NEW c \in Calls, Enter(c) \/ Launch(c) \/ Started(c) \/ TimeLimit(c) \/ Ended(c)
    \/ LaunchFails(c) \/ Cancel(c) \/ Abandon(c) PROVE Closed'
  BY <1>3, <1>1 DEF Enter, Goto, Launch, Started, TimeLimit, Ended, Leave, LaunchFails,
      Cancel, Abandon, memVars, dockerVars, callRest
<1>4. ASSUME NEW th \in Threads, DeleteEnd(th) PROVE Closed'
  BY <1>4, <1>1 DEF DeleteEnd, memVars, dockerVars, callRest
<1>5. ASSUME NEW b \in Boxes, BoxDies(b) \/ LateStart(b) \/ LateExec(b) PROVE Closed'
  BY <1>5, <1>1 DEF BoxDies, LateStart, LateExec, memVars, dockerVars, callRest
<1>6. CASE StartWithout
  BY <1>6, <1>1 DEF StartWithout, SweepAll, memVars, dockerVars, callRest
<1>7. CASE UNCHANGED vars
  BY <1>7, <1>1 DEF vars, memVars, dockerVars
<1> CardOK
  BY TypeParts
<1> USE SandboxAssumption DEF Placed, Held, Closed, Named, Th, NoCard, CardOK, Cards, memVars,
    dockerVars, callRest
<1>8. ASSUME NEW r \in Runs, BeginRun(r) PROVE Closed'
  BY <1>8 DEF BeginRun, BeginRun_AnyTime
<1>9. ASSUME NEW r \in Runs, EndRun(r) PROVE Closed'
  BY <1>9 DEF EndRun
<1>10. ASSUME NEW c \in Calls, Name(c) PROVE Closed'
  BY <1>10 DEF Name, Goto, CardOf
<1>11. ASSUME NEW c \in Calls, Check(c) \/ Inspect(c) \/ Kill(c) \/ Destroy(c) PROVE Closed'
  <2>1. CASE Passed(c)
    BY <2>1 DEF Passed, Goto
  <2>2. CASE Aborted(c)
    BY <2>2 DEF Aborted, Leave, Goto
  <2>3. CASE Cleaned(c)
    BY <2>3 DEF Cleaned, Goto, Emptied, Others
  <2>4. CASE Retired(c)
    BY <2>4 DEF Retired, Leave, Goto, Emptied, Others
  <2>5. CASE GivenUp(c)
    BY <2>5 DEF GivenUp, Leave, Goto, Spoiled, Others
  <2>6. CASE Killed(c)
    BY <2>6 DEF Killed, Goto
  <2> QED  BY <1>11, WaysOut, <2>1, <2>2, <2>3, <2>4, <2>5, <2>6
<1>12. ASSUME NEW th \in Threads, StopThread(th) \/ Reap(th) \/ DeleteBegin(th) \/ CloseThread(th)
      PROVE Closed'
  <2>1. CASE Dropped(th)
    BY <2>1 DEF Dropped, Apart, Emptied, Others
  <2>2. CASE Marked(th)
    BY <2>2 DEF Marked, Apart, Spoiled, Others
  <2>3. CASE Skipped(th)
    BY <2>3 DEF Skipped, Apart
  <2> QED  BY <1>12, ThreadWaysOut, <2>1, <2>2, <2>3
<1>13. ASSUME NEW th \in Threads, Ages(th) PROVE Closed'
  BY <1>13 DEF Ages
<1>14. CASE ReapBegin
  BY <1>14 DEF ReapBegin
<1>15. CASE Close
  BY <1>15 DEF Close, Trouble
<1>16. CASE CloseEnds
  BY <1>16 DEF CloseEnds, Forget, MayClear
<1>17. CASE Crash
  BY <1>17 DEF Crash, Forget, Trouble
<1>18. CASE Start
  BY <1>18 DEF Start
<1>19. CASE Sweep
  BY <1>19 DEF Sweep, SweepAll, Trouble
<1> QED  BY <1>2, <1>3, <1>4, <1>5, <1>6, <1>7, <1>8, <1>9, <1>10, <1>11, <1>12, <1>13, <1>14,
    <1>15, <1>16, <1>17, <1>18, <1>19 DEF Next, Call

\* Every step keeps a container on one card.
LEMMA NamedKeeps ==
  ASSUME TypeOK, Placed, Held, Named, [Next]_vars PROVE Named'
<1>1. UNCHANGED <<card>> => Named'
  BY DEF Named, Th, NoCard, CardOf
<1>2. ASSUME NEW r \in Runs, BeginCheck(r) PROVE Named'
  BY <1>2, <1>1 DEF BeginCheck, memVars, dockerVars, callRest
<1>3. ASSUME NEW c \in Calls, Enter(c) \/ Launch(c) \/ Started(c) \/ TimeLimit(c) \/ Ended(c)
    \/ LaunchFails(c) \/ Cancel(c) \/ Abandon(c) PROVE Named'
  BY <1>3, <1>1 DEF Enter, Goto, Launch, Started, TimeLimit, Ended, Leave, LaunchFails,
      Cancel, Abandon, memVars, dockerVars, callRest
<1>4. ASSUME NEW th \in Threads, DeleteEnd(th) PROVE Named'
  BY <1>4, <1>1 DEF DeleteEnd, memVars, dockerVars, callRest
<1>5. ASSUME NEW b \in Boxes, BoxDies(b) \/ LateStart(b) \/ LateExec(b) PROVE Named'
  BY <1>5, <1>1 DEF BoxDies, LateStart, LateExec, memVars, dockerVars, callRest
<1>6. CASE ReapBegin \/ Close \/ Start \/ Sweep \/ StartWithout
  BY <1>6, <1>1 DEF ReapBegin, Close, Start, Sweep, SweepAll, StartWithout, memVars,
      dockerVars, callRest
<1>7. CASE UNCHANGED vars
  BY <1>7, <1>1 DEF vars, memVars, dockerVars
<1> CardOK
  BY TypeParts
<1> USE SandboxAssumption DEF Placed, Held, Named, Th, NoCard, CardOf, CardOK, Cards, memVars,
    dockerVars, callRest
<1>8. ASSUME NEW r \in Runs, BeginRun(r) PROVE Named'
  <2>1. CASE BeginRun_AnyTime(r)
    <3>1. Others(ThreadOf[r]) /\ card'[ThreadOf[r]].box = card[ThreadOf[r]].box
      BY <2>1 DEF BeginRun_AnyTime, Others
    <3>2. card'[ThreadOf[r]].pool = "active"
      BY <2>1 DEF BeginRun_AnyTime
    <3> QED  BY <3>1, <3>2, NamedFrom
  <2>2. CASE UNCHANGED card
    BY <2>2
  <2> QED  BY <1>8, <2>1, <2>2 DEF BeginRun
<1>9. ASSUME NEW r \in Runs, EndRun(r) PROVE Named'
  BY <1>9 DEF EndRun
<1>10. ASSUME NEW c \in Calls, Name(c) PROVE Named'
  BY <1>10 DEF Name, Goto, CardOf
<1>11. ASSUME NEW c \in Calls, Check(c) \/ Inspect(c) \/ Kill(c) \/ Destroy(c) PROVE Named'
  <2>1. CASE Passed(c)
    BY <2>1 DEF Passed, Goto
  <2>2. CASE Aborted(c)
    BY <2>2 DEF Aborted, Leave, Goto
  <2>3. CASE Cleaned(c)
    BY <2>3, NamedFrom DEF Cleaned, Emptied
  <2>4. CASE Retired(c)
    BY <2>4, NamedFrom DEF Retired, Emptied
  <2>5. CASE GivenUp(c)
    BY <2>5, NamedFrom DEF GivenUp, Spoiled
  <2>6. CASE Killed(c)
    BY <2>6 DEF Killed, Goto
  <2> QED  BY <1>11, WaysOut, <2>1, <2>2, <2>3, <2>4, <2>5, <2>6
<1>12. ASSUME NEW th \in Threads, StopThread(th) \/ Reap(th) \/ DeleteBegin(th) \/ CloseThread(th)
      PROVE Named'
  <2>1. CASE Dropped(th)
    BY <2>1, NamedFrom DEF Dropped, Emptied
  <2>2. CASE Marked(th)
    BY <2>2, NamedFrom DEF Marked, Spoiled
  <2>3. CASE Skipped(th)
    BY <2>3 DEF Skipped, Apart
  <2> QED  BY <1>12, ThreadWaysOut, <2>1, <2>2, <2>3
<1>13. ASSUME NEW th \in Threads, Ages(th) PROVE Named'
  BY <1>13 DEF Ages
<1>14. CASE CloseEnds
  <2>1. Forget
    BY <1>14, Zenon DEF CloseEnds
  <2> QED  BY <2>1, Forgotten
<1>15. CASE Crash
  <2>1. Forget
    BY <1>15, Zenon DEF Crash
  <2> QED  BY <2>1, Forgotten
<1> QED  BY <1>2, <1>3, <1>4, <1>5, <1>6, <1>7, <1>8, <1>9, <1>10, <1>11, <1>12, <1>13, <1>14,
    <1>15 DEF Next, Call

\* Every step of a call leaves the card as its next place expects it.
LEMMA PlacedKeeps ==
  ASSUME TypeOK, Placed, Held, Named, Mounted, [Next]_vars PROVE Placed'
<1>1. UNCHANGED <<at, box, card>> => Placed'
  BY DEF Placed, Serving, Th, WithBox, Sound
<1>2. ASSUME NEW r \in Runs, BeginCheck(r) PROVE Placed'
  BY <1>2, <1>1 DEF BeginCheck, memVars, dockerVars, callRest
<1>3. ASSUME NEW th \in Threads, DeleteEnd(th) PROVE Placed'
  BY <1>3, <1>1 DEF DeleteEnd, memVars, dockerVars, callRest
<1>4. ASSUME NEW b \in Boxes, LateExec(b) PROVE Placed'
  BY <1>4, <1>1 DEF LateExec, memVars, dockerVars, callRest
<1>5. CASE ReapBegin \/ Close \/ Start
  BY <1>5, <1>1 DEF ReapBegin, Close, Start, memVars, dockerVars, callRest
<1>6. CASE UNCHANGED vars
  BY <1>6, <1>1 DEF vars, memVars, dockerVars
<1> CardOK /\ LockOK /\ DockerOK
  BY TypeParts
<1> USE SandboxAssumption DEF Placed, Held, Named, Mounted, Serving, Th, WithBox, Sound,
    CardOK, LockOK, DockerOK, Cards, memVars, dockerVars, callRest
<1>7. ASSUME NEW r \in Runs, BeginRun(r) PROVE Placed'
  BY <1>7 DEF BeginRun, BeginRun_AnyTime
<1>8. ASSUME NEW r \in Runs, EndRun(r) PROVE Placed'
  BY <1>8 DEF EndRun
<1>9. ASSUME NEW c \in Calls, Enter(c) PROVE Placed'
  BY <1>9 DEF Enter, MayRun, MayRun_Deleted, Goto
<1>10. ASSUME NEW c \in Calls, Name(c) PROVE Placed'
  BY <1>10 DEF Name, Goto, CardOf
<1>11. ASSUME NEW c \in Calls, Launch(c) PROVE Placed'
  BY <1>11 DEF Launch, Goto
<1>12. ASSUME NEW c \in Calls, Started(c) PROVE Placed'
  BY <1>12 DEF Started, Goto, Trouble
<1>13. ASSUME NEW c \in Calls, TimeLimit(c) PROVE Placed'
  BY <1>13 DEF TimeLimit, Goto
<1>14. ASSUME NEW c \in Calls, Ended(c) PROVE Placed'
  BY <1>14 DEF Ended, Goto, Leave, Trouble
<1>15. ASSUME NEW c \in Calls, LaunchFails(c) PROVE Placed'
  BY <1>15 DEF LaunchFails, Goto, Trouble
<1>16. ASSUME NEW c \in Calls, Cancel(c) PROVE Placed'
  BY <1>16 DEF Cancel, Goto, Trouble
<1>17. ASSUME NEW c \in Calls, Abandon(c) PROVE Placed'
  BY <1>17 DEF Abandon, Goto, Trouble
<1>18. ASSUME NEW c \in Calls, Check(c) \/ Inspect(c) \/ Kill(c) \/ Destroy(c) PROVE Placed'
  <2>1. CASE Passed(c)
    BY <2>1 DEF Passed, Goto
  <2>2. CASE Aborted(c)
    BY <2>2 DEF Aborted, Leave, Goto
  <2>3. CASE Cleaned(c)
    <3>1. /\ card'[Th(c)].box = NoBox /\ ~card'[Th(c)].broken
          /\ \A t \in Threads \ {Th(c)} : card'[t] = card[t]
      BY <2>3 DEF Cleaned, Emptied, Others
    <3>2. at' = [at EXCEPT ![c] = "create"]
      BY <2>3 DEF Cleaned, Goto
    <3>3. \A d \in Calls \ {c} : at[d] # "out" => Th(d) # Th(c)
      BY <2>3 DEF Cleaned
    <3>4. \A d \in Calls \ {c} : at[d] \in {"execLaunch", "execWait", "execCancelled"} =>
              box'[card[Th(d)].box] \in {"running", "dead"}
      BY <2>3, <3>3 DEF Cleaned, Emptied, Gone
    <3> QED  BY <3>1, <3>2, <3>3, <3>4
  <2>4. CASE Retired(c)
    BY <2>4 DEF Retired, Leave, Goto, Emptied, Others, Gone
  <2>5. CASE GivenUp(c)
    BY <2>5 DEF GivenUp, Leave, Goto, Spoiled, Others, Gone
  <2>6. CASE Killed(c)
    BY <2>6 DEF Killed, Goto, Gone
  <2> QED  BY <1>18, WaysOut, <2>1, <2>2, <2>3, <2>4, <2>5, <2>6
<1>19. ASSUME NEW th \in Threads, StopThread(th) \/ Reap(th) \/ DeleteBegin(th) \/ CloseThread(th)
      PROVE Placed'
  <2>1. CASE Dropped(th)
    BY <2>1 DEF Dropped, Apart, Emptied, Others, Gone
  <2>2. CASE Marked(th)
    BY <2>2 DEF Marked, Apart, Spoiled, Others, Gone
  <2>3. CASE Skipped(th)
    BY <2>3 DEF Skipped, Apart
  <2> QED  BY <1>19, ThreadWaysOut, <2>1, <2>2, <2>3
<1>20. ASSUME NEW th \in Threads, Ages(th) PROVE Placed'
  BY <1>20 DEF Ages
<1>21. ASSUME NEW b \in Boxes, BoxDies(b) PROVE Placed'
  BY <1>21 DEF BoxDies, Trouble
<1>22. ASSUME NEW b \in Boxes, LateStart(b) PROVE Placed'
  BY <1>22 DEF LateStart, CardOf
<1>23. CASE CloseEnds
  BY <1>23 DEF CloseEnds, Forget, MayClear
<1>24. CASE Crash
  BY <1>24 DEF Crash, Forget, Trouble
<1>25. CASE Sweep
  BY <1>25 DEF Sweep, SweepAll, Trouble
<1>26. CASE StartWithout
  BY <1>26 DEF StartWithout, SweepAll
<1> QED  BY <1>2, <1>3, <1>4, <1>5, <1>6, <1>7, <1>8, <1>9, <1>10, <1>11, <1>12, <1>13, <1>14,
    <1>15, <1>16, <1>17, <1>18, <1>19, <1>20, <1>21, <1>22, <1>23, <1>24, <1>25, <1>26 DEF
    Next, Call

\* A Thread is deleted without a container and stays so.
LEMMA MountedKeeps ==
  ASSUME TypeOK, Placed, Held, Named, Mounted, [Next]_vars PROVE Mounted'
<1>1. UNCHANGED <<card, dirs, lock>> => Mounted'
  BY DEF Mounted, Th, NoCard, WithBox
<1>2. ASSUME NEW r \in Runs, BeginCheck(r) PROVE Mounted'
  BY <1>2, <1>1 DEF BeginCheck, memVars, dockerVars, callRest
<1>3. ASSUME NEW c \in Calls, Launch(c) \/ Started(c) \/ TimeLimit(c) \/ LaunchFails(c) \/
    Cancel(c) \/ Abandon(c) PROVE Mounted'
  BY <1>3, <1>1 DEF Launch, Goto, Started, TimeLimit, LaunchFails, Cancel, Abandon, memVars,
      dockerVars, callRest
<1>4. ASSUME NEW b \in Boxes, BoxDies(b) \/ LateStart(b) \/ LateExec(b) PROVE Mounted'
  BY <1>4, <1>1 DEF BoxDies, LateStart, LateExec, memVars, dockerVars, callRest
<1>5. CASE ReapBegin \/ Close \/ Start \/ Sweep \/ StartWithout
  BY <1>5, <1>1 DEF ReapBegin, Close, Start, Sweep, SweepAll, StartWithout, memVars,
      dockerVars, callRest
<1>6. CASE UNCHANGED vars
  BY <1>6, <1>1 DEF vars, memVars, dockerVars
<1> CardOK /\ LockOK
  BY TypeParts
<1> USE SandboxAssumption DEF Placed, Held, Named, Mounted, Th, NoCard, WithBox, CardOK,
    LockOK, Cards, memVars, dockerVars, callRest
<1>7. ASSUME NEW r \in Runs, BeginRun(r) PROVE Mounted'
  BY <1>7 DEF BeginRun, BeginRun_AnyTime
<1>8. ASSUME NEW r \in Runs, EndRun(r) PROVE Mounted'
  BY <1>8 DEF EndRun
<1>9. ASSUME NEW c \in Calls, Enter(c) PROVE Mounted'
  BY <1>9 DEF Enter, MayRun, MayRun_Deleted, Goto
<1>10. ASSUME NEW c \in Calls, Name(c) PROVE Mounted'
  BY <1>10 DEF Name, Goto, CardOf
<1>11. ASSUME NEW c \in Calls, Ended(c) PROVE Mounted'
  BY <1>11 DEF Ended, Goto, Leave, Trouble
<1>12. ASSUME NEW c \in Calls, Check(c) \/ Inspect(c) \/ Kill(c) \/ Destroy(c) PROVE Mounted'
  <2>1. CASE Passed(c)
    BY <2>1 DEF Passed, Goto
  <2>2. CASE Aborted(c)
    BY <2>2 DEF Aborted, Leave, Goto
  <2>3. CASE Cleaned(c)
    BY <2>3 DEF Cleaned, Goto, Emptied, Others
  <2>4. CASE Retired(c)
    BY <2>4 DEF Retired, Leave, Goto, Emptied, Others
  <2>5. CASE GivenUp(c)
    BY <2>5 DEF GivenUp, Leave, Goto, Spoiled, Others
  <2>6. CASE Killed(c)
    BY <2>6 DEF Killed, Goto
  <2> QED  BY <1>12, WaysOut, <2>1, <2>2, <2>3, <2>4, <2>5, <2>6
<1>13. ASSUME NEW th \in Threads, StopThread(th) \/ Reap(th) \/ DeleteBegin(th) \/ CloseThread(th)
      PROVE Mounted'
  <2>1. CASE Dropped(th)
    BY <2>1 DEF Dropped, Apart, Emptied, Others
  <2>2. CASE Marked(th)
    BY <2>2 DEF Marked, Apart, Spoiled, Others
  <2>3. CASE Skipped(th)
    BY <2>3 DEF Skipped, Apart
  <2> QED  BY <1>13, ThreadWaysOut, <2>1, <2>2, <2>3
<1>14. ASSUME NEW th \in Threads, Ages(th) PROVE Mounted'
  BY <1>14 DEF Ages
<1>15. ASSUME NEW th \in Threads, DeleteEnd(th) PROVE Mounted'
  BY <1>15 DEF DeleteEnd
<1>16. CASE CloseEnds
  BY <1>16 DEF CloseEnds, Forget, MayClear
<1>17. CASE Crash
  BY <1>17 DEF Crash, Forget, Trouble
<1> QED  BY <1>2, <1>3, <1>4, <1>5, <1>6, <1>7, <1>8, <1>9, <1>10, <1>11, <1>12, <1>13, <1>14,
    <1>15, <1>16, <1>17 DEF Next, Call

\* Every step keeps the count of the commands of a container.
LEMMA AloneKeeps ==
  ASSUME TypeOK, Placed, Held, Named, Alone, Known, [Next]_vars PROVE Alone'
<1>1. UNCHANGED <<box, busy, lateExec>> => Alone'
  BY DEF Alone, Quiet, Th, WithBox, Sound, Unsettled
<1>2. ASSUME NEW r \in Runs, BeginCheck(r) \/ BeginRun(r) \/ EndRun(r) PROVE Alone'
  BY <1>2, <1>1 DEF BeginCheck, BeginRun, EndRun, memVars, dockerVars, callRest
<1>3. ASSUME NEW c \in Calls, Enter(c) \/ TimeLimit(c) \/ LaunchFails(c) \/ Cancel(c) PROVE Alone'
  BY <1>3, <1>1 DEF Enter, Goto, TimeLimit, LaunchFails, Cancel, memVars, dockerVars, callRest
<1>4. ASSUME NEW th \in Threads, Ages(th) \/ DeleteEnd(th) PROVE Alone'
  BY <1>4, <1>1 DEF Ages, DeleteEnd, memVars, dockerVars, callRest
<1>5. CASE ReapBegin \/ Close \/ CloseEnds \/ Start
  BY <1>5, <1>1 DEF ReapBegin, Close, CloseEnds, Forget, Start, memVars, dockerVars, callRest
<1>6. CASE UNCHANGED vars
  BY <1>6, <1>1 DEF vars, memVars, dockerVars
<1> CardOK /\ DockerOK
  BY TypeParts
<1> USE SandboxAssumption DEF Placed, Held, Named, Alone, Known, Quiet, Th, WithBox, Sound,
    Unsettled, CardOK, DockerOK, Cards, memVars, dockerVars, callRest
<1>7. ASSUME NEW c \in Calls, Name(c) PROVE Alone'
  BY <1>7 DEF Name, Goto, CardOf
<1>8. ASSUME NEW c \in Calls, Launch(c) PROVE Alone'
  <2>1. CASE at[c] = "execLaunch" /\ box[card[Th(c)].box] = "running"
    <3>0. card[Th(c)].box \in Boxes /\ ~card[Th(c)].broken
      BY <2>1
    <3>a. \A d \in Calls : Th(d) = Th(c) => at[d] \notin Unsettled
      BY <2>1
    <3>1. Quiet(card[Th(c)].box)
      BY <3>0, <3>a
    <3> QED  BY <1>8, <2>1, <3>1 DEF Launch
  <2>2. CASE ~(at[c] = "execLaunch" /\ box[card[Th(c)].box] = "running")
    BY <1>8, <2>2 DEF Launch
  <2> QED  BY <2>1, <2>2
<1>9. ASSUME NEW c \in Calls, Started(c) PROVE Alone'
  BY <1>9 DEF Started, Goto, Trouble
<1>10. ASSUME NEW c \in Calls, Ended(c) PROVE Alone'
  BY <1>10 DEF Ended, Goto, Leave, Trouble
<1>11. ASSUME NEW c \in Calls, Abandon(c) PROVE Alone'
  <2>1. CASE at[c] = "startCancelled"
    <3>1. UNCHANGED <<busy, box, lateExec>>
      BY <1>11, <2>1 DEF Abandon
    <3> QED  BY <3>1
  <2>2. CASE at[c] = "execCancelled"
    <3>0. card[Th(c)].box \in Boxes /\ ~card[Th(c)].broken /\ box[card[Th(c)].box] \in
        {"running", "dead"}
      BY <2>2
    <3>1. \A d \in Calls : Th(d) = Th(c) => at[d] \notin Unsettled
      BY <2>2
    <3>2. Quiet(card[Th(c)].box)
      BY <3>0, <3>1
    <3>3. lateExec' = lateExec \cup {card[Th(c)].box} /\ UNCHANGED <<busy, box>>
      BY <1>11, <2>2 DEF Abandon
    <3> QED  BY <3>0, <3>2, <3>3
  <2> QED  BY <1>11, <2>1, <2>2 DEF Abandon
<1>12. ASSUME NEW c \in Calls, Check(c) \/ Inspect(c) \/ Kill(c) \/ Destroy(c) PROVE Alone'
  <2>1. CASE Passed(c)
    BY <2>1 DEF Passed, Goto
  <2>2. CASE Aborted(c)
    BY <2>2 DEF Aborted, Leave, Goto
  <2>3. CASE Cleaned(c)
    BY <2>3 DEF Cleaned, Goto, Emptied, Others, Gone
  <2>4. CASE Retired(c)
    BY <2>4 DEF Retired, Leave, Goto, Emptied, Others, Gone
  <2>5. CASE GivenUp(c)
    BY <2>5 DEF GivenUp, Leave, Goto, Spoiled, Others, Gone
  <2>6. CASE Killed(c)
    BY <2>6 DEF Killed, Goto, Gone
  <2> QED  BY <1>12, WaysOut, <2>1, <2>2, <2>3, <2>4, <2>5, <2>6
<1>13. ASSUME NEW th \in Threads, StopThread(th) \/ Reap(th) \/ DeleteBegin(th) \/ CloseThread(th)
      PROVE Alone'
  <2>1. CASE Dropped(th)
    BY <2>1 DEF Dropped, Apart, Emptied, Others, Gone
  <2>2. CASE Marked(th)
    BY <2>2 DEF Marked, Apart, Spoiled, Others, Gone
  <2>3. CASE Skipped(th)
    BY <2>3 DEF Skipped, Apart
  <2> QED  BY <1>13, ThreadWaysOut, <2>1, <2>2, <2>3
<1>14. ASSUME NEW b \in Boxes, BoxDies(b) PROVE Alone'
  BY <1>14 DEF BoxDies, Trouble
<1>15. ASSUME NEW b \in Boxes, LateStart(b) PROVE Alone'
  BY <1>15 DEF LateStart, CardOf
<1>16. ASSUME NEW b \in Boxes, LateExec(b) PROVE Alone'
  BY <1>16 DEF LateExec
<1>17. CASE Crash
  BY <1>17 DEF Crash, Forget, Trouble
<1>18. CASE Sweep
  BY <1>18 DEF Sweep, SweepAll, Trouble
<1>19. CASE StartWithout
  BY <1>19 DEF StartWithout, SweepAll
<1> QED  BY <1>2, <1>3, <1>4, <1>5, <1>6, <1>7, <1>8, <1>9, <1>10, <1>11, <1>12, <1>13, <1>14,
    <1>15, <1>16, <1>17, <1>18, <1>19 DEF Next, Call

\* A container that is used again is quiet.
LEMMA KnownKeeps ==
  ASSUME TypeOK, Placed, Held, Named, Alone, Known, Waited, [Next]_vars PROVE Known'
<1>1. UNCHANGED <<at, busy, card, lateExec>> => Known'
  BY DEF Known, Quiet, Th, WithBox, Sound, Unsettled
<1>2. ASSUME NEW r \in Runs, BeginCheck(r) PROVE Known'
  BY <1>2, <1>1 DEF BeginCheck, memVars, dockerVars, callRest
<1>3. ASSUME NEW th \in Threads, DeleteEnd(th) PROVE Known'
  BY <1>3, <1>1 DEF DeleteEnd, memVars, dockerVars, callRest
<1>4. ASSUME NEW b \in Boxes, LateStart(b) PROVE Known'
  BY <1>4, <1>1 DEF LateStart, memVars, dockerVars, callRest
<1>5. CASE ReapBegin \/ Close \/ Start
  BY <1>5, <1>1 DEF ReapBegin, Close, Start, memVars, dockerVars, callRest
<1>6. CASE UNCHANGED vars
  BY <1>6, <1>1 DEF vars, memVars, dockerVars
<1> CardOK /\ LockOK /\ DockerOK
  BY TypeParts
<1> USE SandboxAssumption DEF Placed, Held, Named, Alone, Known, Waited, Quiet, Th, WithBox,
    Sound, Unsettled, CardOK, LockOK, DockerOK, Cards, memVars, dockerVars, callRest
<1>7. ASSUME NEW r \in Runs, BeginRun(r) PROVE Known'
  <2>1. \A t \in Threads : card'[t].box = card[t].box /\ card'[t].broken = card[t].broken
    BY <1>7 DEF BeginRun, BeginRun_AnyTime
  <2> QED  BY <1>7, <2>1 DEF BeginRun
<1>8. ASSUME NEW r \in Runs, EndRun(r) PROVE Known'
  <2>1. \A t \in Threads \ {ThreadOf[r]} : card'[t] = card[t]
    BY <1>8 DEF EndRun
  <2>2. CASE card[ThreadOf[r]].box = NoBox
    <3>1. card'[ThreadOf[r]].box = NoBox
      BY <1>8, <2>2 DEF EndRun, NoCard
    <3> QED  BY <1>8, <2>1, <3>1 DEF EndRun
  <2>3. CASE card[ThreadOf[r]].box # NoBox
    <3>1. card'[ThreadOf[r]].box = card[ThreadOf[r]].box /\ card'[ThreadOf[r]].broken =
        card[ThreadOf[r]].broken
      BY <1>8, <2>3 DEF EndRun
    <3> QED  BY <1>8, <2>1, <3>1 DEF EndRun
  <2> QED  BY <2>2, <2>3
<1>9. ASSUME NEW c \in Calls, Enter(c) PROVE Known'
  BY <1>9 DEF Enter, MayRun, MayRun_Deleted, Goto
<1>10. ASSUME NEW c \in Calls, Name(c) PROVE Known'
  BY <1>10 DEF Name, Goto, CardOf
<1>11. ASSUME NEW c \in Calls, Launch(c) PROVE Known'
  <2>1. CASE at[c] = "execLaunch"
    <3>1. at'[c] \in Unsettled /\ \A d \in Calls \ {c} : at'[d] = at[d]
      BY <1>11, <2>1 DEF Launch, Goto
    <3>2. \A b \in Boxes : b # card[Th(c)].box => busy'[b] = busy[b]
      BY <1>11 DEF Launch
    <3>3. \A t \in Threads : t # Th(c) /\ card[t].box # NoBox =>
              card[t].box \in Boxes /\ busy'[card[t].box] = busy[card[t].box]
      BY <3>2
    <3>4. UNCHANGED <<card, lateExec>>
      BY <1>11 DEF Launch
    <3> QED  BY <3>1, <3>3, <3>4
  <2>2. CASE at[c] # "execLaunch"
    <3>1. UNCHANGED <<card, busy, lateExec>>
      BY <1>11, <2>2 DEF Launch
    <3>2. \A d \in Calls : at[d] \in Unsettled => at'[d] \in Unsettled
      BY <1>11 DEF Launch, Goto
    <3> QED  BY <3>1, <3>2
  <2> QED  BY <2>1, <2>2
<1>12. ASSUME NEW c \in Calls, Started(c) PROVE Known'
  <2>1. UNCHANGED <<card, busy, lateExec>>
    BY <1>12 DEF Started
  <2>2. \A d \in Calls : at[d] \in Unsettled => at'[d] \in Unsettled
    BY <1>12 DEF Started, Goto
  <2> QED  BY <2>1, <2>2
<1>13. ASSUME NEW c \in Calls, TimeLimit(c) PROVE Known'
  BY <1>13 DEF TimeLimit, Goto
<1>14. ASSUME NEW c \in Calls, Ended(c) PROVE Known'
  BY <1>14 DEF Ended, Goto, Leave, Trouble
<1>15. ASSUME NEW c \in Calls, LaunchFails(c) PROVE Known'
  BY <1>15 DEF LaunchFails, Goto, Trouble
<1>16. ASSUME NEW c \in Calls, Cancel(c) PROVE Known'
  BY <1>16 DEF Cancel, Goto, Trouble
<1>17. ASSUME NEW c \in Calls, Abandon(c) PROVE Known'
  BY <1>17 DEF Abandon, Goto, Trouble
<1>18. ASSUME NEW c \in Calls, Check(c) \/ Inspect(c) \/ Kill(c) \/ Destroy(c) PROVE Known'
  <2>1. CASE Passed(c)
    <3>1. \A d \in Calls : at[d] \in Unsettled => at'[d] \in Unsettled
      BY <2>1 DEF Passed, Goto
    <3> QED  BY <2>1, <3>1 DEF Passed
  <2>2. CASE Aborted(c)
    BY <2>2 DEF Aborted, Leave, Goto
  <2>3. CASE Cleaned(c)
    BY <2>3 DEF Cleaned, Goto, Emptied, Others, Gone
  <2>4. CASE Retired(c)
    BY <2>4 DEF Retired, Leave, Goto, Emptied, Others, Gone
  <2>5. CASE GivenUp(c)
    BY <2>5 DEF GivenUp, Leave, Goto, Spoiled, Others, Gone
  <2>6. CASE Killed(c)
    BY <2>6 DEF Killed, Goto, Gone
  <2> QED  BY <1>18, WaysOut, <2>1, <2>2, <2>3, <2>4, <2>5, <2>6
<1>19. ASSUME NEW th \in Threads, StopThread(th) \/ Reap(th) \/ DeleteBegin(th) \/ CloseThread(th)
      PROVE Known'
  <2>1. CASE Dropped(th)
    BY <2>1 DEF Dropped, Apart, Emptied, Others, Gone
  <2>2. CASE Marked(th)
    BY <2>2 DEF Marked, Apart, Spoiled, Others, Gone
  <2>3. CASE Skipped(th)
    BY <2>3 DEF Skipped, Apart
  <2> QED  BY <1>19, ThreadWaysOut, <2>1, <2>2, <2>3
<1>20. ASSUME NEW th \in Threads, Ages(th) PROVE Known'
  BY <1>20 DEF Ages
<1>21. ASSUME NEW b \in Boxes, BoxDies(b) PROVE Known'
  BY <1>21 DEF BoxDies, Trouble
<1>22. ASSUME NEW b \in Boxes, LateExec(b) PROVE Known'
  BY <1>22 DEF LateExec
<1>23. CASE CloseEnds
  <2>1. Forget
    BY <1>23, Zenon DEF CloseEnds
  <2> QED  BY <2>1, Forgotten
<1>24. CASE Crash
  <2>1. Forget
    BY <1>24, Zenon DEF Crash
  <2> QED  BY <2>1, Forgotten
<1>25. CASE Sweep
  BY <1>25 DEF Sweep, SweepAll, Trouble
<1>26. CASE StartWithout
  BY <1>26 DEF StartWithout, SweepAll
<1> QED  BY <1>2, <1>3, <1>4, <1>5, <1>6, <1>7, <1>8, <1>9, <1>10, <1>11, <1>12, <1>13, <1>14,
    <1>15, <1>16, <1>17, <1>18, <1>19, <1>20, <1>21, <1>22, <1>23, <1>24, <1>25, <1>26 DEF
    Next, Call

\* No command is sent after the one that is waited for.
LEMMA WaitedKeeps ==
  ASSUME TypeOK, Placed, Held, Named, Known, Waited, [Next]_vars PROVE Waited'
<1>1. UNCHANGED <<at, card, lateExec>> => Waited'
  BY DEF Waited, Quiet, Th, WithBox, Sound, Unsettled
<1>2. ASSUME NEW r \in Runs, BeginCheck(r) PROVE Waited'
  BY <1>2, <1>1 DEF BeginCheck, memVars, dockerVars, callRest
<1>3. ASSUME NEW th \in Threads, DeleteEnd(th) PROVE Waited'
  BY <1>3, <1>1 DEF DeleteEnd, memVars, dockerVars, callRest
<1>4. ASSUME NEW b \in Boxes, BoxDies(b) \/ LateStart(b) PROVE Waited'
  BY <1>4, <1>1 DEF BoxDies, LateStart, memVars, dockerVars, callRest
<1>5. CASE ReapBegin \/ Close \/ Start
  BY <1>5, <1>1 DEF ReapBegin, Close, Start, memVars, dockerVars, callRest
<1>6. CASE UNCHANGED vars
  BY <1>6, <1>1 DEF vars, memVars, dockerVars
<1> CardOK /\ LockOK /\ DockerOK
  BY TypeParts
<1> USE SandboxAssumption DEF Placed, Held, Named, Known, Waited, Quiet, Th, WithBox, Sound,
    Unsettled, CardOK, LockOK, DockerOK, Cards, memVars, dockerVars, callRest
<1>7. ASSUME NEW r \in Runs, BeginRun(r) PROVE Waited'
  <2>1. \A t \in Threads : card'[t].box = card[t].box
    BY <1>7 DEF BeginRun, BeginRun_AnyTime
  <2> QED  BY <1>7, <2>1 DEF BeginRun
<1>8. ASSUME NEW r \in Runs, EndRun(r) PROVE Waited'
  BY <1>8 DEF EndRun
<1>9. ASSUME NEW c \in Calls, Enter(c) PROVE Waited'
  BY <1>9 DEF Enter, MayRun, MayRun_Deleted, Goto
<1>10. ASSUME NEW c \in Calls, Name(c) PROVE Waited'
  BY <1>10 DEF Name, Goto, CardOf
<1>11. ASSUME NEW c \in Calls, Launch(c) PROVE Waited'
  BY <1>11 DEF Launch, Goto
<1>12. ASSUME NEW c \in Calls, Started(c) PROVE Waited'
  BY <1>12 DEF Started, Goto, Trouble
<1>13. ASSUME NEW c \in Calls, TimeLimit(c) PROVE Waited'
  BY <1>13 DEF TimeLimit, Goto
<1>14. ASSUME NEW c \in Calls, Ended(c) PROVE Waited'
  BY <1>14 DEF Ended, Goto, Leave, Trouble
<1>15. ASSUME NEW c \in Calls, LaunchFails(c) PROVE Waited'
  BY <1>15 DEF LaunchFails, Goto, Trouble
<1>16. ASSUME NEW c \in Calls, Cancel(c) PROVE Waited'
  BY <1>16 DEF Cancel, Goto, Trouble
<1>17. ASSUME NEW c \in Calls, Abandon(c) PROVE Waited'
  BY <1>17 DEF Abandon, Goto, Trouble
<1>18. ASSUME NEW c \in Calls, Check(c) \/ Inspect(c) \/ Kill(c) \/ Destroy(c) PROVE Waited'
  <2>1. CASE Passed(c)
    BY <2>1 DEF Passed, Goto
  <2>2. CASE Aborted(c)
    <3>1. \A d \in Calls : at'[d] = "execWait" => at[d] = "execWait"
      BY <2>2 DEF Aborted, Leave, Goto
    <3> QED  BY <2>2, <3>1 DEF Aborted
  <2>3. CASE Cleaned(c)
    <3>0. Th(c) \in Threads /\ (Emptied(Th(c)) \/ Spoiled(Th(c)))
      BY <2>3 DEF Cleaned
    <3>1. \A b \in Boxes : b \in lateExec' => b \in lateExec
      BY <3>0, NothingSent
    <3>2. \A d \in Calls : at'[d] = "execWait" => at[d] = "execWait" /\ d # c
      BY <2>3 DEF Cleaned, Leave, Goto
    <3>3. \A d \in Calls : at'[d] = "execWait" => card'[Th(d)] = card[Th(d)]
      BY <2>3, <3>2 DEF Cleaned, Emptied, Others
    <3> QED  BY <3>1, <3>2, <3>3
  <2>4. CASE Retired(c)
    <3>0. Th(c) \in Threads /\ (Emptied(Th(c)) \/ Spoiled(Th(c)))
      BY <2>4 DEF Retired
    <3>1. \A b \in Boxes : b \in lateExec' => b \in lateExec
      BY <3>0, NothingSent
    <3>2. \A d \in Calls : at'[d] = "execWait" => at[d] = "execWait" /\ d # c
      BY <2>4 DEF Retired, Leave, Goto
    <3>3. \A d \in Calls : at'[d] = "execWait" => card'[Th(d)] = card[Th(d)]
      BY <2>4, <3>2 DEF Retired, Emptied, Others
    <3> QED  BY <3>1, <3>2, <3>3
  <2>5. CASE GivenUp(c)
    <3>0. Th(c) \in Threads /\ (Emptied(Th(c)) \/ Spoiled(Th(c)))
      BY <2>5 DEF GivenUp
    <3>1. \A b \in Boxes : b \in lateExec' => b \in lateExec
      BY <3>0, NothingSent
    <3>2. \A d \in Calls : at'[d] = "execWait" => at[d] = "execWait" /\ d # c
      BY <2>5 DEF GivenUp, Leave, Goto
    <3>3. \A d \in Calls : at'[d] = "execWait" => card'[Th(d)] = card[Th(d)]
      BY <2>5, <3>2 DEF GivenUp, Spoiled, Others
    <3> QED  BY <3>1, <3>2, <3>3
  <2>6. CASE Killed(c)
    BY <2>6 DEF Killed, Goto, Gone
  <2> QED  BY <1>18, WaysOut, <2>1, <2>2, <2>3, <2>4, <2>5, <2>6
<1>19. ASSUME NEW th \in Threads, StopThread(th) \/ Reap(th) \/ DeleteBegin(th) \/ CloseThread(th)
      PROVE Waited'
  <2>1. CASE Dropped(th)
    <3>1. \A b \in Boxes : b \in lateExec' => b \in lateExec
      BY <2>1, NothingSent DEF Dropped
    <3>2. \A d \in Calls : at'[d] = "execWait" => at[d] = "execWait" /\ card'[Th(d)] = card[Th(d)]
      BY <2>1 DEF Dropped, Apart, Emptied, Others
    <3> QED  BY <3>1, <3>2
  <2>2. CASE Marked(th)
    <3>1. \A b \in Boxes : b \in lateExec' => b \in lateExec
      BY <2>2, NothingSent DEF Marked
    <3>2. \A d \in Calls : at'[d] = "execWait" => at[d] = "execWait" /\ card'[Th(d)] = card[Th(d)]
      BY <2>2 DEF Marked, Apart, Spoiled, Others
    <3> QED  BY <3>1, <3>2
  <2>3. CASE Skipped(th)
    BY <2>3 DEF Skipped, Apart
  <2> QED  BY <1>19, ThreadWaysOut, <2>1, <2>2, <2>3
<1>20. ASSUME NEW th \in Threads, Ages(th) PROVE Waited'
  BY <1>20 DEF Ages
<1>21. ASSUME NEW b \in Boxes, LateExec(b) PROVE Waited'
  BY <1>21 DEF LateExec
<1>22. CASE CloseEnds
  BY <1>22 DEF CloseEnds, Forget, MayClear
<1>23. CASE Crash
  BY <1>23 DEF Crash, Forget, Trouble
<1>24. CASE Sweep
  BY <1>24 DEF Sweep, SweepAll, Trouble
<1>25. CASE StartWithout
  BY <1>25 DEF StartWithout, SweepAll
<1> QED  BY <1>2, <1>3, <1>4, <1>5, <1>6, <1>7, <1>8, <1>9, <1>10, <1>11, <1>12, <1>13, <1>14,
    <1>15, <1>16, <1>17, <1>18, <1>19, <1>20, <1>21, <1>22, <1>23, <1>24, <1>25 DEF Next, Call

\* Every step keeps a container on a card, or overtaken.
LEMMA NoContainerIsLostKeeps ==
  ASSUME TypeOK, Placed, Held, Stopped, Named, NoContainerIsLost, [Next]_vars PROVE
      NoContainerIsLost'
<1>1. UNCHANGED <<box, card, overtaken, up>> => NoContainerIsLost'
  BY DEF NoContainerIsLost, Serving, CardOf, Th, NoCard, WithBox
<1>2. ASSUME NEW r \in Runs, BeginCheck(r) PROVE NoContainerIsLost'
  BY <1>2, <1>1 DEF BeginCheck, memVars, dockerVars, callRest
<1>3. ASSUME NEW c \in Calls, Enter(c) \/ Launch(c) \/ TimeLimit(c) \/ Ended(c) \/
    LaunchFails(c) \/ Cancel(c) PROVE NoContainerIsLost'
  BY <1>3, <1>1 DEF Enter, Goto, Launch, TimeLimit, Ended, Leave, LaunchFails, Cancel,
      memVars, dockerVars, callRest
<1>4. ASSUME NEW th \in Threads, DeleteEnd(th) PROVE NoContainerIsLost'
  BY <1>4, <1>1 DEF DeleteEnd, memVars, dockerVars, callRest
<1>5. ASSUME NEW b \in Boxes, LateExec(b) PROVE NoContainerIsLost'
  BY <1>5, <1>1 DEF LateExec, memVars, dockerVars, callRest
<1>6. CASE ReapBegin
  BY <1>6, <1>1 DEF ReapBegin, memVars, dockerVars, callRest
<1>7. CASE UNCHANGED vars
  BY <1>7, <1>1 DEF vars, memVars, dockerVars
<1> CardOK /\ DockerOK
  BY TypeParts
<1> USE SandboxAssumption DEF Placed, Held, Stopped, Named, NoContainerIsLost, Serving,
    CardOf, Th, NoCard, WithBox, CardOK, DockerOK, Cards, memVars, dockerVars, callRest
<1>8. ASSUME NEW r \in Runs, BeginRun(r) PROVE NoContainerIsLost'
  <2>1. \A t \in Threads : card'[t].box = card[t].box
    BY <1>8 DEF BeginRun, BeginRun_AnyTime
  <2> QED  BY <1>8, <2>1 DEF BeginRun
<1>9. ASSUME NEW r \in Runs, EndRun(r) PROVE NoContainerIsLost'
  BY <1>9 DEF EndRun
<1>10. ASSUME NEW c \in Calls, Name(c) PROVE NoContainerIsLost'
  BY <1>10 DEF Name, Goto, CardOf
<1>11. ASSUME NEW c \in Calls, Started(c) PROVE NoContainerIsLost'
  BY <1>11 DEF Started, Goto, Trouble
<1>12. ASSUME NEW c \in Calls, Abandon(c) PROVE NoContainerIsLost'
  BY <1>12 DEF Abandon, Goto, Trouble
<1>13. ASSUME NEW c \in Calls, Check(c) \/ Inspect(c) \/ Kill(c) \/ Destroy(c) PROVE
    NoContainerIsLost'
  <2>1. CASE Passed(c)
    BY <2>1 DEF Passed, Goto
  <2>2. CASE Aborted(c)
    BY <2>2 DEF Aborted, Leave, Goto
  <2>3. CASE Cleaned(c)
    BY <2>3, LostFrom DEF Cleaned
  <2>4. CASE Retired(c)
    BY <2>4, LostFrom DEF Retired
  <2>5. CASE GivenUp(c)
    BY <2>5, LostFrom DEF GivenUp
  <2>6. CASE Killed(c)
    BY <2>6 DEF Killed, Goto, Gone
  <2> QED  BY <1>13, WaysOut, <2>1, <2>2, <2>3, <2>4, <2>5, <2>6
<1>14. ASSUME NEW th \in Threads, StopThread(th) \/ Reap(th) \/ DeleteBegin(th) \/ CloseThread(th)
      PROVE NoContainerIsLost'
  <2>1. CASE Dropped(th)
    BY <2>1, LostFrom DEF Dropped, Apart
  <2>2. CASE Marked(th)
    BY <2>2, LostFrom DEF Marked, Apart
  <2>3. CASE Skipped(th)
    BY <2>3 DEF Skipped, Apart
  <2> QED  BY <1>14, ThreadWaysOut, <2>1, <2>2, <2>3
<1>15. ASSUME NEW th \in Threads, Ages(th) PROVE NoContainerIsLost'
  BY <1>15 DEF Ages
<1>16. ASSUME NEW b \in Boxes, BoxDies(b) PROVE NoContainerIsLost'
  BY <1>16 DEF BoxDies, Trouble
<1>17. ASSUME NEW b \in Boxes, LateStart(b) PROVE NoContainerIsLost'
  BY <1>17 DEF LateStart, CardOf
<1>18. CASE Close
  BY <1>18 DEF Close, Trouble
<1>19. CASE CloseEnds
  BY <1>19 DEF CloseEnds, Forget, MayClear
<1>20. CASE Crash
  BY <1>20 DEF Crash, Forget, Trouble
<1>21. CASE Start
  BY <1>21 DEF Start
<1>22. CASE Sweep
  BY <1>22 DEF Sweep, SweepAll, Trouble
<1>23. CASE StartWithout
  BY <1>23 DEF StartWithout, SweepAll
<1> QED  BY <1>2, <1>3, <1>4, <1>5, <1>6, <1>7, <1>8, <1>9, <1>10, <1>11, <1>12, <1>13, <1>14,
    <1>15, <1>16, <1>17, <1>18, <1>19, <1>20, <1>21, <1>22, <1>23 DEF Next, Call

\* The flag says that nothing runs only when nothing does.
LEMMA ClearIsTrueKeeps ==
  ASSUME TypeOK, Placed, Held, Stopped, Closed, NoContainerIsLost, ClearIsTrue, [Next]_vars
      PROVE ClearIsTrue'
<1>1. UNCHANGED <<box, flag, overtaken>> => ClearIsTrue'
  BY DEF ClearIsTrue, Serving, CardOf, Th
<1>2. ASSUME NEW r \in Runs, BeginCheck(r) \/ BeginRun(r) \/ EndRun(r) PROVE ClearIsTrue'
  BY <1>2, <1>1 DEF BeginCheck, BeginRun, EndRun, memVars, dockerVars, callRest
<1>3. ASSUME NEW c \in Calls, Enter(c) \/ Launch(c) \/ TimeLimit(c) \/ Ended(c) \/
    LaunchFails(c) \/ Cancel(c) PROVE ClearIsTrue'
  BY <1>3, <1>1 DEF Enter, Goto, Launch, TimeLimit, Ended, Leave, LaunchFails, Cancel,
      memVars, dockerVars, callRest
<1>4. ASSUME NEW th \in Threads, Ages(th) \/ DeleteEnd(th) PROVE ClearIsTrue'
  BY <1>4, <1>1 DEF Ages, DeleteEnd, memVars, dockerVars, callRest
<1>5. ASSUME NEW b \in Boxes, LateExec(b) PROVE ClearIsTrue'
  BY <1>5, <1>1 DEF LateExec, memVars, dockerVars, callRest
<1>6. CASE ReapBegin \/ Close
  BY <1>6, <1>1 DEF ReapBegin, Close, memVars, dockerVars, callRest
<1>7. CASE UNCHANGED vars
  BY <1>7, <1>1 DEF vars, memVars, dockerVars
<1> DockerOK
  BY TypeParts
<1> USE SandboxAssumption DEF Placed, Held, Stopped, Closed, NoContainerIsLost, ClearIsTrue,
    Serving, CardOf, Th, DockerOK, memVars, dockerVars, callRest
<1>8. ASSUME NEW c \in Calls, Name(c) PROVE ClearIsTrue'
  BY <1>8 DEF Name, Goto, CardOf
<1>9. ASSUME NEW c \in Calls, Started(c) PROVE ClearIsTrue'
  BY <1>9 DEF Started, Goto, Trouble
<1>10. ASSUME NEW c \in Calls, Abandon(c) PROVE ClearIsTrue'
  BY <1>10 DEF Abandon, Goto, Trouble
<1>11. ASSUME NEW c \in Calls, Check(c) \/ Inspect(c) \/ Kill(c) \/ Destroy(c) PROVE ClearIsTrue'
  <2>1. CASE Passed(c)
    BY <2>1 DEF Passed, Goto
  <2>2. CASE Aborted(c)
    BY <2>2 DEF Aborted, Leave, Goto
  <2>3. CASE Cleaned(c)
    BY <2>3 DEF Cleaned, Goto, Emptied, Others, Gone
  <2>4. CASE Retired(c)
    BY <2>4 DEF Retired, Leave, Goto, Emptied, Others, Gone
  <2>5. CASE GivenUp(c)
    BY <2>5 DEF GivenUp, Leave, Goto, Spoiled, Others, Gone
  <2>6. CASE Killed(c)
    BY <2>6 DEF Killed, Goto, Gone
  <2> QED  BY <1>11, WaysOut, <2>1, <2>2, <2>3, <2>4, <2>5, <2>6
<1>12. ASSUME NEW th \in Threads, StopThread(th) \/ Reap(th) \/ DeleteBegin(th) \/ CloseThread(th)
      PROVE ClearIsTrue'
  <2>1. CASE Dropped(th)
    BY <2>1 DEF Dropped, Apart, Emptied, Others, Gone
  <2>2. CASE Marked(th)
    BY <2>2 DEF Marked, Apart, Spoiled, Others, Gone
  <2>3. CASE Skipped(th)
    BY <2>3 DEF Skipped, Apart
  <2> QED  BY <1>12, ThreadWaysOut, <2>1, <2>2, <2>3
<1>13. ASSUME NEW b \in Boxes, BoxDies(b) PROVE ClearIsTrue'
  BY <1>13 DEF BoxDies, Trouble
<1>14. ASSUME NEW b \in Boxes, LateStart(b) PROVE ClearIsTrue'
  BY <1>14 DEF LateStart, CardOf
<1>15. CASE CloseEnds
  BY <1>15 DEF CloseEnds, Forget, MayClear
<1>16. CASE Crash
  BY <1>16 DEF Crash, Forget, Trouble
<1>17. CASE Start
  BY <1>17 DEF Start
<1>18. CASE Sweep
  BY <1>18 DEF Sweep, SweepAll, Trouble
<1>19. CASE StartWithout
  BY <1>19 DEF StartWithout, SweepAll
<1> QED  BY <1>2, <1>3, <1>4, <1>5, <1>6, <1>7, <1>8, <1>9, <1>10, <1>11, <1>12, <1>13, <1>14,
    <1>15, <1>16, <1>17, <1>18, <1>19 DEF Next, Call

-----------------------------------------------------------------------------
(* The theorems                                                            *)

\* Every step keeps the inductive invariant.
LEMMA IInvKeeps == IInv /\ [Next]_vars => IInv'
<1> SUFFICES ASSUME IInv, [Next]_vars PROVE IInv'
  OBVIOUS
<1> USE DEF IInv
<1>1. TypeOK'
  <2>1. CardOK' /\ LockOK' /\ ProcessOK'
    BY TypeParts, CardTypeKeeps, LockTypeKeeps, ProcessTypeKeeps
  <2>2. DockerOK' /\ used' \in Nat
    BY TypeParts, DockerTypeKeeps
  <2> QED  BY <2>1, <2>2, TypePartsNext
<1>2. Held' /\ Stopped' /\ Closed' /\ Named'
  BY HeldKeeps, StoppedKeeps, ClosedKeeps, NamedKeeps
<1>3. Placed' /\ Mounted' /\ Alone' /\ Known' /\ Waited'
  BY PlacedKeeps, MountedKeeps, AloneKeeps, KnownKeeps, WaitedKeeps
<1>4. NoContainerIsLost' /\ ClearIsTrue'
  BY NoContainerIsLostKeeps, ClearIsTrueKeeps
<1> QED  BY <1>1, <1>2, <1>3, <1>4

\* No process runs at first, no container is there and no Thread is locked.
LEMMA IInvInit == Init => IInv
<1> SUFFICES ASSUME Init PROVE IInv
  OBVIOUS
<1> USE SandboxAssumption DEF Init, NoCard
<1>1. TypeOK
  BY DEF TypeOK
<1>2. Held /\ Stopped /\ Closed /\ Named /\ Placed /\ Mounted
  BY DEF Held, Stopped, Closed, Named, Placed, Mounted, Serving, WithBox, Sound
<1>3. Alone /\ Known /\ Waited
  BY DEF Alone, Known, Waited, Quiet
<1>4. NoContainerIsLost /\ ClearIsTrue
  BY DEF NoContainerIsLost, ClearIsTrue
<1> QED  BY <1>1, <1>2, <1>3, <1>4 DEF IInv

\* The inductive invariant holds in every state.
THEOREM SandboxInvariant == Spec => []IInv
BY IInvInit, IInvKeeps, PTL DEF Spec

\* Cards, locks, places, containers and counts keep their types.
THEOREM TypesHold == Spec => []TypeOK
<1>1. IInv => TypeOK
  BY DEF IInv
<1> QED  BY <1>1, SandboxInvariant, PTL

\* A container that exists while the process serves is on a card, or its launch was overtaken
\* (_destroy, start), and the flag says that nothing runs only when nothing does (mark_clear).
THEOREM ContainersAccounted == Spec => []ContainersAreAccountedFor
<1>1. IInv => ContainersAreAccountedFor
  BY DEF IInv, ContainersAreAccountedFor
<1> QED  BY <1>1, SandboxInvariant, PTL

\* No two commands work in the container of a Thread, whatever time limits, cancellations and
\* failed cleanups came before (run), and no directory is deleted under a container
\* (delete_thread).
THEOREM MountExclusive == Spec => []MountIsExclusive
<1>1. ASSUME IInv PROVE OneCommandAtATime
  <2> SUFFICES ASSUME NEW th \in Threads, card[th].box # NoBox PROVE busy[card[th].box] <= 1
    BY DEF OneCommandAtATime
  <2>1. card[th].box \in Boxes
    BY <1>1 DEF IInv, TypeOK
  <2> QED  BY <1>1, <2>1 DEF IInv, Alone
<1>2. IInv => DeletedIsNotMounted
  BY DEF IInv, Mounted, DeletedIsNotMounted
<1>3. IInv => MountIsExclusive
  BY <1>1, <1>2 DEF MountIsExclusive
<1> QED  BY <1>3, SandboxInvariant, PTL

\* A round of the reaper that comes to a Thread leased since it looked leaves the card alone
\* (reap_idle reads it again under the lock).
THEOREM ActiveNotReaped == Spec => ActiveIsNotReaped
<1>1. [Next]_vars =>
        [\A th \in Threads : up = "up" /\ up' = "up" /\ th \in todo /\ th \notin todo'
                             /\ card[th].pool = "active" => card'[th] = card[th]]_vars
  <2> SUFFICES ASSUME Next
               PROVE  \A th \in Threads : up = "up" /\ up' = "up" /\ th \in todo /\ th \notin todo'
                                           /\ card[th].pool = "active" => card'[th] = card[th]
    BY Zenon
  <2> SUFFICES ASSUME NEW th \in Threads, up = "up", up' = "up", th \in todo,
                      th \notin todo', card[th].pool = "active"
               PROVE  card'[th] = card[th]
    OBVIOUS
  <2>1. Reap(th)
    BY Zenon DEF Next, Call, BeginCheck, BeginRun, EndRun, Enter, Check, Inspect, Name, Launch,
        Started, TimeLimit, Kill, Destroy, Ended, LaunchFails, Cancel, Abandon, StopThread,
        Ages, Reap, DeleteBegin, DeleteEnd, CloseThread, BoxDies, LateStart, LateExec,
        ReapBegin, Close, CloseEnds, Crash, Start, Sweep, StartWithout, callRest, memVars
  <2> QED  BY <2>1 DEF Reap, Reapable
<1> QED  BY <1>1, PTL DEF Spec, ActiveIsNotReaped
=============================================================================
