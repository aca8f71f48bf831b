------------------------------ MODULE AgentLoop -------------------------------
(***************************************************************************)
(* The Runs of one Thread as its agent sees them: agents/lead_agent.py and  *)
(* agents/tool_calls.py (model, reply, tools, results, and what is left of  *)
(* an interrupted turn), tools/write_todos.py, agents/todo_middleware.py,   *)
(* and the delegated tasks of subagents/dispatcher.py and                   *)
(* subagents/executor.py, which run beside each other and all save into     *)
(* the state of their parent.                                               *)
(*                                                                          *)
(* The state is the messages, the status of every task of a Run, and who    *)
(* wrote the list of todos (`failed` is also timed_out); mem is the object  *)
(* in memory and disk the checkpoint the Thread continues from.  Texts are  *)
(* left out: a result is what it says of its call.  A save runs to its end  *)
(* whoever is cancelled (finish_inflight); one that reports an error may    *)
(* have been committed, and then the next save of the Run meets its own     *)
(* step (`behind`).  The ids of the calls of one reply differ; two replies  *)
(* may use the same id. A reply that writes the todos twice, which          *)
(* write_todos refuses, is left out.                                        *)
(*                                                                          *)
(* Bounds: MaxRuns Runs; MaxReplies replies in the history; MaxTrouble      *)
(* failing saves, cancellations and deaths of the process, all told.        *)
(***************************************************************************)
EXTENDS Integers, Sequences, FiniteSets

CONSTANTS Calls, NoCall,
          TaskCalls, TodoCalls,        \* calls of `task` and of `write_todos`
          Replies,                     \* what a model may decide: sequences of calls
          MaxConcurrent, MaxTotal,     \* subagents at once, and in one Run
          MaxToolRounds, MaxReminders,
          MaxRuns, MaxReplies, MaxTrouble

ASSUME AgentAssumption ==
    /\ TaskCalls \subseteq Calls /\ TodoCalls \subseteq Calls \ TaskCalls
    /\ NoCall \notin Calls
    /\ Replies \subseteq Seq(Calls)
    /\ \A r \in Replies : \A i, j \in 1..Len(r) :
           r[i] = r[j] \/ {r[i], r[j]} \subseteq TodoCalls => i = j
    /\ MaxConcurrent \in Nat \ {0} /\ MaxTotal \in Nat /\ MaxRuns \in Nat \ {0}
    /\ MaxToolRounds \in Nat \ {0} /\ MaxReminders \in Nat /\ MaxReplies \in Nat
    /\ MaxTrouble \in Nat

VARIABLES
    mem,       \* the parent's state in memory
    disk,      \* the state of the latest checkpoint
    behind,    \* the next step of this Run's saver is already taken
    run,       \* the number of the current Run
    at,        \* where LeadAgent is
    round,     \* the round of the model it is in
    reminded,  \* how often TodoMiddleware made it go on
    batch,     \* execute_tool_calls
    worker,    \* invoke of a `task` call, down to its SubagentExecutor
    lock,      \* who holds the checkpoint lock of the subagents
    cancel,    \* a cancellation of the Run (by the user or its timeout) not yet raised
    error,     \* what the Run is failing with
    acted,     \* history: the replies and those of their calls whose tool ran
    children,  \* history: how often the child of a task of a Run was started
    clean,     \* history: nothing failed or died in this Run
    used       \* troubles so far

stateVars == <<mem, disk, behind>>
loopVars == <<run, at, round, reminded>>
toolVars == <<batch, worker, lock>>
history == <<acted, children, clean>>
vars == <<stateVars, loopVars, toolVars, cancel, error, history, used>>

Runs == 1..MaxRuns
Final == {"completed", "failed", "cancelled"}
Status == Final \cup {"none", "pending", "running"}
Text == Final \cup {"none", "done", "refused", "interrupted", "unstarted"}

User == [role |-> "user", calls |-> <<>>, call |-> NoCall, run |-> run + 1, text |-> "none"]
Assistant(r) == [role |-> "assistant", calls |-> r, call |-> NoCall, run |-> run, text |-> "none"]
Result(c, text) == [role |-> "tool", calls |-> <<>>, call |-> c, run |-> run, text |-> text]
Message == [role : {"user", "assistant", "tool"}, calls : Replies \cup {<<>>},
            call : Calls \cup {NoCall}, run : Runs, text : Text]

NoTodos == [run |-> 0, call |-> NoCall, open |-> FALSE]
State == [msgs : Seq(Message), subs : [Runs -> [Calls -> Status]],
          todos : [run : 0..MaxRuns, call : Calls \cup {NoCall}, open : BOOLEAN]]
Fresh == [msgs |-> <<>>, subs |-> [r \in Runs |-> [c \in Calls |-> "none"]], todos |-> NoTodos]

NoBatch == [calls |-> <<>>, phase |-> "next", group |-> {}, out |-> [c \in Calls |-> "none"],
            started |-> {}, appended |-> 0]
Idle == [at |-> "none", goal |-> "none", cancel |-> FALSE, permit |-> FALSE, shot |-> Fresh]

TypeOK ==
    /\ mem \in State /\ disk \in State /\ behind \in BOOLEAN
    /\ run \in 0..MaxRuns /\ round \in 0..MaxToolRounds + 1 /\ reminded \in 0..MaxReminders
    /\ at \in {"idle", "repair", "model", "reply", "tools", "abort", "announce", "success", "end"}
    /\ batch \in [calls : Replies \cup {<<>>}, phase : {"next", "act", "commit", "group", "commits"},
                  group : SUBSET Calls, out : [Calls -> Text], started : SUBSET Calls,
                  appended : Nat]
    /\ worker \in [Calls -> [at : {"none", "new", "admit", "admitting", "queue", "save", "saving",
                                   "work", "gone"},
                             goal : Status, cancel : BOOLEAN, permit : BOOLEAN, shot : State]]
    /\ lock \in Calls \cup {NoCall}
    /\ cancel \in BOOLEAN /\ error \in {"none", "cancel", "failed"}
    /\ acted \subseteq Nat \X Calls /\ children \in [Runs -> [Calls -> Nat]]
    /\ clean \in BOOLEAN /\ used \in 0..MaxTrouble

Init ==
    /\ mem = Fresh /\ disk = Fresh /\ behind = FALSE
    /\ run = 0 /\ at = "idle" /\ round = 0 /\ reminded = 0
    /\ batch = NoBatch /\ worker = [c \in Calls |-> Idle] /\ lock = NoCall
    /\ cancel = FALSE /\ error = "none"
    /\ acted = {} /\ children = [r \in Runs |-> [c \in Calls |-> 0]]
    /\ clean = TRUE /\ used = 0

-----------------------------------------------------------------------------
(* Saving: a checkpoint is committed whole, under the next step of its Run  *)

Trouble == used < MaxTrouble /\ used' = used + 1

SaveOk(s) == ~behind /\ disk' = s /\ UNCHANGED <<behind, used, clean>>

\* SQLite fails, before the commit or after it, or refuses a step that is taken.
SaveFails(s) ==
    /\ clean' = FALSE
    /\ \/ behind /\ UNCHANGED <<disk, behind, used>>
       \/ Trouble /\ UNCHANGED <<disk, behind>>
       \/ ~behind /\ Trouble /\ disk' = s /\ behind' = TRUE

NoSave == UNCHANGED <<disk, behind, clean, used>>

\* An await is over: a cancellation that came meanwhile is raised, or it goes on.
Goto(next) == IF cancel THEN at' = "end" /\ error' = "cancel" ELSE at' = next /\ UNCHANGED error
Taken == cancel' = FALSE

Failing(what) == at' = "end" /\ error' = what

-----------------------------------------------------------------------------
(* A Run: the user's message is saved, old gaps are filled, the model asked *)

StartRun ==
    /\ at = "idle" /\ run < MaxRuns
    /\ mem' = [disk EXCEPT !.msgs = Append(@, User)] /\ disk' = mem'
    /\ run' = run + 1 /\ at' = "repair" /\ round' = 0 /\ reminded' = 0
    /\ behind' = FALSE /\ clean' = TRUE /\ error' = "none" /\ cancel' = FALSE
    /\ UNCHANGED <<toolVars, acted, children, used>>

\* How many results follow the reply at position i.
Answers(msgs, i) ==
    CHOOSE n \in 0..Len(msgs) - i :
        /\ \A k \in 1..n : msgs[i + k].role = "tool"
        /\ i + n < Len(msgs) => msgs[i + n + 1].role # "tool"

\* The calls of the reply at i that have no result get one that says so.
Missing_IfNone(msgs, i) ==
    IF Answers(msgs, i) > 0 THEN <<>>
    ELSE [k \in 1..Len(msgs[i].calls) |->
             [Result(msgs[i].calls[k], "interrupted") EXCEPT !.run = msgs[i].run]]

\* The k-th number of S.
Nth(S, k) == CHOOSE n \in S : Cardinality({m \in S : m <= n}) = k

Missing(msgs, i) ==
    LET calls == msgs[i].calls
        received == {msgs[i + k].call : k \in 1..Answers(msgs, i)}
        open == {k \in 1..Len(calls) : calls[k] \notin received} IN
    [k \in 1..Cardinality(open) |->
        [Result(calls[Nth(open, k)], "interrupted") EXCEPT !.run = msgs[i].run]]

\* repair_interrupted_tool_history, from position i on.
Repaired(msgs) ==
    LET from[i \in 1..Len(msgs) + 1] ==
        IF i > Len(msgs) THEN <<>>
        ELSE IF msgs[i].role # "assistant" THEN <<msgs[i]>> \o from[i + 1]
        ELSE LET n == Answers(msgs, i) IN
             SubSeq(msgs, i, i + n) \o Missing(msgs, i) \o from[i + n + 1]
    IN from[1]

Repair ==
    LET fixed == [mem EXCEPT !.msgs = Repaired(@)] IN
    /\ at = "repair"
    /\ mem' = fixed
    /\ \/ fixed = mem /\ NoSave /\ Goto("model")
       \/ fixed # mem /\ SaveOk(fixed) /\ Goto("model")
       \/ fixed # mem /\ SaveFails(fixed) /\ Failing("failed")
    /\ Taken /\ round' = 1
    /\ UNCHANGED <<run, reminded, toolVars, acted, children>>

\* The model answers.
Reply ==
    /\ at = "model" /\ round <= MaxToolRounds /\ ~cancel
    /\ Cardinality({i \in 1..Len(mem.msgs) : mem.msgs[i].role = "assistant"}) < MaxReplies
    /\ \E r \in Replies : mem' = [mem EXCEPT !.msgs = Append(@, Assistant(r))]
    /\ at' = "reply"
    /\ UNCHANGED <<disk, behind, run, round, reminded, toolVars, cancel, error, history, used>>

\* It fails for good, is cancelled, or has been asked too often.
NoReply ==
    /\ at = "model"
    /\ Failing(IF cancel THEN "cancel" ELSE "failed") /\ Taken
    /\ UNCHANGED <<stateVars, run, round, reminded, toolVars, history, used>>

\* TodoMiddleware.after_model
GoesOn == mem.todos.run = run /\ mem.todos.open /\ reminded < MaxReminders

\* The reply is saved; with calls its tools are next.
SaveReply ==
    LET r == mem.msgs[Len(mem.msgs)].calls IN
    /\ at = "reply"
    /\ reminded' = IF r = <<>> /\ GoesOn THEN reminded + 1 ELSE reminded
    /\ \/ /\ SaveOk(mem)
          /\ \/ r # <<>> /\ Goto("tools") /\ batch' = [NoBatch EXCEPT !.calls = r]
                /\ UNCHANGED round
             \/ r = <<>> /\ GoesOn /\ Goto("model") /\ round' = round + 1 /\ UNCHANGED batch
             \/ r = <<>> /\ ~GoesOn /\ Goto("success") /\ UNCHANGED <<round, batch>>
       \/ SaveFails(mem) /\ Failing("failed") /\ UNCHANGED <<round, batch>>
    /\ Taken
    /\ UNCHANGED <<mem, run, worker, lock, acted, children>>

\* AgentRuntime.run saves the final state; _finish_failure saves what an interrupted one left.
EndRun ==
    /\ at \in {"success", "end"}
    /\ \/ at = "success" /\ SaveOk(mem) /\ Goto("idle")
       \/ at = "success" /\ SaveFails(mem) /\ Failing("failed")
       \/ at = "end" /\ error = "cancel" /\ (SaveOk(mem) \/ SaveFails(mem))
          /\ at' = "idle" /\ UNCHANGED error
       \/ at = "end" /\ error # "cancel" /\ NoSave /\ at' = "idle" /\ UNCHANGED error
    /\ Taken
    /\ UNCHANGED <<mem, run, round, reminded, toolVars, acted, children>>

-----------------------------------------------------------------------------
(* execute_tool_calls: what is next, and a call that is not a task          *)

Current == batch.calls[batch.appended + 1]
HereNow == Len(mem.msgs) - batch.appended      \* the position of the reply
AllIn == batch.appended = Len(batch.calls)

\* The calls of a group: the tasks that follow each other from here on.
Group == {batch.calls[k] : k \in {j \in batch.appended + 1..Len(batch.calls) :
             \A i \in batch.appended + 1..j : batch.calls[i] \in TaskCalls}}

Abort(what) == at' = "abort" /\ error' = what

StartTool ==
    /\ at = "tools" /\ batch.phase = "next" /\ ~AllIn /\ Current \notin TaskCalls
    /\ IF cancel THEN Abort("cancel") /\ UNCHANGED batch
       ELSE /\ batch' = [batch EXCEPT !.phase = "act", !.started = @ \cup {Current}]
            /\ UNCHANGED <<at, error>>
    /\ Taken
    /\ UNCHANGED <<stateVars, run, round, reminded, worker, lock, history, used>>

Returns(text) == batch' = [batch EXCEPT !.phase = "commit", !.out[Current] = text]
Acts == acted' = acted \cup {<<HereNow, Current>>}

\* An ordinary tool ran, or is cancelled before or after it did something.
Act ==
    /\ at = "tools" /\ batch.phase = "act" /\ Current \notin TodoCalls
    /\ \/ ~cancel /\ Acts /\ Returns("done") /\ UNCHANGED <<at, error>>
       \/ cancel /\ Abort("cancel") /\ (Acts \/ UNCHANGED acted) /\ UNCHANGED batch
    /\ Taken
    /\ UNCHANGED <<stateVars, run, round, reminded, worker, lock, children, clean, used>>

\* WriteTodosTool.execute: saved first, then taken over in memory.
WriteTodos ==
    /\ at = "tools" /\ batch.phase = "act" /\ Current \in TodoCalls
    /\ \E open \in BOOLEAN :
        LET list == [run |-> run, call |-> Current, open |-> open]
            s == [mem EXCEPT !.todos = list] IN
        \/ SaveOk(s) /\ mem' = s /\ Acts
           /\ IF cancel THEN Abort("cancel") /\ UNCHANGED batch
              ELSE Returns("done") /\ UNCHANGED <<at, error>>
        \/ SaveFails(s) /\ UNCHANGED mem /\ Abort("failed") /\ Acts /\ UNCHANGED batch
    /\ Taken
    /\ UNCHANGED <<run, round, reminded, worker, lock, children>>

\* commit: the result joins the history and is saved.
Commit(phases) ==
    LET s == [mem EXCEPT !.msgs = Append(@, Result(Current, batch.out[Current]))] IN
    /\ at = "tools" /\ batch.phase \in phases
    /\ mem' = s
    /\ batch' = [batch EXCEPT !.appended = @ + 1, !.group = @ \ {Current},
                   !.phase = IF batch.group \ {Current} = {} THEN "next" ELSE "commits"]
    /\ \/ SaveOk(s) /\ IF cancel THEN Abort("cancel") ELSE UNCHANGED <<at, error>>
       \/ SaveFails(s) /\ Abort("failed")
    /\ Taken
    /\ UNCHANGED <<run, round, reminded, worker, lock, acted, children>>

CommitOne == Commit({"commit"})
CommitTask == Commit({"commits"})

\* All results are saved; they are announced in order, and the model is next.
Announce ==
    /\ at = "tools" /\ batch.phase = "next" /\ AllIn
    /\ IF cancel THEN Abort("cancel") /\ UNCHANGED <<round, batch>>
       ELSE at' = "model" /\ round' = round + 1 /\ batch' = NoBatch /\ UNCHANGED error
    /\ Taken
    /\ UNCHANGED <<stateVars, run, reminded, worker, lock, history, used>>

\* _known_or_interrupted_result
Known(c) ==
    CASE c \in TodoCalls /\ mem.todos.run = run /\ mem.todos.call = c -> "done"
      [] c \in TaskCalls /\ mem.subs[run][c] \in Final -> mem.subs[run][c]
      [] OTHER -> "interrupted"

Filled_ByResult(c) == IF batch.out[c] # "none" THEN batch.out[c] ELSE "unstarted"

Filled(c) ==
    IF batch.out[c] # "none" THEN batch.out[c]
    ELSE IF c \in batch.started THEN Known(c) ELSE "unstarted"

\* finish_aborted: every call gets its result, in one save; a save that fails takes the
\* place of the error, and of a cancellation, it came after.
FinishAborted ==
    LET rest == SubSeq(batch.calls, batch.appended + 1, Len(batch.calls))
        s == [mem EXCEPT !.msgs = @ \o [k \in 1..Len(rest) |-> Result(rest[k], Filled(rest[k]))]]
    IN
    /\ at = "abort"
    /\ mem' = s /\ batch' = NoBatch /\ worker' = [c \in Calls |-> Idle]
    /\ \/ SaveOk(s) /\ Failing(error)
       \/ SaveFails(s) /\ Failing("failed")
    /\ Taken
    /\ UNCHANGED <<run, round, reminded, lock, acted, children>>

-----------------------------------------------------------------------------
(* A group of tasks: workers beside each other, and a parent that waits      *)

OpenGroup ==
    /\ at = "tools" /\ batch.phase = "next" /\ ~AllIn /\ Current \in TaskCalls
    /\ IF cancel THEN Abort("cancel") /\ UNCHANGED <<batch, worker>>
       ELSE /\ batch' = [batch EXCEPT !.phase = "group", !.group = Group]
            /\ worker' = [c \in Calls |-> IF c \in Group THEN [Idle EXCEPT !.at = "new"] ELSE Idle]
            /\ UNCHANGED <<at, error>>
    /\ Taken
    /\ UNCHANGED <<stateVars, run, round, reminded, lock, history, used>>

\* TaskGroup.__aexit__: it waits for every worker, whatever happened to it.
CloseGroup ==
    /\ at = "tools" /\ batch.phase = "group"
    /\ \A c \in batch.group : worker[c].at = "gone"
    /\ IF error = "failed" THEN Abort("failed") /\ UNCHANGED <<batch, worker>>
       ELSE IF cancel THEN Abort("cancel") /\ UNCHANGED <<batch, worker>>
       ELSE /\ batch' = [batch EXCEPT !.phase = "commits"]
            /\ worker' = [c \in Calls |-> Idle]
            /\ UNCHANGED <<at, error>>
    /\ Taken
    /\ UNCHANGED <<stateVars, run, round, reminded, lock, history, used>>

InGroup(c) == at = "tools" /\ batch.phase = "group" /\ c \in batch.group
Move(c, where) == worker' = [worker EXCEPT ![c].at = where]
Leaves_KeepsPermit(c) == worker' = [worker EXCEPT ![c].at = "gone"]
Leaves(c) == worker' = [worker EXCEPT ![c] = [Idle EXCEPT !.at = "gone"]]
Answer(c, text) == batch' = [batch EXCEPT !.out[c] = text]

\* A worker that failed: the group cancels the others.
Breaks(c) ==
    /\ error' = "failed"
    /\ worker' = [d \in Calls |-> IF d = c THEN [Idle EXCEPT !.at = "gone"]
                                  ELSE [worker[d] EXCEPT !.cancel = TRUE]]

rest == <<run, at, round, reminded, cancel>>

\* tool.start is published and the call comes to the dispatcher, or it never begins.
Begin(c) ==
    /\ InGroup(c) /\ worker[c].at = "new"
    /\ IF worker[c].cancel THEN Leaves(c) /\ UNCHANGED batch
       ELSE Move(c, "admit") /\ batch' = [batch EXCEPT !.started = @ \cup {c}]
    /\ UNCHANGED <<stateVars, rest, lock, error, history, used>>

ToQueue_Leaves(c) == IF ~worker[c].cancel THEN Move(c, "queue") ELSE Leaves(c)

ToQueue(c) ==
    IF ~worker[c].cancel THEN Move(c, "queue")
    ELSE IF mem.subs[run][c] \in {"none", "pending"}
         THEN worker' = [worker EXCEPT ![c].at = "save", ![c].goal = "cancelled", ![c].shot = Fresh]
         ELSE Leaves(c)

Total == Cardinality({c \in Calls : mem.subs[run][c] # "none"})
Listed(c) == mem.subs[run][c] # "none"

\* admit: under the lock, a call that is known is not registered again.
AdmitKnown(c) ==
    /\ InGroup(c) /\ worker[c].at = "admit" /\ lock = NoCall
    /\ Listed(c)
    /\ \/ ToQueue(c) /\ UNCHANGED batch
       \/ Answer(c, "refused") /\ Leaves(c)          \* the same id for another task
    /\ UNCHANGED <<stateVars, rest, lock, error, history, used>>

AdmitRefused(c) ==
    /\ InGroup(c) /\ worker[c].at = "admit" /\ lock = NoCall
    /\ ~Listed(c) /\ Total >= MaxTotal
    /\ Answer(c, "refused") /\ Leaves(c)
    /\ UNCHANGED <<stateVars, rest, lock, error, history, used>>

Snapshot(c, status) == [mem EXCEPT !.subs[run][c] = status]

AdmitNew(c) ==
    /\ InGroup(c) /\ worker[c].at = "admit" /\ lock = NoCall
    /\ ~Listed(c) /\ Total < MaxTotal
    /\ lock' = c
    /\ worker' = [worker EXCEPT ![c].at = "admitting", ![c].shot = Snapshot(c, "pending")]
    /\ UNCHANGED <<stateVars, rest, batch, error, history, used>>

\* What was saved is taken over in memory, for this task alone.
Keep(c, status) == mem' = Snapshot(c, status) /\ lock' = NoCall

Admitted(c) ==
    /\ InGroup(c) /\ worker[c].at = "admitting"
    /\ \/ SaveOk(worker[c].shot) /\ Keep(c, "pending") /\ ToQueue(c) /\ UNCHANGED error
       \/ SaveFails(worker[c].shot) /\ lock' = NoCall /\ Breaks(c) /\ UNCHANGED mem
    /\ UNCHANGED <<rest, batch, acted, children>>

Permits == Cardinality({c \in Calls : worker[c].permit})

\* The semaphore; a task that is over is not run again.
Enter(c) ==
    LET status == mem.subs[run][c] IN
    /\ InGroup(c) /\ worker[c].at = "queue" /\ ~worker[c].cancel
    /\ Permits < MaxConcurrent
    /\ \/ /\ status = "pending"
          /\ worker' = [worker EXCEPT ![c].at = "save", ![c].goal = "running", ![c].permit = TRUE]
          /\ UNCHANGED batch
       \/ status = "running" /\ Answer(c, "refused") /\ Leaves(c)
       \/ status \in Final /\ Answer(c, status) /\ Leaves(c)
    /\ UNCHANGED <<stateVars, rest, lock, error, history, used>>

\* Cancelled in the queue: what was registered is closed.
LeaveQueue(c) ==
    /\ InGroup(c) /\ worker[c].at = "queue" /\ worker[c].cancel
    /\ ToQueue(c)
    /\ UNCHANGED <<stateVars, rest, batch, lock, error, history, used>>

\* _save_child: the snapshot is made under the lock.
TakeLock_Free(c) == TRUE
TakeLock(c) == lock = NoCall

SaveBegin(c) ==
    /\ InGroup(c) /\ worker[c].at = "save" /\ TakeLock(c)
    /\ lock' = c
    /\ worker' = [worker EXCEPT ![c].at = "saving", ![c].shot = Snapshot(c, worker[c].goal)]
    /\ UNCHANGED <<stateVars, rest, batch, error, history, used>>

\* The child may work, or must close as cancelled; the result goes to the parent
\* unless a cancellation came meanwhile.
AfterSave(c) ==
    LET w == worker[c] IN
    \/ /\ w.goal = "running" /\ ~w.cancel
       /\ worker' = [worker EXCEPT ![c].at = "work", ![c].shot = Fresh]
       /\ children' = IF mem.subs[run][c] = "pending"
                      THEN [children EXCEPT ![run][c] = @ + 1] ELSE children
       /\ UNCHANGED <<batch, acted>>
    \/ /\ w.goal = "running" /\ w.cancel
       /\ worker' = [worker EXCEPT ![c].at = "save", ![c].goal = "cancelled", ![c].shot = Fresh]
       /\ UNCHANGED <<batch, acted, children>>
    \/ /\ w.goal \in Final /\ ~w.cancel
       /\ Answer(c, w.goal) /\ Leaves(c) /\ UNCHANGED <<acted, children>>
    \/ w.goal \in Final /\ w.cancel /\ Leaves(c) /\ UNCHANGED <<batch, acted, children>>

SaveEnd(c) ==
    /\ InGroup(c) /\ worker[c].at = "saving"
    /\ \/ SaveOk(worker[c].shot) /\ Keep(c, worker[c].goal) /\ AfterSave(c) /\ UNCHANGED error
       \/ /\ SaveFails(worker[c].shot) /\ lock' = NoCall /\ Breaks(c)
          /\ UNCHANGED <<mem, batch, acted, children>>
    /\ UNCHANGED rest

\* The child answers, fails or runs out of time; or it saves how far it came (once here,
\* as a second save would save the same).
Work(c) ==
    /\ InGroup(c) /\ worker[c].at = "work" /\ ~worker[c].cancel
    /\ \E goal \in {"completed", "failed"} :
           worker' = [worker EXCEPT ![c].at = "save", ![c].goal = goal]
    /\ acted' = acted \cup {<<HereNow, c>>}
    /\ UNCHANGED <<stateVars, rest, batch, lock, error, children, clean, used>>

ChildSaves(c) ==
    /\ InGroup(c) /\ worker[c].at = "work" /\ <<HereNow, c>> \notin acted
    /\ worker' = [worker EXCEPT ![c].at = "save", ![c].goal = "running"]
    /\ acted' = acted \cup {<<HereNow, c>>}
    /\ UNCHANGED <<stateVars, rest, batch, lock, error, children, clean, used>>

StopWork(c) ==
    /\ InGroup(c) /\ worker[c].at = "work" /\ worker[c].cancel
    /\ worker' = [worker EXCEPT ![c].at = "save", ![c].goal = "cancelled"]
    /\ acted' = acted \cup {<<HereNow, c>>}
    /\ UNCHANGED <<stateVars, rest, batch, lock, error, children, clean, used>>

-----------------------------------------------------------------------------

\* The user stops the Run, or its time is over: raised at the next await.
Cancel ==
    /\ at \notin {"idle", "end", "abort"} /\ ~cancel
    /\ Trouble /\ cancel' = TRUE
    /\ worker' = [c \in Calls |-> IF batch.phase = "group" /\ c \in batch.group
                                  THEN [worker[c] EXCEPT !.cancel = TRUE] ELSE worker[c]]
    /\ UNCHANGED <<stateVars, loopVars, batch, lock, error, history>>

Crash ==
    /\ at # "idle" /\ Trouble
    /\ mem' = Fresh /\ behind' = FALSE
    /\ at' = "idle" /\ round' = 0 /\ reminded' = 0
    /\ batch' = NoBatch /\ worker' = [c \in Calls |-> Idle] /\ lock' = NoCall
    /\ cancel' = FALSE /\ error' = "none" /\ clean' = FALSE
    /\ UNCHANGED <<disk, run, acted, children>>

Done == at = "idle" /\ run = MaxRuns /\ UNCHANGED vars

Parent ==
    \/ Repair \/ Reply \/ NoReply \/ SaveReply \/ EndRun
    \/ StartTool \/ Act \/ WriteTodos \/ CommitOne \/ CommitTask \/ Announce
    \/ OpenGroup \/ CloseGroup \/ FinishAborted

Worker(c) ==
    \/ Begin(c) \/ AdmitKnown(c) \/ AdmitRefused(c) \/ AdmitNew(c) \/ Admitted(c)
    \/ Enter(c) \/ LeaveQueue(c) \/ SaveBegin(c) \/ SaveEnd(c)
    \/ Work(c) \/ ChildSaves(c) \/ StopWork(c)

Next ==
    \/ StartRun \/ Parent \/ Cancel \/ Crash \/ Done
    \/ \E c \in TaskCalls : Worker(c)

Spec == Init /\ [][Next]_vars

\* The loop turns; a model answers or fails within its time, and so does a child.
\* Nobody holds the lock or a permit but for a while.
Fairness == WF_vars(Parent) /\ \A c \in TaskCalls : WF_vars(Worker(c))

FairSpec == Spec /\ Fairness

-----------------------------------------------------------------------------
(* Properties                                                              *)

\* What a model is sent is a conversation it accepts: behind every reply are exactly
\* the results of its calls, in their order, whatever broke off in earlier Runs.
\* (repair_interrupted_tool_history, finish_aborted, commit)
Answered(msgs) ==
    /\ \A i \in 1..Len(msgs) : msgs[i].role = "assistant" =>
           /\ i + Len(msgs[i].calls) <= Len(msgs)
           /\ \A k \in 1..Len(msgs[i].calls) :
                  msgs[i + k].role = "tool" /\ msgs[i + k].call = msgs[i].calls[k]
    /\ \A j \in 1..Len(msgs) : msgs[j].role = "tool" =>
           \E i \in 1..j - 1 : msgs[i].role = "assistant" /\ j - i <= Len(msgs[i].calls)
HistoryIsAnswered == at = "model" => Answered(mem.msgs)

\* The reply a message at position i belongs to.
ReplyOf(msgs, i) == CHOOSE j \in 1..i :
    /\ msgs[j].role = "assistant"
    /\ \A k \in j + 1..i : msgs[k].role # "assistant"

\* The model is never told of a tool that ran that it did not run, and the outcome it is told
\* of a task is the one the checkpoint holds.  (_known_or_interrupted_result, _tool_result)
ResultsAreTrue ==
    \A i \in 1..Len(mem.msgs) : LET m == mem.msgs[i] IN
        /\ m.text = "unstarted" => <<ReplyOf(mem.msgs, i), m.call>> \notin acted
        /\ m.call \in TaskCalls /\ m.text \in Final => disk.subs[m.run][m.call] = m.text

\* No checkpoint loses a task that an earlier one holds, or takes back how far it came;
\* its outcome is final.  (checkpoint_lock, UNIQUE(thread_id, run_id, step))
Rank(status) == CASE status = "none" -> 0 [] status = "pending" -> 1
                  [] status = "running" -> 2 [] OTHER -> 3
SubtasksAreKept ==
    [][\A r \in Runs, c \in Calls :
          /\ Rank(disk'.subs[r][c]) >= Rank(disk.subs[r][c])
          /\ disk.subs[r][c] \in Final => disk'.subs[r][c] = disk.subs[r][c]]_vars

\* The child of a task is started once in a Run, even if the model uses the id of the
\* call again, and a Run that ends, cancelled or not, leaves no task open, unless
\* storage failed it.
ChildrenStartOnce == \A r \in Runs, c \in TaskCalls : children[r][c] <= 1
NothingIsLeftOpen ==
    at = "idle" /\ clean /\ run > 0 =>
        \A c \in Calls : disk.subs[run][c] \in Final \cup {"none"}
ChildrenEndWithTheRun == ChildrenStartOnce /\ NothingIsLeftOpen

\* Every Run comes to its end.
AgentEnds == at # "idle" ~> at = "idle"

=============================================================================
