------------------------------ MODULE ContextView -----------------------------
(***************************************************************************)
(* What of a conversation the model is given: context_compression           *)
(* (middleware.py, view.py, state.py), tools/snip.py, the stored tool       *)
(* results of agents/tool_result_storage_middleware.py, and the calls of    *)
(* module ModelCall they lead to.  The history is never cut; old messages   *)
(* are left out of the view when the model snips them, when a summary       *)
(* replaces them, or when the text of an old result is put into a file.     *)
(*                                                                          *)
(* Each change of what is left out is saved before it is used, and each     *)
(* message before it is acted on, so the state of a Run is its checkpoint.  *)
(* A save may fail, having taken place or not, and the process may die      *)
(* between any two steps.  The next Run goes on from what was saved.  The   *)
(* results of one reply are saved together here; that some may be missing   *)
(* is AgentLoop's.                                                          *)
(*                                                                          *)
(* A message is its place in the history, and weighs 1, an uncleared result *)
(* 2: Window is what a request may weigh.  Bounds: MaxLog messages,         *)
(* MaxParts calls for one summary.                                          *)
(***************************************************************************)
EXTENDS ModelCall, Sequences

CONSTANTS MaxLog, MaxParts, Window, KeepResults

ASSUME ViewAssumption == {MaxLog, MaxParts, Window, KeepResults} \subseteq Nat

VARIABLES
    state,  \* the checkpoint, which the Run has confirmed
    files,  \* the results whose text is in .tool-results
    pc,     \* the Run's next step
    parts,  \* the calls the summary under way has taken
    source  \* what those are made from

runVars == <<state, files, pc, parts, source>>
vars == <<runVars, callVars>>

Ids == 1..MaxLog
\* calls: of an assistant message, how many results it waits for.  plain: its
\* tools may be run again, or are snip; of a result, it is no error.  again: of a
\* result, it is no error, and its tool may be run again.  file: of a result, its
\* text was too long to be kept in the message.
Message == [role : {"user", "reply", "call", "result"}, calls : 0..2, plain : BOOLEAN,
            again : BOOLEAN, file : BOOLEAN]
\* covers: what the text of the summary was made from.
State == [log : Seq(Message), snipped : SUBSET Ids, summarized : SUBSET Ids,
          cleared : SUBSET Ids, covers : SUBSET Ids]

ViewTypeOK ==
    /\ state \in State
    /\ files \subseteq Ids
    /\ pc \in {"idle", "repair", "prepare", "weigh", "compact", "summary", "call", "wait", "tools"}
    /\ parts \in 0..MaxParts
    /\ source \subseteq Ids
    /\ CallTypeOK

NewThread == [log |-> <<>>, snipped |-> {}, summarized |-> {}, cleared |-> {}, covers |-> {}]

Init ==
    /\ state = NewThread /\ files = {}
    /\ pc = "idle" /\ parts = 0 /\ source = {}
    /\ CallInit

Indices(log) == 1..Len(log)
Msg(role, calls, plain, again, file) ==
    [role |-> role, calls |-> calls, plain |-> plain, again |-> again, file |-> file]
User == Msg("user", 0, FALSE, FALSE, FALSE)
Interrupted == Msg("result", 0, FALSE, FALSE, FALSE)

-----------------------------------------------------------------------------
(* The history and its view                                                *)

\* groups: a message, and the results that follow the calls it makes.
First(log, i) ==
    CHOOSE h \in 1..i : log[h].role # "result" /\ \A k \in (h + 1)..i : log[k].role = "result"
GroupOf(log, i) == {k \in Indices(log) : First(log, k) = First(log, i)}

\* The current turn starts with the last message of the user.
Turn(log) ==
    IF \E i \in Indices(log) : log[i].role = "user"
    THEN CHOOSE i \in Indices(log) :
            log[i].role = "user" /\ \A k \in (i + 1)..Len(log) : log[k].role # "user"
    ELSE 1

\* eligible_ids: whole interactions before the current turn that nothing protects.
Eligible(log) ==
    {i \in Indices(log) :
        LET h == First(log, i) IN
        /\ \A k \in GroupOf(log, i) : k < Turn(log) /\ (log[k].role = "result" => log[k].plain)
        /\ log[h].role = "call" =>
               log[h].plain /\ Cardinality(GroupOf(log, i)) = log[h].calls + 1}

Hidden(s) == s.snipped \cup s.summarized
Sent(s) == Indices(s.log) \ Hidden(s)

\* active_view: a boundary stands for each run of snipped messages, the summary
\* for all it replaces, a reference for a cleared text.
Boundaries(s) ==
    {i \in s.snipped \ s.summarized :
        i = 1 \/ (i - 1) \in s.summarized \/ (i - 1) \notin s.snipped}
Heavy(s) == {i \in Sent(s) : s.log[i].role = "result" /\ i \notin s.cleared}
Weight(s) ==
    Cardinality(Sent(s)) + Cardinality(Heavy(s)) + Cardinality(Boundaries(s))
        + (IF s.summarized = {} THEN 0 ELSE 1)

-----------------------------------------------------------------------------
(* Saving                                                                  *)

\* The Run is over, however; the next has a budget of its own.
Quits == pc' = "idle" /\ parts' = 0 /\ source' = {} /\ emptyUsed' = FALSE /\ EndCall

\* commit_compression, save_checkpoint: a candidate is saved, and then used.
Saved(s) == state' = s
\* The save reports an error, or the process dies: in doubt it took place.
SaveFails(s) == state' \in {state, s} /\ Quits

-----------------------------------------------------------------------------
(* A Run                                                                   *)

\* What the model adds to a history.
Appended(s, new) == [s EXCEPT !.log = @ \o new]

\* The call an interrupted Run left without results gets an error for each, right
\* behind it; what has come since are messages of Runs that did not get that far.
Unanswered(log) ==
    {h \in Indices(log) : /\ log[h].role = "call" /\ log[h].calls > 0
                          /\ h = Len(log) \/ log[h + 1].role # "result"}
Repaired(log) ==
    IF Unanswered(log) = {} THEN log
    ELSE LET h == CHOOSE h \in Unanswered(log) : TRUE
         IN  SubSeq(log, 1, h) \o [k \in 1..log[h].calls |-> Interrupted]
                 \o SubSeq(log, h + 1, Len(log))
Fits(s) == Len(Repaired(s.log)) <= MaxLog

\* AgentRuntime.run saves what the user asks, and LeadAgent.run what is repaired.
StartRun ==
    /\ pc = "idle" /\ Fits(Appended(state, <<User>>))
    /\ Saved(Appended(state, <<User>>))
    /\ pc' = "repair"
    /\ UNCHANGED <<files, parts, source, callVars>>
Repair ==
    /\ pc = "repair"
    /\ Saved([state EXCEPT !.log = Repaired(@)])
    /\ pc' = "prepare"
    /\ UNCHANGED <<files, parts, source, callVars>>

\* _clear_idle, after a long time without a call: the texts of all but the last
\* results are put into files, and then they are left out.
Results(s) == {i \in Sent(s) : s.log[i].role = "result" /\ s.log[i].again}
Old(s) == {i \in Results(s) : Cardinality({k \in Results(s) : k > i}) >= KeepResults}
ToClear(s) == (Old(s) \cap Eligible(s.log)) \ s.cleared
Cleared(s) == [s EXCEPT !.cleared = @ \cup ToClear(s)]
FilesHold(s) == {i \in ToClear(s) : s.log[i].file} \subseteq files
ClearIdle ==
    /\ pc = "prepare" /\ ToClear(state) # {} /\ FilesHold(state)
    /\ files' = files \cup ToClear(state)
    /\ Saved(Cleared(state))
    /\ pc' = "weigh"
    /\ UNCHANGED <<parts, source, callVars>>
ClearFails ==
    /\ pc = "prepare" /\ ToClear(state) # {}
    /\ \E done \in SUBSET ToClear(state) :
           /\ files' = files \cup done
           /\ IF done = ToClear(state) THEN SaveFails(Cleared(state)) ELSE UNCHANGED state /\ Quits
NotIdle ==
    /\ pc = "prepare"
    /\ pc' = "weigh"
    /\ UNCHANGED <<state, files, parts, source, callVars>>

\* prepare_model_messages: what fits is sent, and the rest needs a summary.
Selected_All(s) == Eligible(s.log) \ s.summarized
Selected(s) == Eligible(s.log) \ Hidden(s)
Weigh ==
    /\ pc = "weigh"
    /\ IF Weight(state) <= Window
       THEN pc' = "call" /\ UNCHANGED source
       ELSE /\ Selected(state) # {}
            /\ pc' = "compact"
            /\ source' = Sent(state) \cup (IF state.summarized = {} THEN {} ELSE state.covers)
    /\ UNCHANGED <<state, files, parts, callVars>>
\* ContextBudgetExceeded: there is nothing it may leave out.
WeighFails ==
    /\ pc = "weigh" /\ Weight(state) > Window /\ Selected(state) = {}
    /\ UNCHANGED <<state, files>> /\ Quits

\* _summary_call, once for each part of the source.
AskSummary ==
    /\ pc = "compact" /\ parts < MaxParts
    /\ BeginCall("summary")
    /\ pc' = "summary" /\ parts' = parts + 1
    /\ UNCHANGED <<state, files, source, emptyUsed>>
NextPart ==
    /\ pc = "summary" /\ stage = "done" /\ outcome = "reply" /\ parts < MaxParts
    /\ EndCall
    /\ pc' = "compact"
    /\ UNCHANGED <<state, files, parts, source, emptyUsed>>

\* The last part is in: the summary replaces what was selected, and what earlier
\* ones had replaced, if the view is then light enough.
Summarized(s) ==
    [s EXCEPT !.summarized = @ \cup Selected(s), !.covers = source]
Lighter(s) == Weight(Summarized(s)) < Weight(s) /\ Weight(Summarized(s)) <= Window
Compact ==
    /\ pc = "summary" /\ stage = "done" /\ outcome = "reply"
    /\ Lighter(state)
    /\ Saved(Summarized(state))
    /\ EndCall
    /\ pc' = "call" /\ parts' = 0 /\ source' = {}
    /\ UNCHANGED <<files, emptyUsed>>
\* A reply that is no summary, a call that failed, a view still too heavy, a save.
CompactFails ==
    /\ pc = "summary" /\ stage = "done"
    /\ IF outcome = "reply" /\ Lighter(state)
       THEN SaveFails(Summarized(state))
       ELSE UNCHANGED state /\ Quits
    /\ UNCHANGED files

\* wrap_model_call: the attempt is saved, and the call is made.
AskModel ==
    /\ pc = "call"
    /\ BeginCall("run")
    /\ pc' = "wait"
    /\ UNCHANGED <<state, files, parts, source, emptyUsed>>
CallSaveFails == pc = "call" /\ UNCHANGED files /\ SaveFails(state)

\* The reply, and the results of its calls: an error may come of any of them, some
\* of its tools may not be run again, and a long text is stored before the message
\* refers to it, in a file nobody has if the Run does not get to saving that.
Replies == {Msg("reply", 0, TRUE, FALSE, FALSE)}
Calls == {m \in Message : m.role = "call" /\ m.calls > 0 /\ ~m.again /\ ~m.file}
Answer == IF "tools" \in pieces THEN Calls ELSE Replies
TakeReply ==
    /\ pc = "wait" /\ stage = "done" /\ outcome = "reply"
    /\ \E new \in Answer :
           LET s == Appended(state, <<new>>) IN
           /\ Len(s.log) + new.calls <= MaxLog
           /\ files' = files
           /\ IF new.role = "reply"
              THEN Saved(s) /\ Quits
              ELSE /\ Saved(s) /\ EndCall /\ pc' = "tools"
                   /\ UNCHANGED <<parts, source, emptyUsed>>
ReplyLost ==
    /\ pc = "wait" /\ stage = "done"
    /\ UNCHANGED <<state, files>> /\ Quits

LastCall(s) == s.log[Len(s.log)]
NewIds(s) == (Len(s.log) + 1)..(Len(s.log) + LastCall(s).calls)
TakeResults ==
    /\ pc = "tools"
    /\ \E bad, redo, long \in SUBSET NewIds(state) :
           LET id(k) == Len(state.log) + k
               new == [k \in 1..LastCall(state).calls |->
                         Msg("result", 0, id(k) \notin bad, id(k) \in redo, id(k) \in long)]
           IN  /\ redo \cap bad = {}
               /\ LastCall(state).plain \/ redo # NewIds(state)
               /\ Saved(Appended(state, new))
               /\ files' = files \cup long
    /\ pc' = "prepare"
    /\ UNCHANGED <<parts, source, callVars>>

-----------------------------------------------------------------------------
(* The tool snip                                                           *)

\* validate_snip: only what may be left out, and no part of a group.
Whole(s, ids) == \A i \in ids : GroupOf(s.log, i) \subseteq ids
MaySnip_Parts(s, ids) ==
    /\ (ids \ s.snipped) \cap s.summarized = {}
    /\ (ids \ s.snipped) \subseteq Eligible(s.log)
MaySnip(s, ids) ==
    /\ (ids \ s.snipped) \cap s.summarized = {}
    /\ (ids \ s.snipped) \subseteq Eligible(s.log)
    /\ Whole(s, ids \cup s.snipped)
Snipped(s, ids) == [s EXCEPT !.snipped = @ \cup ids]
Snip ==
    /\ pc = "tools"
    /\ \E ids \in SUBSET Indices(state.log) \ {{}} :
           MaySnip(state, ids) /\ Saved(Snipped(state, ids))
    /\ UNCHANGED <<files, pc, parts, source, callVars>>
SnipFails ==
    /\ pc = "tools"
    /\ \E ids \in SUBSET Indices(state.log) \ {{}} :
           MaySnip(state, ids) /\ SaveFails(Snipped(state, ids))
    /\ UNCHANGED files

-----------------------------------------------------------------------------

\* The Run is cancelled, or the process dies; a file may be lost only with the
\* result it was written for.
Stop ==
    /\ pc # "idle"
    /\ UNCHANGED <<state, files>> /\ Quits

\* The steps of the call under way.
Calling == CallSteps /\ UNCHANGED runVars

Next ==
    \/ StartRun \/ Repair \/ ClearIdle \/ ClearFails \/ NotIdle \/ Weigh \/ WeighFails
    \/ AskSummary \/ NextPart \/ Compact \/ CompactFails
    \/ AskModel \/ CallSaveFails \/ TakeReply \/ ReplyLost \/ TakeResults
    \/ Snip \/ SnipFails \/ Stop \/ Calling

Spec == Init /\ [][Next]_vars

-----------------------------------------------------------------------------
(* Properties                                                              *)

\* The model is never given a call without its results or a result without its
\* call: what is left out is left out by whole interactions, whatever an
\* interrupted Run has left and later ones have added.
InteractionsStayWhole ==
    \A i \in Hidden(state) :
        i \in Indices(state.log) /\ GroupOf(state.log, i) \subseteq Hidden(state)

\* What the model is not given it can have otherwise.  A message a summary replaces
\* was in the text the summary was made from, directly or through an earlier one;
\* the text of a result that was cleared, or kept out of its message, is in a file;
\* and what the user asked last, with all that followed, is in every request.
SummaryCoversAll == state.summarized \subseteq state.covers
ClearedIsReadable ==
    state.cleared \cup {i \in Indices(state.log) : state.log[i].file} \subseteq files
CurrentTurnIsSent ==
    pc \in {"call", "wait"} =>
        \A i \in Indices(state.log) : i >= Turn(state.log) => i \in Sent(state) \ state.cleared
NothingIsLost == SummaryCoversAll /\ ClearedIsReadable /\ CurrentTurnIsSent
================================================================================
