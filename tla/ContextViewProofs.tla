---------------------------- MODULE ContextViewProofs --------------------------
(***************************************************************************)
(* Proofs about what of a conversation the model is given, for any limits:  *)
(* one attempt alone is shown under a message id, whole interactions are    *)
(* left out, what is left out can be had otherwise, and the current turn is *)
(* in every request.                                                        *)
(***************************************************************************)
EXTENDS ContextView, FiniteSetTheorems, TLAPS

\* What has been shown is of the attempt under way, and no other follows it.
ShownOK ==
    /\ visible <=> shownBy # {}
    /\ shownBy \subseteq {attempt}
    /\ stage = "waiting" => ~visible /\ attempt < limit
    /\ stage = "off" => ~visible
    /\ stage # "off" => attempt >= 1
    /\ outcome = "failed" => stage = "done" /\ interrupted = visible
CallInv == CallTypeOK /\ ShownOK

\* Where the current turn starts, and the group of a message.
IsTurn(log, t) == log[t].role = "user" /\ \A k \in (t + 1)..Len(log) : log[k].role # "user"
IsFirst(log, h, k) == log[h].role # "result" /\ \A j \in (h + 1)..k : log[j].role = "result"
LogOK(log) ==
    /\ log \in Seq(Message)
    /\ Len(log) > 0 => \E t \in Indices(log) : IsTurn(log, t)
    /\ \A k \in Indices(log) : \E h \in 1..k : IsFirst(log, h, k)

\* Behind a call without results users only have asked, and what is left out comes
\* before it.
GapOK(s) ==
    \A h \in Unanswered(s.log) :
        /\ \A k \in (h + 1)..Len(s.log) : s.log[k] = User
        /\ \A i \in Hidden(s) \cup s.cleared : i < h

\* What is left out comes before the current turn, in whole groups.
StateOK(s) ==
    /\ s \in State /\ LogOK(s.log) /\ Len(s.log) <= MaxLog /\ GapOK(s)
    /\ \A i \in Hidden(s) \cup s.cleared : i \in Indices(s.log) /\ i < Turn(s.log)
    /\ \A i \in Hidden(s) : GroupOf(s.log, i) \subseteq Hidden(s)

\* A Run has something to answer, and room for the repair and for the results of its
\* last call; once repaired no other call waits for results; a summary is made from
\* all that it replaces.
RunOK ==
    /\ pc # "idle" => Len(state.log) > 0
    /\ pc = "repair" => Fits(state)
    /\ pc \in {"prepare", "weigh", "compact", "summary", "call", "wait"} =>
           Unanswered(state.log) = {}
    /\ pc = "tools" => Unanswered(state.log) \subseteq {Len(state.log)}
    /\ pc = "tools" => /\ Len(state.log) > 0 /\ LastCall(state).role = "call"
                       /\ Len(state.log) + LastCall(state).calls <= MaxLog
    /\ pc \in {"compact", "summary"} => state.summarized \cup Selected(state) \subseteq source

\* A checkpoint from which nothing is lost, with these results in files.
Sound(s, stored) ==
    /\ StateOK(s) /\ s.summarized \subseteq s.covers
    /\ s.cleared \cup {i \in Indices(s.log) : s.log[i].file} \subseteq stored

DataOK ==
    /\ files \subseteq Ids /\ source \subseteq Ids /\ parts \in 0..MaxParts
    /\ pc \in {"idle", "repair", "prepare", "weigh", "compact", "summary", "call", "wait", "tools"}
    /\ Sound(state, files) /\ RunOK

IInv == CallInv /\ DataOK

-----------------------------------------------------------------------------
(* The call                                                                *)

\* No attempt is a number of attempts.
LEMMA NoAttempt == 0 \in 0..MaxAttempts
  BY CallAssumption

\* How many attempts a reason allows.
LEMMA TriesIsNumber == \A reason \in Reasons : Tries(reason) \in 1..3
  BY DEF Reasons, Tries

\* The fewer of two numbers.
LEMMA FewestIsFewer ==
  \A a, b \in Nat : Fewest(a, b) \in Nat /\ Fewest(a, b) <= a /\ Fewest(a, b) <= b
  BY DEF Fewest

\* What a broken attempt leads to keeps the invariant of the call.
LEMMA JudgeKeeps ==
  ASSUME CallInv, NEW reason \in Reasons, Judge(reason), stage \in {"asking", "streaming"}
  PROVE  CallInv'
  <1>1. CASE Fail
    <2>1. CallTypeOK'
      BY <1>1, NoAttempt DEF Fail, Drop, CallInv, CallTypeOK
    <2> QED  BY <1>1, <2>1 DEF Fail, CallInv, ShownOK
  <1>2. CASE MayRetry(reason) /\ stage' = "waiting" /\ limit' = Fewest(limit, Tries(reason))
             /\ Drop /\ emptyUsed' = (emptyUsed \/ (caller = "run" /\ reason = "empty"))
             /\ UNCHANGED <<caller, attempt, visible, shownBy, interrupted, outcome>>
    <2>1. limit' \in 0..MaxAttempts /\ attempt < limit' /\ ~visible
      <3> DEFINE t == Tries(reason)
      <3>1. t \in Nat /\ limit \in Nat /\ limit <= MaxAttempts
        BY TriesIsNumber, CallAssumption DEF CallInv, CallTypeOK
      <3>2. Fewest(limit, t) \in Nat /\ Fewest(limit, t) <= limit
        BY <3>1, FewestIsFewer
      <3>3. ~visible /\ attempt < Fewest(limit, t)
        BY <1>2 DEF MayRetry
      <3>4. Fewest(limit, t) <= MaxAttempts
        BY <3>1, <3>2, CallAssumption
      <3> QED  BY <1>2, <3>2, <3>3, <3>4, CallAssumption
    <2>2. emptyUsed' \in BOOLEAN
      BY <1>2 DEF CallInv, CallTypeOK
    <2>3. CallTypeOK'
      BY <1>2, <2>1, <2>2 DEF Drop, CallInv, CallTypeOK
    <2> QED  BY <1>2, <2>1, <2>3 DEF CallInv, ShownOK
  <1> QED  BY <1>1, <1>2 DEF Judge

\* Every step of a call keeps its invariant.
LEMMA CallKeeps ==
  ASSUME CallInv, CallSteps PROVE CallInv'
  <1> USE DEF CallInv, CallTypeOK, ShownOK
  <1>1. CASE Answers
    BY <1>1 DEF Answers
  <1>2. CASE FinishReason
    BY <1>2 DEF FinishReason
  <1>3. CASE StreamEnds
    <2>1. CASE \E reason \in Reasons : Judge(reason)
      BY <1>3, <2>1, JudgeKeeps DEF StreamEnds
    <2>2. CASE stage' = "accepted"
               /\ UNCHANGED <<caller, attempt, limit, pieces, finished, visible, shownBy,
                              interrupted, emptyUsed, outcome>>
      BY <1>3, <2>2 DEF StreamEnds
    <2> QED  BY <1>3, <2>1, <2>2 DEF StreamEnds, Reasons
  <1>4. CASE Returns
    BY <1>4 DEF Returns
  <1>5. CASE TriesAgain
    <2>1. attempt' \in 0..MaxAttempts /\ attempt' >= 1 /\ shownBy' = {} /\ ~visible'
      BY <1>5, CallAssumption DEF TriesAgain
    <2> QED  BY <1>5, <2>1 DEF TriesAgain
  <1>6. CASE TimesOut
    <2>1. CallTypeOK'
      BY <1>6, NoAttempt DEF TimesOut, Fail, Drop
    <2> QED  BY <1>6, <2>1 DEF TimesOut, Under, Fail
  <1>7. CASE Raises
    <2>1. CallTypeOK'
      BY <1>7, NoAttempt DEF Raises, Drop
    <2> QED  BY <1>7, <2>1 DEF Raises
  <1>8. ASSUME NEW k \in Kinds, Piece(k) PROVE CallInv'
    <2>1. visible' \in BOOLEAN /\ (visible' <=> shownBy' # {})
      BY <1>8 DEF Piece, Noted
    <2>2. shownBy' \subseteq {attempt} /\ shownBy' \subseteq 1..MaxAttempts
      BY <1>8 DEF Piece
    <2>3. CallTypeOK'
      BY <1>8, <2>1, <2>2 DEF Piece
    <2>4. stage = "streaming" /\ UNCHANGED <<stage, attempt, limit, interrupted, outcome>>
      BY <1>8 DEF Piece
    <2>5. outcome # "failed"
      BY <2>4
    <2> QED  BY <2>1, <2>2, <2>3, <2>4, <2>5
  <1>9. ASSUME NEW reason \in Reasons, Breaks(reason) PROVE CallInv'
    BY <1>9, JudgeKeeps DEF Breaks
  <1> QED  BY <1>1, <1>2, <1>3, <1>4, <1>5, <1>6, <1>7, <1>8, <1>9 DEF CallSteps

\* Every step of the Run keeps it.
LEMMA CallStays ==
  ASSUME CallInv, Next PROVE CallInv'
  <1>1. CASE UNCHANGED callVars
    BY <1>1 DEF callVars, CallInv, CallTypeOK, ShownOK
  <1>2. CASE EndCall /\ emptyUsed' \in BOOLEAN
    <2>1. CallTypeOK'
      BY <1>2, NoAttempt DEF EndCall, CallTypeOK
    <2> QED  BY <1>2, <2>1 DEF EndCall, CallInv, ShownOK
  <1>3. ASSUME NEW by \in {"run", "summary"}, BeginCall(by), UNCHANGED emptyUsed PROVE CallInv'
    BY <1>3, CallAssumption DEF BeginCall, CallInv, CallTypeOK, ShownOK
  <1>4. CASE Calling
    BY <1>4, CallKeeps DEF Calling
  <1>5. emptyUsed \in BOOLEAN
    BY DEF CallInv, CallTypeOK
  <1> QED
    BY <1>1, <1>2, <1>3, <1>4, <1>5
    DEF Next, StartRun, Repair, ClearIdle, ClearFails, NotIdle, Weigh, WeighFails, AskSummary,
        NextPart, Compact, CompactFails, AskModel, CallSaveFails, TakeReply, ReplyLost,
        TakeResults, Snip, SnipFails, Stop, SaveFails, Quits

-----------------------------------------------------------------------------
(* The history                                                             *)

\* There is one place the current turn starts at.
LEMMA TurnIs ==
  ASSUME NEW log \in Seq(Message), NEW t \in Indices(log), IsTurn(log, t)
  PROVE  Turn(log) = t
  <1>1. log[t].role = "user" /\ \A k \in (t + 1)..Len(log) : log[k].role # "user"
    BY DEF IsTurn
  <1>2. \A u \in Indices(log) :
           log[u].role = "user" /\ (\A k \in (u + 1)..Len(log) : log[k].role # "user") => u = t
    <2> SUFFICES ASSUME NEW u \in Indices(log), log[u].role = "user",
                        \A k \in (u + 1)..Len(log) : log[k].role # "user"
                 PROVE  u = t
      OBVIOUS
    <2>1. ~(u < t)
      BY <1>1 DEF Indices
    <2>2. ~(t < u)
      BY <1>1 DEF Indices
    <2> QED  BY <2>1, <2>2 DEF Indices
  <1> QED  BY <1>1, <1>2 DEF Turn

\* There is one message a group starts with.
LEMMA FirstIs ==
  ASSUME NEW log, NEW k \in Nat, NEW h \in 1..k, IsFirst(log, h, k)
  PROVE  First(log, k) = h
  <1>1. log[h].role # "result" /\ \A j \in (h + 1)..k : log[j].role = "result"
    BY DEF IsFirst
  <1>2. \A g \in 1..k : log[g].role # "result" /\ (\A j \in (g + 1)..k : log[j].role = "result") => g = h
    <2> SUFFICES ASSUME NEW g \in 1..k, log[g].role # "result",
                        \A j \in (g + 1)..k : log[j].role = "result"
                 PROVE  g = h
      OBVIOUS
    <2>1. ~(g < h)
      BY <1>1
    <2>2. ~(h < g)
      BY <1>1
    <2> QED  BY <2>1, <2>2
  <1> QED  BY <1>1, <1>2 DEF First

\* A message that may be left out comes before the current turn, and so may all
\* of its group.
LEMMA EligibleIsWhole ==
  ASSUME NEW log, NEW i \in Eligible(log)
  PROVE  i \in Indices(log) /\ i < Turn(log) /\ GroupOf(log, i) \subseteq Eligible(log)
  <1>1. i \in Indices(log) /\ i \in GroupOf(log, i)
    BY DEF Eligible, GroupOf
  <1>2. i < Turn(log)
    BY <1>1 DEF Eligible
  <1>3. ASSUME NEW k \in GroupOf(log, i) PROVE k \in Eligible(log)
    <2>1. k \in Indices(log) /\ First(log, k) = First(log, i) /\ GroupOf(log, k) = GroupOf(log, i)
      BY DEF GroupOf
    <2> QED  BY <2>1 DEF Eligible
  <1> QED  BY <1>1, <1>2, <1>3

\* When a history grows, what came before the current turn still does, and its
\* groups do not grow.
LEMMA GrownHistory ==
  ASSUME NEW log, NEW longer, LogOK(log), LogOK(longer), Len(log) <= Len(longer),
         \A i \in Indices(log) : longer[i] = log[i],
         NEW i \in Indices(log), i < Turn(log)
  PROVE  i \in Indices(longer) /\ i < Turn(longer) /\ GroupOf(longer, i) \subseteq GroupOf(log, i)
  <1>0. Len(log) \in Nat /\ Len(longer) \in Nat
    BY DEF LogOK
  <1>1. PICK t \in Indices(log) : IsTurn(log, t)
    BY <1>0 DEF LogOK, Indices
  <1>2. Turn(log) = t /\ longer[t].role = "user"
    BY <1>1, TurnIs DEF LogOK, IsTurn
  <1>3. PICK u \in Indices(longer) : IsTurn(longer, u)
    BY <1>0, <1>1 DEF LogOK, Indices
  <1>4. Turn(longer) = u
    BY <1>3, TurnIs DEF LogOK
  <1>5. t <= u
    BY <1>0, <1>2, <1>3 DEF IsTurn, Indices
  <1>6. i \in Indices(longer) /\ i < Turn(longer)
    BY <1>0, <1>2, <1>4, <1>5 DEF Indices
  <1>7. ASSUME NEW k \in GroupOf(longer, i) PROVE k \in GroupOf(log, i)
    <2>1. PICK h \in 1..i : IsFirst(longer, h, i)
      BY <1>6 DEF LogOK
    <2>2. k \in Indices(longer) /\ First(longer, k) = First(longer, i)
      BY <1>7 DEF GroupOf
    <2>3. PICK g \in 1..k : IsFirst(longer, g, k)
      BY <2>2 DEF LogOK
    <2>4. g = h
      BY <1>0, <1>6, <2>1, <2>2, <2>3, FirstIs DEF Indices
    <2>5. k \in Indices(log)
      <3> SUFFICES ASSUME k > Len(log) PROVE FALSE
        BY <1>0, <2>2 DEF Indices
      <3>1. t \in (h + 1)..k
        BY <1>0, <1>2, <2>1, <2>2 DEF Indices
      <3> QED  BY <1>2, <2>3, <2>4, <3>1 DEF IsFirst
    <2>6. IsFirst(log, h, i)
      BY <1>0, <2>1 DEF IsFirst, Indices
    <2>7. IsFirst(log, h, k) /\ h \in 1..k
      BY <1>0, <2>3, <2>4, <2>5 DEF IsFirst, Indices
    <2>8. First(log, k) = h /\ First(log, i) = h
      BY <1>0, <2>1, <2>5, <2>6, <2>7, FirstIs DEF Indices
    <2> QED  BY <2>5, <2>8 DEF GroupOf
  <1> QED  BY <1>6, <1>7

\* A message of the user, or any but a result after one, may be added.
LEMMA OneMore ==
  ASSUME NEW log, LogOK(log), NEW m \in Message, m.role # "result",
         m.role = "user" \/ Len(log) > 0
  PROVE  LogOK(log \o <<m>>)
  <1> DEFINE longer == log \o <<m>>
  <1>1. /\ log \in Seq(Message) /\ Len(log) \in Nat
        /\ longer \in Seq(Message) /\ Len(longer) = Len(log) + 1
        /\ longer[Len(log) + 1] = m /\ \A i \in Indices(log) : longer[i] = log[i]
    BY DEF LogOK, Indices
  <1> HIDE DEF longer
  <1>2. \E t \in Indices(longer) : IsTurn(longer, t)
    <2>1. CASE m.role = "user"
      <3>1. IsTurn(longer, Len(log) + 1) /\ Len(log) + 1 \in Indices(longer)
        BY <1>1, <2>1 DEF IsTurn, Indices
      <3> QED  BY <3>1
    <2>2. CASE m.role # "user"
      <3>1. PICK t \in Indices(log) : IsTurn(log, t)
        BY <2>2 DEF LogOK
      <3>2. IsTurn(longer, t) /\ t \in Indices(longer)
        BY <1>1, <2>2, <3>1 DEF IsTurn, Indices
      <3> QED  BY <3>2
    <2> QED  BY <2>1, <2>2
  <1>3. ASSUME NEW k \in Indices(longer) PROVE \E h \in 1..k : IsFirst(longer, h, k)
    <2>1. CASE k = Len(log) + 1
      <3>1. IsFirst(longer, k, k) /\ k \in 1..k
        BY <1>1, <2>1 DEF IsFirst
      <3> QED  BY <3>1
    <2>2. CASE k # Len(log) + 1
      <3>1. k \in Indices(log)
        BY <1>1, <2>2 DEF Indices
      <3>2. PICK h \in 1..k : IsFirst(log, h, k)
        BY <3>1 DEF LogOK
      <3>3. IsFirst(longer, h, k)
        BY <1>1, <3>1, <3>2 DEF IsFirst, Indices
      <3> QED  BY <3>3
    <2> QED  BY <2>1, <2>2
  <1> QED  BY <1>1, <1>2, <1>3 DEF LogOK, longer

\* The results of a call may be added after it.
LEMMA ItsResults ==
  ASSUME NEW log, LogOK(log), NEW new \in Seq(Message),
         \A k \in 1..Len(new) : new[k].role = "result",
         Len(new) > 0 => Len(log) > 0 /\ log[Len(log)].role = "call"
  PROVE  LogOK(log \o new)
  <1> DEFINE longer == log \o new
  <1>1. /\ log \in Seq(Message) /\ Len(log) \in Nat /\ Len(new) \in Nat
        /\ longer \in Seq(Message) /\ Len(longer) = Len(log) + Len(new)
        /\ \A i \in Indices(log) : longer[i] = log[i]
        /\ \A k \in 1..Len(new) : longer[Len(log) + k] = new[k]
    BY DEF LogOK, Indices
  <1> HIDE DEF longer
  <1>2. \A j \in (Len(log) + 1)..Len(longer) : longer[j].role = "result"
    <2> SUFFICES ASSUME NEW j \in (Len(log) + 1)..Len(longer) PROVE longer[j].role = "result"
      OBVIOUS
    <2>1. j - Len(log) \in 1..Len(new) /\ Len(log) + (j - Len(log)) = j
      BY <1>1
    <2> QED  BY <1>1, <2>1
  <1>3. Len(longer) > 0 => \E t \in Indices(longer) : IsTurn(longer, t)
    <2> SUFFICES ASSUME Len(longer) > 0 PROVE \E t \in Indices(longer) : IsTurn(longer, t)
      OBVIOUS
    <2>1. Len(log) > 0
      BY <1>1
    <2>2. PICK t \in Indices(log) : IsTurn(log, t)
      BY <2>1 DEF LogOK
    <2>3. t \in Indices(longer) /\ longer[t].role = "user"
      BY <1>1, <2>2 DEF IsTurn, Indices
    <2>4. ASSUME NEW k \in (t + 1)..Len(longer) PROVE longer[k].role # "user"
      <3>1. CASE k <= Len(log)
        BY <1>1, <2>2, <3>1 DEF IsTurn, Indices
      <3>2. CASE k > Len(log)
        BY <1>1, <1>2, <3>2
      <3> QED  BY <1>1, <3>1, <3>2 DEF Indices
    <2> QED  BY <2>3, <2>4 DEF IsTurn
  <1>4. ASSUME NEW k \in Indices(longer) PROVE \E h \in 1..k : IsFirst(longer, h, k)
    <2>1. CASE k \in Indices(log)
      <3>1. PICK h \in 1..k : IsFirst(log, h, k)
        BY <2>1 DEF LogOK
      <3>2. \A j \in 1..k : longer[j] = log[j]
        BY <1>1, <2>1 DEF Indices
      <3>3. h \in 1..k /\ \A j \in (h + 1)..k : j \in 1..k
        BY <1>1, <2>1 DEF Indices
      <3>4. IsFirst(longer, h, k)
        BY <3>1, <3>2, <3>3 DEF IsFirst
      <3> QED  BY <3>4
    <2>2. CASE k \notin Indices(log)
      <3>1. Len(new) > 0 /\ k > Len(log) /\ k <= Len(longer)
        BY <1>1, <2>2 DEF Indices
      <3>2. Len(log) > 0 /\ log[Len(log)].role = "call" /\ Len(log) \in 1..k
        BY <1>1, <3>1 DEF Indices
      <3>3. longer[Len(log)].role # "result"
        BY <1>1, <3>2 DEF Indices
      <3>4. \A j \in (Len(log) + 1)..k : longer[j].role = "result"
        BY <1>1, <1>2, <3>1 DEF Indices
      <3>5. IsFirst(longer, Len(log), k)
        BY <3>3, <3>4 DEF IsFirst
      <3> QED  BY <3>2, <3>5
    <2> QED  BY <2>1, <2>2
  <1> QED  BY <1>1, <1>3, <1>4 DEF LogOK, longer

\* Which calls wait for results once messages were added.
LEMMA UnansweredOf ==
  ASSUME NEW log \in Seq(Message), NEW new \in Seq(Message), NEW h \in Unanswered(log \o new)
  PROVE  \/ h \in Unanswered(log) /\ (h = Len(log) /\ Len(new) > 0 => new[1].role # "result")
         \/ h - Len(log) \in 1..Len(new) /\ new[h - Len(log)].role = "call" /\ h \in Nat
  <1> DEFINE longer == log \o new
  <1>1. /\ Len(log) \in Nat /\ Len(new) \in Nat /\ Len(longer) = Len(log) + Len(new)
        /\ \A i \in 1..Len(longer) : longer[i] = IF i <= Len(log) THEN log[i] ELSE new[i - Len(log)]
    OBVIOUS
  <1>2. h \in 1..Len(longer) /\ longer[h].role = "call" /\ longer[h].calls > 0
        /\ (h = Len(longer) \/ longer[h + 1].role # "result")
    BY DEF Unanswered, Indices
  <1> HIDE DEF longer
  <1>3. CASE h < Len(log)
    <2>1. longer[h] = log[h] /\ longer[h + 1] = log[h + 1] /\ h \in 1..Len(log) /\ h # Len(longer)
      BY <1>1, <1>2, <1>3
    <2> QED  BY <1>2, <1>3, <2>1 DEF Unanswered, Indices
  <1>4. CASE h = Len(log)
    <2>1. longer[h] = log[h] /\ h \in 1..Len(log)
      BY <1>1, <1>2, <1>4
    <2>2. ASSUME Len(new) > 0 PROVE new[1].role # "result"
      <3>1. h # Len(longer) /\ h + 1 \in 1..Len(longer) /\ ~(h + 1 <= Len(log)) /\ h + 1 - Len(log) = 1
        BY <1>1, <1>4, <2>2
      <3> QED  BY <1>1, <1>2, <3>1
    <2> QED  BY <1>2, <1>4, <2>1, <2>2 DEF Unanswered, Indices
  <1>5. CASE h > Len(log)
    BY <1>1, <1>2, <1>5
  <1> QED  BY <1>1, <1>2, <1>3, <1>4, <1>5

\* Two histories, one behind the other.
LEMMA Joined ==
  ASSUME NEW a \in Seq(Message), NEW b \in Seq(Message)
  PROVE  /\ a \o b \in Seq(Message) /\ Len(a \o b) = Len(a) + Len(b)
         /\ \A i \in 1..(Len(a) + Len(b)) :
               (a \o b)[i] = IF i <= Len(a) THEN a[i] ELSE b[i - Len(a)]
  OBVIOUS

\* Where the repair puts the errors.
LEMMA RepairedIs ==
  ASSUME NEW log \in Seq(Message), Unanswered(log) # {}
  PROVE  \E h \in Unanswered(log), n \in Nat \ {0} :
             /\ Repaired(log) \in Seq(Message) /\ Len(Repaired(log)) = Len(log) + n
             /\ \A i \in 1..h : Repaired(log)[i] = log[i]
             /\ \A i \in (h + 1)..(h + n) : Repaired(log)[i] = Interrupted
             /\ \A i \in (h + n + 1)..(Len(log) + n) : Repaired(log)[i] = log[i - n]
  <1> DEFINE h == CHOOSE g \in Unanswered(log) : TRUE
             n == log[h].calls
             before == SubSeq(log, 1, h)
             errors == [k \in 1..n |-> Interrupted]
             after == SubSeq(log, h + 1, Len(log))
  <1>1. h \in Unanswered(log)
    OBVIOUS
  <1>2. h \in 1..Len(log) /\ Len(log) \in Nat /\ log[h].calls > 0 /\ log[h] \in Message
    BY <1>1 DEF Unanswered, Indices
  <1>3. n \in Nat \ {0}
    BY <1>2 DEF Message
  <1>4. Repaired(log) = (before \o errors) \o after
    BY DEF Repaired
  <1> HIDE DEF h, n
  <1>5. before \in Seq(Message) /\ Len(before) = h /\ \A i \in 1..h : before[i] = log[i]
    BY <1>2
  <1>6. errors \in Seq(Message) /\ Len(errors) = n /\ \A i \in 1..n : errors[i] = Interrupted
    <2>1. Interrupted \in Message
      BY DEF Interrupted, Msg, Message
    <2> HIDE DEF Interrupted
    <2> QED  BY <1>3, <2>1
  <1>7. after \in Seq(Message) /\ Len(after) = Len(log) - h
        /\ \A i \in 1..(Len(log) - h) : after[i] = log[h + i]
    BY <1>2
  <1> HIDE DEF before, errors, after
  <1> DEFINE start == before \o errors
  <1>8. /\ start \in Seq(Message) /\ Len(start) = h + n
        /\ \A i \in 1..(h + n) : start[i] = IF i <= h THEN before[i] ELSE errors[i - h]
    BY <1>2, <1>3, <1>5, <1>6
  <1> HIDE DEF start
  <1> DEFINE whole == start \o after
  <1>9. /\ whole \in Seq(Message) /\ Len(whole) = Len(log) + n
        /\ \A i \in 1..(Len(log) + n) :
               whole[i] = IF i <= h + n THEN start[i] ELSE after[i - (h + n)]
    <2>1. /\ whole \in Seq(Message) /\ Len(whole) = Len(start) + Len(after)
          /\ \A i \in 1..(Len(start) + Len(after)) :
                 whole[i] = IF i <= Len(start) THEN start[i] ELSE after[i - Len(start)]
      BY <1>7, <1>8, Joined
    <2>2. Len(start) = h + n /\ Len(start) + Len(after) = Len(log) + n
      BY <1>2, <1>3, <1>7, <1>8
    <2> QED  BY <2>1, <2>2
  <1>10. whole = Repaired(log)
    BY <1>4 DEF start
  <1> HIDE DEF whole
  <1>11. ASSUME NEW i \in 1..h PROVE whole[i] = log[i]
    <2>1. i \in 1..(Len(log) + n) /\ i \in 1..(h + n) /\ i <= h + n /\ i <= h
      BY <1>2, <1>3
    <2> QED  BY <1>5, <1>8, <1>9, <2>1
  <1>12. ASSUME NEW i \in (h + 1)..(h + n) PROVE whole[i] = Interrupted
    <2>1. i \in 1..(Len(log) + n) /\ i \in 1..(h + n) /\ i <= h + n /\ ~(i <= h) /\ i - h \in 1..n
      BY <1>2, <1>3
    <2> QED  BY <1>6, <1>8, <1>9, <2>1
  <1>13. ASSUME NEW i \in (h + n + 1)..(Len(log) + n) PROVE whole[i] = log[i - n]
    <2>1. i \in 1..(Len(log) + n) /\ ~(i <= h + n) /\ i - (h + n) \in 1..(Len(log) - h)
          /\ h + (i - (h + n)) = i - n
      BY <1>2, <1>3
    <2> QED  BY <1>7, <1>9, <2>1
  <1> QED  BY <1>1, <1>3, <1>9, <1>10, <1>11, <1>12, <1>13

\* The errors behind a call change neither what came before it nor its groups.
LEMMA Inserted ==
  ASSUME NEW log, LogOK(log), NEW h \in Indices(log), NEW n \in Nat \ {0}, log[h].role = "call",
         \A k \in (h + 1)..Len(log) : log[k] = User,
         NEW longer \in Seq(Message), Len(longer) = Len(log) + n,
         \A i \in 1..h : longer[i] = log[i],
         \A i \in (h + 1)..(h + n) : longer[i] = Interrupted,
         \A i \in (h + n + 1)..(Len(log) + n) : longer[i] = log[i - n]
  PROVE  /\ LogOK(longer) /\ Unanswered(longer) \cap (h..Len(longer)) = {}
         /\ \A i \in 1..(h - 1) : i < Turn(log) =>
               i < Turn(longer) /\ GroupOf(longer, i) \subseteq GroupOf(log, i)
  <1>1. Len(log) \in Nat /\ h \in 1..Len(log) /\ log \in Seq(Message)
    BY DEF LogOK, Indices
  <1>2. User.role = "user" /\ Interrupted.role = "result"
    BY DEF User, Interrupted, Msg
  <1>3. ASSUME NEW i \in (h + n + 1)..Len(longer) PROVE longer[i].role = "user"
    <2>1. i - n \in (h + 1)..Len(log)
      BY <1>1
    <2> QED  BY <1>2, <2>1
  <1>4. \A i \in (h + 1)..(h + n) : longer[i].role = "result"
    BY <1>2
  <1>5. longer[h].role = "call"
    BY <1>1
  <1>6. ASSUME NEW k \in 1..h PROVE \E g \in 1..k : IsFirst(log, g, k) /\ IsFirst(longer, g, k)
    <2>1. PICK g \in 1..k : IsFirst(log, g, k)
      BY <1>1 DEF LogOK, Indices
    <2>2. IsFirst(longer, g, k)
      <3>1. longer[g] = log[g] /\ \A j \in (g + 1)..k : longer[j] = log[j]
        BY <1>1
      <3> QED  BY <2>1, <3>1 DEF IsFirst
    <2> QED  BY <2>1, <2>2
  <1>7. ASSUME NEW k \in (h + 1)..(h + n) PROVE h \in 1..k /\ IsFirst(longer, h, k)
    <2>1. \A j \in (h + 1)..k : j \in (h + 1)..(h + n)
      BY <1>1
    <2> QED  BY <1>1, <1>4, <1>5, <2>1 DEF IsFirst
  <1>8. ASSUME NEW k \in (h + n + 1)..Len(longer) PROVE k \in 1..k /\ IsFirst(longer, k, k)
    BY <1>1, <1>3 DEF IsFirst
  <1>9. ASSUME NEW k \in Indices(longer) PROVE \E g \in 1..k : IsFirst(longer, g, k)
    <2>1. k \in 1..h \/ k \in (h + 1)..(h + n) \/ k \in (h + n + 1)..Len(longer)
      BY <1>1 DEF Indices
    <2> QED  BY <1>6, <1>7, <1>8, <2>1
  <1>10. PICK t \in Indices(log) : IsTurn(log, t)
    <2>1. Len(log) > 0
      BY <1>1
    <2> QED  BY <2>1 DEF LogOK
  <1>11. \E u \in Indices(longer) : IsTurn(longer, u) /\ (u > h \/ u = t)
    <2>1. CASE h < Len(log)
      <3>1. Len(longer) \in (h + n + 1)..Len(longer) /\ Len(longer) \in Indices(longer)
            /\ Len(longer) > h
        BY <1>1, <2>1 DEF Indices
      <3>2. IsTurn(longer, Len(longer))
        BY <1>1, <1>3, <3>1 DEF IsTurn
      <3> QED  BY <3>1, <3>2
    <2>2. CASE h = Len(log)
      <3>1. t \in 1..h /\ t \in Indices(longer) /\ longer[t].role = "user"
        BY <1>1, <1>10, <2>2 DEF IsTurn, Indices
      <3>2. ASSUME NEW k \in (t + 1)..Len(longer) PROVE longer[k].role # "user"
        <4>1. CASE k <= h
          BY <1>1, <1>10, <2>2, <3>1, <4>1 DEF IsTurn
        <4>2. CASE k > h
          BY <1>1, <1>4, <2>2, <3>1, <4>2
        <4> QED  BY <1>1, <3>1, <4>1, <4>2
      <3> QED  BY <3>1, <3>2 DEF IsTurn
    <2> QED  BY <1>1, <2>1, <2>2
  <1>12. PICK u \in Indices(longer) : IsTurn(longer, u) /\ (u > h \/ u = t)
    BY <1>11
  <1>13. LogOK(longer)
    BY <1>9, <1>12 DEF LogOK
  <1>14. Turn(log) = t /\ Turn(longer) = u
    BY <1>1, <1>10, <1>12, TurnIs
  <1>15. Unanswered(longer) \cap (h..Len(longer)) = {}
    <2> SUFFICES ASSUME NEW g \in Unanswered(longer), g \in h..Len(longer) PROVE FALSE
      OBVIOUS
    <2>1. longer[g].role = "call" /\ (g = Len(longer) \/ longer[g + 1].role # "result")
      BY DEF Unanswered
    <2>2. g = h
      <3>1. g = h \/ g \in (h + 1)..(h + n) \/ g \in (h + n + 1)..Len(longer)
        BY <1>1
      <3> QED  BY <1>3, <1>4, <2>1, <3>1
    <2>3. g # Len(longer) /\ g + 1 \in (h + 1)..(h + n)
      BY <1>1, <2>2
    <2> QED  BY <1>4, <2>1, <2>3
  <1>16. ASSUME NEW i \in 1..(h - 1), i < Turn(log)
         PROVE  i < Turn(longer) /\ GroupOf(longer, i) \subseteq GroupOf(log, i)
    <2>1. i < Turn(longer)
      BY <1>1, <1>12, <1>14, <1>16 DEF Indices
    <2>2. i \in 1..h
      BY <1>1
    <2>3. PICK f \in 1..i : IsFirst(log, f, i) /\ IsFirst(longer, f, i)
      BY <1>6, <2>2
    <2>4. First(log, i) = f /\ First(longer, i) = f /\ f < h
      BY <1>1, <2>2, <2>3, FirstIs
    <2>5. ASSUME NEW k \in GroupOf(longer, i) PROVE k \in GroupOf(log, i)
      <3>1. k \in Indices(longer) /\ First(longer, k) = f
        BY <2>4 DEF GroupOf
      <3>2. k \in 1..h
        <4>1. k \in 1..h \/ k \in (h + 1)..(h + n) \/ k \in (h + n + 1)..Len(longer)
          BY <1>1, <3>1 DEF Indices
        <4>2. CASE k \in (h + 1)..(h + n)
          BY <1>1, <1>7, <2>4, <3>1, <4>2, FirstIs
        <4>3. CASE k \in (h + n + 1)..Len(longer)
          <5>1. First(longer, k) = k
            BY <1>1, <1>8, <4>3, FirstIs
          <5> QED  BY <1>1, <2>4, <3>1, <4>3, <5>1
        <4> QED  BY <4>1, <4>2, <4>3
      <3>3. PICK g \in 1..k : IsFirst(log, g, k) /\ IsFirst(longer, g, k)
        BY <1>6, <3>2
      <3>4. First(log, k) = g /\ First(longer, k) = g
        BY <1>1, <3>2, <3>3, FirstIs
      <3>5. k \in Indices(log)
        BY <1>1, <3>2 DEF Indices
      <3> QED  BY <2>4, <3>1, <3>4, <3>5 DEF GroupOf
    <2> QED  BY <2>1, <2>5
  <1> QED  BY <1>13, <1>15, <1>16

-----------------------------------------------------------------------------
(* What is saved                                                           *)

\* Adding messages leaves out what was left out.
LEMMA AppendedOK ==
  ASSUME NEW s, StateOK(s), NEW new \in Seq(Message), LogOK(s.log \o new),
         Len(s.log) + Len(new) <= MaxLog,
         \A h \in Unanswered(s.log \o new) :
             \/ h \in Unanswered(s.log) /\ \A k \in 1..Len(new) : new[k] = User
             \/ h = Len(s.log) + Len(new) /\ Len(new) > 0
  PROVE  StateOK(Appended(s, new))
  <1> DEFINE r == Appended(s, new)
  <1>1. /\ r.log = s.log \o new /\ r.snipped = s.snipped /\ r.summarized = s.summarized
        /\ r.cleared = s.cleared /\ r.covers = s.covers
        /\ DOMAIN r = DOMAIN s
    BY DEF StateOK, State, Appended
  <1>2. /\ LogOK(s.log) /\ Len(s.log) \in Nat /\ Len(new) \in Nat
        /\ Len(r.log) = Len(s.log) + Len(new) /\ r.log \in Seq(Message)
        /\ \A i \in Indices(s.log) : r.log[i] = s.log[i]
        /\ \A i \in (Len(s.log) + 1)..Len(r.log) : r.log[i] = new[i - Len(s.log)]
    BY <1>1 DEF StateOK, LogOK, Indices
  <1>3. r \in State
    BY <1>1, <1>2 DEF StateOK, State, Appended
  <1> HIDE DEF r
  <1>4. Hidden(r) = Hidden(s)
    BY <1>1 DEF Hidden
  <1>5. \A i \in Hidden(s) \cup s.cleared :
           i \in Indices(r.log) /\ i < Turn(r.log) /\ GroupOf(r.log, i) \subseteq GroupOf(s.log, i)
    <2> SUFFICES ASSUME NEW i \in Hidden(s) \cup s.cleared
                 PROVE  i \in Indices(r.log) /\ i < Turn(r.log)
                        /\ GroupOf(r.log, i) \subseteq GroupOf(s.log, i)
      OBVIOUS
    <2>1. i \in Indices(s.log) /\ i < Turn(s.log)
      BY DEF StateOK
    <2>2. Len(s.log) <= Len(r.log) /\ LogOK(r.log)
      BY <1>1, <1>2
    <2> QED  BY <1>2, <2>1, <2>2, GrownHistory
  <1>6. Len(r.log) <= MaxLog /\ LogOK(r.log)
    BY <1>1, <1>2
  <1>7. \A i \in Hidden(r) \cup r.cleared : i \in Indices(r.log) /\ i < Turn(r.log)
    BY <1>1, <1>4, <1>5
  <1>8. \A i \in Hidden(r) : GroupOf(r.log, i) \subseteq Hidden(r)
    BY <1>4, <1>5 DEF StateOK
  <1>9. GapOK(r)
    <2> SUFFICES ASSUME NEW h \in Unanswered(r.log)
                 PROVE  /\ \A k \in (h + 1)..Len(r.log) : r.log[k] = User
                        /\ \A i \in Hidden(s) \cup s.cleared : i < h
      BY <1>1, <1>4 DEF GapOK
    <2>1. CASE h \in Unanswered(s.log) /\ \A k \in 1..Len(new) : new[k] = User
      <3>1. /\ \A k \in (h + 1)..Len(s.log) : s.log[k] = User
            /\ \A i \in Hidden(s) \cup s.cleared : i < h
        BY <2>1 DEF StateOK, GapOK
      <3>2. h \in Indices(s.log)
        BY <2>1 DEF Unanswered
      <3>3. ASSUME NEW k \in (h + 1)..Len(r.log) PROVE r.log[k] = User
        <4>1. CASE k <= Len(s.log)
          <5>1. k \in Indices(s.log) /\ k \in (h + 1)..Len(s.log)
            BY <1>2, <3>2, <4>1 DEF Indices
          <5>2. r.log[k] = s.log[k]
            BY <1>2, <5>1
          <5>3. s.log[k] = User
            BY <3>1, <5>1
          <5> QED  BY <5>2, <5>3
        <4>2. CASE k > Len(s.log)
          <5>1. k - Len(s.log) \in 1..Len(new) /\ k \in (Len(s.log) + 1)..Len(r.log)
            BY <1>2, <3>2, <4>2 DEF Indices
          <5>2. r.log[k] = new[k - Len(s.log)]
            BY <1>2, <5>1
          <5>3. new[k - Len(s.log)] = User
            BY <2>1, <5>1
          <5> QED  BY <5>2, <5>3
        <4> QED  BY <1>2, <3>2, <4>1, <4>2 DEF Indices
      <3> QED  BY <3>1, <3>3
    <2>2. CASE h = Len(s.log) + Len(new) /\ Len(new) > 0
      <3>1. \A i \in Hidden(s) \cup s.cleared : i \in Indices(s.log)
        BY DEF StateOK
      <3> QED  BY <1>2, <2>2, <3>1 DEF Indices
    <2> QED  BY <1>1, <2>1, <2>2
  <1>10. StateOK(r)
    BY <1>3, <1>6, <1>7, <1>8, <1>9 DEF StateOK
  <1> QED  BY <1>10 DEF r

\* What a history that grew consists of.
LEMMA GrownOf ==
  ASSUME NEW s, s \in State, NEW new \in Seq(Message)
  PROVE  /\ \A i \in Indices(Appended(s, new).log) :
               \/ i \in Indices(s.log) /\ Appended(s, new).log[i] = s.log[i]
               \/ i \in (Len(s.log) + 1)..(Len(s.log) + Len(new))
                  /\ Appended(s, new).log[i] = new[i - Len(s.log)]
         /\ Appended(s, new).cleared = s.cleared /\ Appended(s, new).covers = s.covers
         /\ Appended(s, new).summarized = s.summarized
         /\ Appended(s, new) \in State
  <1> DEFINE r == Appended(s, new)
  <1>1. /\ r.log = s.log \o new /\ r.snipped = s.snipped /\ r.summarized = s.summarized
        /\ r.cleared = s.cleared /\ r.covers = s.covers
    BY DEF State, Appended
  <1>2. s.log \in Seq(Message) /\ r.log \in Seq(Message)
        /\ Len(s.log) \in Nat /\ Len(new) \in Nat /\ Len(r.log) = Len(s.log) + Len(new)
    BY <1>1 DEF State
  <1>3. \A i \in 1..Len(r.log) :
            r.log[i] = IF i <= Len(s.log) THEN s.log[i] ELSE new[i - Len(s.log)]
    BY <1>1, <1>2
  <1>4. r \in State
    BY <1>1, <1>2 DEF State, Appended
  <1> HIDE DEF r
  <1>5. \A i \in Indices(r.log) :
            \/ i \in Indices(s.log) /\ r.log[i] = s.log[i]
            \/ i \in (Len(s.log) + 1)..(Len(s.log) + Len(new)) /\ r.log[i] = new[i - Len(s.log)]
    BY <1>2, <1>3 DEF Indices
  <1> QED  BY <1>1, <1>4, <1>5 DEF r

\* The user asks.
LEMMA AskedOK ==
  ASSUME NEW s, StateOK(s), Fits(Appended(s, <<User>>))
  PROVE  /\ StateOK(Appended(s, <<User>>)) /\ Len(Appended(s, <<User>>).log) > 0
         /\ \A i \in Indices(Appended(s, <<User>>).log) :
               Appended(s, <<User>>).log[i].file => i \in Indices(s.log) /\ s.log[i].file
         /\ Appended(s, <<User>>).cleared = s.cleared /\ Appended(s, <<User>>).covers = s.covers
         /\ Appended(s, <<User>>).summarized = s.summarized
  <1> DEFINE new == <<User>>
             r == Appended(s, new)
  <1>1. s \in State /\ s.log \in Seq(Message) /\ LogOK(s.log) /\ Len(s.log) \in Nat
    BY DEF StateOK, LogOK
  <1>2. User \in Message /\ User.role = "user" /\ ~User.file
    BY DEF User, Msg, Message
  <1>3. new \in Seq(Message) /\ Len(new) = 1 /\ new[1] = User
    BY <1>2
  <1>4. r.log = s.log \o new
    BY <1>1 DEF Appended, State
  <1> HIDE DEF new
  <1>5. r.log \in Seq(Message) /\ Len(r.log) = Len(s.log) + 1
    <2>1. s.log \o new \in Seq(Message) /\ Len(s.log \o new) = Len(s.log) + Len(new)
      BY <1>1, <1>3, Joined
    <2> QED  BY <1>3, <1>4, <2>1
  <1>6. Len(r.log) <= Len(Repaired(r.log)) /\ Len(Repaired(r.log)) <= MaxLog
    <2>1. CASE Unanswered(r.log) = {}
      BY <1>5, <2>1 DEF Repaired, Fits, r, new
    <2>2. CASE Unanswered(r.log) # {}
      <3>1. PICK n \in Nat : Len(Repaired(r.log)) = Len(r.log) + n
        BY <1>5, <2>2, RepairedIs
      <3> QED  BY <1>1, <1>5, <3>1 DEF Fits, r, new
    <2> QED  BY <2>1, <2>2
  <1>7. Len(s.log) + Len(new) <= MaxLog
    BY <1>1, <1>3, <1>5, <1>6, ViewAssumption
  <1>8. LogOK(s.log \o new)
    BY <1>1, <1>2, OneMore DEF new
  <1>9. \A h \in Unanswered(s.log \o new) :
            h \in Unanswered(s.log) /\ \A k \in 1..Len(new) : new[k] = User
    <2> TAKE h \in Unanswered(s.log \o new)
    <2>1. \A k \in 1..Len(new) : new[k] = User
      BY <1>3
    <2> QED  BY <1>1, <1>2, <1>3, <2>1, UnansweredOf
  <1>10. StateOK(r)
    BY <1>3, <1>7, <1>8, <1>9, AppendedOK
  <1>11. /\ \A i \in Indices(r.log) :
               \/ i \in Indices(s.log) /\ r.log[i] = s.log[i]
               \/ i \in (Len(s.log) + 1)..(Len(s.log) + 1) /\ r.log[i] = new[i - Len(s.log)]
         /\ r.cleared = s.cleared /\ r.covers = s.covers /\ r.summarized = s.summarized
    BY <1>1, <1>3, GrownOf
  <1>12. \A i \in (Len(s.log) + 1)..(Len(s.log) + 1) : i - Len(s.log) = 1
    BY <1>1
  <1>13. \A i \in Indices(r.log) : r.log[i].file => i \in Indices(s.log) /\ s.log[i].file
    BY <1>2, <1>3, <1>11, <1>12
  <1> QED  BY <1>1, <1>5, <1>10, <1>11, <1>13 DEF new

\* The repair.
LEMMA RepairedOK ==
  ASSUME NEW s, StateOK(s), Fits(s), NEW r, r = [s EXCEPT !.log = Repaired(@)]
  PROVE  /\ StateOK(r) /\ Unanswered(r.log) = {} /\ Len(r.log) >= Len(s.log)
         /\ \A i \in Indices(r.log) : r.log[i].file => i \in Indices(s.log) /\ s.log[i].file
         /\ r.cleared = s.cleared /\ r.covers = s.covers /\ r.summarized = s.summarized
  <1>1. s \in State /\ s.log \in Seq(Message) /\ LogOK(s.log) /\ Len(s.log) \in Nat
    BY DEF StateOK, LogOK
  <1>2. /\ r.log = Repaired(s.log) /\ r.snipped = s.snipped /\ r.summarized = s.summarized
        /\ r.cleared = s.cleared /\ r.covers = s.covers
    BY <1>1 DEF State
  <1>3. CASE Unanswered(s.log) = {}
    <2>1. r.log = s.log
      BY <1>2, <1>3 DEF Repaired
    <2>2. r = s
      BY <1>1, <1>3 DEF State, Repaired
    <2> QED  BY <1>1, <1>2, <1>3, <2>1, <2>2
  <1>4. CASE Unanswered(s.log) # {}
    <2>1. PICK h \in Unanswered(s.log), n \in Nat \ {0} :
             /\ r.log \in Seq(Message) /\ Len(r.log) = Len(s.log) + n
             /\ \A i \in 1..h : r.log[i] = s.log[i]
             /\ \A i \in (h + 1)..(h + n) : r.log[i] = Interrupted
             /\ \A i \in (h + n + 1)..(Len(s.log) + n) : r.log[i] = s.log[i - n]
      <3>1. PICK h \in Unanswered(s.log), n \in Nat \ {0} :
               /\ Repaired(s.log) \in Seq(Message) /\ Len(Repaired(s.log)) = Len(s.log) + n
               /\ \A i \in 1..h : Repaired(s.log)[i] = s.log[i]
               /\ \A i \in (h + 1)..(h + n) : Repaired(s.log)[i] = Interrupted
               /\ \A i \in (h + n + 1)..(Len(s.log) + n) : Repaired(s.log)[i] = s.log[i - n]
        BY <1>1, <1>4, RepairedIs
      <3> WITNESS h \in Unanswered(s.log), n \in Nat \ {0}
      <3> QED  BY <1>2, <3>1
    <2>2. h \in Indices(s.log) /\ s.log[h].role = "call" /\ h \in 1..Len(s.log)
      BY DEF Unanswered, Indices
    <2>3. /\ \A k \in (h + 1)..Len(s.log) : s.log[k] = User
          /\ \A i \in Hidden(s) \cup s.cleared : i < h
      BY DEF StateOK, GapOK
    <2>4. /\ LogOK(r.log) /\ Unanswered(r.log) \cap (h..Len(r.log)) = {}
          /\ \A i \in 1..(h - 1) : i < Turn(s.log) =>
                i < Turn(r.log) /\ GroupOf(r.log, i) \subseteq GroupOf(s.log, i)
      <3> DEFINE longer == r.log
      <3>1. longer \in Seq(Message) /\ Len(longer) = Len(s.log) + n
        BY <2>1
      <3> QED  BY <1>1, <2>1, <2>2, <2>3, <3>1, Inserted
    <2>5. \A i \in Hidden(s) \cup s.cleared :
              i \in 1..(h - 1) /\ i < Turn(s.log) /\ i \in Indices(r.log)
      BY <1>1, <2>1, <2>2, <2>3 DEF StateOK, Indices
    <2>6. Hidden(r) = Hidden(s)
      BY <1>2 DEF Hidden
    <2>7. Unanswered(r.log) = {}
      <3> SUFFICES ASSUME NEW g \in Unanswered(r.log) PROVE FALSE
        OBVIOUS
      <3>1. g \in 1..Len(r.log) /\ r.log[g].role = "call" /\ r.log[g].calls > 0
            /\ (g = Len(r.log) \/ r.log[g + 1].role # "result")
        BY DEF Unanswered, Indices
      <3>2. g < h
        BY <2>1, <2>2, <2>4, <3>1
      <3>3. g \in Unanswered(s.log)
        <4>1. r.log[g] = s.log[g] /\ r.log[g + 1] = s.log[g + 1] /\ g # Len(r.log)
          <5>1. g \in 1..h /\ g + 1 \in 1..h /\ g # Len(r.log)
            BY <1>1, <2>1, <2>2, <3>1, <3>2
          <5> QED  BY <2>1, <5>1
        <4> QED  BY <1>1, <2>2, <3>1, <3>2, <4>1 DEF Unanswered, Indices
      <3>4. s.log[h] = User
        BY <1>1, <2>2, <3>1, <3>2, <3>3 DEF StateOK, GapOK
      <3> QED  BY <2>2, <3>4 DEF User, Msg
    <2>8. r \in State
      <3>1. s.snipped \in SUBSET Ids /\ s.summarized \in SUBSET Ids /\ s.cleared \in SUBSET Ids
            /\ s.covers \in SUBSET Ids
        BY <1>1 DEF State
      <3> QED  BY <1>1, <1>2, <2>1, <3>1 DEF State
    <2>9. StateOK(r)
      <3>1. Len(r.log) <= MaxLog
        BY <1>2 DEF Fits
      <3>2. \A i \in Hidden(r) \cup r.cleared : i \in Indices(r.log) /\ i < Turn(r.log)
        BY <1>2, <2>4, <2>5, <2>6
      <3>3. \A i \in Hidden(r) : GroupOf(r.log, i) \subseteq Hidden(r)
        BY <2>4, <2>5, <2>6 DEF StateOK
      <3> QED  BY <2>4, <2>7, <2>8, <3>1, <3>2, <3>3 DEF StateOK, GapOK
    <2>10. ASSUME NEW i \in Indices(r.log), r.log[i].file
           PROVE  i \in Indices(s.log) /\ s.log[i].file
      <3>1. i \in 1..h \/ i \in (h + 1)..(h + n) \/ i \in (h + n + 1)..(Len(s.log) + n)
        BY <1>1, <2>1, <2>2 DEF Indices
      <3>2. ~Interrupted.file /\ ~User.file
        BY DEF Interrupted, User, Msg
      <3>3. i \notin (h + 1)..(h + n)
        BY <2>1, <2>10, <3>2
      <3>4. i \notin (h + n + 1)..(Len(s.log) + n)
        <4> SUFFICES ASSUME i \in (h + n + 1)..(Len(s.log) + n) PROVE FALSE
          OBVIOUS
        <4>1. i - n \in (h + 1)..Len(s.log)
          BY <1>1, <2>2
        <4> QED  BY <2>1, <2>3, <2>10, <3>2, <4>1
      <3>5. i \in 1..h
        BY <3>1, <3>3, <3>4
      <3> QED  BY <1>1, <2>1, <2>2, <2>10, <3>5 DEF Indices
    <2> QED  BY <1>1, <1>2, <2>1, <2>7, <2>9, <2>10
  <1> QED  BY <1>3, <1>4

\* Clearing and summarizing take what is eligible, by whole groups.
LEMMA ClearedOK ==
  ASSUME NEW s, StateOK(s), Unanswered(s.log) = {}
  PROVE  /\ StateOK(Cleared(s)) /\ Cleared(s).log = s.log
         /\ Cleared(s).cleared = s.cleared \cup ToClear(s)
         /\ Cleared(s).summarized = s.summarized /\ Cleared(s).covers = s.covers
  <1>1. ToClear(s) \subseteq Eligible(s.log)
    BY DEF ToClear
  <1>2. ToClear(s) \subseteq Indices(s.log) /\ \A i \in ToClear(s) : i < Turn(s.log)
    BY <1>1, EligibleIsWhole
  <1>3. Indices(s.log) \subseteq Ids
    BY ViewAssumption DEF StateOK, State, Indices, Ids
  <1>4. /\ Cleared(s).log = s.log /\ Cleared(s).snipped = s.snipped
        /\ Cleared(s).cleared = s.cleared \cup ToClear(s)
        /\ Cleared(s).summarized = s.summarized /\ Cleared(s).covers = s.covers
    BY DEF StateOK, State, Cleared
  <1>5. Cleared(s) \in State
    BY <1>2, <1>3 DEF StateOK, State, Cleared
  <1>6. Hidden(Cleared(s)) = Hidden(s)
    BY <1>4 DEF Hidden
  <1> QED  BY <1>2, <1>4, <1>5, <1>6 DEF StateOK, GapOK

\* As above.
LEMMA SummarizedOK ==
  ASSUME NEW s, StateOK(s), Unanswered(s.log) = {}, source \subseteq Ids
  PROVE  /\ StateOK(Summarized(s)) /\ Summarized(s).log = s.log
         /\ Summarized(s).cleared = s.cleared /\ Summarized(s).covers = source
         /\ Summarized(s).summarized = s.summarized \cup Selected(s)
  <1>1. Selected(s) \subseteq Eligible(s.log) /\ Eligible(s.log) \subseteq Selected(s) \cup Hidden(s)
    BY DEF Selected
  <1>2. /\ Selected(s) \subseteq Indices(s.log) /\ \A i \in Selected(s) : i < Turn(s.log)
        /\ \A i \in Selected(s) : GroupOf(s.log, i) \subseteq Selected(s) \cup Hidden(s)
    BY <1>1, EligibleIsWhole
  <1>3. Indices(s.log) \subseteq Ids
    BY ViewAssumption DEF StateOK, State, Indices, Ids
  <1>4. /\ Summarized(s).log = s.log /\ Summarized(s).snipped = s.snipped
        /\ Summarized(s).cleared = s.cleared /\ Summarized(s).covers = source
        /\ Summarized(s).summarized = s.summarized \cup Selected(s)
    BY DEF StateOK, State, Summarized
  <1>5. Summarized(s) \in State
    BY <1>2, <1>3 DEF StateOK, State, Summarized
  <1>6. Hidden(Summarized(s)) = Hidden(s) \cup Selected(s)
    BY <1>4 DEF Hidden
  <1> QED  BY <1>2, <1>4, <1>5, <1>6 DEF StateOK, GapOK

\* The tool snip takes whole groups of what is eligible.
LEMMA SnippedOK ==
  ASSUME NEW s, StateOK(s), Unanswered(s.log) \subseteq {Len(s.log)}, LastCall(s).role = "call",
         NEW ids \in SUBSET Indices(s.log), MaySnip(s, ids)
  PROVE  /\ StateOK(Snipped(s, ids)) /\ Snipped(s, ids).log = s.log
         /\ Snipped(s, ids).cleared = s.cleared /\ Snipped(s, ids).covers = s.covers
         /\ Snipped(s, ids).summarized = s.summarized
  <1>1. \A i \in ids \ s.snipped : i < Turn(s.log)
    BY EligibleIsWhole DEF MaySnip
  <1>2. \A i \in ids \cup s.snipped : GroupOf(s.log, i) \subseteq ids \cup s.snipped
    BY DEF MaySnip, Whole
  <1>3. Indices(s.log) \subseteq Ids
    BY ViewAssumption DEF StateOK, State, Indices, Ids
  <1>4. /\ Snipped(s, ids).log = s.log /\ Snipped(s, ids).snipped = s.snipped \cup ids
        /\ Snipped(s, ids).cleared = s.cleared /\ Snipped(s, ids).covers = s.covers
        /\ Snipped(s, ids).summarized = s.summarized
    BY DEF StateOK, State, Snipped
  <1>5. Snipped(s, ids) \in State
    BY <1>3 DEF StateOK, State, Snipped
  <1>6. Hidden(Snipped(s, ids)) = Hidden(s) \cup ids
    BY <1>4 DEF Hidden
  <1>7. \A i \in Hidden(s) \cup ids : i \in Indices(s.log) /\ i < Turn(s.log)
    BY <1>1 DEF StateOK, Hidden
  <1>8. \A i \in Hidden(s) \cup ids : GroupOf(s.log, i) \subseteq Hidden(s) \cup ids
    BY <1>2 DEF StateOK, Hidden
  <1>9. GapOK(Snipped(s, ids))
    <2> SUFFICES ASSUME NEW h \in Unanswered(s.log)
                 PROVE  /\ \A k \in (h + 1)..Len(s.log) : s.log[k] = User
                        /\ \A i \in (Hidden(s) \cup ids) \cup s.cleared : i < h
      BY <1>4, <1>6 DEF GapOK
    <2>1. h = Len(s.log) /\ Len(s.log) \in Nat /\ Len(s.log) > 0
      BY DEF Unanswered, Indices, StateOK, State
    <2>2. PICK t \in Indices(s.log) : IsTurn(s.log, t)
      BY <2>1 DEF StateOK, LogOK
    <2>3. Turn(s.log) = t /\ t < Len(s.log)
      BY <2>1, <2>2, TurnIs DEF StateOK, State, IsTurn, LastCall, Indices
    <2>4. \A i \in (Hidden(s) \cup ids) \cup s.cleared : i \in Indices(s.log) /\ i < Turn(s.log)
      BY <1>7 DEF StateOK
    <2> QED  BY <2>1, <2>3, <2>4 DEF Indices
  <1> QED  BY <1>4, <1>5, <1>6, <1>7, <1>8, <1>9 DEF StateOK

-----------------------------------------------------------------------------
(* The steps of a Run                                                      *)

\* The places of a history that is not too long.
LEMMA InIds == ASSUME NEW s, StateOK(s) PROVE Indices(s.log) \subseteq Ids
  BY ViewAssumption DEF StateOK, State, Indices, Ids

\* What is found when a Run is over is sound if the checkpoint is.
LEMMA QuitsKeeps ==
  ASSUME files' \subseteq Ids, Sound(state', files'), Quits PROVE DataOK'
  BY ViewAssumption DEF Quits, DataOK, RunOK

\* Nor does it matter whether a save that failed has taken place.
LEMMA SaveFailsKeeps ==
  ASSUME DataOK, NEW s, Sound(s, files'), files \subseteq files', files' \subseteq Ids, SaveFails(s)
  PROVE  DataOK'
  <1>1. Sound(state, files')
    BY DEF DataOK, Sound
  <1>2. Sound(state', files')
    BY <1>1 DEF SaveFails
  <1> QED  BY <1>2, QuitsKeeps DEF SaveFails

\* A Run starts, and repairs what another has left.
LEMMA StartKeeps == ASSUME DataOK, StartRun \/ Repair PROVE DataOK'
  <1>1. StateOK(state)
    BY DEF DataOK, Sound
  <1>2. CASE StartRun
    <2> DEFINE r == Appended(state, <<User>>)
    <2>1. Fits(r) /\ state' = r /\ files' = files
      BY <1>2 DEF StartRun, Saved
    <2>2. Sound(r, files) /\ Len(r.log) > 0
      BY <1>1, <2>1, AskedOK DEF DataOK, Sound
    <2> HIDE DEF r
    <2>3. RunOK'
      BY <1>2, <2>1, <2>2 DEF StartRun, RunOK, Fits
    <2> QED  BY <1>2, <2>1, <2>2, <2>3 DEF DataOK, StartRun
  <1>3. CASE Repair
    <2> DEFINE r == [state EXCEPT !.log = Repaired(@)]
    <2>1. Fits(state) /\ Len(state.log) > 0 /\ state' = r /\ files' = files
      BY <1>3 DEF Repair, Saved, DataOK, RunOK
    <2>2. /\ StateOK(r) /\ Unanswered(r.log) = {} /\ Len(r.log) >= Len(state.log)
          /\ \A i \in Indices(r.log) : r.log[i].file => i \in Indices(state.log) /\ state.log[i].file
          /\ r.cleared = state.cleared /\ r.covers = state.covers /\ r.summarized = state.summarized
      BY <1>1, <2>1, RepairedOK
    <2> HIDE DEF r
    <2>3. Sound(r, files) /\ Len(r.log) > 0
      <3>1. Len(r.log) \in Nat /\ Len(state.log) \in Nat
        BY <1>1, <2>2 DEF StateOK, State
      <3> QED  BY <2>1, <2>2, <3>1 DEF DataOK, Sound
    <2>4. RunOK'
      BY <1>3, <2>1, <2>2, <2>3 DEF Repair, RunOK
    <2> QED  BY <1>3, <2>1, <2>3, <2>4 DEF DataOK, Repair
  <1> QED  BY <1>2, <1>3

\* Old results are put into files and left out.
LEMMA ClearKeeps == ASSUME DataOK, ClearIdle \/ ClearFails \/ NotIdle PROVE DataOK'
  <1>1. StateOK(state)
    BY DEF DataOK, Sound
  <1>2. ToClear(state) \subseteq Ids
    BY <1>1, InIds, EligibleIsWhole DEF ToClear
  <1>0. Unanswered(state.log) = {}
    BY DEF DataOK, RunOK, ClearIdle, ClearFails, NotIdle
  <1>3. ASSUME ToClear(state) \subseteq files', files \subseteq files'
        PROVE  Sound(Cleared(state), files')
    BY <1>0, <1>1, <1>3, ClearedOK DEF DataOK, Sound
  <1>4. CASE ClearIdle
    <2>1. Cleared(state).log = state.log
      BY <1>0, <1>1, ClearedOK
    <2> QED  BY <1>0, <1>2, <1>3, <1>4, <2>1 DEF ClearIdle, Saved, DataOK, RunOK
  <1>5. CASE ClearFails
    <2>1. PICK done \in SUBSET ToClear(state) :
             /\ files' = files \cup done
             /\ IF done = ToClear(state) THEN SaveFails(Cleared(state)) ELSE UNCHANGED state /\ Quits
      BY <1>5 DEF ClearFails
    <2>2. files \subseteq files' /\ files' \subseteq Ids
      BY <1>2, <2>1 DEF DataOK
    <2>3. CASE done = ToClear(state)
      BY <1>3, <2>1, <2>2, <2>3, SaveFailsKeeps
    <2>4. CASE done # ToClear(state)
      <3>1. Sound(state', files')
        BY <2>1, <2>2, <2>4 DEF DataOK, Sound
      <3> QED  BY <2>1, <2>2, <2>4, <3>1, QuitsKeeps
    <2> QED  BY <2>3, <2>4
  <1>6. CASE NotIdle
    BY <1>6 DEF NotIdle, DataOK, RunOK
  <1> QED  BY <1>4, <1>5, <1>6

\* A summary replaces what it was made from.
LEMMA SummaryKeeps ==
  ASSUME DataOK, Weigh \/ WeighFails \/ AskSummary \/ NextPart \/ Compact \/ CompactFails
  PROVE  DataOK'
  <1>1. StateOK(state) /\ state.summarized \subseteq state.covers /\ Sound(state, files)
    BY DEF DataOK, Sound
  <1>2. CASE Weigh
    <2>1. Sent(state) \subseteq Ids /\ state.covers \subseteq Ids
      BY <1>1, InIds DEF Sent, StateOK, State
    <2>2. Selected(state) \subseteq Sent(state)
      BY EligibleIsWhole DEF Selected, Sent
    <2>3. state.summarized = {} \/ state.summarized \subseteq state.covers
      BY <1>1
    <2>4. CASE Weight(state) <= Window
      BY <1>2, <2>4 DEF Weigh, DataOK, RunOK
    <2>5. CASE ~(Weight(state) <= Window)
      <3>1. source' = Sent(state) \cup (IF state.summarized = {} THEN {} ELSE state.covers)
            /\ pc' = "compact" /\ UNCHANGED <<state, files, parts>>
        BY <1>2, <2>5 DEF Weigh
      <3>2. source' \subseteq Ids /\ state.summarized \cup Selected(state) \subseteq source'
        BY <2>1, <2>2, <2>3, <3>1
      <3>3. RunOK'
        BY <1>2, <3>1, <3>2 DEF Weigh, DataOK, RunOK, Selected, Hidden
      <3> QED  BY <3>1, <3>2, <3>3 DEF DataOK
    <2> QED  BY <2>4, <2>5
  <1>3. CASE WeighFails
    BY <1>1, <1>3, QuitsKeeps DEF WeighFails, DataOK
  <1>4. CASE AskSummary
    <2>1. parts' \in 0..MaxParts /\ pc = "compact" /\ pc' = "summary" /\ UNCHANGED <<state, files, source>>
      BY <1>4, ViewAssumption DEF AskSummary, DataOK
    <2>2. RunOK'
      BY <2>1 DEF DataOK, RunOK, Selected, Hidden
    <2> QED  BY <2>1, <2>2 DEF DataOK
  <1>5. CASE NextPart
    <2>1. pc = "summary" /\ pc' = "compact" /\ UNCHANGED <<state, files, parts, source>>
      BY <1>5 DEF NextPart
    <2>2. RunOK'
      BY <2>1 DEF DataOK, RunOK, Selected, Hidden
    <2> QED  BY <2>1, <2>2 DEF DataOK
  <1>6. ASSUME pc = "summary" PROVE Sound(Summarized(state), files)
    <2>1. source \subseteq Ids /\ state.summarized \cup Selected(state) \subseteq source
          /\ Unanswered(state.log) = {}
      BY <1>6 DEF DataOK, RunOK
    <2> QED  BY <1>1, <2>1, SummarizedOK DEF Sound
  <1>7. CASE Compact
    <2>1. Summarized(state).log = state.log /\ Unanswered(state.log) = {}
      BY <1>1, <1>7, SummarizedOK DEF DataOK, Compact, RunOK
    <2>2. 0 \in 0..MaxParts
      BY ViewAssumption
    <2> QED  BY <1>6, <1>7, <2>1, <2>2 DEF Compact, Saved, DataOK, RunOK
  <1>8. CASE CompactFails
    <2>1. CASE SaveFails(Summarized(state))
      BY <1>6, <1>8, <2>1, SaveFailsKeeps DEF CompactFails, DataOK
    <2>2. CASE UNCHANGED state /\ Quits
      BY <1>1, <1>8, <2>2, QuitsKeeps DEF CompactFails, DataOK
    <2> QED  BY <1>8, <2>1, <2>2 DEF CompactFails
  <1> QED  BY <1>2, <1>3, <1>4, <1>5, <1>7, <1>8

\* A reply is added, or is lost.
LEMMA ReplyKeeps ==
  ASSUME DataOK, AskModel \/ CallSaveFails \/ TakeReply \/ ReplyLost PROVE DataOK'
  <1>1. StateOK(state) /\ Sound(state, files)
    BY DEF DataOK, Sound
  <1>2. CASE AskModel
    BY <1>2 DEF AskModel, DataOK, RunOK
  <1>3. CASE CallSaveFails
    BY <1>1, <1>3, SaveFailsKeeps DEF CallSaveFails, DataOK
  <1>4. CASE TakeReply
    <2>1. PICK new \in Answer : TRUE
             /\ Len(Appended(state, <<new>>).log) + new.calls <= MaxLog /\ files' = files
             /\ Saved(Appended(state, <<new>>))
             /\ IF new.role = "reply" THEN Quits
                ELSE EndCall /\ pc' = "tools" /\ UNCHANGED <<parts, source, emptyUsed>>
      BY <1>4 DEF TakeReply
    <2>2. new \in Message /\ new.role \in {"reply", "call"} /\ ~new.file /\ new.calls \in Nat
      <3>1. CASE new = Msg("reply", 0, TRUE, FALSE, FALSE)
        BY <3>1 DEF Msg, Message
      <3>2. CASE new \in Calls
        BY <3>2 DEF Calls, Message
      <3> QED  BY <3>1, <3>2 DEF Answer, Replies
    <2> DEFINE r == Appended(state, <<new>>)
    <2>3. Len(state.log) > 0 /\ state \in State
      BY <1>1, <1>4 DEF TakeReply, DataOK, RunOK, StateOK
    <2>4. LogOK(state.log \o <<new>>)
      BY <1>1, <2>2, <2>3, OneMore DEF StateOK
    <2>5. r.log = state.log \o <<new>> /\ <<new>> \in Seq(Message) /\ Len(<<new>>) = 1
      BY <2>2, <2>3 DEF Appended, State
    <2>6. Len(r.log) = Len(state.log) + 1 /\ r.log[Len(r.log)] = new /\ Len(state.log) \in Nat
      BY <2>2, <2>3, <2>5 DEF State
    <2>7. Len(state.log) + 1 <= MaxLog
      BY <2>1, <2>2, <2>6, ViewAssumption
    <2>13. \A h \in Unanswered(state.log \o <<new>>) : h = Len(state.log) + 1
      <3>1. Unanswered(state.log) = {} /\ state.log \in Seq(Message)
        BY <1>1, <1>4 DEF TakeReply, DataOK, RunOK, StateOK, State
      <3>2. TAKE h \in Unanswered(state.log \o <<new>>)
      <3>3. h - Len(state.log) \in 1..1 /\ h \in Nat
        BY <2>5, <3>1, UnansweredOf
      <3> QED  BY <2>6, <3>3
    <2>8. StateOK(r)
      <3> DEFINE news == <<new>>
      <3>1. /\ news \in Seq(Message) /\ Len(news) = 1 /\ LogOK(state.log \o news)
            /\ Len(state.log) + Len(news) <= MaxLog
        BY <2>4, <2>5, <2>7
      <3>2. \A h \in Unanswered(state.log \o news) :
                h = Len(state.log) + Len(news) /\ Len(news) > 0
        BY <2>13, <3>1
      <3> HIDE DEF news
      <3>3. StateOK(Appended(state, news))
        BY <1>1, <3>1, <3>2, AppendedOK
      <3> QED  BY <3>3 DEF news
    <2>9. /\ \A i \in Indices(r.log) : r.log[i].file => i \in Indices(state.log) /\ state.log[i].file
          /\ r.cleared = state.cleared /\ r.covers = state.covers /\ r.summarized = state.summarized
      <3>1. /\ \A i \in Indices(r.log) :
                 \/ i \in Indices(state.log) /\ r.log[i] = state.log[i]
                 \/ i \in (Len(state.log) + 1)..(Len(state.log) + 1)
                    /\ r.log[i] = <<new>>[i - Len(state.log)]
            /\ r.cleared = state.cleared /\ r.covers = state.covers
            /\ r.summarized = state.summarized
        BY <2>3, <2>5, GrownOf
      <3>2. \A i \in (Len(state.log) + 1)..(Len(state.log) + 1) : i = Len(r.log)
        BY <2>6
      <3> QED  BY <2>2, <2>6, <3>1, <3>2
    <2>10. Sound(r, files)
      BY <1>1, <2>8, <2>9 DEF Sound
    <2> HIDE DEF r
    <2>11. CASE new.role = "reply"
      <3>1. Sound(state', files') /\ files' \subseteq Ids /\ Quits
        BY <2>1, <2>10, <2>11 DEF r, Saved, DataOK
      <3> QED  BY <3>1, QuitsKeeps
    <2>12. CASE new.role = "call"
      <3>1. /\ state' = r /\ files' = files /\ pc' = "tools" /\ UNCHANGED <<parts, source>>
            /\ Len(r.log) + new.calls <= MaxLog
        BY <2>1, <2>12 DEF r, Saved
      <3>2. Len(r.log) > 0
        BY <2>6
      <3>3. Unanswered(r.log) \subseteq {Len(r.log)}
        BY <2>5, <2>6, <2>13 DEF r
      <3>4. RunOK'
        BY <2>6, <2>12, <3>1, <3>2, <3>3 DEF RunOK, LastCall
      <3> QED  BY <2>10, <3>1, <3>4 DEF DataOK
    <2> QED  BY <2>2, <2>11, <2>12
  <1>5. CASE ReplyLost
    BY <1>1, <1>5, QuitsKeeps DEF ReplyLost, DataOK
  <1> QED  BY <1>2, <1>3, <1>4, <1>5

\* The results of a call are added.
LEMMA ResultsKeep == ASSUME DataOK, TakeResults PROVE DataOK'
  <1> DEFINE n == LastCall(state).calls
             results(bad, redo, long) ==
                 [k \in 1..n |-> Msg("result", 0, (Len(state.log) + k) \notin bad,
                                     (Len(state.log) + k) \in redo, (Len(state.log) + k) \in long)]
  <1>1. /\ StateOK(state) /\ Sound(state, files) /\ state \in State
        /\ Len(state.log) > 0 /\ LastCall(state).role = "call"
        /\ Len(state.log) + n <= MaxLog /\ Unanswered(state.log) \subseteq {Len(state.log)}
    BY DEF DataOK, Sound, StateOK, RunOK, TakeResults
  <1>2. Len(state.log) \in Nat /\ LastCall(state) \in Message /\ state.log \in Seq(Message)
    BY <1>1 DEF State, LastCall
  <1>3. n \in Nat
    BY <1>2 DEF Message
  <1>4. NewIds(state) \subseteq Ids
    BY <1>1, <1>2, <1>3, ViewAssumption DEF NewIds, Ids
  <1>5. PICK bad \in SUBSET NewIds(state), redo \in SUBSET NewIds(state),
             long \in SUBSET NewIds(state) :
           state' = Appended(state, results(bad, redo, long)) /\ files' = files \cup long
    BY DEF TakeResults, Saved
  <1> DEFINE new == results(bad, redo, long)
             r == Appended(state, new)
  <1>6. \A k \in 1..n : /\ new[k] \in Message /\ new[k].role = "result"
                        /\ new[k].file = ((Len(state.log) + k) \in long)
    BY DEF Msg, Message
  <1> HIDE DEF n
  <1>7. new \in Seq(Message) /\ Len(new) = n
    BY <1>3, <1>6
  <1> HIDE DEF new, results
  <1>8. LogOK(state.log \o new)
    BY <1>1, <1>3, <1>6, <1>7, ItsResults DEF StateOK, LastCall
  <1>9. r.log = state.log \o new
    BY <1>1 DEF Appended, State
  <1>10. Unanswered(r.log) = {}
    <2> SUFFICES ASSUME NEW h \in Unanswered(state.log \o new) PROVE FALSE
      BY <1>9
    <2>1. CASE h \in Unanswered(state.log)
               /\ (h = Len(state.log) /\ Len(new) > 0 => new[1].role # "result")
      <3>1. h = Len(state.log) /\ n > 0
        BY <1>1, <2>1 DEF Unanswered, LastCall, n
      <3> QED  BY <1>3, <1>6, <1>7, <2>1, <3>1
    <2>2. CASE h - Len(state.log) \in 1..Len(new) /\ new[h - Len(state.log)].role = "call"
      BY <1>6, <1>7, <2>2
    <2> QED  BY <1>2, <1>7, <2>1, <2>2, UnansweredOf
  <1>11. StateOK(r)
    <2>1. Len(state.log) + Len(new) <= MaxLog
      BY <1>1, <1>7
    <2> QED  BY <1>1, <1>7, <1>8, <1>9, <1>10, <2>1, AppendedOK
  <1>12. /\ \A i \in Indices(r.log) :
               \/ i \in Indices(state.log) /\ r.log[i] = state.log[i]
               \/ i \in (Len(state.log) + 1)..(Len(state.log) + n)
                  /\ r.log[i] = new[i - Len(state.log)]
         /\ r.cleared = state.cleared /\ r.covers = state.covers
         /\ r.summarized = state.summarized
    BY <1>1, <1>7, GrownOf
  <1>13. \A i \in Indices(r.log) :
            r.log[i].file => (i \in Indices(state.log) /\ state.log[i].file) \/ i \in long
    <2> SUFFICES ASSUME NEW i \in Indices(r.log), r.log[i].file,
                        i \in (Len(state.log) + 1)..(Len(state.log) + n),
                        r.log[i] = new[i - Len(state.log)]
                 PROVE  i \in long
      BY <1>12
    <2>1. i - Len(state.log) \in 1..n /\ Len(state.log) + (i - Len(state.log)) = i
      BY <1>2, <1>3
    <2> QED  BY <1>6, <2>1
  <1>14. Len(r.log) > 0
    BY <1>1, <1>2, <1>3, <1>7, <1>9
  <1>15. Sound(r, files \cup long)
    BY <1>1, <1>11, <1>12, <1>13 DEF Sound
  <1> HIDE DEF r
  <1>16. state' = r /\ files' \subseteq Ids /\ pc' = "prepare" /\ UNCHANGED <<parts, source>>
    BY <1>4, <1>5 DEF TakeResults, DataOK, r, new
  <1> QED  BY <1>5, <1>10, <1>14, <1>15, <1>16 DEF DataOK, RunOK

\* The tool snip leaves out what may be left out.
LEMMA SnipKeeps == ASSUME DataOK, Snip \/ SnipFails PROVE DataOK'
  <1>1. StateOK(state) /\ Sound(state, files)
    BY DEF DataOK, Sound
  <1>2. PICK ids \in SUBSET Indices(state.log) :
           /\ MaySnip(state, ids) /\ files' = files
           /\ \/ state' = Snipped(state, ids) /\ UNCHANGED <<pc, parts, source>>
              \/ SaveFails(Snipped(state, ids))
           /\ pc = "tools"
    BY DEF Snip, SnipFails, Saved
  <1>3. Sound(Snipped(state, ids), files) /\ Snipped(state, ids).log = state.log
    <2>1. Unanswered(state.log) \subseteq {Len(state.log)} /\ LastCall(state).role = "call"
      BY <1>2 DEF DataOK, RunOK
    <2> QED  BY <1>1, <1>2, <2>1, SnippedOK DEF Sound
  <1>4. CASE SaveFails(Snipped(state, ids))
    BY <1>2, <1>3, <1>4, SaveFailsKeeps DEF DataOK
  <1>5. CASE state' = Snipped(state, ids) /\ UNCHANGED <<pc, parts, source>>
    BY <1>2, <1>3, <1>5 DEF DataOK, RunOK, LastCall
  <1> QED  BY <1>2, <1>4, <1>5

-----------------------------------------------------------------------------
(* The theorems                                                            *)

\* The invariant holds at the start and is kept.
LEMMA Inductive == Spec => []IInv
  <1>1. Init => IInv
    <2> SUFFICES ASSUME Init PROVE IInv
      OBVIOUS
    <2>1. CallInv
      BY NoAttempt DEF Init, CallInit, NoCall, CallInv, CallTypeOK, ShownOK
    <2>2. NewThread \in State /\ Hidden(NewThread) = {} /\ NewThread.cleared = {}
          /\ NewThread.summarized = {} /\ Len(NewThread.log) = 0 /\ NewThread.log = <<>>
      BY DEF NewThread, State, Hidden
    <2>3. Indices(NewThread.log) = {}
      BY <2>2 DEF Indices
    <2>4. StateOK(NewThread)
      BY <2>2, <2>3, ViewAssumption DEF StateOK, LogOK, GapOK, Unanswered
    <2>5. 0 \in 0..MaxParts
      BY ViewAssumption
    <2>6. DataOK
      BY <2>2, <2>3, <2>4, <2>5 DEF Init, DataOK, Sound, RunOK
    <2> QED  BY <2>1, <2>6 DEF IInv
  <1>2. IInv /\ [Next]_vars => IInv'
    <2> SUFFICES ASSUME IInv, [Next]_vars PROVE IInv'
      OBVIOUS
    <2>1. CASE UNCHANGED runVars
      <3>1. DataOK'
        BY <2>1 DEF IInv, DataOK, RunOK, Selected, Hidden, runVars
      <3>2. CASE Next
        BY <3>1, <3>2, CallStays DEF IInv
      <3>3. CASE UNCHANGED vars
        BY <3>1, <3>3 DEF vars, callVars, IInv, CallInv, CallTypeOK, ShownOK
      <3> QED  BY <3>1, <3>2, <3>3
    <2>2. CASE Next /\ ~UNCHANGED runVars
      <3>1. CallInv'
        BY <2>2, CallStays DEF IInv
      <3>2. CASE Stop
        BY <3>1, <3>2, QuitsKeeps DEF Stop, IInv, DataOK
      <3>3. ~Calling
        BY <2>2 DEF Calling
      <3> QED
        BY <2>2, <3>1, <3>2, <3>3, StartKeeps, ClearKeeps, SummaryKeeps, ReplyKeeps, ResultsKeep,
           SnipKeeps DEF Next, IInv
    <2> QED  BY <2>1, <2>2 DEF vars
  <1> QED  BY <1>1, <1>2, PTL DEF Spec

\* The variables keep their types.
THEOREM ViewTypeCorrect == Spec => []ViewTypeOK
  <1>1. IInv => ViewTypeOK
    BY DEF IInv, CallInv, DataOK, Sound, StateOK, ViewTypeOK
  <1> QED  BY <1>1, Inductive, PTL

\* Two attempts never show anything under one message id, and who has seen part
\* of a reply whose call the service or a limit failed is told.
THEOREM OneAnswer == Spec => []OneAnswerIsShown
  <1>1. IInv => OneAnswerIsShown
    <2> SUFFICES ASSUME IInv PROVE OneAnswerIsShown
      OBVIOUS
    <2>1. shownBy = {} \/ shownBy = {attempt}
      BY DEF IInv, CallInv, ShownOK
    <2>2. Cardinality(shownBy) <= 1
      <3>1. CASE shownBy = {}
        <4>1. Cardinality(shownBy) = 0
          BY <3>1, FS_EmptySet
        <4> QED  BY <4>1
      <3>2. CASE shownBy = {attempt}
        <4>1. Cardinality(shownBy) = 1
          BY <3>2, FS_Singleton
        <4> QED  BY <4>1
      <3> QED  BY <2>1, <3>1, <3>2
    <2> QED  BY <2>1, <2>2 DEF IInv, CallInv, CallTypeOK, ShownOK, OneAnswerIsShown
  <1> QED  BY <1>1, Inductive, PTL

\* The model is given every call with its results and no result without its call.
THEOREM WholeInteractions == Spec => []InteractionsStayWhole
  <1>1. IInv => InteractionsStayWhole
    BY DEF IInv, DataOK, Sound, StateOK, InteractionsStayWhole
  <1> QED  BY <1>1, Inductive, PTL

\* What is left out was summarized or is in a file, and the current turn is sent.
THEOREM NothingLost == Spec => []NothingIsLost
  <1>1. IInv => NothingIsLost
    <2> SUFFICES ASSUME IInv PROVE NothingIsLost
      OBVIOUS
    <2>1. SummaryCoversAll /\ ClearedIsReadable
      BY DEF IInv, DataOK, Sound, SummaryCoversAll, ClearedIsReadable
    <2>2. StateOK(state)
      BY DEF IInv, DataOK, Sound
    <2>3. ASSUME NEW i \in Indices(state.log), i >= Turn(state.log)
          PROVE  i \in Sent(state) \ state.cleared
      <3>1. i \notin Hidden(state) \cup state.cleared
        <4> SUFFICES ASSUME i \in Hidden(state) \cup state.cleared PROVE FALSE
          OBVIOUS
        <4>1. PICK t \in Indices(state.log) : IsTurn(state.log, t)
          BY <2>2 DEF StateOK, LogOK, Indices
        <4>2. Turn(state.log) = t
          BY <2>2, <4>1, TurnIs DEF StateOK, LogOK
        <4>3. i < t
          BY <2>2, <4>2 DEF StateOK
        <4> QED  BY <2>3, <4>2, <4>3 DEF Indices
      <3> QED  BY <3>1 DEF Sent
    <2> QED  BY <2>1, <2>3 DEF NothingIsLost, CurrentTurnIsSent
  <1> QED  BY <1>1, Inductive, PTL

=============================================================================
