--------------------------- MODULE AgentLoopProofs ---------------------------
(***************************************************************************)
(* What holds of the agent for histories of any length and any number of    *)
(* calls, subagents, Runs and troubles.                                     *)
(*                                                                          *)
(* Agent is inductive.  It says what the checkpoint and the memory have in  *)
(* common (SubsFollow, MsgsFollow), what the status of a task is while its  *)
(* worker is at which place (Tracked, Watched), which results of the reply  *)
(* in hand are there (InHand, Phased, Outs), and of the histories in memory *)
(* and on disk that results follow their reply in order and that only the   *)
(* last reply may lack some (Sound).                                        *)
(***************************************************************************)
EXTENDS AgentLoop, FiniteSetTheorems, SequenceTheorems, TLAPS

Open == {"pending", "running"}
Asked == {"model", "reply", "tools", "abort", "success"}
AtWork == {"queue", "save", "saving", "work"}
Sub(c) == mem.subs[run][c]

\* A Run that is not over has a number; a round is one the model was asked in.
Running ==
    /\ at # "idle" => run \in Runs
    /\ at \in {"reply", "tools", "abort"} => round <= MaxToolRounds

\* A failing save ends the turn: at once, or when the group of workers has closed.
Cleanly ==
    /\ clean => ~behind
    /\ ~clean => \/ at \in {"abort", "end", "idle"}
                 \/ at = "tools" /\ batch.phase = "group" /\ error = "failed"

\* The checkpoint holds the tasks as memory does, unless its last save is in doubt, and then
\* it holds their outcomes.
SubsFollow ==
    at # "idle" =>
        /\ ~behind => disk.subs = mem.subs
        /\ \A r \in Runs, c \in Calls :
               mem.subs[r][c] \in Final => disk.subs[r][c] = mem.subs[r][c]

\* The history in memory goes on from the one in the checkpoint, which holds a reply before
\* its calls run.
MsgsFollow ==
    /\ at # "idle" => Len(disk.msgs) <= Len(mem.msgs)
    /\ at = "repair" => disk.msgs = mem.msgs
    /\ at = "reply" => Len(disk.msgs) < Len(mem.msgs)
    /\ at \in Asked => \A i \in 1..Len(disk.msgs) : disk.msgs[i] = mem.msgs[i]
    /\ at \in {"tools", "abort"} => HereNow <= Len(disk.msgs)

\* Workers work inside the group that is open.
Beside == \A c \in Calls : worker[c].at \notin {"none", "gone"} => InGroup(c)

\* What a worker knows of its task at each place.
Knows(c) ==
    LET w == worker[c] IN
        /\ w.at \in {"new", "admit"} => Sub(c) \notin Open
        /\ w.at = "admitting" =>
               Sub(c) = "none" /\ lock = c /\ w.shot = Snapshot(c, "pending")
        /\ w.at = "queue" => Sub(c) \in Final \cup {"pending"}
        /\ w.at \in {"save", "saving"} => Sub(c) \in Open /\ w.goal \in Final \cup {"running"}
        /\ w.at = "saving" => lock = c /\ w.shot = Snapshot(c, w.goal)
        /\ w.at = "work" => Sub(c) = "running"
        /\ w.at \notin {"none", "new", "gone"} => c \in batch.started
Tracked == \A c \in Calls : Knows(c)

\* No task is known of a Run that is not there yet.
Untouched ==
    \A r \in Runs, c \in Calls :
        r > run => disk.subs[r][c] = "none" /\ mem.subs[r][c] = "none"

\* While nothing has failed, a task that is open has a worker.
Watched ==
    clean /\ at # "idle" => \A c \in Calls : Sub(c) \in Open => worker[c].at \in AtWork

\* A child was started once at most, and not before its task runs.
StartedOnce ==
    /\ \A r \in Runs, c \in Calls : children[r][c] <= 1 /\ (r > run => children[r][c] = 0)
    /\ at # "idle" => \A c \in Calls : Sub(c) \in {"none", "pending"} => children[run][c] = 0

\* The results in hand are those of the tasks.
Outs ==
    at \in {"tools", "abort"} => \A c \in Calls :
        /\ batch.out[c] \in {"none", "done", "refused"} \cup Final
        /\ batch.out[c] \in Final => c \in TaskCalls /\ Sub(c) = batch.out[c]

-----------------------------------------------------------------------------
IsReply(h, i) == h[i].role = "assistant"
IsTool(h, i) == h[i].role = "tool"

\* A result follows its reply, in the order of the calls.
Ordered(h) ==
    \A j \in 1..Len(h) : IsTool(h, j) =>
        \E i \in 1..j - 1 :
            /\ IsReply(h, i) /\ j - i <= Len(h[i].calls) /\ h[j].call = h[i].calls[j - i]
            /\ \A k \in i + 1..j : IsTool(h, k)

\* All results of the reply at i are there.
Whole(h, i) == i + Len(h[i].calls) <= Len(h) /\ \A k \in 1..Len(h[i].calls) : IsTool(h, i + k)

\* Only the last reply may lack some.
Mostly(h) == \A i, j \in 1..Len(h) : i < j /\ IsReply(h, i) /\ IsReply(h, j) => Whole(h, i)

\* p is the last reply up to i.
LastReply(h, p, i) ==
    p \in 1..i /\ IsReply(h, p) /\ \A k \in p + 1..i : ~IsReply(h, k)

\* What is called unstarted did not run; the outcomes of tasks are those of the checkpoint.
UnstartedIn(h, ran) ==
    \A i \in 1..Len(h) : h[i].text = "unstarted" =>
        \A p \in 1..i : LastReply(h, p, i) => <<p, h[i].call>> \notin ran
OutcomesIn(h, subs) ==
    \A i \in 1..Len(h) : h[i].call \in TaskCalls /\ h[i].text \in Final =>
        subs[h[i].run][h[i].call] = h[i].text
OnlyToolsSpeak(h) == \A i \in 1..Len(h) : ~IsTool(h, i) => h[i].text = "none"

Formed(h) == Ordered(h) /\ Mostly(h) /\ OnlyToolsSpeak(h)
Sound(h) == Formed(h) /\ UnstartedIn(h, acted) /\ OutcomesIn(h, disk.subs)

\* Where the reply in hand is, and which of its results.
InHand ==
    /\ at = "model" =>
           \A i \in 1..Len(mem.msgs) : IsReply(mem.msgs, i) => Whole(mem.msgs, i)
    /\ at = "reply" => Len(mem.msgs) > 0 /\ IsReply(mem.msgs, Len(mem.msgs))
    /\ at \in {"tools", "abort"} =>
           /\ batch.appended <= Len(batch.calls) /\ batch.appended < Len(mem.msgs)
           /\ IsReply(mem.msgs, HereNow) /\ mem.msgs[HereNow].calls = batch.calls
           /\ \A k \in HereNow + 1..Len(mem.msgs) : IsTool(mem.msgs, k)
    /\ at = "tools" =>
           \A k \in HereNow + 1..Len(mem.msgs) : mem.msgs[k].text # "unstarted"

\* A call that acts has been started; a group is the next calls.
Phased ==
    at = "tools" =>
        /\ batch.phase \in {"next", "act", "commit"} => batch.group = {}
        /\ batch.phase \in {"act", "commit"} =>
               ~AllIn /\ Current \notin TaskCalls /\ Current \in batch.started
        /\ batch.phase \in {"group", "commits"} =>
               \E m \in batch.appended + 1..Len(batch.calls) :
                   /\ batch.group = {batch.calls[k] : k \in batch.appended + 1..m}
                   /\ batch.group \subseteq TaskCalls

\* What acted belongs to a reply in the checkpoint, and to a call that was started.
ActedSaved == \A p \in Nat, c \in Calls : <<p, c>> \in acted => p <= Len(disk.msgs)
ActedStarted ==
    at \in {"tools", "abort"} => \A c \in Calls : <<HereNow, c>> \in acted => c \in batch.started

Tasks == /\ SubsFollow /\ Untouched /\ Beside /\ Tracked /\ Watched /\ StartedOnce /\ Outs
         /\ NothingIsLeftOpen
History == MsgsFollow /\ InHand /\ Phased /\ ActedSaved /\ ActedStarted
           /\ Sound(mem.msgs) /\ Sound(disk.msgs)
Agent == TypeOK /\ Running /\ Cleanly /\ Tasks /\ History

-----------------------------------------------------------------------------
(* The algorithms: numbers, histories and their repair                      *)

\* A set of natural numbers has a least one.
LEMMA Least ==
  ASSUME NEW T \in SUBSET Nat, T # {}
  PROVE \E x \in T : \A y \in T : ~(y < x)
<1> DEFINE R == StrictSubsetOrdering(Nat)
           F == {1..x : x \in T}
<1>1. IsWellFoundedOn(R, FiniteSubsetsOf(Nat))
  BY FS_StrictSubsetOrderingWellFounded
<1>2. F \subseteq FiniteSubsetsOf(Nat)
  <2>1. ASSUME NEW x \in T PROVE IsFiniteSet(1..x) /\ 1..x \in SUBSET Nat
    BY FS_Interval
  <2> QED BY <2>1 DEF FiniteSubsetsOf
<1>3. F # {}
  OBVIOUS
<1>4. \E X \in F : \A Y \in F : ~ (<<Y, X>> \in R)
  <2> HIDE DEF R, F
  <2> QED BY <1>1, <1>2, <1>3, WFMin
<1>5. PICK x \in T : \A y \in T : ~ (<<1..y, 1..x>> \in R)
  BY <1>4
<1>6. ASSUME NEW y \in T, y < x PROVE FALSE
  <2>1. /\ 1..y \in SUBSET Nat /\ 1..x \in SUBSET Nat
        /\ 1..y \subseteq 1..x /\ x \in 1..x /\ x \notin 1..y
    BY <1>6
  <2>2. <<1..y, 1..x>> \in R
    BY <2>1 DEF StrictSubsetOrdering
  <2> QED BY <1>5, <2>2
<1> QED BY <1>6

\* The k-th number of an interval.
LEMMA NthOfInterval ==
  ASSUME NEW a \in Nat, NEW b \in Nat, NEW k \in 1..b - a
  PROVE Nth(a + 1..b, k) = a + k
<1>1. \A n \in a + 1..b : {m \in a + 1..b : m <= n} = a + 1..n
  OBVIOUS
<1>2. ASSUME NEW n \in a + 1..b PROVE Cardinality({m \in a + 1..b : m <= n}) = n - a
  <2>1. a + 1 \in Int /\ n \in Int /\ ~(a + 1 > n) /\ n - (a + 1) + 1 = n - a
    OBVIOUS
  <2>2. Cardinality(a + 1..n) = n - (a + 1) + 1
    BY <2>1, FS_Interval
  <2> QED BY <1>1, <2>1, <2>2
<1> QED BY <1>2 DEF Nth

\* Answers counts the results that follow directly.
LEMMA AnswersAre ==
  ASSUME NEW h \in Seq(Message), NEW i \in 1..Len(h)
  PROVE /\ Answers(h, i) \in 0..Len(h) - i
        /\ \A k \in 1..Answers(h, i) : IsTool(h, i + k)
        /\ i + Answers(h, i) < Len(h) => ~IsTool(h, i + Answers(h, i) + 1)
<1> DEFINE Ends(n) == i + n < Len(h) => ~IsTool(h, i + n + 1)
           T == {n \in 0..Len(h) - i : Ends(n)}
<1>1. T \in SUBSET Nat /\ Len(h) - i \in T
  OBVIOUS
<1>2. PICK n \in T : \A m \in T : ~(m < n)
  BY <1>1, Least
<1>3. \A k \in 1..n : IsTool(h, i + k)
  <2> SUFFICES ASSUME NEW k \in 1..n PROVE IsTool(h, i + k)
    OBVIOUS
  <2>1. k - 1 \in 0..Len(h) - i /\ k - 1 < n /\ i + (k - 1) + 1 = i + k
    BY <1>2
  <2>2. k - 1 \notin T
    BY <1>2, <2>1
  <2> QED BY <2>1, <2>2
<1> QED BY <1>2, <1>3 DEF Answers, IsTool

\* The calls of a reply are calls, and differ.
LEMMA CallsDiffer ==
  ASSUME NEW h \in Seq(Message), NEW i \in 1..Len(h)
  PROVE /\ h[i].calls \in Seq(Calls) /\ h[i] \in Message
        /\ \A j, k \in 1..Len(h[i].calls) : h[i].calls[j] = h[i].calls[k] => j = k
<1>1. h[i] \in Message
  OBVIOUS
<1>2. CASE h[i].calls = <<>>
  BY <1>1, <1>2
<1>3. CASE h[i].calls \in Replies
  BY <1>1, <1>3, AgentAssumption
<1> QED BY <1>1, <1>2, <1>3 DEF Message

\* What follows a reply are its results, in order; all of them, if the reply is whole.
LEMMA AnswersAreOwn ==
  ASSUME NEW h \in Seq(Message), Ordered(h), NEW i \in 1..Len(h), IsReply(h, i)
  PROVE /\ Answers(h, i) \in 0..Len(h[i].calls)
        /\ \A k \in 1..Answers(h, i) : h[i + k].call = h[i].calls[k]
        /\ Whole(h, i) <=> Answers(h, i) = Len(h[i].calls)
<1> DEFINE n == Answers(h, i)
<1>1. /\ n \in 0..Len(h) - i /\ \A k \in 1..n : IsTool(h, i + k)
      /\ i + n < Len(h) => ~IsTool(h, i + n + 1)
  BY AnswersAre
<1>2. Len(h[i].calls) \in Nat /\ Len(h) \in Nat
  BY CallsDiffer
<1> HIDE DEF n
<1>3. ASSUME NEW k \in 1..n PROVE k <= Len(h[i].calls) /\ h[i + k].call = h[i].calls[k]
  <2>1. i + k \in 1..Len(h) /\ IsTool(h, i + k)
    BY <1>1, <1>2, SMTT(40)
  <2>2. PICK j \in 1..i + k - 1 :
            /\ IsReply(h, j) /\ i + k - j <= Len(h[j].calls)
            /\ h[i + k].call = h[j].calls[i + k - j]
            /\ \A m \in j + 1..i + k : IsTool(h, m)
    BY <2>1, SMTT(40) DEF Ordered
  <2>3. ~(j < i)
    BY <2>2 DEF IsReply, IsTool
  <2>4. ~(j > i)
    <3>1. SUFFICES ASSUME j > i PROVE FALSE
      OBVIOUS
    <3>2. j - i \in 1..n /\ i + (j - i) = j
      BY <3>1, <1>1
    <3> QED BY <1>1, <2>2, <3>2 DEF IsReply, IsTool
  <2>5. j = i
    BY <2>3, <2>4
  <2> QED BY <2>2, <2>5, SMTT(40)
<1>4. n <= Len(h[i].calls)
  BY <1>1, <1>2, <1>3
<1>5. ASSUME Whole(h, i) PROVE n = Len(h[i].calls)
  <2>1. SUFFICES ASSUME n < Len(h[i].calls) PROVE FALSE
    BY <1>1, <1>2, <1>4
  <2>2. n + 1 \in 1..Len(h[i].calls) /\ i + (n + 1) = i + n + 1
    BY <2>1, <1>1, <1>2
  <2> QED BY <1>1, <1>2, <1>5, <2>2 DEF Whole
<1>6. ASSUME n = Len(h[i].calls) PROVE Whole(h, i)
  BY <1>1, <1>6 DEF Whole
<1> QED BY <1>1, <1>2, <1>3, <1>4, <1>5, <1>6 DEF n

\* What repair adds for the k-th call of the reply at i.
Interrupted(h, i, k) == [role |-> "tool", calls |-> <<>>, call |-> h[i].calls[k],
                         run |-> h[i].run, text |-> "interrupted"]

\* The missing results are those of the calls behind the answered ones.
LEMMA MissingAre ==
  ASSUME NEW h \in Seq(Message), Ordered(h), NEW i \in 1..Len(h), IsReply(h, i)
  PROVE /\ Missing(h, i) \in Seq(Message)
        /\ Len(Missing(h, i)) = Len(h[i].calls) - Answers(h, i)
        /\ \A k \in 1..Len(h[i].calls) - Answers(h, i) :
               Missing(h, i)[k] = Interrupted(h, i, Answers(h, i) + k)
<1> DEFINE n == Answers(h, i)
           calls == h[i].calls
           received == {h[i + k].call : k \in 1..n}
           open == {k \in 1..Len(calls) : calls[k] \notin received}
           d == Len(calls) - n
<1>1. /\ n \in 0..Len(calls) /\ Len(calls) \in Nat /\ d \in Nat
      /\ \A k \in 1..n : h[i + k].call = calls[k]
      /\ \A k \in 1..Len(calls) : calls[k] \in Calls
      /\ \A j, k \in 1..Len(calls) : calls[j] = calls[k] => j = k
      /\ h[i].run \in Runs
  <2>1. n \in 0..Len(calls) /\ \A k \in 1..n : h[i + k].call = calls[k]
    BY AnswersAreOwn
  <2>2. calls \in Seq(Calls) /\ h[i] \in Message
    BY CallsDiffer
  <2>3. \A j, k \in 1..Len(calls) : calls[j] = calls[k] => j = k
    BY CallsDiffer
  <2>4. Len(calls) \in Nat /\ \A k \in 1..Len(calls) : calls[k] \in Calls
    BY <2>2
  <2>5. h[i].run \in Runs
    BY <2>2 DEF Message
  <2> QED BY <2>1, <2>3, <2>4, <2>5
<1> HIDE DEF n, calls
<1>2. \A x : x \in received <=> \E k \in 1..n : x = calls[k]
  <2>1. \A k \in 1..n : h[i + k].call = calls[k]
    BY <1>1
  <2> QED BY <2>1
<1>3. open = n + 1..Len(calls)
  <2>1. ASSUME NEW k \in 1..Len(calls) PROVE calls[k] \in received <=> k <= n
    <3>1. ASSUME k <= n PROVE calls[k] \in received
      <4>1. k \in 1..n
        BY <3>1, <1>1
      <4> QED BY <1>2, <4>1
    <3>2. ASSUME calls[k] \in received PROVE k <= n
      <4>1. PICK j \in 1..n : calls[k] = calls[j]
        BY <1>2, <3>2
      <4>2. j \in 1..Len(calls)
        BY <1>1
      <4>3. k = j
        BY <1>1, <4>1, <4>2
      <4> QED BY <4>3, <1>1
    <3> QED BY <3>1, <3>2
  <2> HIDE DEF received
  <2>2. \A k : k \in open <=> k \in n + 1..Len(calls)
    BY <1>1, <2>1
  <2> QED BY <2>2
<1>4. Cardinality(open) = d
  <2>1. Cardinality(n + 1..Len(calls)) = IF n + 1 > Len(calls) THEN 0 ELSE Len(calls) - (n + 1) + 1
    <3>1. n + 1 \in Int /\ Len(calls) \in Int
      BY <1>1
    <3> QED BY <3>1, FS_Interval
  <2>2. (IF n + 1 > Len(calls) THEN 0 ELSE Len(calls) - (n + 1) + 1) = d
    BY <1>1
  <2> QED BY <1>3, <2>1, <2>2
<1>5. ASSUME NEW k \in 1..d PROVE Nth(open, k) = n + k
  <2>1. n \in Nat /\ Len(calls) \in Nat
    BY <1>1
  <2>2. Nth(n + 1..Len(calls), k) = n + k
    BY <2>1, NthOfInterval
  <2> QED BY <1>3, <2>2
<1>6. Missing(h, i) = [k \in 1..Cardinality(open) |->
          [Result(calls[Nth(open, k)], "interrupted") EXCEPT !.run = h[i].run]]
  BY DEF Missing, n, calls
<1> HIDE DEF received, open
<1>7. \A k \in 1..d : Missing(h, i)[k] = Interrupted(h, i, n + k)
  BY <1>4, <1>5, <1>6 DEF Result, Interrupted, calls
<1>8. \A k \in 1..d : Interrupted(h, i, n + k) \in Message
  <2> SUFFICES ASSUME NEW k \in 1..d PROVE Interrupted(h, i, n + k) \in Message
    OBVIOUS
  <2>1. n + k \in 1..Len(calls)
    BY <1>1
  <2>2. h[i].calls[n + k] \in Calls
    BY <1>1, <2>1 DEF calls
  <2> QED BY <1>1, <2>2 DEF Interrupted, Message, Text
<1>9. Missing(h, i) \in [1..d -> Message]
  <2>1. Missing(h, i) = [k \in 1..d |-> Missing(h, i)[k]]
    BY <1>4, <1>6
  <2> QED BY <1>7, <1>8, <2>1
<1>10. Missing(h, i) \in Seq(Message) /\ Len(Missing(h, i)) = d
  BY <1>1, <1>9, SMTT(40)
<1> QED BY <1>7, <1>10 DEF n, calls

\* One step of repair, from position i.
Body(h, f, i) ==
    IF i > Len(h) THEN <<>>
    ELSE IF h[i].role # "assistant" THEN <<h[i]>> \o f[i + 1]
    ELSE LET n == Answers(h, i) IN SubSeq(h, i, i + n) \o Missing(h, i) \o f[i + n + 1]

\* f says for every position what repair makes of the rest.
Solution(h, f) == f = [i \in 1..Len(h) + 1 |-> Body(h, f, i)]

\* The recursion of repair has a solution, as each step looks ahead only.
LEMMA RepairRecurs ==
  ASSUME NEW h \in Seq(Message)
  PROVE \E f : Solution(h, f) /\ Repaired(h) = f[1]
<1> DEFINE L == Len(h)
           Dom == 1..L + 1
           Solves(k, g) == /\ g = [i \in Dom |-> g[i]]
                           /\ \A i \in Dom : i >= L + 1 - k => g[i] = Body(h, g, i)
           T == {k \in 0..L : ~ \E g : Solves(k, g)}
<1>1. L \in Nat /\ \A i \in 1..L : Answers(h, i) \in 0..L - i
  BY AnswersAre
<1> HIDE DEF L
<1>2. T = {}
  <2> SUFFICES ASSUME T # {} PROVE FALSE
    OBVIOUS
  <2>1. PICK k \in T : \A m \in T : ~(m < k)
    <3>1. T \in SUBSET Nat
      BY <1>1
    <3> QED BY <3>1, Least
  <2>2. k # 0
    <3> DEFINE g == [i \in Dom |-> <<>>]
    <3>1. \A i \in Dom : i >= L + 1 - 0 => i > L /\ g[i] = <<>>
      BY <1>1
    <3>2. \A i \in Dom : i >= L + 1 - 0 => g[i] = Body(h, g, i)
      BY <3>1 DEF Body, L
    <3>3. Solves(0, g)
      BY <3>2
    <3> QED BY <2>1, <3>3
  <2>3. k - 1 \in 0..L /\ k - 1 < k /\ k \in 1..L
    BY <2>2, <1>1
  <2>4. PICK g : Solves(k - 1, g)
    BY <2>1, <2>3
  <2> DEFINE j == L + 1 - k
             e == [i \in Dom |-> IF i = j THEN Body(h, g, j) ELSE g[i]]
  <2>5. j \in Dom /\ j \in 1..L /\ \A i \in Dom : i >= L + 1 - k => i = j \/ i >= L + 1 - (k - 1)
    BY <1>1, <2>3
  <2>6. \A i \in Dom : i >= j => Body(h, e, i) = Body(h, g, i)
    <3> SUFFICES ASSUME NEW i \in Dom, i >= j PROVE Body(h, e, i) = Body(h, g, i)
      OBVIOUS
    <3>1. CASE i > L
      BY <3>1 DEF Body, L
    <3>2. CASE i \in 1..L
      <4>1. /\ i + 1 \in Dom /\ i + 1 # j
            /\ i + Answers(h, i) + 1 \in Dom /\ i + Answers(h, i) + 1 # j
        BY <1>1, <2>5, <3>2, SMTT(40)
      <4>2. e[i + 1] = g[i + 1] /\ e[i + Answers(h, i) + 1] = g[i + Answers(h, i) + 1]
        BY <4>1
      <4> HIDE DEF e
      <4> QED BY <4>2 DEF Body
    <3> QED BY <1>1, <3>1, <3>2
  <2>7. \A i \in Dom : i >= j => e[i] = Body(h, g, i)
    BY <2>4, <2>5
  <2>8. Solves(k, e)
    <3>1. e = [i \in Dom |-> e[i]]
      OBVIOUS
    <3>2. \A i \in Dom : i >= j => e[i] = Body(h, e, i)
      <4> HIDE DEF e, j, Dom
      <4> QED BY <2>6, <2>7
    <3> HIDE DEF e
    <3> QED BY <3>1, <3>2
  <2> QED BY <2>1, <2>8
<1>3. PICK g : Solves(L, g)
  <2>1. L \in 0..L
    BY <1>1
  <2> HIDE DEF Solves
  <2> QED BY <1>2, <2>1
<1>4. g = [i \in 1..Len(h) + 1 |-> Body(h, g, i)]
  <2>1. \A i \in Dom : g[i] = Body(h, g, i)
    BY <1>1, <1>3
  <2>2. g = [i \in Dom |-> g[i]]
    BY <1>3
  <2>3. g = [i \in Dom |-> Body(h, g, i)]
    BY <2>1, <2>2
  <2> QED BY <2>3 DEF L
<1> DEFINE from == CHOOSE f : f = [i \in 1..Len(h) + 1 |-> Body(h, f, i)]
<1>5. from = [i \in 1..Len(h) + 1 |-> Body(h, from, i)]
  <2> HIDE DEF L, Dom, Solves, T
  <2> QED BY <1>4, Zenon
<1>6. Repaired(h) = from[1]
  BY Zenon DEF Repaired, Body
<1> HIDE DEF from
<1> QED BY <1>5, <1>6 DEF Solution

\* Histories can be put together in any order.
LEMMA ConcatsAssociate == \A a, b, c \in Seq(Message) : (a \o b) \o c = a \o (b \o c)
  BY ConcatAssociative

\* A history put together has the messages of both parts.
LEMMA ConcatIs ==
  \A a, b \in Seq(Message) :
      /\ a \o b \in Seq(Message) /\ Len(a \o b) = Len(a) + Len(b)
      /\ \A i \in 1..Len(a) + Len(b) : (a \o b)[i] = IF i <= Len(a) THEN a[i] ELSE b[i - Len(a)]
  BY ConcatProperties

\* Four parts of a history may be put together in either grouping.
LEMMA ConcatsRegroup ==
  \A a, b, m, c \in Seq(Message) : a \o ((b \o m) \o c) = (a \o b) \o (m \o c)
<1> SUFFICES ASSUME NEW a \in Seq(Message), NEW b \in Seq(Message), NEW m \in Seq(Message),
                    NEW c \in Seq(Message)
             PROVE a \o ((b \o m) \o c) = (a \o b) \o (m \o c)
  OBVIOUS
<1>1. m \o c \in Seq(Message)
  BY ConcatIs
<1>2. (b \o m) \o c = b \o (m \o c)
  BY ConcatsAssociate, Zenon
<1>3. (a \o b) \o (m \o c) = a \o (b \o (m \o c))
  BY <1>1, ConcatsAssociate, Zenon
<1> QED BY <1>2, <1>3

\* Repair goes on at a position behind the results of the last reply.
Starts(h, i) == i \in 1..Len(h) + 1 /\ (i <= Len(h) => ~IsTool(h, i))

\* Up to position e nothing is missing and nothing is added.
LEMMA RepairCopies ==
  ASSUME NEW h \in Seq(Message), Ordered(h),
         NEW f, Solution(h, f),
         NEW e \in 1..Len(h) + 1, Starts(h, e), f[e] \in Seq(Message),
         \A i \in 1..e - 1 : IsReply(h, i) => Whole(h, i)
  PROVE \A i \in 1..e : Starts(h, i) => f[i] = SubSeq(h, i, e - 1) \o f[e]
<1> DEFINE L == Len(h)
           Cut(i, j) == SubSeq(h, i, j)
           Good(i) == Starts(h, i) => f[i] = Cut(i, e - 1) \o f[e]
           T == {k \in 0..e - 1 : ~Good(e - k)}
<1>1. L \in Nat /\ e \in 1..L + 1
  OBVIOUS
<1>2. \A i, j \in 1..L : Cut(i, j) \in Seq(Message) /\ <<h[i]>> \in Seq(Message)
  BY <1>1, SubSeqProperties
<1>3. Good(e)
  <2>1. Cut(e, e - 1) = <<>>
    BY SubSeqEmpty
  <2>2. <<>> \o f[e] = f[e]
    BY ConcatEmptySeq
  <2> QED BY <2>1, <2>2
<1>4. ASSUME NEW k \in 1..e - 1, Starts(h, e - k),
             \A m \in 0..k - 1 : Good(e - m)
      PROVE Good(e - k)
  <2> DEFINE i == e - k
             n == Answers(h, i)
  <2>1. i \in 1..L /\ i <= e - 1 /\ ~(i > L) /\ i \in 1..L + 1
    BY <1>1
  <2>2. f[i] = Body(h, f, i)
    BY <2>1 DEF Solution
  <2>3. ASSUME NEW m \in i + 1..e PROVE Good(m)
    <3>1. e - m \in 0..k - 1 /\ e - (e - m) = m
      BY <2>1
    <3> HIDE DEF Good
    <3> QED BY <1>4, <3>1
  <2>4. CASE ~IsReply(h, i)
    <3>1. i + 1 \in 1..L + 1 /\ i + 1 \in i + 1..e
      BY <2>1, <1>1
    <3>2. Starts(h, i + 1)
      <4>1. SUFFICES ASSUME i + 1 <= L, IsTool(h, i + 1) PROVE FALSE
        BY <3>1 DEF Starts
      <4>2. PICK j \in 1..i : IsReply(h, j) /\ \A m \in j + 1..i + 1 : IsTool(h, m)
        <5>1. i + 1 \in 1..L /\ i + 1 - 1 = i
          BY <4>1, <3>1
        <5> QED BY <5>1, <4>1, SMTT(40) DEF Ordered
      <4>3. j < i
        BY <4>2, <2>4, <2>1
      <4>4. IsTool(h, i)
        BY <4>2, <4>3, <2>1
      <4> QED BY <4>4, <1>4, <2>1 DEF Starts
    <3>3. f[i + 1] = Cut(i + 1, e - 1) \o f[e]
      BY <2>3, <3>1, <3>2
    <3>4. f[i] = <<h[i]>> \o f[i + 1]
      BY <2>1, <2>2, <2>4 DEF Body, IsReply
    <3>5. Cut(i, e - 1) = <<h[i]>> \o Cut(i + 1, e - 1)
      <4>1. e - 1 \in i..L
        BY <2>1, <1>1
      <4> QED BY <2>1, <4>1, SubSeqRecursiveFirst
    <3>6. Cut(i + 1, e - 1) \in Seq(Message)
      <4>1. \A m \in i + 1..e - 1 : h[m] \in Message
        BY <2>1, <1>1
      <4> QED BY <4>1, <2>1, <1>1, SubSeqProperties
    <3>7. <<h[i]>> \in Seq(Message)
      BY <2>1, <1>2
    <3>8. f[i] = Cut(i, e - 1) \o f[e]
      <4>1. (<<h[i]>> \o Cut(i + 1, e - 1)) \o f[e] = <<h[i]>> \o (Cut(i + 1, e - 1) \o f[e])
        <5> HIDE DEF Cut, i
        <5> QED BY <3>6, <3>7, ConcatsAssociate
      <4> HIDE DEF Cut, i
      <4> QED BY <3>3, <3>4, <3>5, <4>1, Zenon
    <3> QED BY <3>8
  <2>5. CASE IsReply(h, i)
    <3>1. i \in 1..e - 1 /\ Whole(h, i) /\ n = Len(h[i].calls) /\ n \in Nat /\ i + n <= L
      <4>1. i \in 1..e - 1 /\ Whole(h, i)
        BY <2>1, <2>5
      <4>2. n = Len(h[i].calls) /\ n \in 0..Len(h[i].calls)
        BY <2>1, <2>5, <4>1, AnswersAreOwn
      <4> QED BY <4>1, <4>2 DEF Whole
    <3>2. Missing(h, i) = <<>>
      <4>1. Missing(h, i) \in Seq(Message) /\ Len(Missing(h, i)) = Len(h[i].calls) - n
        BY <2>1, <2>5, MissingAre
      <4>2. Len(Missing(h, i)) = 0
        BY <3>1, <4>1
      <4> QED BY <4>1, <4>2, EmptySeq
    <3>3. i + n < e
      <4>1. SUFFICES ASSUME e - i \in 1..n PROVE FALSE
        BY <3>1, <2>1, <1>1
      <4>2. i + (e - i) = e /\ e <= L
        BY <4>1, <3>1, <2>1, <1>1
      <4>3. IsTool(h, i + (e - i))
        <5> HIDE DEF i
        <5> QED BY <4>1, <2>1, AnswersAre
      <4> QED BY <4>2, <4>3, <1>1 DEF Starts
    <3>4. Starts(h, i + n + 1) /\ i + n + 1 \in i + 1..e
      <4>1. i + n < L => ~IsTool(h, i + n + 1)
        BY <2>1, AnswersAre
      <4>2. i + n + 1 \in i + 1..e /\ i + n + 1 \in 1..L + 1 /\ (i + n + 1 <= L => i + n < L)
        <5> HIDE DEF i, n
        <5> QED BY <3>1, <3>3, <2>1, <1>1
      <4> QED BY <4>1, <4>2 DEF Starts
    <3>5. f[i + n + 1] = Cut(i + n + 1, e - 1) \o f[e]
      BY <2>3, <3>4
    <3>6. f[i] = Cut(i, i + n) \o <<>> \o f[i + n + 1]
      BY <2>1, <2>2, <2>5, <3>2 DEF Body, IsReply
    <3>7. Cut(i, i + n) \in Seq(Message) /\ Cut(i, i + n) \o <<>> = Cut(i, i + n)
      <4>1. \A m \in i..i + n : h[m] \in Message
        BY <3>1, <2>1
      <4>2. Cut(i, i + n) \in Seq(Message)
        BY <4>1, <2>1, <3>1, SubSeqProperties
      <4> QED BY <4>2, ConcatEmptySeq
    <3>8. Cut(i + n + 1, e - 1) \in Seq(Message)
      <4>1. \A m \in i + n + 1..e - 1 : h[m] \in Message
        BY <3>1, <2>1, <1>1
      <4> QED BY <4>1, <2>1, <3>1, SubSeqProperties
    <3>9. Cut(i, e - 1) = Cut(i, i + n) \o Cut(i + n + 1, e - 1)
      <4>1. i \in 1..L + 1 /\ i + n \in i - 1..L /\ e - 1 \in i + n..L
        BY <3>1, <3>3, <2>1, <1>1
      <4> QED BY <4>1, ConcatAdjacentSubSeq
    <3>10. f[i] = Cut(i, e - 1) \o f[e]
      <4>1. (Cut(i, i + n) \o Cut(i + n + 1, e - 1)) \o f[e]
              = Cut(i, i + n) \o (Cut(i + n + 1, e - 1) \o f[e])
        <5>1. Cut(i, i + n) \in Seq(Message)
          BY <3>7
        <5> HIDE DEF Cut, i, n
        <5> QED BY <5>1, <3>8, ConcatsAssociate
      <4> HIDE DEF Cut, i, n
      <4> QED BY <3>5, <3>6, <3>7, <3>9, <4>1, Zenon
    <3> QED BY <3>10
  <2> QED BY <2>4, <2>5
<1>5. T = {}
  <2> SUFFICES ASSUME T # {} PROVE FALSE
    OBVIOUS
  <2>1. PICK k \in T : \A m \in T : ~(m < k)
    <3>1. T \in SUBSET Nat
      BY <1>1
    <3> QED BY <3>1, Least
  <2>2. k # 0
    <3>1. e - 0 = e
      OBVIOUS
    <3> QED BY <2>1, <1>3, <3>1
  <2>3. k \in 1..e - 1 /\ Starts(h, e - k) /\ \A m \in 0..k - 1 : m \in 0..e - 1 /\ m < k
    <3>1. k \in 0..e - 1 /\ ~Good(e - k)
      BY <2>1
    <3>2. k \in 1..e - 1 /\ \A m \in 0..k - 1 : m \in 0..e - 1 /\ m < k
      <4> HIDE DEF Good, T
      <4> QED BY <3>1, <2>2, <1>1
    <3> QED BY <3>1, <3>2
  <2>4. \A m \in 0..k - 1 : Good(e - m)
    <3> HIDE DEF Good
    <3> QED BY <2>1, <2>3
  <2>5. Good(e - k)
    <3> HIDE DEF Good, T
    <3> QED BY <1>4, <2>3, <2>4
  <2> QED BY <2>1, <2>5
<1>6. ASSUME NEW i \in 1..e, Starts(h, i) PROVE f[i] = SubSeq(h, i, e - 1) \o f[e]
  <2>1. e - i \in 0..e - 1 /\ e - (e - i) = i
    BY <1>1
  <2>2. Good(i)
    <3> HIDE DEF Good
    <3> QED BY <1>5, <2>1
  <2> QED BY <2>2, <1>6
<1> QED BY <1>6

\* No result stands at the beginning.
LEMMA FirstStarts == ASSUME NEW h \in Seq(Message), Ordered(h) PROVE Starts(h, 1)
<1>1. Len(h) \in Nat /\ 1 \in 1..Len(h) + 1
  OBVIOUS
<1>2. ASSUME 1 <= Len(h), IsTool(h, 1) PROVE FALSE
  <2>1. 1 \in 1..Len(h) /\ 1..1 - 1 = {}
    BY <1>1, <1>2
  <2> QED BY <1>2, <2>1 DEF Ordered
<1> QED BY <1>1, <1>2 DEF Starts

\* A history without gaps stays as it is.
LEMMA RepairedWhole ==
  ASSUME NEW h \in Seq(Message), Ordered(h),
         \A i \in 1..Len(h) : IsReply(h, i) => Whole(h, i)
  PROVE Repaired(h) = h
<1> DEFINE L == Len(h)
<1>1. PICK f : Solution(h, f) /\ Repaired(h) = f[1]
  BY RepairRecurs
<1>2. L \in Nat /\ L + 1 \in 1..L + 1 /\ L + 1 - 1 = L /\ 1 \in 1..L + 1
  OBVIOUS
<1>3. f[L + 1] = <<>>
  BY <1>1, <1>2 DEF Body, Solution
<1>4. Starts(h, L + 1) /\ Starts(h, 1)
  BY <1>2, FirstStarts DEF Starts
<1>5. f[1] = SubSeq(h, 1, L) \o <<>>
  <2>1. <<>> \in Seq(Message)
    OBVIOUS
  <2>2. PICK e : e = L + 1
    OBVIOUS
  <2>3. /\ e \in 1..Len(h) + 1 /\ Starts(h, e) /\ f[e] \in Seq(Message) /\ e - 1 = L
        /\ \A i \in 1..e - 1 : IsReply(h, i) => Whole(h, i)
    <3>1. e - 1 = L /\ e \in 1..Len(h) + 1
      BY <1>2, <2>2
    <3>2. Starts(h, e) /\ f[e] \in Seq(Message)
      BY <1>3, <1>4, <2>1, <2>2
    <3>3. \A i \in 1..e - 1 : IsReply(h, i) => Whole(h, i)
      BY <3>1
    <3> QED BY <3>1, <3>2, <3>3
  <2>4. \A i \in 1..e : Starts(h, i) => f[i] = SubSeq(h, i, e - 1) \o f[e]
    <3> HIDE DEF L
    <3> QED BY <2>3, <1>1, RepairCopies
  <2>5. f[1] = SubSeq(h, 1, e - 1) \o f[e]
    <3>1. 1 \in 1..e
      BY <1>2, <2>2
    <3> QED BY <1>4, <2>4, <3>1
  <2>6. f[e] = <<>>
    BY <1>3, <2>2
  <2> QED BY <2>3, <2>5, <2>6
<1>6. SubSeq(h, 1, L) = h
  BY SubSeqFull
<1> QED BY <1>1, <1>5, <1>6, ConcatEmptySeq

\* Behind the results of the last reply there are only messages of the user.
LEMMA BehindTheGap ==
  ASSUME NEW h \in Seq(Message), Formed(h), NEW p \in 1..Len(h), IsReply(h, p), ~Whole(h, p)
  PROVE \A i \in p + Answers(h, p) + 1..Len(h) : ~IsReply(h, i) /\ ~IsTool(h, i)
<1> DEFINE n == Answers(h, p)
<1>1. /\ n \in 0..Len(h) - p /\ Len(h) \in Nat
      /\ p + n < Len(h) => ~IsTool(h, p + n + 1)
  BY AnswersAre
<1> HIDE DEF n
<1>2. ASSUME NEW i \in p + n + 1..Len(h) PROVE ~IsReply(h, i) /\ ~IsTool(h, i)
  <2>1. i \in 1..Len(h) /\ p < i
    BY <1>1
  <2>2. \A j \in 1..Len(h) : p < j => ~IsReply(h, j)
    BY DEF Formed, Mostly
  <2>3. ASSUME IsTool(h, i) PROVE FALSE
    <3>1. PICK j \in 1..i - 1 : IsReply(h, j) /\ \A k \in j + 1..i : IsTool(h, k)
      BY <2>1, <2>3 DEF Formed, Ordered
    <3>2. j \in 1..Len(h) /\ ~(p < j)
      BY <2>1, <2>2, <3>1
    <3>3. p + n + 1 \in j + 1..i /\ p + n < Len(h)
      BY <1>1, <2>1, <3>2
    <3> QED BY <1>1, <3>1, <3>3
  <2> QED BY <2>1, <2>2, <2>3
<1> QED BY <1>2 DEF n

\* A history whose last reply lacks results gets these, behind those that are there.
LEMMA RepairedOpen ==
  ASSUME NEW h \in Seq(Message), Formed(h), NEW p \in 1..Len(h), IsReply(h, p), ~Whole(h, p)
  PROVE LET g == Repaired(h)
            q == p + Answers(h, p)
            d == Len(h[p].calls) - Answers(h, p)
        IN /\ g \in Seq(Message) /\ Len(g) = Len(h) + d /\ d \in Nat \ {0}
           /\ \A i \in 1..q : g[i] = h[i]
           /\ \A k \in 1..d : g[q + k] = Interrupted(h, p, Answers(h, p) + k)
           /\ \A i \in q + 1..Len(h) : g[i + d] = h[i]
<1> DEFINE L == Len(h)
           n == Answers(h, p)
           q == p + n
           d == Len(h[p].calls) - n
           M == Missing(h, p)
<1>1. PICK f : Solution(h, f) /\ Repaired(h) = f[1]
  BY RepairRecurs
<1>2. Ordered(h)
  BY DEF Formed
<1>3. /\ L \in Nat /\ n \in 0..L - p /\ q \in p..L /\ d \in Nat \ {0}
      /\ L = Len(h) /\ q = p + n /\ q + 1 \in 1..L + 1
  <2>1. L \in Nat /\ n \in 0..L - p
    BY AnswersAre
  <2>2. n \in 0..Len(h[p].calls) /\ n # Len(h[p].calls)
    BY <1>2, AnswersAreOwn
  <2>3. Len(h[p].calls) \in Nat
    BY CallsDiffer
  <2>4. d \in Nat \ {0}
    BY <2>2, <2>3
  <2>5. q \in p..L /\ q + 1 \in 1..L + 1
    <3> HIDE DEF L, n
    <3> QED BY <2>1
  <2> QED BY <2>1, <2>4, <2>5
<1>4. \A i \in q + 1..L : ~IsReply(h, i) /\ ~IsTool(h, i)
  BY BehindTheGap
<1>5. /\ M \in Seq(Message) /\ Len(M) = d
      /\ \A k \in 1..d : M[k] = Interrupted(h, p, n + k)
  BY <1>2, MissingAre
<1> HIDE DEF n, M, q, d, L
<1>6. f[q + 1] = SubSeq(h, q + 1, L)
  <2>1. f[L + 1] = <<>>
    <3>1. L + 1 \in 1..L + 1 /\ L + 1 > L
      BY <1>3
    <3> QED BY <1>1, <1>3, <3>1 DEF Body, Solution, L
  <2>2. \A i \in q + 1..L + 1 : f[i] = SubSeq(h, i, L)
    \* the messages of the user are copied one by one, from the end
    <3> DEFINE T == {k \in 0..L - q : f[L + 1 - k] # SubSeq(h, L + 1 - k, L)}
    <3>1. T = {}
      <4> SUFFICES ASSUME T # {} PROVE FALSE
        OBVIOUS
      <4>1. PICK k \in T : \A m \in T : ~(m < k)
        <5>1. T \in SUBSET Nat
          BY <1>3
        <5> HIDE DEF T
        <5> QED BY <5>1, Least
      <4>2. k # 0
        <5>1. L + 1 - 0 = L + 1 /\ SubSeq(h, L + 1, L) = <<>>
          BY <1>3, SubSeqEmpty
        <5> QED BY <2>1, <4>1, <5>1
      <4> DEFINE i == L + 1 - k
      <4>3. i \in 1..L /\ i \in q + 1..L /\ i + 1 = L + 1 - (k - 1) /\ k - 1 \in 0..L - q
            /\ k - 1 < k /\ i \in 1..L + 1 /\ ~(i > L)
        BY <1>3, <4>2, SMTT(40)
      <4>4. k - 1 \notin T
        <5> HIDE DEF T
        <5> QED BY <4>1, <4>3
      <4>5. f[i + 1] = SubSeq(h, i + 1, L)
        BY <4>3, <4>4
      <4>6. f[i] = Body(h, f, i)
        BY <1>1, <1>3, <4>3 DEF Solution
      <4>7. f[i] = <<h[i]>> \o f[i + 1]
        BY <1>4, <4>3, <4>6 DEF Body, IsReply, L
      <4>8. SubSeq(h, i, L) = <<h[i]>> \o SubSeq(h, i + 1, L)
        <5>1. L \in i..L
          BY <4>3, <1>3
        <5> QED BY <4>3, <5>1, SubSeqRecursiveFirst DEF L
      <4> QED BY <4>1, <4>5, <4>7, <4>8
    <3>2. ASSUME NEW i \in q + 1..L + 1 PROVE f[i] = SubSeq(h, i, L)
      <4>1. L + 1 - i \in 0..L - q /\ L + 1 - (L + 1 - i) = i
        BY <1>3
      <4> QED BY <3>1, <4>1
    <3> QED BY <3>2
  <2>3. q + 1 \in q + 1..L + 1
    BY <1>3
  <2> QED BY <2>2, <2>3
<1>7. f[p] = SubSeq(h, p, q) \o M \o SubSeq(h, q + 1, L)
  <2>1. p \in 1..L + 1 /\ ~(p > L) /\ p + n + 1 = q + 1
    BY <1>3
  <2>2. f[p] = Body(h, f, p)
    BY <1>1, <1>3, <2>1 DEF Solution
  <2>3. f[p] = SubSeq(h, p, p + n) \o M \o f[p + n + 1]
    BY <1>3, <2>1, <2>2 DEF Body, IsReply, n, M, L
  <2> QED BY <1>3, <1>6, <2>1, <2>3
<1>8. /\ SubSeq(h, p, q) \in Seq(Message) /\ SubSeq(h, q + 1, L) \in Seq(Message)
      /\ SubSeq(h, 1, p - 1) \in Seq(Message) /\ SubSeq(h, 1, q) \in Seq(Message)
      /\ Len(SubSeq(h, 1, q)) = q /\ Len(SubSeq(h, q + 1, L)) = L - q
      /\ \A i \in 1..q : SubSeq(h, 1, q)[i] = h[i]
      /\ \A i \in 1..L - q : SubSeq(h, q + 1, L)[i] = h[q + i]
  <2>1. /\ \A i \in p..q : h[i] \in Message
        /\ \A i \in q + 1..L : h[i] \in Message
        /\ \A i \in 1..p - 1 : h[i] \in Message
        /\ \A i \in 1..q : h[i] \in Message
    BY <1>3
  <2>2. SubSeq(h, p, q) \in Seq(Message) /\ SubSeq(h, 1, p - 1) \in Seq(Message)
    BY <1>3, <2>1, SubSeqProperties
  <2>3. /\ SubSeq(h, 1, q) \in Seq(Message) /\ Len(SubSeq(h, 1, q)) = q
        /\ \A i \in 1..q : SubSeq(h, 1, q)[i] = h[i]
    <3>1. 1 <= q /\ q - 1 + 1 = q /\ \A i \in 1..q : 1 + i - 1 = i
      BY <1>3
    <3> QED BY <1>3, <2>1, <3>1, SubSeqProperties
  <2>4. /\ SubSeq(h, q + 1, L) \in Seq(Message) /\ Len(SubSeq(h, q + 1, L)) = L - q
        /\ \A i \in 1..L - q : SubSeq(h, q + 1, L)[i] = h[q + i]
    <3>1. /\ (IF q + 1 <= L THEN L - (q + 1) + 1 ELSE 0) = L - q
          /\ L - (q + 1) + 1 = L - q /\ \A i \in 1..L - q : q + 1 + i - 1 = q + i
      BY <1>3
    <3> QED BY <1>3, <2>1, <3>1, SubSeqProperties
  <2> QED BY <2>2, <2>3, <2>4
<1>9. f[1] = SubSeq(h, 1, p - 1) \o f[p]
  <2>1. Starts(h, p) /\ p \in 1..L + 1 /\ 1 \in 1..p
    BY <1>3 DEF Starts, IsReply, IsTool
  <2>2. f[p] \in Seq(Message)
    <3>1. SubSeq(h, p, q) \o M \in Seq(Message)
      BY <1>5, <1>8, ConcatIs
    <3> QED BY <1>7, <1>8, <3>1, ConcatIs
  <2>3. \A i \in 1..p - 1 : IsReply(h, i) => Whole(h, i)
    BY <1>3 DEF Formed, Mostly
  <2>4. \A i \in 1..p : Starts(h, i) => f[i] = SubSeq(h, i, p - 1) \o f[p]
    <3>1. p \in 1..Len(h) + 1
      BY <1>3, <2>1
    <3> QED BY <3>1, <1>1, <1>2, <2>1, <2>2, <2>3, RepairCopies, Zenon
  <2> QED BY <1>2, <2>1, <2>4, FirstStarts
<1>10. Repaired(h) = SubSeq(h, 1, q) \o (M \o SubSeq(h, q + 1, L))
  <2> DEFINE A == SubSeq(h, 1, p - 1)
             B == SubSeq(h, p, q)
             C == SubSeq(h, q + 1, L)
  <2>1. A \o B = SubSeq(h, 1, q)
    <3>1. 1 \in 1..L + 1 /\ p - 1 \in 1 - 1..L /\ q \in p - 1..L /\ p - 1 + 1 = p
      BY <1>3
    <3> QED BY <3>1, ConcatAdjacentSubSeq
  <2>2. A \in Seq(Message) /\ B \in Seq(Message) /\ C \in Seq(Message) /\ M \o C \in Seq(Message)
    BY <1>5, <1>8, ConcatIs
  <2>3. Repaired(h) = A \o ((B \o M) \o C)
    BY <1>1, <1>7, <1>9
  <2> HIDE DEF A, B, C
  <2>4. M \in Seq(Message)
    BY <1>5
  <2>5. A \o ((B \o M) \o C) = (A \o B) \o (M \o C)
    <3>1. \A b, m, c \in Seq(Message) : A \o ((b \o m) \o c) = (A \o b) \o (m \o c)
      BY <2>2, ConcatsRegroup, Zenon
    <3>2. \A m, c \in Seq(Message) : A \o ((B \o m) \o c) = (A \o B) \o (m \o c)
      BY <2>2, <3>1, Zenon
    <3> QED BY <2>2, <2>4, <3>2, Zenon
  <2>6. Repaired(h) = (A \o B) \o (M \o C)
    BY <2>3, <2>5
  <2> QED BY <2>1, <2>6 DEF C
<1> DEFINE C == SubSeq(h, q + 1, L)
           g == Repaired(h)
<1>11. /\ M \o C \in Seq(Message) /\ Len(M \o C) = d + (L - q)
       /\ \A i \in 1..d : (M \o C)[i] = M[i]
       /\ \A i \in q + 1..L : (M \o C)[i + d - q] = h[i]
  <2>1. C \in Seq(Message) /\ Len(C) = L - q /\ \A i \in 1..L - q : C[i] = h[q + i]
    BY <1>8
  <2> HIDE DEF C
  <2>2. /\ M \o C \in Seq(Message) /\ Len(M \o C) = d + (L - q)
        /\ \A i \in 1..d + (L - q) : (M \o C)[i] = IF i <= d THEN M[i] ELSE C[i - d]
    <3>1. /\ M \o C \in Seq(Message) /\ Len(M \o C) = Len(M) + Len(C)
          /\ \A i \in 1..Len(M) + Len(C) :
                 (M \o C)[i] = IF i <= Len(M) THEN M[i] ELSE C[i - Len(M)]
      BY <1>5, <2>1, ConcatIs
    <3> QED BY <1>5, <2>1, <3>1
  <2>3. \A i \in 1..d : i \in 1..d + (L - q) /\ i <= d
    BY <1>3
  <2>4. \A i \in q + 1..L : /\ i + d - q \in 1..d + (L - q) /\ ~(i + d - q <= d)
                            /\ i + d - q - d \in 1..L - q /\ q + (i + d - q - d) = i
    BY <1>3
  <2>5. \A i \in 1..d : (M \o C)[i] = M[i]
    BY <2>2, <2>3
  <2>6. ASSUME NEW i \in q + 1..L PROVE (M \o C)[i + d - q] = h[i]
    <3>1. i + d - q \in 1..d + (L - q) /\ ~(i + d - q <= d)
      BY <2>4
    <3>4. PICK j \in Int : j = i + d - q
      BY <1>3
    <3>2. j \in 1..d + (L - q) /\ ~(j <= d)
      BY <3>1, <3>4
    <3>3. (M \o C)[j] = C[j - d]
      BY <2>2, <3>2
    <3> QED BY <1>3, <2>1, <2>4, <3>4, <3>3
  <2> QED BY <2>2, <2>5, <2>6
<1>12. /\ g \in Seq(Message) /\ Len(g) = q + (d + (L - q))
       /\ \A i \in 1..q + (d + (L - q)) : g[i] = IF i <= q THEN SubSeq(h, 1, q)[i]
                                                 ELSE (M \o C)[i - q]
  <2>1. SubSeq(h, 1, q) \in Seq(Message) /\ Len(SubSeq(h, 1, q)) = q
    BY <1>8
  <2>2. g = SubSeq(h, 1, q) \o (M \o C)
    BY <1>10
  <2> HIDE DEF C, g
  <2>3. /\ SubSeq(h, 1, q) \o (M \o C) \in Seq(Message)
        /\ Len(SubSeq(h, 1, q) \o (M \o C)) = Len(SubSeq(h, 1, q)) + Len(M \o C)
        /\ \A i \in 1..Len(SubSeq(h, 1, q)) + Len(M \o C) :
               (SubSeq(h, 1, q) \o (M \o C))[i] =
                   IF i <= Len(SubSeq(h, 1, q)) THEN SubSeq(h, 1, q)[i]
                   ELSE (M \o C)[i - Len(SubSeq(h, 1, q))]
    BY <1>11, <2>1, ConcatIs
  <2> QED BY <1>11, <2>1, <2>2, <2>3
<1>13. q + (d + (L - q)) = L + d
  BY <1>3
<1>14. /\ \A i \in 1..q : i \in 1..q + (d + (L - q)) /\ i <= q
       /\ \A k \in 1..d : q + k \in 1..q + (d + (L - q)) /\ ~(q + k <= q) /\ q + k - q = k
       /\ \A i \in q + 1..L : i + d \in 1..q + (d + (L - q)) /\ ~(i + d <= q)
  BY <1>3
<1>15. \A i \in 1..q : g[i] = h[i]
  <2> HIDE DEF C, g
  <2> QED BY <1>8, <1>12, <1>14
<1>16. \A k \in 1..d : g[q + k] = Interrupted(h, p, n + k)
  <2> HIDE DEF C, g
  <2> SUFFICES ASSUME NEW k \in 1..d PROVE g[q + k] = Interrupted(h, p, n + k)
    OBVIOUS
  <2>1. g[q + k] = (M \o C)[q + k - q]
    <3>1. q + k \in 1..q + (d + (L - q)) /\ ~(q + k <= q)
      BY <1>14
    <3>4. PICK j \in Int : j = q + k
      BY <1>3
    <3>2. j \in 1..q + (d + (L - q)) /\ ~(j <= q)
      BY <3>1, <3>4
    <3>3. g[j] = (M \o C)[j - q]
      BY <1>12, <3>2
    <3>5. j - q = q + k - q /\ j = q + k
      BY <1>3, <3>4
    <3> QED BY <3>3, <3>5
  <2> QED BY <1>5, <1>11, <1>14, <2>1
<1>17. \A i \in q + 1..L : g[i + d] = h[i]
  <2> HIDE DEF C, g
  <2> SUFFICES ASSUME NEW i \in q + 1..L PROVE g[i + d] = h[i]
    OBVIOUS
  <2>1. g[i + d] = (M \o C)[i + d - q]
    <3>1. i + d \in 1..q + (d + (L - q)) /\ ~(i + d <= q)
      BY <1>14
    <3>4. PICK j \in Int : j = i + d
      BY <1>3
    <3>2. j \in 1..q + (d + (L - q)) /\ ~(j <= q)
      BY <3>1, <3>4
    <3>3. g[j] = (M \o C)[j - q]
      BY <1>12, <3>2
    <3>5. j - q = i + d - q /\ j = i + d
      BY <1>3, <3>4
    <3> QED BY <3>3, <3>5
  <2> QED BY <1>11, <2>1
<1> QED BY <1>3, <1>12, <1>13, <1>15, <1>16, <1>17 DEF n, q, d, L

-----------------------------------------------------------------------------
(* Types                                                                    *)

\* The parts of a state.
LEMMA StateIs ==
  ASSUME NEW s \in State
  PROVE /\ s.msgs \in Seq(Message) /\ s.subs \in [Runs -> [Calls -> Status]]
        /\ s.todos \in [run : 0..MaxRuns, call : Calls \cup {NoCall}, open : BOOLEAN]
  BY DEF State

\* A state with another history is one.
LEMMA WithMsgs ==
  ASSUME NEW s \in State, NEW h \in Seq(Message)
  PROVE /\ [s EXCEPT !.msgs = h] \in State
        /\ [s EXCEPT !.msgs = h].msgs = h
        /\ [s EXCEPT !.msgs = h].subs = s.subs
        /\ [s EXCEPT !.msgs = h].todos = s.todos
  BY DEF State

\* A state with another status of one task is one.
LEMMA WithStatus ==
  ASSUME NEW s \in State, NEW r \in Runs, NEW c \in Calls, NEW st \in Status
  PROVE LET n == [s EXCEPT !.subs[r][c] = st] IN
        /\ n \in State /\ n.msgs = s.msgs /\ n.todos = s.todos
        /\ \A q \in Runs, d \in Calls :
               n.subs[q][d] = IF q = r /\ d = c THEN st ELSE s.subs[q][d]
<1> DEFINE n == [s EXCEPT !.subs[r][c] = st]
<1>1. n.msgs = s.msgs /\ n.todos = s.todos
  BY DEF State
<1>2. n.subs = [s.subs EXCEPT ![r][c] = st]
  BY DEF State
<1>3. s.subs \in [Runs -> [Calls -> Status]]
  BY StateIs
<1>4. n.subs \in [Runs -> [Calls -> Status]]
  BY <1>2, <1>3
<1>5. n \in State
  <2>1. n = [msgs |-> s.msgs, subs |-> n.subs, todos |-> s.todos]
    BY SMTT(40) DEF State
  <2> HIDE DEF n
  <2> QED BY <1>4, <2>1, StateIs DEF State
<1>6. \A q \in Runs, d \in Calls : n.subs[q][d] = IF q = r /\ d = c THEN st ELSE s.subs[q][d]
  <2> HIDE DEF n
  <2> QED BY <1>2, <1>3
<1> QED BY <1>1, <1>5, <1>6

\* The memory with another status of the task of a call.
LEMMA SnapshotIs ==
  ASSUME mem \in State, run \in Runs, NEW c \in Calls, NEW st \in Status
  PROVE /\ Snapshot(c, st) \in State
        /\ Snapshot(c, st).msgs = mem.msgs /\ Snapshot(c, st).todos = mem.todos
        /\ \A q \in Runs, d \in Calls :
               Snapshot(c, st).subs[q][d] = IF q = run /\ d = c THEN st ELSE mem.subs[q][d]
  BY WithStatus DEF Snapshot

\* A message at the end of a history.
LEMMA AppendIs ==
  ASSUME NEW h \in Seq(Message), NEW m \in Message
  PROVE /\ Append(h, m) \in Seq(Message) /\ Len(Append(h, m)) = Len(h) + 1
        /\ Append(h, m)[Len(h) + 1] = m
        /\ \A i \in 1..Len(h) : Append(h, m)[i] = h[i]
  OBVIOUS

\* The messages of the loop are messages.
LEMMA MessagesAre ==
  /\ run + 1 \in Runs => User \in Message
  /\ run \in Runs => \A r \in Replies : Assistant(r) \in Message
  /\ run \in Runs => \A c \in Calls, text \in Text : Result(c, text) \in Message
  BY DEF User, Assistant, Result, Message, Text

\* A fresh state.
LEMMA FreshIs == Fresh \in State
<1>1. NoTodos \in [run : 0..MaxRuns, call : Calls \cup {NoCall}, open : BOOLEAN]
  BY AgentAssumption DEF NoTodos
<1>2. [r \in Runs |-> [c \in Calls |-> "none"]] \in [Runs -> [Calls -> Status]]
  BY DEF Status
<1> QED BY <1>1, <1>2 DEF Fresh, State

\* The current Run has a number as long as it is not over.
LEMMA RunIs == TypeOK /\ Running /\ at # "idle" => run \in Runs /\ mem \in State /\ disk \in State
  BY DEF TypeOK, Running

\* The parts of the type of a state.
SavedOK == mem \in State /\ disk \in State
LoopOK ==
    /\ at \in {"idle", "repair", "model", "reply", "tools", "abort", "announce", "success", "end"}
    /\ cancel \in BOOLEAN /\ error \in {"none", "cancel", "failed"}
    /\ lock \in Calls \cup {NoCall}
NumbersOK ==
    run \in 0..MaxRuns /\ round \in 0..MaxToolRounds + 1 /\ reminded \in 0..MaxReminders
CountsOK == behind \in BOOLEAN /\ clean \in BOOLEAN /\ used \in 0..MaxTrouble
Batches == [calls : Replies \cup {<<>>}, phase : {"next", "act", "commit", "group", "commits"},
            group : SUBSET Calls, out : [Calls -> Text], started : SUBSET Calls,
            appended : Nat]
Workers == [at : {"none", "new", "admit", "admitting", "queue", "save", "saving", "work", "gone"},
            goal : Status, cancel : BOOLEAN, permit : BOOLEAN, shot : State]
BatchOK == batch \in Batches
WorkersOK == worker \in [Calls -> Workers]
PastOK == acted \subseteq Nat \X Calls /\ children \in [Runs -> [Calls -> Nat]]

\* The type of the variables, part by part.
LEMMA TypeParts ==
  TypeOK <=>
      SavedOK /\ LoopOK /\ NumbersOK /\ CountsOK /\ BatchOK /\ WorkersOK /\ PastOK
  BY DEF TypeOK, SavedOK, LoopOK, NumbersOK, CountsOK, Batches, Workers, BatchOK, WorkersOK,
            PastOK

\* What a save does, whether it succeeds or not.
Saves(s) == SaveOk(s) \/ SaveFails(s) \/ NoSave

LEMMA SaveIs ==
  ASSUME CountsOK, NEW s, Saves(s)
  PROVE /\ disk' = disk \/ (~behind /\ disk' = s)
        /\ (behind => behind') /\ (clean' => clean) /\ CountsOK'
<1>1. /\ disk' = disk \/ (~behind /\ disk' = s)
      /\ (behind => behind') /\ (clean' => clean)
      /\ behind' \in BOOLEAN /\ clean' \in BOOLEAN
  <2>1. CASE SaveOk(s)
    BY <2>1 DEF SaveOk, CountsOK
  <2>2. CASE SaveFails(s)
    BY <2>2 DEF SaveFails, CountsOK
  <2>3. CASE NoSave
    BY <2>3 DEF NoSave, CountsOK
  <2> QED BY <2>1, <2>2, <2>3 DEF Saves
<1>2. used' = used \/ (used < MaxTrouble /\ used' = used + 1)
  BY DEF Saves, SaveOk, SaveFails, NoSave, Trouble
<1>3. used' \in 0..MaxTrouble
  BY <1>2, AgentAssumption DEF CountsOK
<1> QED BY <1>1, <1>3 DEF CountsOK

-----------------------------------------------------------------------------
(* Types: step by step                                                      *)

\* The steps of the Run itself, but its start, and those of its workers.
Main == Parent \/ Cancel \/ Crash

\* What is not a stutter is the start of a Run, a step of it or of a worker.
LEMMA NextIs ==
  [Next]_vars => StartRun \/ Main \/ (\E c \in TaskCalls : Worker(c)) \/ UNCHANGED vars
  BY DEF Next, Main, Done

\* What the steps of the Run may save: the state it then has in memory.
LEMMA SavesAre ==
  ASSUME Parent
  PROVE Saves(mem') \/ Saves(mem) \/ \E list : Saves([mem EXCEPT !.todos = list])
<1>1. CASE Repair
  BY <1>1 DEF Repair, Saves
<1>2. CASE Reply
  BY <1>2 DEF Reply, history, Saves, NoSave
<1>3. CASE NoReply
  BY <1>3 DEF NoReply, stateVars, history, Saves, NoSave
<1>4. CASE SaveReply
  BY <1>4 DEF SaveReply, Saves
<1>5. CASE EndRun
  BY <1>5 DEF EndRun, Saves
<1>6. CASE StartTool
  BY <1>6 DEF StartTool, stateVars, history, Saves, NoSave
<1>7. CASE Act
  BY <1>7 DEF Act, stateVars, Saves, NoSave
<1>8. CASE WriteTodos
  BY <1>8 DEF WriteTodos, Saves
<1>9. CASE CommitOne
  BY <1>9 DEF CommitOne, Commit, Saves
<1>10. CASE CommitTask
  BY <1>10 DEF CommitTask, Commit, Saves
<1>11. CASE Announce
  BY <1>11 DEF Announce, stateVars, history, Saves, NoSave
<1>12. CASE OpenGroup
  BY <1>12 DEF OpenGroup, stateVars, history, Saves, NoSave
<1>13. CASE CloseGroup
  BY <1>13 DEF CloseGroup, stateVars, history, Saves, NoSave
<1>14. CASE FinishAborted
  BY <1>14 DEF FinishAborted, Saves
<1> QED BY <1>1, <1>2, <1>3, <1>4, <1>5, <1>6, <1>7, <1>8, <1>9, <1>10, <1>11, <1>12, <1>13,
    <1>14 DEF Parent

\* And what a worker may save is its snapshot.
LEMMA SavesAreShots ==
  ASSUME NEW c \in TaskCalls, Worker(c)
  PROVE Saves(worker[c].shot) /\ (disk' # disk => worker[c].at \in {"admitting", "saving"})
<1>1. CASE Begin(c)
  BY <1>1 DEF Begin, Saves, NoSave, stateVars, history
<1>2. CASE AdmitKnown(c)
  BY <1>2 DEF AdmitKnown, Saves, NoSave, stateVars, history
<1>3. CASE AdmitRefused(c)
  BY <1>3 DEF AdmitRefused, Saves, NoSave, stateVars, history
<1>4. CASE AdmitNew(c)
  BY <1>4 DEF AdmitNew, Saves, NoSave, stateVars, history
<1>5. CASE Admitted(c)
  BY <1>5 DEF Admitted, Saves
<1>6. CASE Enter(c)
  BY <1>6 DEF Enter, Saves, NoSave, stateVars, history
<1>7. CASE LeaveQueue(c)
  BY <1>7 DEF LeaveQueue, Saves, NoSave, stateVars, history
<1>8. CASE SaveBegin(c)
  BY <1>8 DEF SaveBegin, Saves, NoSave, stateVars, history
<1>9. CASE SaveEnd(c)
  BY <1>9 DEF SaveEnd, Saves
<1>10. CASE Work(c)
  BY <1>10 DEF Work, Saves, NoSave, stateVars, history
<1>11. CASE ChildSaves(c)
  BY <1>11 DEF ChildSaves, Saves, NoSave, stateVars, history
<1>12. CASE StopWork(c)
  BY <1>12 DEF StopWork, Saves, NoSave, stateVars, history
<1> QED BY <1>1, <1>2, <1>3, <1>4, <1>5, <1>6, <1>7, <1>8, <1>9, <1>10, <1>11, <1>12 DEF Worker

\* The counters and flags of the saves keep their types.
LEMMA CountsStep == ASSUME CountsOK, [Next]_vars PROVE CountsOK'
<1>1. CASE StartRun
  BY <1>1 DEF StartRun, CountsOK
<1>2. CASE Parent
  BY <1>2, SavesAre, SaveIs
<1>3. CASE Cancel \/ Crash
  <2>1. behind' \in BOOLEAN /\ clean' \in BOOLEAN
    BY <1>3 DEF Cancel, Crash, CountsOK, stateVars, history
  <2>2. used < MaxTrouble /\ used' = used + 1
    BY <1>3 DEF Cancel, Crash, Trouble
  <2>3. used' \in 0..MaxTrouble
    BY <2>2, AgentAssumption DEF CountsOK
  <2> QED BY <2>1, <2>3 DEF CountsOK
<1>4. ASSUME NEW c \in TaskCalls, Worker(c) PROVE CountsOK'
  BY <1>4, SavesAreShots, SaveIs
<1>5. CASE UNCHANGED vars
  BY <1>5 DEF vars, stateVars, history, CountsOK
<1> QED BY <1>1, <1>2, <1>3, <1>4, <1>5, NextIs DEF Main

\* The variables of the loop keep their types.
LEMMA LoopStep ==
  ASSUME LoopOK, [Next]_vars PROVE LoopOK'
<1>1. CASE StartRun
  BY <1>1, AgentAssumption DEF StartRun, toolVars, LoopOK
<1>2. CASE Repair
  BY <1>2, AgentAssumption DEF Repair, Goto, Taken, Failing, toolVars, LoopOK
<1>3. CASE Reply
  BY <1>3, AgentAssumption DEF Reply, toolVars, history, LoopOK
<1>4. CASE NoReply
  BY <1>4, AgentAssumption DEF NoReply, Taken, Failing, stateVars, toolVars, history, LoopOK
<1>5. CASE SaveReply
  BY <1>5, AgentAssumption DEF SaveReply, Goto, Taken, Failing, LoopOK
<1>6. CASE EndRun
  BY <1>6, AgentAssumption DEF EndRun, Goto, Taken, Failing, toolVars, LoopOK
<1>7. CASE StartTool
  BY <1>7, AgentAssumption DEF StartTool, Taken, Abort, stateVars, history, LoopOK
<1>8. CASE Act
  BY <1>8, AgentAssumption DEF Act, Taken, Abort, Returns, Acts, stateVars, LoopOK
<1>9. CASE WriteTodos
  BY <1>9, AgentAssumption DEF WriteTodos, Taken, Abort, Returns, Acts, LoopOK
<1>10. CASE CommitOne
  BY <1>10, AgentAssumption DEF CommitOne, Commit, Taken, Abort, LoopOK
<1>11. CASE CommitTask
  BY <1>11, AgentAssumption DEF CommitTask, Commit, Taken, Abort, LoopOK
<1>12. CASE Announce
  BY <1>12, AgentAssumption DEF Announce, Taken, Abort, stateVars, history, LoopOK
<1>13. CASE OpenGroup
  BY <1>13, AgentAssumption DEF OpenGroup, Taken, Abort, stateVars, history, LoopOK
<1>14. CASE CloseGroup
  BY <1>14, AgentAssumption DEF CloseGroup, Taken, Abort, stateVars, history, LoopOK
<1>15. CASE FinishAborted
  BY <1>15, AgentAssumption DEF FinishAborted, Taken, Failing, LoopOK
<1>16. CASE Cancel
  BY <1>16, AgentAssumption DEF Cancel, stateVars, loopVars, history, LoopOK
<1>17. CASE Crash
  BY <1>17, AgentAssumption DEF Crash, LoopOK
<1>18. ASSUME NEW c \in TaskCalls, Worker(c) PROVE LoopOK'
  <2>0. c \in Calls
    BY AgentAssumption
  <2>1. CASE Begin(c)
    BY <2>1, <2>0 DEF Begin, Leaves, Move, rest, stateVars, history, InGroup, LoopOK
  <2>2. CASE AdmitKnown(c)
    BY <2>2, <2>0 DEF AdmitKnown, Answer, Leaves, rest, ToQueue, stateVars, history, InGroup,
        Move, LoopOK
  <2>3. CASE AdmitRefused(c)
    BY <2>3, <2>0 DEF AdmitRefused, Answer, Leaves, rest, stateVars, history, InGroup, LoopOK
  <2>4. CASE AdmitNew(c)
    BY <2>4, <2>0 DEF AdmitNew, rest, stateVars, history, InGroup, LoopOK
  <2>5. CASE Admitted(c)
    BY <2>5, <2>0 DEF Admitted, Breaks, rest, Keep, ToQueue, InGroup, Leaves, Move, LoopOK
  <2>6. CASE Enter(c)
    BY <2>6, <2>0 DEF Enter, Answer, Leaves, rest, stateVars, history, InGroup, LoopOK
  <2>7. CASE LeaveQueue(c)
    BY <2>7, <2>0 DEF LeaveQueue, rest, ToQueue, stateVars, history, InGroup, Leaves, Move,
        LoopOK
  <2>8. CASE SaveBegin(c)
    BY <2>8, <2>0 DEF SaveBegin, rest, stateVars, history, InGroup, LoopOK
  <2>9. CASE SaveEnd(c)
    BY <2>9, <2>0 DEF SaveEnd, Breaks, rest, Keep, AfterSave, InGroup, Answer, Leaves, LoopOK
  <2>10. CASE Work(c)
    BY <2>10, <2>0 DEF Work, rest, stateVars, InGroup, LoopOK
  <2>11. CASE ChildSaves(c)
    BY <2>11, <2>0 DEF ChildSaves, rest, stateVars, InGroup, LoopOK
  <2>12. CASE StopWork(c)
    BY <2>12, <2>0 DEF StopWork, rest, stateVars, InGroup, LoopOK
  <2> QED BY <1>18, <2>1, <2>2, <2>3, <2>4, <2>5, <2>6, <2>7, <2>8, <2>9, <2>10, <2>11, <2>12 DEF
      Worker
<1>19. CASE UNCHANGED vars
  BY <1>19 DEF vars, loopVars, toolVars, LoopOK
<1> QED BY NextIs, <1>1, <1>2, <1>3, <1>4, <1>5, <1>6, <1>7, <1>8, <1>9, <1>10, <1>11, <1>12,
    <1>13, <1>14, <1>15, <1>16, <1>17, <1>18, <1>19 DEF Main, Parent

\* What a step of the Run does to its place and its counters.
LEMMA ParentStays ==
  ASSUME Parent
  PROVE /\ at # "idle" /\ run' = run /\ children' = children
        /\ at' # "repair" /\ (at' = "reply" => Reply) /\ (at' = "idle" => EndRun)
        /\ at' \in Asked => at \in Asked \/ Repair
        /\ round' \in {round, 1} \/ (at \in {"reply", "tools"} /\ round' = round + 1)
        /\ at' \in {"reply", "tools", "abort"} =>
               (at \in {"reply", "tools", "abort"} \/ round <= MaxToolRounds) /\ round' = round
        /\ reminded' = reminded \/ (reminded < MaxReminders /\ reminded' = reminded + 1)
<1> USE DEF Asked
<1>1. CASE Repair
  BY <1>1, Zenon DEF Repair, Goto, Failing
<1>2. CASE Reply
  BY <1>2, Zenon DEF Reply, history
<1>3. CASE NoReply
  BY <1>3, Zenon DEF NoReply, Failing, history
<1>4. CASE SaveReply
  BY <1>4, Zenon DEF SaveReply, GoesOn, Goto, Failing
<1>5. CASE EndRun
  BY <1>5, Zenon DEF EndRun, Goto, Failing
<1>6. CASE StartTool
  BY <1>6, Zenon DEF StartTool, Abort, history
<1>7. CASE Act
  BY <1>7, Zenon DEF Act, Abort
<1>8. CASE WriteTodos
  BY <1>8, Zenon DEF WriteTodos, Abort
<1>9. CASE CommitOne \/ CommitTask
  BY <1>9, Zenon DEF CommitOne, CommitTask, Commit, Abort
<1>10. CASE Announce
  BY <1>10, Zenon DEF Announce, Abort, history
<1>11. CASE OpenGroup
  BY <1>11, Zenon DEF OpenGroup, Abort, history
<1>12. CASE CloseGroup
  BY <1>12, Zenon DEF CloseGroup, Abort, history
<1>13. CASE FinishAborted
  BY <1>13, Zenon DEF FinishAborted, Failing
<1> QED BY <1>1, <1>2, <1>3, <1>4, <1>5, <1>6, <1>7, <1>8, <1>9, <1>10, <1>11, <1>12, <1>13
        DEF Parent

\* The number of the Run goes up at its start, that of the round with every turn.
LEMMA NumbersStep ==
  ASSUME NumbersOK, Running, [Next]_vars PROVE NumbersOK'
<1>1. run' = run \/ (run < MaxRuns /\ run' = run + 1)
  <2>1. CASE Parent
    BY <2>1, ParentStays
  <2>2. ASSUME NEW c \in TaskCalls, Worker(c) PROVE run' = run
    BY <2>2 DEF Worker, Begin, AdmitKnown, AdmitRefused, AdmitNew, Admitted, Enter, LeaveQueue,
         SaveBegin, SaveEnd, Work, ChildSaves, StopWork, rest
  <2> QED BY <2>1, <2>2, NextIs DEF StartRun, Main, Cancel, Crash, vars, loopVars
<1>2. \/ round' \in {round, 0, 1}
      \/ at \in {"reply", "tools"} /\ round' = round + 1
  <2>1. CASE Parent
    BY <2>1, ParentStays
  <2>2. ASSUME NEW c \in TaskCalls, Worker(c) PROVE round' = round
    BY <2>2 DEF Worker, Begin, AdmitKnown, AdmitRefused, AdmitNew, Admitted, Enter, LeaveQueue,
         SaveBegin, SaveEnd, Work, ChildSaves, StopWork, rest
  <2> QED BY <2>1, <2>2, NextIs DEF StartRun, Main, Cancel, Crash, vars, loopVars
<1>3. reminded' \in {reminded, 0} \/ (reminded < MaxReminders /\ reminded' = reminded + 1)
  <2>1. CASE Parent
    BY <2>1, ParentStays
  <2>2. ASSUME NEW c \in TaskCalls, Worker(c) PROVE reminded' = reminded
    BY <2>2 DEF Worker, Begin, AdmitKnown, AdmitRefused, AdmitNew, Admitted, Enter, LeaveQueue,
         SaveBegin, SaveEnd, Work, ChildSaves, StopWork, rest
  <2> QED BY <2>1, <2>2, NextIs DEF StartRun, Main, Cancel, Crash, vars, loopVars
<1>4. run' \in 0..MaxRuns
  BY <1>1, AgentAssumption DEF NumbersOK
<1>5. round' \in 0..MaxToolRounds + 1
  BY <1>2, AgentAssumption DEF NumbersOK, Running
<1>6. reminded' \in 0..MaxReminders
  BY <1>3, AgentAssumption DEF NumbersOK
<1> QED BY <1>4, <1>5, <1>6 DEF NumbersOK

\* The calls of the reply in hand are calls, and differ.
LEMMA BatchIs ==
  ASSUME BatchOK
  PROVE /\ batch.calls \in Seq(Calls) /\ Len(batch.calls) \in Nat /\ batch.appended \in Nat
        /\ \A j, k \in 1..Len(batch.calls) : batch.calls[j] = batch.calls[k] => j = k
        /\ \A k \in 1..Len(batch.calls) : batch.calls[k] \in Calls
        /\ batch.out \in [Calls -> Text] /\ batch.started \subseteq Calls
        /\ batch.group \subseteq Calls
<1>1. /\ batch.calls \in Replies \cup {<<>>} /\ batch.appended \in Nat
      /\ batch.out \in [Calls -> Text] /\ batch.started \subseteq Calls
      /\ batch.group \subseteq Calls
  BY DEF BatchOK, Batches
<1>2. CASE batch.calls = <<>>
  BY <1>1, <1>2
<1>3. CASE batch.calls \in Replies
  BY <1>1, <1>3, AgentAssumption
<1> QED BY <1>1, <1>2, <1>3

\* Where the position of the next call is one of the reply.
NextCall == batch.appended + 1 \in 1..Len(batch.calls)

\* The next call is a call.
LEMMA CurrentIs == ASSUME BatchOK, NextCall PROVE Current \in Calls
  BY BatchIs DEF NextCall, Current

\* A call that acts, or whose result is saved, is the next one.
LEMMA PhaseIs ==
  ASSUME BatchOK, InHand, Phased, at = "tools"
  PROVE /\ batch.appended <= Len(batch.calls)
        /\ batch.phase = "next" /\ ~AllIn => NextCall
        /\ batch.phase # "next" => NextCall
<1>1. /\ batch.appended \in Nat /\ Len(batch.calls) \in Nat
      /\ batch.phase \in {"next", "act", "commit", "group", "commits"}
  BY BatchIs DEF BatchOK, Batches
<1>2. batch.appended <= Len(batch.calls)
  BY DEF InHand
<1>3. ~AllIn => NextCall
  BY <1>1, <1>2 DEF AllIn, NextCall
<1>4. batch.phase \in {"act", "commit"} => ~AllIn
  BY DEF Phased
<1>5. batch.phase \in {"group", "commits"} => NextCall
  <2>1. batch.phase \in {"group", "commits"} => \E m \in batch.appended + 1..Len(batch.calls) : TRUE
    BY DEF Phased
  <2> QED BY <1>1, <2>1 DEF NextCall
<1> QED BY <1>1, <1>2, <1>3, <1>4, <1>5

\* The results that finish_aborted adds.
Left == LET open == SubSeq(batch.calls, batch.appended + 1, Len(batch.calls))
        IN [k \in 1..Len(open) |-> Result(open[k], Filled(open[k]))]

\* What is said of a call whose turn was broken off.
LEMMA FilledIs ==
  ASSUME BatchOK, mem \in State, run \in Runs, NEW c \in Calls PROVE Filled(c) \in Text \ {"none"}
<1>1. batch.out[c] \in Text
  BY BatchIs
<1>2. Known(c) \in {"done", "interrupted"} \cup Final
  BY DEF Known
<1> QED BY <1>1, <1>2 DEF Filled, Text, Final

\* They answer the calls that are left, in order.
LEMMA LeftIs ==
  ASSUME BatchOK, mem \in State, run \in Runs, batch.appended <= Len(batch.calls)
  PROVE /\ Left \in Seq(Message) /\ Len(Left) = Len(batch.calls) - batch.appended
        /\ \A k \in 1..Len(batch.calls) - batch.appended :
               LET c == batch.calls[batch.appended + k] IN
               c \in Calls /\ Left[k] = Result(c, Filled(c))
<1> DEFINE L == Len(batch.calls)
           a == batch.appended
           d == L - a
           open == SubSeq(batch.calls, a + 1, L)
<1>1. /\ L \in Nat /\ a \in Nat /\ d \in Nat
      /\ \A k \in 1..d : a + k \in 1..L /\ batch.calls[a + k] \in Calls
  BY BatchIs
<1>2. Len(open) = d /\ \A k \in 1..d : open[k] = batch.calls[a + k]
  <2>1. \A i \in a + 1..L : batch.calls[i] \in Calls
    BY <1>1, BatchIs
  <2>2. /\ a + 1 \in Int /\ L \in Int
        /\ (IF a + 1 <= L THEN L - (a + 1) + 1 ELSE 0) = d
        /\ L - (a + 1) + 1 = d /\ \A k \in 1..d : a + 1 + k - 1 = a + k
    BY <1>1
  <2>3. /\ Len(open) = IF a + 1 <= L THEN L - (a + 1) + 1 ELSE 0
        /\ \A k \in 1..L - (a + 1) + 1 : open[k] = batch.calls[a + 1 + k - 1]
    <3> HIDE DEF L, a
    <3> QED BY <2>1, <2>2, SubSeqProperties
  <2> HIDE DEF open, L, a, d
  <2> QED BY <2>2, <2>3
<1>3. Left = [k \in 1..Len(open) |-> Result(open[k], Filled(open[k]))]
  BY DEF Left
<1> HIDE DEF open
<1>4. ASSUME NEW k \in 1..d
      PROVE /\ batch.calls[a + k] \in Calls
            /\ Result(batch.calls[a + k], Filled(batch.calls[a + k])) \in Message
            /\ Left[k] = Result(batch.calls[a + k], Filled(batch.calls[a + k]))
  <2>1. batch.calls[a + k] \in Calls
    BY <1>1
  <2>2. Filled(batch.calls[a + k]) \in Text
    BY <2>1, FilledIs
  <2>3. Result(batch.calls[a + k], Filled(batch.calls[a + k])) \in Message
    BY <2>1, <2>2, MessagesAre
  <2>4. Left[k] = Result(open[k], Filled(open[k]))
    BY <1>2, <1>3
  <2> QED BY <1>2, <2>1, <2>3, <2>4
<1>5. Left \in [1..d -> Message]
  <2>1. Left = [k \in 1..d |-> Left[k]]
    BY <1>2, <1>3
  <2>2. \A k \in 1..d : Left[k] \in Message
    BY <1>4
  <2> HIDE DEF d
  <2> QED BY <2>1, <2>2
<1>6. Left \in Seq(Message) /\ Len(Left) = d
  BY <1>1, <1>5, SMTT(40)
<1> QED BY <1>4, <1>6

\* A repaired history is one, and the rest of the state stays.
LEMMA RepairIs ==
  ASSUME mem \in State, Formed(mem.msgs)
  PROVE LET fixed == [mem EXCEPT !.msgs = Repaired(mem.msgs)] IN
        /\ Repaired(mem.msgs) \in Seq(Message)
        /\ fixed \in State /\ fixed.msgs = Repaired(mem.msgs)
        /\ fixed.subs = mem.subs /\ fixed.todos = mem.todos
<1>1. mem.msgs \in Seq(Message)
  BY StateIs
<1>2. Repaired(mem.msgs) \in Seq(Message)
  <2>1. CASE \A i \in 1..Len(mem.msgs) : IsReply(mem.msgs, i) => Whole(mem.msgs, i)
    BY <1>1, <2>1, RepairedWhole DEF Formed
  <2>2. CASE \E p \in 1..Len(mem.msgs) : IsReply(mem.msgs, p) /\ ~Whole(mem.msgs, p)
    BY <1>1, <2>2, RepairedOpen
  <2> QED BY <2>1, <2>2
<1> QED BY <1>2, WithMsgs

\* What the commit of a result makes of the memory.
LEMMA CommitIs ==
  ASSUME BatchOK, mem \in State, run \in Runs, NextCall
  PROVE LET m == Result(Current, batch.out[Current])
            s == [mem EXCEPT !.msgs = Append(@, m)] IN
        /\ Current \in Calls /\ m \in Message
        /\ s \in State /\ s.msgs = Append(mem.msgs, m)
        /\ s.subs = mem.subs /\ s.todos = mem.todos
<1> DEFINE m == Result(Current, batch.out[Current])
<1>1. Current \in Calls /\ batch.out[Current] \in Text
  BY CurrentIs, BatchIs
<1>2. m \in Message
  BY <1>1, MessagesAre
<1>3. Append(mem.msgs, m) \in Seq(Message)
  <2> HIDE DEF m
  <2> QED BY <1>2, StateIs, AppendIs
<1> HIDE DEF m
<1>4. LET s == [mem EXCEPT !.msgs = Append(mem.msgs, m)] IN
        /\ s \in State /\ s.msgs = Append(mem.msgs, m)
        /\ s.subs = mem.subs /\ s.todos = mem.todos
  BY <1>3, WithMsgs
<1> QED BY <1>1, <1>2, <1>4 DEF m

\* What the results of an aborted turn make of it.
LEMMA AbortIs ==
  ASSUME BatchOK, mem \in State, run \in Runs, batch.appended <= Len(batch.calls)
  PROVE LET s == [mem EXCEPT !.msgs = mem.msgs \o Left] IN
        /\ s \in State /\ s.msgs = mem.msgs \o Left
        /\ s.subs = mem.subs /\ s.todos = mem.todos
<1>1. mem.msgs \o Left \in Seq(Message)
  BY LeftIs, StateIs, ConcatIs
<1> QED BY <1>1, WithMsgs

\* A new list of todos.
LEMMA TodosAre ==
  ASSUME mem \in State, run \in Runs, NEW c \in Calls, NEW open \in BOOLEAN
  PROVE LET list == [run |-> run, call |-> c, open |-> open]
            s == [mem EXCEPT !.todos = list] IN
        /\ s \in State /\ s.msgs = mem.msgs /\ s.subs = mem.subs /\ s.todos = list
<1>1. [run |-> run, call |-> c, open |-> open] \in
          [run : 0..MaxRuns, call : Calls \cup {NoCall}, open : BOOLEAN]
  BY DEF Runs
<1> QED BY <1>1 DEF State

\* What the Run's own steps make of the memory: of the tasks nothing, and of the history
\* what repair, the reply and its results add.
LEMMA MemIs ==
  ASSUME TypeOK, Running, InHand, Phased, Formed(mem.msgs), Parent
  PROVE /\ mem' \in State /\ mem'.subs = mem.subs
        /\ \/ mem'.msgs = mem.msgs /\ ~Repair /\ ~Reply /\ ~CommitOne /\ ~CommitTask
              /\ ~FinishAborted
           \/ Repair /\ mem'.msgs = Repaired(mem.msgs)
           \/ Reply /\ \E r \in Replies : mem'.msgs = Append(mem.msgs, Assistant(r))
           \/ /\ CommitOne \/ CommitTask
              /\ NextCall /\ mem'.msgs = Append(mem.msgs, Result(Current, batch.out[Current]))
           \/ FinishAborted /\ mem'.msgs = mem.msgs \o Left
<1>0. /\ SavedOK /\ BatchOK /\ mem \in State /\ at # "idle" /\ run \in Runs
  <2>1. at # "idle"
    BY ParentStays
  <2> QED BY <2>1, RunIs, TypeParts
<1>1. CASE Repair
  <2>1. mem' = [mem EXCEPT !.msgs = Repaired(mem.msgs)]
    BY <1>1 DEF Repair
  <2> QED BY <1>0, <1>1, <2>1, RepairIs
<1>2. CASE Reply
  <2>1. PICK r \in Replies : mem' = [mem EXCEPT !.msgs = Append(mem.msgs, Assistant(r))]
    BY <1>2 DEF Reply
  <2>2. Append(mem.msgs, Assistant(r)) \in Seq(Message)
    BY <1>0, MessagesAre, StateIs, AppendIs
  <2>3. mem' \in State /\ mem'.subs = mem.subs /\ mem'.msgs = Append(mem.msgs, Assistant(r))
    BY <1>0, <2>1, <2>2, WithMsgs
  <2> QED BY <1>2, <2>3
<1>3. CASE CommitOne \/ CommitTask
  <2>1. /\ mem' = [mem EXCEPT !.msgs = Append(@, Result(Current, batch.out[Current]))]
        /\ at = "tools" /\ batch.phase # "next"
    BY <1>3 DEF CommitOne, CommitTask, Commit
  <2>2. NextCall
    BY <1>0, <2>1, PhaseIs
  <2> QED BY <1>0, <1>3, <2>1, <2>2, CommitIs
<1>4. CASE FinishAborted
  <2>1. mem' = [mem EXCEPT !.msgs = mem.msgs \o Left] /\ at = "abort"
    BY <1>4 DEF FinishAborted, Left
  <2>2. batch.appended <= Len(batch.calls)
    BY <2>1 DEF InHand
  <2> QED BY <1>0, <1>4, <2>1, <2>2, AbortIs
<1>5. CASE WriteTodos
  <2>1. /\ at = "tools" /\ batch.phase = "act"
        /\ \/ mem' = mem
           \/ \E open \in BOOLEAN :
                  mem' = [mem EXCEPT !.todos = [run |-> run, call |-> Current, open |-> open]]
    BY <1>5 DEF WriteTodos
  <2>2. Current \in Calls
    BY <1>0, <2>1, PhaseIs, CurrentIs
  <2>3. mem' \in State /\ mem'.subs = mem.subs /\ mem'.msgs = mem.msgs
    BY <1>0, <2>1, <2>2, TodosAre, ZenonT(40)
  <2>4. ~Repair /\ ~Reply /\ ~CommitOne /\ ~CommitTask /\ ~FinishAborted
    BY <2>1 DEF Repair, Reply, CommitOne, CommitTask, Commit, FinishAborted
  <2> QED BY <2>3, <2>4
<1>6. CASE /\ NoReply \/ SaveReply \/ EndRun \/ StartTool \/ Act \/ Announce \/ OpenGroup
              \/ CloseGroup
           /\ ~Repair /\ ~Reply /\ ~CommitOne /\ ~CommitTask /\ ~FinishAborted
  <2>1. mem' = mem
    BY <1>6 DEF NoReply, SaveReply, EndRun, StartTool, Act, Announce, OpenGroup, CloseGroup,
                stateVars
  <2> QED BY <1>0, <1>6, <2>1
<1> QED BY <1>1, <1>2, <1>3, <1>4, <1>5, <1>6 DEF Parent

\* What they make of the checkpoint: it stays, or it is the memory, with another list of
\* todos perhaps.
LEMMA DiskIs ==
  ASSUME TypeOK, Running, InHand, Phased, Formed(mem.msgs), Parent
  PROVE /\ disk' \in State
        /\ \/ disk' = disk
           \/ ~behind /\ disk'.msgs = mem'.msgs /\ disk'.subs = mem.subs
<1>0. /\ SavedOK /\ BatchOK /\ CountsOK /\ mem \in State /\ at # "idle" /\ run \in Runs
  <2>1. at # "idle"
    BY ParentStays
  <2> QED BY <2>1, RunIs, TypeParts
<1>1. CASE Repair \/ CommitOne \/ CommitTask \/ FinishAborted
  <2>1. Saves(mem')
    BY <1>1, ZenonT(40) DEF Repair, CommitOne, CommitTask, Commit, FinishAborted, Saves
  <2>2. disk' = disk \/ (~behind /\ disk' = mem')
    BY <1>0, <2>1, SaveIs
  <2> QED BY <1>0, <2>2, MemIs DEF SavedOK
<1>2. CASE SaveReply \/ EndRun
  <2>1. Saves(mem) /\ mem' = mem
    BY <1>2 DEF SaveReply, EndRun, Saves
  <2>2. disk' = disk \/ (~behind /\ disk' = mem)
    BY <1>0, <2>1, SaveIs
  <2> QED BY <1>0, <2>1, <2>2, MemIs DEF SavedOK
<1>3. CASE WriteTodos
  <2>1. PICK open \in BOOLEAN :
            /\ at = "tools" /\ batch.phase = "act"
            /\ Saves([mem EXCEPT !.todos = [run |-> run, call |-> Current, open |-> open]])
            /\ mem' \in {mem, [mem EXCEPT !.todos = [run |-> run, call |-> Current,
                                                     open |-> open]]}
    BY <1>3 DEF WriteTodos, Saves
  <2> DEFINE s == [mem EXCEPT !.todos = [run |-> run, call |-> Current, open |-> open]]
  <2>2. Current \in Calls
    BY <1>0, <2>1, PhaseIs, CurrentIs
  <2>3. s \in State /\ s.subs = mem.subs /\ s.msgs = mem.msgs
    BY <1>0, <2>2, TodosAre
  <2>4. disk' = disk \/ (~behind /\ disk' = s)
    <3> HIDE DEF s
    <3>1. Saves(s)
      BY <2>1 DEF s
    <3> QED BY <1>0, <3>1, SaveIs
  <2>5. mem'.msgs = mem.msgs
    BY <2>1, <2>3
  <2> HIDE DEF s
  <2> QED BY <1>0, <2>3, <2>4, <2>5 DEF SavedOK
<1>4. CASE Reply \/ NoReply \/ StartTool \/ Act \/ Announce \/ OpenGroup \/ CloseGroup
  <2>1. disk' = disk
    BY <1>4 DEF Reply, NoReply, StartTool, Act, Announce, OpenGroup, CloseGroup, stateVars
  <2> QED BY <1>0, <2>1 DEF SavedOK
<1> QED BY <1>1, <1>2, <1>3, <1>4 DEF Parent

\* What a worker's step makes of the memory: the status of its task, as its snapshot says.
LEMMA WorkerMemIs ==
  ASSUME NEW c \in TaskCalls, Worker(c)
  PROVE /\ InGroup(c)
        /\ UNCHANGED <<run, at, round, reminded, cancel>>
        /\ \/ mem' = mem
           \/ worker[c].at = "admitting" /\ SaveOk(worker[c].shot) /\ mem' = Snapshot(c, "pending")
           \/ worker[c].at = "saving" /\ SaveOk(worker[c].shot)
              /\ mem' = Snapshot(c, worker[c].goal)
<1>1. CASE Admitted(c)
  BY <1>1 DEF Admitted, rest, Keep
<1>2. CASE SaveEnd(c)
  BY <1>2 DEF SaveEnd, rest, Keep
<1>3. CASE Begin(c) \/ AdmitKnown(c) \/ AdmitRefused(c) \/ AdmitNew(c) \/ Enter(c)
  BY <1>3 DEF Begin, AdmitKnown, AdmitRefused, AdmitNew, Enter, rest, stateVars
<1>4. CASE LeaveQueue(c) \/ SaveBegin(c) \/ Work(c) \/ ChildSaves(c) \/ StopWork(c)
  BY <1>4 DEF LeaveQueue, SaveBegin, Work, ChildSaves, StopWork, rest, stateVars
<1> QED BY <1>1, <1>2, <1>3, <1>4 DEF Worker

\* What a worker's step makes of the batch: it started, or it has an answer, which is the
\* status of the task if it is an outcome.
LEMMA WorkerBatchIs ==
  ASSUME NEW c \in TaskCalls, Worker(c)
  PROVE \/ batch' = batch
        \/ worker[c].at = "new" /\ batch' = [batch EXCEPT !.started = @ \cup {c}]
        \/ batch' = [batch EXCEPT !.out[c] = "refused"]
        \/ worker[c].at = "queue" /\ Sub(c) \in Final /\ mem' = mem
           /\ batch' = [batch EXCEPT !.out[c] = Sub(c)]
        \/ worker[c].at = "saving" /\ worker[c].goal \in Final
           /\ mem' = Snapshot(c, worker[c].goal)
           /\ batch' = [batch EXCEPT !.out[c] = worker[c].goal]
<1>1. CASE Begin(c) \/ AdmitKnown(c) \/ AdmitRefused(c)
  BY <1>1 DEF Begin, AdmitKnown, AdmitRefused, Answer
<1>2. CASE Enter(c)
  BY <1>2 DEF Enter, Answer, Sub, stateVars
<1>3. CASE SaveEnd(c)
  BY <1>3 DEF SaveEnd, AfterSave, Answer, Keep
<1>4. CASE AdmitNew(c) \/ Admitted(c) \/ LeaveQueue(c) \/ SaveBegin(c) \/ Work(c)
           \/ ChildSaves(c) \/ StopWork(c)
  BY <1>4 DEF AdmitNew, Admitted, LeaveQueue, SaveBegin, Work, ChildSaves, StopWork
<1> QED BY <1>1, <1>2, <1>3, <1>4 DEF Worker

\* The states in memory and on disk keep their types.
LEMMA SavedStep ==
  ASSUME TypeOK, Running, InHand, Phased, Formed(mem.msgs), [Next]_vars
  PROVE SavedOK'
<1>0. SavedOK /\ WorkersOK /\ CountsOK /\ NumbersOK
  BY TypeParts
<1>1. CASE StartRun
  <2>1. /\ run < MaxRuns /\ disk' = mem'
        /\ mem' = [disk EXCEPT !.msgs = Append(disk.msgs, User)]
    BY <1>1 DEF StartRun
  <2>2. run + 1 \in Runs
    BY <2>1, <1>0, AgentAssumption DEF NumbersOK, Runs
  <2>3. Append(disk.msgs, User) \in Seq(Message)
    BY <2>2, <1>0, MessagesAre, StateIs, AppendIs DEF SavedOK
  <2> QED BY <2>1, <2>3, <1>0, WithMsgs DEF SavedOK
<1>2. CASE Parent
  BY <1>2, MemIs, DiskIs DEF SavedOK
<1>3. CASE Cancel \/ Crash
  BY <1>3, <1>0, FreshIs DEF Cancel, Crash, stateVars, SavedOK
<1>4. ASSUME NEW c \in TaskCalls, Worker(c) PROVE SavedOK'
  <2>1. c \in Calls /\ at # "idle"
    BY <1>4, WorkerMemIs, AgentAssumption DEF InGroup
  <2>2. run \in Runs /\ mem \in State /\ disk \in State
    BY <2>1, RunIs
  <2>3. worker[c].shot \in State /\ worker[c].goal \in Status /\ "pending" \in Status
    BY <1>0, <2>1 DEF WorkersOK, Workers, Status
  <2>4. disk' = disk \/ disk' = worker[c].shot
    BY <1>0, <1>4, SavesAreShots, SaveIs
  <2>5. mem' \in State
    BY <1>4, <2>1, <2>2, <2>3, WorkerMemIs, SnapshotIs
  <2> QED BY <2>2, <2>3, <2>4, <2>5 DEF SavedOK
<1>5. CASE UNCHANGED vars
  BY <1>5, <1>0 DEF vars, stateVars, SavedOK
<1> QED BY <1>1, <1>2, <1>3, <1>4, <1>5, NextIs DEF Main

\* What execute_tool_calls knows keeps its type.
LEMMA BatchStep ==
  ASSUME TypeOK, Running, InHand, Phased, [Next]_vars
  PROVE BatchOK'
<1>0. BatchOK /\ SavedOK
  BY TypeParts
<1>1. NoBatch \in Batches
  BY DEF NoBatch, Batches, Text
<1>2. CASE SaveReply
  <2> DEFINE r == mem.msgs[Len(mem.msgs)].calls
  <2>1. batch' = batch \/ (at = "reply" /\ batch' = [NoBatch EXCEPT !.calls = r])
    BY <1>2 DEF SaveReply
  <2>2. ASSUME at = "reply" PROVE r \in Replies \cup {<<>>}
    <3>1. mem.msgs \in Seq(Message) /\ Len(mem.msgs) \in 1..Len(mem.msgs)
      BY <1>0, <2>2, StateIs DEF InHand, SavedOK
    <3>2. mem.msgs[Len(mem.msgs)] \in Message
      BY <3>1
    <3> QED BY <3>2 DEF Message
  <2> HIDE DEF r
  <2> QED BY <1>0, <1>1, <2>1, <2>2 DEF BatchOK, Batches
<1>3. CASE StartTool \/ Act \/ WriteTodos
  <2>1. at = "tools" /\ (batch' = batch \/ NextCall)
    BY <1>3, <1>0, PhaseIs DEF StartTool, Act, WriteTodos
  <2>2. \/ batch' = batch
        \/ batch' = [batch EXCEPT !.phase = "act", !.started = @ \cup {Current}]
        \/ batch' = [batch EXCEPT !.phase = "commit", !.out[Current] = "done"]
    BY <1>3 DEF StartTool, Act, WriteTodos, Returns
  <2>3. NextCall => Current \in Calls
    BY <1>0, CurrentIs
  <2>4. CASE batch' = [batch EXCEPT !.phase = "act", !.started = @ \cup {Current}] /\ NextCall
    BY <1>0, <2>3, <2>4 DEF BatchOK, Batches
  <2>5. CASE batch' = [batch EXCEPT !.phase = "commit", !.out[Current] = "done"] /\ NextCall
    <3>1. batch.out \in [Calls -> Text] /\ "done" \in Text
      BY <1>0, BatchIs DEF Text
    <3>2. [batch.out EXCEPT ![Current] = "done"] \in [Calls -> Text]
      BY <2>3, <2>5, <3>1
    <3> QED BY <1>0, <2>5, <3>2 DEF BatchOK, Batches
  <2>6. CASE batch' = batch
    BY <1>0, <2>6 DEF BatchOK
  <2> QED BY <2>1, <2>2, <2>4, <2>5, <2>6
<1>4. CASE CommitOne \/ CommitTask
  <2>1. batch' = [batch EXCEPT !.appended = @ + 1, !.group = @ \ {Current},
                   !.phase = IF batch.group \ {Current} = {} THEN "next" ELSE "commits"]
    BY <1>4, SMTT(40) DEF CommitOne, CommitTask, Commit
  <2>2. PICK phase \in {"next", "commits"}, group \in SUBSET Calls, n \in Nat :
            batch' = [batch EXCEPT !.appended = n, !.group = group, !.phase = phase]
    <3>1. batch.appended + 1 \in Nat /\ batch.group \ {Current} \in SUBSET Calls
      BY <1>0, BatchIs
    <3> QED BY <2>1, <3>1
  <2> QED BY <1>0, <2>2 DEF BatchOK, Batches
<1>5. CASE OpenGroup
  <2>1. Group \subseteq Calls
    <3>1. \A k \in batch.appended + 1..Len(batch.calls) : batch.calls[k] \in Calls
      BY <1>0, BatchIs
    <3> QED BY <3>1 DEF Group
  <2>2. batch' = batch \/ batch' = [batch EXCEPT !.phase = "group", !.group = Group]
    BY <1>5 DEF OpenGroup
  <2> QED BY <1>0, <2>1, <2>2, ZenonT(40) DEF BatchOK, Batches
<1>6. CASE CloseGroup
  <2>1. batch' = batch \/ batch' = [batch EXCEPT !.phase = "commits"]
    BY <1>6 DEF CloseGroup
  <2> QED BY <1>0, <2>1 DEF BatchOK, Batches
<1>7. CASE StartRun \/ Repair \/ Reply \/ NoReply \/ EndRun \/ Announce \/ FinishAborted
           \/ Cancel \/ Crash
  <2>1. batch' \in {batch, NoBatch}
    BY <1>7, ZenonT(40) DEF StartRun, Repair, Reply, NoReply, EndRun, Announce, FinishAborted, Cancel, Crash,
                toolVars
  <2> QED BY <1>0, <1>1, <2>1 DEF BatchOK
<1>8. ASSUME NEW c \in TaskCalls, Worker(c) PROVE BatchOK'
  <2>1. c \in Calls
    BY AgentAssumption
  <2>2. \/ batch' = batch
        \/ batch' = [batch EXCEPT !.started = @ \cup {c}]
        \/ \E t \in {"refused"} \cup Final : batch' = [batch EXCEPT !.out[c] = t]
    BY <1>8, WorkerBatchIs
  <2> QED BY <1>0, <2>1, <2>2 DEF BatchOK, Batches, Text, Final
<1>9. CASE UNCHANGED vars
  BY <1>9, <1>0 DEF vars, toolVars, BatchOK
<1> QED BY <1>2, <1>3, <1>4, <1>5, <1>6, <1>7, <1>8, <1>9, NextIs DEF Main, Parent

\* The workers keep their type.
LEMMA WorkersStep ==
  ASSUME TypeOK, Running, [Next]_vars
  PROVE WorkersOK'
<1>0. WorkersOK /\ SavedOK /\ Idle \in Workers
  BY TypeParts, FreshIs DEF Idle, Workers, Status
<1>1. CASE StartRun \/ Parent
  <2>1. \/ worker' = worker
        \/ worker' = [c \in Calls |-> Idle]
        \/ worker' = [c \in Calls |-> IF c \in Group THEN [Idle EXCEPT !.at = "new"] ELSE Idle]
    BY <1>1, Zenon
    DEF StartRun, Parent, Repair, Reply, NoReply, SaveReply, EndRun, StartTool, Act, WriteTodos,
        CommitOne, CommitTask, Commit, Announce, OpenGroup, CloseGroup, FinishAborted, toolVars
  <2>2. [Idle EXCEPT !.at = "new"] \in Workers
    BY <1>0 DEF Workers
  <2> HIDE DEF Idle
  <2> QED BY <1>0, <2>1, <2>2 DEF WorkersOK
<1>2. CASE Cancel
  <2>1. \A w \in Workers : [w EXCEPT !.cancel = TRUE] \in Workers
    BY DEF Workers
  <2>2. worker' = [c \in Calls |-> IF batch.phase = "group" /\ c \in batch.group
                                   THEN [worker[c] EXCEPT !.cancel = TRUE] ELSE worker[c]]
    BY <1>2 DEF Cancel
  <2> QED BY <1>0, <2>1, <2>2 DEF WorkersOK
<1>3. CASE Crash
  BY <1>0, <1>3 DEF Crash, WorkersOK
<1>4. ASSUME NEW c \in TaskCalls, Worker(c) PROVE WorkersOK'
  <2>1. c \in Calls /\ run \in Runs /\ mem \in State
    BY <1>4, WorkerMemIs, RunIs, AgentAssumption DEF InGroup
  <2>2. /\ Snapshot(c, "pending") \in State /\ Snapshot(c, worker[c].goal) \in State
        /\ Fresh \in State
    BY <1>0, <2>1, SnapshotIs, FreshIs DEF WorkersOK, Workers, Status
  <2>3. CASE Begin(c) \/ AdmitRefused(c) \/ Work(c) \/ ChildSaves(c) \/ StopWork(c)
    BY <1>0, <2>1, <2>3 DEF Begin, AdmitRefused, Work, ChildSaves, StopWork, Leaves, Move,
                            WorkersOK, Workers, Status, Final
  <2>4. CASE AdmitKnown(c) \/ LeaveQueue(c)
    BY <1>0, <2>1, <2>2, <2>4 DEF AdmitKnown, LeaveQueue, ToQueue, Leaves, Move,
                                  WorkersOK, Workers, Status, Final
  <2>5. CASE AdmitNew(c) \/ SaveBegin(c)
    BY <1>0, <2>1, <2>2, <2>5 DEF AdmitNew, SaveBegin, WorkersOK, Workers
  <2>6. CASE Enter(c)
    BY <1>0, <2>1, <2>6 DEF Enter, Leaves, WorkersOK, Workers, Status
  <2>7. ASSUME Breaks(c) PROVE WorkersOK'
    BY <1>0, <2>1, <2>7 DEF Breaks, WorkersOK, Workers
  <2>8. CASE Admitted(c)
    <3>1. ToQueue(c) \/ Breaks(c)
      BY <2>8 DEF Admitted
    <3>2. ASSUME ToQueue(c) PROVE WorkersOK'
      BY <1>0, <2>1, <2>2, <3>2 DEF ToQueue, Leaves, Move, WorkersOK, Workers, Status, Final
    <3> QED BY <2>7, <3>1, <3>2
  <2>9. CASE SaveEnd(c)
    <3>1. AfterSave(c) \/ Breaks(c)
      BY <2>9 DEF SaveEnd
    <3>2. ASSUME AfterSave(c) PROVE WorkersOK'
      BY <1>0, <2>1, <2>2, <3>2 DEF AfterSave, Leaves, WorkersOK, Workers, Status, Final
    <3> QED BY <2>7, <3>1, <3>2
  <2> QED BY <1>4, <2>3, <2>4, <2>5, <2>6, <2>8, <2>9 DEF Worker
<1>5. CASE UNCHANGED vars
  BY <1>5, <1>0 DEF vars, toolVars, WorkersOK
<1> QED BY <1>1, <1>2, <1>3, <1>4, <1>5, NextIs DEF Main

\* The position of the reply in hand is one of the history.
LEMMA HereIs ==
  ASSUME TypeOK, InHand, at \in {"tools", "abort"}
  PROVE /\ HereNow \in 1..Len(mem.msgs) /\ Len(mem.msgs) \in Nat /\ batch.appended \in Nat
        /\ mem.msgs \in Seq(Message)
<1>1. mem.msgs \in Seq(Message) /\ batch.appended \in Nat
  BY TypeParts, StateIs, BatchIs DEF SavedOK
<1>2. batch.appended < Len(mem.msgs)
  BY DEF InHand
<1> QED BY <1>1, <1>2 DEF HereNow

\* Which tools ran, at which place of the history.
LEMMA ActedIs ==
  ASSUME TypeOK, Running, InHand, Phased, [Next]_vars
  PROVE \/ acted' = acted
        \/ /\ at = "tools" /\ NextCall /\ Current \in batch.started /\ Current \in Calls
           /\ acted' = acted \cup {<<HereNow, Current>>} /\ (Act \/ WriteTodos)
        \/ \E c \in TaskCalls : /\ Worker(c) /\ at = "tools" /\ worker[c].at = "work"
                                /\ acted' = acted \cup {<<HereNow, c>>}
<1>1. CASE Act \/ WriteTodos
  <2>1. /\ at = "tools" /\ batch.phase = "act"
        /\ acted' = acted \/ acted' = acted \cup {<<HereNow, Current>>}
    BY <1>1, ZenonT(40) DEF Act, WriteTodos, Acts
  <2>2. NextCall /\ Current \in Calls
    BY <2>1, TypeParts, PhaseIs, CurrentIs
  <2>3. Current \in batch.started
    BY <2>1 DEF Phased
  <2> QED BY <1>1, <2>1, <2>2, <2>3
<1>2. CASE StartRun \/ Repair \/ Reply \/ NoReply \/ SaveReply \/ EndRun \/ StartTool
           \/ CommitOne \/ CommitTask \/ Announce \/ OpenGroup \/ CloseGroup \/ FinishAborted
           \/ Cancel \/ Crash \/ UNCHANGED vars
  BY <1>2, ZenonT(40) DEF StartRun, Repair, Reply, NoReply, SaveReply, EndRun, StartTool, CommitOne,
              CommitTask, Commit, Announce, OpenGroup, CloseGroup, FinishAborted, Cancel, Crash,
              vars, history
<1>3. ASSUME NEW c \in TaskCalls, Worker(c)
      PROVE \/ acted' = acted
            \/ /\ at = "tools" /\ worker[c].at = "work"
               /\ acted' = acted \cup {<<HereNow, c>>}
  <2>1. CASE Begin(c) \/ AdmitKnown(c) \/ AdmitRefused(c) \/ AdmitNew(c) \/ Admitted(c)
             \/ Enter(c) \/ LeaveQueue(c) \/ SaveBegin(c)
    BY <2>1 DEF Begin, AdmitKnown, AdmitRefused, AdmitNew, Admitted, Enter, LeaveQueue,
                SaveBegin, history
  <2>2. CASE SaveEnd(c)
    BY <2>2 DEF SaveEnd, AfterSave
  <2>3. CASE Work(c) \/ ChildSaves(c) \/ StopWork(c)
    BY <2>3 DEF Work, ChildSaves, StopWork, InGroup
  <2> QED BY <1>3, <2>1, <2>2, <2>3 DEF Worker
<1> QED BY <1>1, <1>2, <1>3, NextIs DEF Main, Parent

\* How often children were started keeps its type.
LEMMA ChildrenAre ==
  ASSUME TypeOK, Running, [Next]_vars
  PROVE \/ children' = children
        \/ \E c \in TaskCalls : /\ Worker(c) /\ worker[c].at = "saving" /\ Sub(c) = "pending"
                                /\ worker[c].goal = "running" /\ SaveEnd(c) /\ AfterSave(c)
                                /\ children' = [children EXCEPT ![run][c] = @ + 1]
<1>1. CASE StartRun \/ Parent \/ Cancel \/ Crash \/ UNCHANGED vars
  BY <1>1, ParentStays DEF StartRun, Cancel, Crash, vars, history
<1>2. ASSUME NEW c \in TaskCalls, Worker(c)
      PROVE \/ children' = children
            \/ /\ worker[c].at = "saving" /\ Sub(c) = "pending"
               /\ worker[c].goal = "running" /\ SaveEnd(c) /\ AfterSave(c)
               /\ children' = [children EXCEPT ![run][c] = @ + 1]
  <2>1. CASE Begin(c) \/ AdmitKnown(c) \/ AdmitRefused(c) \/ AdmitNew(c) \/ Admitted(c)
             \/ Enter(c) \/ LeaveQueue(c) \/ SaveBegin(c) \/ Work(c) \/ ChildSaves(c)
             \/ StopWork(c)
    BY <2>1 DEF Begin, AdmitKnown, AdmitRefused, AdmitNew, Admitted, Enter, LeaveQueue,
                SaveBegin, Work, ChildSaves, StopWork, history
  <2>2. CASE SaveEnd(c)
    BY <2>2 DEF SaveEnd, AfterSave, Sub
  <2> QED BY <1>2, <2>1, <2>2 DEF Worker
<1> QED BY <1>1, <1>2, NextIs DEF Main

\* The histories of the tools keep their types.
LEMMA PastStep ==
  ASSUME TypeOK, Running, InHand, Phased, [Next]_vars
  PROVE PastOK'
<1>0. PastOK /\ TaskCalls \subseteq Calls
  BY TypeParts, AgentAssumption
<1>1. acted' \subseteq Nat \X Calls
  <2>1. at = "tools" => HereNow \in Nat
    BY HereIs
  <2> QED BY <1>0, <2>1, ActedIs DEF PastOK
<1>2. children' \in [Runs -> [Calls -> Nat]]
  <2>1. CASE children' = children
    BY <1>0, <2>1 DEF PastOK
  <2>2. ASSUME NEW c \in TaskCalls, Worker(c), children' = [children EXCEPT ![run][c] = @ + 1]
        PROVE children' \in [Runs -> [Calls -> Nat]]
    <3>1. run \in Runs
      BY <2>2, WorkerMemIs, RunIs DEF InGroup
    <3> QED BY <1>0, <2>2, <3>1 DEF PastOK
  <2> QED BY <2>1, <2>2, ChildrenAre
<1> QED BY <1>1, <1>2 DEF PastOK

\* The types are kept.
LEMMA TypeStep ==
  ASSUME TypeOK, Running, InHand, Phased, Formed(mem.msgs), [Next]_vars
  PROVE TypeOK'
<1>1. LoopOK' /\ NumbersOK' /\ CountsOK'
  BY TypeParts, LoopStep, NumbersStep, CountsStep
<1>2. SavedOK' /\ BatchOK' /\ WorkersOK' /\ PastOK'
  BY SavedStep, BatchStep, WorkersStep, PastStep
<1> QED BY <1>1, <1>2 DEF TypeOK, SavedOK, LoopOK, NumbersOK, CountsOK, Batches, Workers,
                          BatchOK, WorkersOK, PastOK

-----------------------------------------------------------------------------
(* The tasks: step by step                                                  *)

\* The Run has its number, and the model is not asked more often than it may.
LEMMA RunningStep ==
  ASSUME TypeOK, Running, [Next]_vars PROVE Running'
<1>0. NumbersOK /\ (at # "idle" => run \in Runs)
  BY TypeParts DEF Running
<1>1. CASE StartRun
  <2>1. run' = run + 1 /\ run < MaxRuns /\ at' = "repair"
    BY <1>1 DEF StartRun
  <2>2. run' \in Runs
    BY <1>0, <2>1, AgentAssumption DEF NumbersOK, Runs
  <2> QED BY <2>1, <2>2 DEF Running, Runs
<1>2. CASE Parent
  <2>1. /\ at # "idle" /\ run' = run
        /\ at' \in {"reply", "tools", "abort"} =>
               (at \in {"reply", "tools", "abort"} \/ round <= MaxToolRounds) /\ round' = round
    BY <1>2, ParentStays
  <2> QED BY <1>0, <2>1 DEF Running, Runs
<1>3. CASE Cancel
  BY <1>3 DEF Cancel, loopVars, Running, Runs
<1>4. CASE Crash
  BY <1>4 DEF Crash, Running
<1>5. ASSUME NEW c \in TaskCalls, Worker(c) PROVE Running'
  BY <1>5, WorkerMemIs DEF Running, Runs
<1>6. CASE UNCHANGED vars
  BY <1>6 DEF vars, loopVars, Running, Runs
<1> QED BY <1>1, <1>2, <1>3, <1>4, <1>5, <1>6, NextIs DEF Main

\* What a worker's step leaves alone of the batch.
LEMMA WorkerBatchKeeps ==
  ASSUME BatchOK, NEW c \in TaskCalls, Worker(c)
  PROVE /\ batch'.calls = batch.calls /\ batch'.phase = batch.phase
        /\ batch'.group = batch.group /\ batch'.appended = batch.appended
        /\ batch.started \subseteq batch'.started
        /\ \A d \in Calls : d # c => batch'.out[d] = batch.out[d]
<1>0. batch \in Batches /\ batch.out \in [Calls -> Text] /\ c \in Calls
  BY BatchIs, AgentAssumption DEF BatchOK
<1>1. CASE batch' = batch
  BY <1>1
<1>2. CASE batch' = [batch EXCEPT !.started = @ \cup {c}]
  BY <1>0, <1>2 DEF Batches
<1>3. ASSUME NEW t, batch' = [batch EXCEPT !.out[c] = t]
      PROVE /\ batch'.calls = batch.calls /\ batch'.phase = batch.phase
            /\ batch'.group = batch.group /\ batch'.appended = batch.appended
            /\ batch'.started = batch.started
            /\ \A d \in Calls : d # c => batch'.out[d] = batch.out[d]
  BY <1>0, <1>3 DEF Batches
<1> QED BY <1>1, <1>2, <1>3, WorkerBatchIs

\* Whether something failed, after a step of the Run and after one of a worker.
LEMMA SaveClean ==
  ASSUME CountsOK, NEW s, Saves(s), clean => ~behind PROVE clean' => ~behind'
<1>1. CASE SaveOk(s)
  BY <1>1 DEF SaveOk
<1>2. CASE SaveFails(s)
  BY <1>2 DEF SaveFails
<1>3. CASE NoSave
  BY <1>3 DEF NoSave
<1> QED BY <1>1, <1>2, <1>3 DEF Saves

\* A worker that fails to save breaks the group off.
LEMMA WorkerFails ==
  ASSUME NEW c \in TaskCalls, Worker(c)
  PROVE \/ clean' = clean /\ error' = error
        \/ clean' = FALSE /\ error' = "failed" /\ Breaks(c) /\ mem' = mem
<1>1. CASE Admitted(c)
  BY <1>1 DEF Admitted, SaveOk, SaveFails, Breaks
<1>2. CASE SaveEnd(c)
  BY <1>2 DEF SaveEnd, SaveOk, SaveFails, Breaks
<1>3. CASE Begin(c) \/ AdmitKnown(c) \/ AdmitRefused(c) \/ AdmitNew(c) \/ Enter(c)
           \/ LeaveQueue(c) \/ SaveBegin(c) \/ Work(c) \/ ChildSaves(c) \/ StopWork(c)
  BY <1>3 DEF Begin, AdmitKnown, AdmitRefused, AdmitNew, Enter, LeaveQueue, SaveBegin, Work,
              ChildSaves, StopWork, history
<1> QED BY <1>1, <1>2, <1>3 DEF Worker

\* The Run knows of a save that failed, as its turn is over.
LEMMA ParentFails ==
  ASSUME Parent, Cleanly, ~clean' PROVE at' \in {"abort", "end", "idle"}
<1>1. CASE Repair \/ SaveReply \/ EndRun
  BY <1>1 DEF Repair, SaveReply, EndRun, SaveOk, SaveFails, NoSave, Failing, Goto, Cleanly
<1>2. CASE WriteTodos \/ CommitOne \/ CommitTask
  BY <1>2 DEF WriteTodos, CommitOne, CommitTask, Commit, SaveOk, SaveFails, Abort, Cleanly
<1>3. CASE FinishAborted
  BY <1>3 DEF FinishAborted, Failing
<1>4. CASE CloseGroup
  BY <1>4 DEF CloseGroup, Abort, history, Cleanly
<1>5. CASE Reply \/ NoReply \/ StartTool \/ Act \/ Announce \/ OpenGroup
  BY <1>5 DEF Reply, NoReply, StartTool, Act, Announce, OpenGroup, Failing, Abort, history,
              Cleanly
<1> QED BY <1>1, <1>2, <1>3, <1>4, <1>5 DEF Parent

\* A save that fails ends the turn: at once, or with the group.
LEMMA CleanlyStep ==
  ASSUME TypeOK, Cleanly, [Next]_vars PROVE Cleanly'
<1>0. CountsOK /\ BatchOK /\ (clean => ~behind)
  BY TypeParts DEF Cleanly
<1>1. CASE StartRun
  BY <1>1 DEF StartRun, Cleanly
<1>2. CASE Parent
  <2>1. clean' => ~behind'
    BY <1>0, <1>2, SavesAre, SaveClean
  <2> QED BY <1>2, <2>1, ParentFails DEF Cleanly
<1>3. CASE Cancel \/ Crash
  BY <1>3 DEF Cancel, Crash, stateVars, loopVars, history, Cleanly
<1>4. ASSUME NEW c \in TaskCalls, Worker(c) PROVE Cleanly'
  <2>1. clean' => ~behind'
    BY <1>0, <1>4, SavesAreShots, SaveClean
  <2>2. InGroup(c) /\ at' = at /\ batch'.phase = batch.phase
    BY <1>0, <1>4, WorkerMemIs, WorkerBatchKeeps
  <2> QED BY <1>4, <2>1, <2>2, WorkerFails DEF Cleanly, InGroup
<1>5. CASE UNCHANGED vars
  BY <1>5 DEF vars, stateVars, loopVars, toolVars, history, Cleanly
<1> QED BY <1>1, <1>2, <1>3, <1>4, <1>5, NextIs DEF Main

\* No worker is inside while no group is open, nor one of another call.
LEMMA Outside ==
  ASSUME TypeOK, Beside, NEW c \in Calls, ~InGroup(c) PROVE worker[c].at \in {"none", "gone"}
  BY DEF Beside

\* The Run goes on alone: when it makes a step no worker is inside, and when it opened a
\* group they are new.
LEMMA Alone ==
  ASSUME TypeOK, Beside, StartRun \/ Parent
  PROVE \A c \in Calls :
            /\ worker[c].at \in {"none", "gone"}
            /\ \/ worker'[c].at \in {"none", "gone"}
               \/ /\ OpenGroup /\ worker'[c].at = "new" /\ c \in Group
                  /\ at' = "tools" /\ batch'.phase = "group" /\ batch'.group = Group
<1> SUFFICES ASSUME NEW c \in Calls
             PROVE /\ worker[c].at \in {"none", "gone"}
                   /\ \/ worker'[c].at \in {"none", "gone"}
                      \/ /\ OpenGroup /\ worker'[c].at = "new" /\ c \in Group
                         /\ at' = "tools" /\ batch'.phase = "group" /\ batch'.group = Group
  OBVIOUS
<1>0. batch \in Batches
  BY TypeParts DEF BatchOK
<1>1. CASE CloseGroup
  <2>1. worker[c].at \in {"none", "gone"}
    BY <1>1, Outside DEF CloseGroup, InGroup
  <2> QED BY <1>1, <2>1 DEF CloseGroup, Idle
<1>2. CASE OpenGroup
  <2>1. worker[c].at \in {"none", "gone"}
    BY <1>2, Outside DEF OpenGroup, InGroup
  <2>2. \/ worker' = worker
        \/ /\ at' = at /\ batch' = [batch EXCEPT !.phase = "group", !.group = Group]
           /\ worker' = [d \in Calls |-> IF d \in Group THEN [Idle EXCEPT !.at = "new"]
                                         ELSE Idle]
    BY <1>2 DEF OpenGroup
  <2>3. Idle.at = "none" /\ [Idle EXCEPT !.at = "new"].at = "new"
    BY DEF Idle
  <2>4. CASE worker' # worker
    <3>1. at' = "tools" /\ batch'.phase = "group" /\ batch'.group = Group
      BY <1>0, <1>2, <2>2, <2>4, ZenonT(40) DEF OpenGroup, Batches
    <3> QED BY <1>2, <2>1, <2>2, <2>3, <2>4, <3>1, ZenonT(40)
  <2> QED BY <2>1, <2>4
<1>3. CASE StartRun \/ Repair \/ Reply \/ NoReply \/ SaveReply \/ EndRun \/ StartTool \/ Act
           \/ WriteTodos \/ CommitOne \/ CommitTask \/ Announce \/ FinishAborted
  <2>1. ~InGroup(c)
    BY <1>3, ZenonT(40) DEF InGroup, StartRun, Repair, Reply, NoReply, SaveReply, EndRun, StartTool, Act,
                WriteTodos, CommitOne, CommitTask, Commit, Announce, FinishAborted
  <2>2. worker[c].at \in {"none", "gone"}
    BY <2>1, Outside
  <2>3. worker' = worker \/ worker' = [d \in Calls |-> Idle]
    BY <1>3, ZenonT(40) DEF StartRun, Repair, Reply, NoReply, SaveReply, EndRun, StartTool, Act,
                WriteTodos, CommitOne, CommitTask, Commit, Announce, FinishAborted, toolVars
  <2> QED BY <2>2, <2>3 DEF Idle
<1> QED BY <1>1, <1>2, <1>3 DEF Parent

\* What a worker's step leaves alone of the other workers.
LEMMA OthersKeep ==
  ASSUME TypeOK, NEW c \in TaskCalls, Worker(c), NEW d \in Calls, d # c
  PROVE /\ worker'[d].at = worker[d].at /\ worker'[d].goal = worker[d].goal
        /\ worker'[d].shot = worker[d].shot
<1>0. worker \in [Calls -> Workers] /\ c \in Calls
  BY TypeParts, AgentAssumption DEF WorkersOK
<1>1. ASSUME Breaks(c)
      PROVE /\ worker'[d].at = worker[d].at /\ worker'[d].goal = worker[d].goal
            /\ worker'[d].shot = worker[d].shot
  BY <1>0, <1>1 DEF Breaks, Workers
<1>2. CASE Begin(c) \/ AdmitKnown(c) \/ AdmitRefused(c) \/ AdmitNew(c) \/ Enter(c)
  BY <1>0, <1>2 DEF Begin, AdmitKnown, AdmitRefused, AdmitNew, Enter, ToQueue, Leaves, Move
<1>3. CASE LeaveQueue(c) \/ SaveBegin(c) \/ Work(c) \/ ChildSaves(c) \/ StopWork(c)
  BY <1>0, <1>3 DEF LeaveQueue, SaveBegin, Work, ChildSaves, StopWork, ToQueue, Leaves, Move
<1>4. CASE Admitted(c)
  BY <1>0, <1>1, <1>4 DEF Admitted, ToQueue, Leaves, Move
<1>5. CASE SaveEnd(c)
  BY <1>0, <1>1, <1>5 DEF SaveEnd, AfterSave, Leaves
<1> QED BY <1>2, <1>3, <1>4, <1>5 DEF Worker

\* Workers work inside the group that is open.
LEMMA BesideStep ==
  ASSUME TypeOK, Beside, [Next]_vars PROVE Beside'
<1>0. batch \in Batches /\ worker \in [Calls -> Workers] /\ BatchOK
  BY TypeParts DEF BatchOK, WorkersOK
<1>1. CASE StartRun \/ Parent
  BY <1>1, Alone DEF Beside, InGroup
<1>2. CASE Cancel
  BY <1>0, <1>2 DEF Cancel, loopVars, Beside, InGroup, Workers
<1>3. CASE Crash
  BY <1>3 DEF Crash, Beside, Idle
<1>4. ASSUME NEW c \in TaskCalls, Worker(c) PROVE Beside'
  <2>1. /\ InGroup(c) /\ at' = at /\ batch'.phase = batch.phase /\ batch'.group = batch.group
    BY <1>0, <1>4, WorkerMemIs, WorkerBatchKeeps
  <2>2. \A d \in Calls : d # c => worker'[d].at = worker[d].at
    BY <1>4, OthersKeep
  <2> QED BY <2>1, <2>2 DEF Beside, InGroup
<1>5. CASE UNCHANGED vars
  BY <1>5 DEF vars, loopVars, toolVars, Beside, InGroup
<1> QED BY <1>1, <1>2, <1>3, <1>4, <1>5, NextIs DEF Main

\* The checkpoint after a step of a worker: as it was, or the worker's snapshot.
LEMMA WorkerSaves ==
  ASSUME TypeOK, Running, Tracked, NEW c \in TaskCalls, Worker(c)
  PROVE /\ c \in Calls /\ run \in Runs /\ mem \in State /\ worker[c].goal \in Status
        /\ \/ disk' = disk /\ mem' = mem
           \/ /\ ~behind /\ worker[c].at \in {"admitting", "saving"} /\ lock = c
              /\ disk' = worker[c].shot
              /\ \/ mem' = mem /\ behind'
                 \/ mem' = worker[c].shot /\ ~behind'
              /\ \/ worker[c].at = "admitting" /\ Sub(c) = "none"
                    /\ worker[c].shot = Snapshot(c, "pending")
                 \/ worker[c].at = "saving" /\ Sub(c) \in Open
                    /\ worker[c].goal \in Final \cup {"running"}
                    /\ worker[c].shot = Snapshot(c, worker[c].goal)
<1>1. c \in Calls /\ InGroup(c) /\ Knows(c)
  BY AgentAssumption, WorkerMemIs DEF Tracked
<1>2. run \in Runs /\ mem \in State
  BY <1>1, RunIs DEF InGroup
<1>3. worker[c].goal \in Status
  BY <1>1, TypeParts DEF WorkersOK, Workers
<1>4. CASE Admitted(c)
  BY <1>1, <1>2, <1>3, <1>4 DEF Admitted, Keep, SaveOk, SaveFails, Knows
<1>5. CASE SaveEnd(c)
  BY <1>1, <1>2, <1>3, <1>5 DEF SaveEnd, Keep, SaveOk, SaveFails, Knows
<1>6. CASE Begin(c) \/ AdmitKnown(c) \/ AdmitRefused(c) \/ AdmitNew(c) \/ Enter(c)
           \/ LeaveQueue(c) \/ SaveBegin(c) \/ Work(c) \/ ChildSaves(c) \/ StopWork(c)
  <2>1. disk' = disk /\ mem' = mem
    BY <1>6 DEF Begin, AdmitKnown, AdmitRefused, AdmitNew, Enter, LeaveQueue, SaveBegin, Work,
                ChildSaves, StopWork, stateVars
  <2> QED BY <1>1, <1>2, <1>3, <2>1
<1> QED BY <1>4, <1>5, <1>6 DEF Worker

\* The checkpoint keeps what memory knows of the tasks.
LEMMA SubsStep ==
  ASSUME TypeOK, Running, InHand, Phased, Formed(mem.msgs), Tracked, SubsFollow, [Next]_vars
  PROVE SubsFollow'
<1>0. CountsOK /\ SavedOK
  BY TypeParts
<1>1. CASE StartRun
  <2>1. mem' = disk' /\ mem' = [disk EXCEPT !.msgs = Append(disk.msgs, User)]
    BY <1>1 DEF StartRun
  <2> QED BY <2>1 DEF SubsFollow
<1>2. CASE Parent
  <2>1. mem'.subs = mem.subs /\ (disk' = disk \/ disk'.subs = mem.subs)
    BY <1>2, MemIs, DiskIs
  <2>2. (behind => behind') /\ at # "idle"
    <3>1. behind => behind'
      BY <1>0, <1>2, SavesAre, SaveIs
    <3>2. at # "idle"
      BY <1>2, ParentStays
    <3> QED BY <3>1, <3>2
  <2> QED BY <2>1, <2>2 DEF SubsFollow
<1>3. CASE Cancel
  BY <1>3 DEF Cancel, stateVars, loopVars, SubsFollow
<1>4. CASE Crash
  BY <1>4 DEF Crash, SubsFollow
<1>5. ASSUME NEW c \in TaskCalls, Worker(c) PROVE SubsFollow'
  <2>1. at' = at /\ at # "idle"
    BY <1>5, WorkerMemIs DEF InGroup
  <2>2. CASE disk' = disk /\ mem' = mem
    <3>1. behind => behind'
      BY <1>0, <1>5, SavesAreShots, SaveIs
    <3> QED BY <2>1, <2>2, <3>1 DEF SubsFollow
  <2>3. CASE disk' = worker[c].shot /\ mem' = worker[c].shot
    BY <2>3 DEF SubsFollow
  <2>4. CASE ~(disk' = disk /\ mem' = mem) /\ disk' = worker[c].shot /\ mem' = mem /\ behind'
    <3>1. PICK st \in Status : worker[c].shot = Snapshot(c, st) /\ Sub(c) \notin Final
      <4>1. \/ worker[c].shot = Snapshot(c, "pending") /\ Sub(c) = "none"
            \/ worker[c].shot = Snapshot(c, worker[c].goal) /\ Sub(c) \in Open
               /\ worker[c].goal \in Status
        BY <1>5, <2>4, WorkerSaves
      <4> QED BY <4>1 DEF Status, Final, Open
    <3>2. \A q \in Runs, d \in Calls :
              disk'.subs[q][d] = IF q = run /\ d = c THEN st ELSE mem.subs[q][d]
      BY <1>5, <2>4, <3>1, WorkerSaves, SnapshotIs
    <3> QED BY <2>1, <2>4, <3>1, <3>2 DEF SubsFollow, Sub
  <2> QED BY <1>5, <2>2, <2>3, <2>4, WorkerSaves
<1>6. CASE UNCHANGED vars
  BY <1>6 DEF vars, stateVars, loopVars, SubsFollow
<1> QED BY <1>1, <1>2, <1>3, <1>4, <1>5, <1>6, NextIs DEF Main

\* Before the Run has its number nothing is known of its tasks.
LEMMA UntouchedStep ==
  ASSUME TypeOK, Running, InHand, Phased, Formed(mem.msgs), Tracked, Untouched, [Next]_vars
  PROVE Untouched'
<1>0. CountsOK /\ SavedOK /\ run \in Nat
  BY TypeParts, AgentAssumption DEF NumbersOK
<1>1. CASE StartRun
  <2>1. mem' = disk' /\ mem' = [disk EXCEPT !.msgs = Append(disk.msgs, User)] /\ run' = run + 1
    BY <1>1 DEF StartRun
  <2>2. mem'.subs = disk.subs
    BY <1>0, <2>1 DEF SavedOK, State
  <2> QED BY <1>0, <2>1, <2>2 DEF Untouched, Runs
<1>2. CASE Parent
  <2>1. mem'.subs = mem.subs /\ (disk' = disk \/ disk'.subs = mem.subs)
    BY <1>2, MemIs, DiskIs
  <2>2. run' = run
    BY <1>2, ParentStays
  <2> QED BY <2>1, <2>2 DEF Untouched
<1>3. CASE Cancel
  BY <1>3 DEF Cancel, stateVars, loopVars, Untouched
<1>4. CASE Crash
  BY <1>4 DEF Crash, Fresh, Untouched
<1>5. ASSUME NEW c \in TaskCalls, Worker(c) PROVE Untouched'
  <2>1. run' = run
    BY <1>5, WorkerMemIs
  <2>2. CASE disk' = disk /\ mem' = mem
    BY <2>1, <2>2 DEF Untouched
  <2>3. CASE ~(disk' = disk /\ mem' = mem)
             /\ disk' = worker[c].shot /\ mem' \in {mem, worker[c].shot}
    <3>1. PICK st \in Status : worker[c].shot = Snapshot(c, st)
      <4>1. \/ worker[c].shot = Snapshot(c, "pending")
            \/ worker[c].shot = Snapshot(c, worker[c].goal) /\ worker[c].goal \in Status
        BY <1>5, <2>3, WorkerSaves
      <4> QED BY <4>1 DEF Status
    <3>2. \A q \in Runs, d \in Calls :
              worker[c].shot.subs[q][d] = IF q = run /\ d = c THEN st ELSE mem.subs[q][d]
      BY <1>5, <3>1, WorkerSaves, SnapshotIs
    <3>3. \A q \in Runs : q > run => q # run
      BY <1>0 DEF Runs
    <3> QED BY <2>1, <2>3, <3>2, <3>3 DEF Untouched
  <2> QED BY <1>5, <2>2, <2>3, WorkerSaves
<1>6. CASE UNCHANGED vars
  BY <1>6 DEF vars, stateVars, loopVars, Untouched
<1> QED BY <1>1, <1>2, <1>3, <1>4, <1>5, <1>6, NextIs DEF Main

\* The status of the tasks after a step of a worker: that of its own task may go on.
LEMMA SubsMove ==
  ASSUME TypeOK, Running, Tracked, NEW c \in TaskCalls, Worker(c)
  PROVE /\ run' = run /\ run \in Runs /\ c \in Calls
        /\ \/ mem' = mem
           \/ worker[c].at = "admitting" /\ Sub(c) = "none" /\ Sub(c)' = "pending"
              /\ lock = c /\ mem' = Snapshot(c, "pending")
           \/ worker[c].at = "saving" /\ Sub(c) \in Open /\ Sub(c)' = worker[c].goal
              /\ lock = c /\ mem' = Snapshot(c, worker[c].goal)
              /\ worker[c].goal \in Final \cup {"running"}
        /\ \A q \in Runs, d \in Calls :
               ~(q = run /\ d = c) => mem'.subs[q][d] = mem.subs[q][d]
<1>1. run' = run /\ run \in Runs /\ c \in Calls /\ Knows(c) /\ mem \in State
  BY WorkerMemIs, WorkerSaves DEF Tracked
<1>2. CASE mem' = mem
  BY <1>1, <1>2
<1>3. CASE worker[c].at = "admitting" /\ mem' = Snapshot(c, "pending")
  <2>1. \A q \in Runs, d \in Calls :
            mem'.subs[q][d] = IF q = run /\ d = c THEN "pending" ELSE mem.subs[q][d]
    BY <1>1, <1>3, SnapshotIs DEF Status
  <2> QED BY <1>1, <1>3, <2>1 DEF Knows, Sub
<1>4. CASE worker[c].at = "saving" /\ mem' = Snapshot(c, worker[c].goal)
  <2>1. \A q \in Runs, d \in Calls :
            mem'.subs[q][d] = IF q = run /\ d = c THEN worker[c].goal ELSE mem.subs[q][d]
    BY <1>1, <1>4, WorkerSaves, SnapshotIs
  <2> QED BY <1>1, <1>4, <2>1 DEF Knows, Sub
<1> QED BY <1>2, <1>3, <1>4, WorkerMemIs

\* Only one holds the lock, and who holds it gives it back.
LEMMA LockMoves ==
  ASSUME NEW c \in TaskCalls, Worker(c)
  PROVE \/ lock' = lock
        \/ lock = NoCall /\ lock' = c
        \/ worker[c].at \in {"admitting", "saving"} /\ lock' = NoCall
  BY DEF Worker, Begin, AdmitKnown, AdmitRefused, AdmitNew, Admitted, Enter, LeaveQueue,
         SaveBegin, SaveEnd, Work, ChildSaves, StopWork, TakeLock, Keep

\* What another worker knows stays true.
LEMMA OthersKnow ==
  ASSUME TypeOK, Running, Tracked, NEW c \in TaskCalls, Worker(c), NEW d \in Calls, d # c
  PROVE Knows(d)'
<1>0. Knows(c) /\ Knows(d) /\ c \in Calls /\ BatchOK /\ NoCall \notin Calls
  BY AgentAssumption, TypeParts DEF Tracked
<1>1. /\ worker'[d].at = worker[d].at /\ worker'[d].goal = worker[d].goal
      /\ worker'[d].shot = worker[d].shot
  BY OthersKeep
<1>2. run' = run /\ Sub(d)' = Sub(d)
  <2>1. run' = run /\ mem'.subs[run][d] = mem.subs[run][d]
    BY SubsMove
  <2> QED BY <2>1 DEF Sub
<1>3. worker[d].at \in {"admitting", "saving"} => lock' = lock /\ mem' = mem
  <2>1. worker[d].at \in {"admitting", "saving"} => lock = d
    BY <1>0 DEF Knows
  <2>2. worker[c].at \in {"admitting", "saving"} => lock = c
    BY <1>0 DEF Knows
  <2>3. mem' = mem \/ lock = c
    BY SubsMove
  <2> QED BY <1>0, <2>1, <2>2, <2>3, LockMoves
<1>4. \A st : mem' = mem => Snapshot(d, st)' = Snapshot(d, st)
  BY <1>2 DEF Snapshot
<1>5. d \in batch.started => d \in batch'.started
  BY <1>0, WorkerBatchKeeps
<1>6. CASE worker[d].at \in {"admitting", "saving"}
  <2>1. lock' = lock /\ mem' = mem
    BY <1>3, <1>6
  <2>2. /\ Snapshot(d, "pending")' = Snapshot(d, "pending")
        /\ Snapshot(d, worker[d].goal)' = Snapshot(d, worker[d].goal)
    BY <1>1, <1>2, <2>1 DEF Snapshot
  <2> QED BY <1>0, <1>1, <1>2, <1>5, <1>6, <2>1, <2>2 DEF Knows
<1>7. CASE worker[d].at \notin {"admitting", "saving"}
  BY <1>0, <1>1, <1>2, <1>5, <1>7 DEF Knows
<1> QED BY <1>6, <1>7

\* What a worker knows after its own step.
LEMMA OwnKnows ==
  ASSUME TypeOK, Running, Tracked, NEW c \in TaskCalls, Worker(c)
  PROVE Knows(c)'
<1>0. /\ Knows(c) /\ c \in Calls /\ BatchOK /\ worker \in [Calls -> Workers] /\ run' = run
      /\ batch \in Batches /\ Sub(c) \in Status
  <2>1. run \in Runs /\ mem \in State /\ c \in Calls
    BY WorkerSaves
  <2>2. Sub(c) \in Status
    BY <2>1, StateIs DEF Sub
  <2> QED BY <2>1, <2>2, TypeParts, WorkerMemIs DEF Tracked, WorkersOK, BatchOK
<1>1. batch.started \subseteq batch'.started
  BY <1>0, WorkerBatchKeeps
<1>2. ASSUME worker'[c].at \in {"none", "gone"} PROVE Knows(c)'
  BY <1>2 DEF Knows
<1>3. ASSUME Leaves(c) PROVE worker'[c].at = "gone"
  BY <1>0, <1>3 DEF Leaves, Idle
<1>4. ASSUME Breaks(c) PROVE worker'[c].at = "gone"
  BY <1>0, <1>4 DEF Breaks, Idle
<1>5. CASE Begin(c)
  <2>1. CASE Leaves(c)
    BY <1>2, <1>3, <2>1
  <2>2. CASE /\ Move(c, "admit") /\ batch' = [batch EXCEPT !.started = @ \cup {c}]
             /\ worker[c].at = "new" /\ mem' = mem
    <3>1. worker'[c].at = "admit" /\ c \in batch'.started
      BY <1>0, <2>2 DEF Move, Batches, Workers
    <3>2. Sub(c)' \notin Open
      BY <1>0, <2>2 DEF Knows, Sub
    <3> QED BY <3>1, <3>2 DEF Knows
  <2> QED BY <1>5, <2>1, <2>2 DEF Begin, stateVars
<1>6. ASSUME ToQueue(c), c \in batch.started,
             \/ Sub(c) \in Final \cup {"pending"} /\ Sub(c)' = Sub(c)
             \/ Sub(c) = "none" /\ Sub(c)' = "pending"
      PROVE Knows(c)'
  <2>1. \/ worker'[c].at = "queue"
        \/ /\ worker'[c].at = "save" /\ worker'[c].goal = "cancelled"
           /\ Sub(c) \in {"none", "pending"}
        \/ worker'[c].at = "gone"
    BY <1>0, <1>3, <1>6 DEF ToQueue, Move, Workers, Sub
  <2> QED BY <1>1, <1>6, <2>1 DEF Knows, Final, Open
<1>7. CASE AdmitKnown(c)
  <2>1. mem' = mem /\ Sub(c) # "none" /\ worker[c].at = "admit" /\ (ToQueue(c) \/ Leaves(c))
    BY <1>7 DEF AdmitKnown, Listed, Sub, stateVars
  <2>2. Sub(c) \in Final /\ c \in batch.started /\ Sub(c)' = Sub(c)
    BY <1>0, <2>1 DEF Knows, Status, Open, Sub
  <2> QED BY <1>2, <1>3, <1>6, <2>1, <2>2
<1>8. CASE AdmitRefused(c)
  BY <1>2, <1>3, <1>8 DEF AdmitRefused
<1>9. CASE AdmitNew(c)
  <2>1. /\ mem' = mem /\ lock' = c /\ Sub(c) = "none" /\ worker[c].at = "admit"
        /\ worker' = [worker EXCEPT ![c].at = "admitting", ![c].shot = Snapshot(c, "pending")]
    BY <1>9 DEF AdmitNew, Listed, Sub, stateVars
  <2>2. worker'[c].at = "admitting" /\ worker'[c].shot = Snapshot(c, "pending")
    BY <1>0, <2>1 DEF Workers
  <2>3. Snapshot(c, "pending")' = Snapshot(c, "pending") /\ Sub(c)' = "none"
    BY <1>0, <2>1 DEF Snapshot, Sub
  <2>4. c \in batch'.started
    BY <1>0, <1>1, <2>1 DEF Knows
  <2> QED BY <2>1, <2>2, <2>3, <2>4 DEF Knows
<1>10. CASE Admitted(c)
  <2>1. Breaks(c) \/ (ToQueue(c) /\ mem' = Snapshot(c, "pending") /\ worker[c].at = "admitting")
    BY <1>10 DEF Admitted, Keep
  <2>2. worker[c].at = "admitting" => c \in batch.started /\ Sub(c) = "none"
    BY <1>0 DEF Knows
  <2>3. mem' = Snapshot(c, "pending") => Sub(c)' = "pending"
    BY <1>0, WorkerSaves, SnapshotIs DEF Sub, Status
  <2> QED BY <1>2, <1>4, <1>6, <2>1, <2>2, <2>3
<1>11. CASE Enter(c)
  <2>1. /\ mem' = mem /\ worker[c].at = "queue"
        /\ \/ Sub(c) = "pending"
              /\ worker' = [worker EXCEPT ![c].at = "save", ![c].goal = "running",
                                          ![c].permit = TRUE]
           \/ Leaves(c)
    BY <1>11 DEF Enter, Sub, stateVars
  <2>2. CASE /\ Sub(c) = "pending"
             /\ worker' = [worker EXCEPT ![c].at = "save", ![c].goal = "running",
                                         ![c].permit = TRUE]
    <3>1. worker'[c].at = "save" /\ worker'[c].goal = "running"
      BY <1>0, <2>2 DEF Workers
    <3>2. c \in batch'.started /\ Sub(c)' = "pending"
      BY <1>0, <1>1, <2>1, <2>2 DEF Knows, Sub
    <3> QED BY <3>1, <3>2 DEF Knows, Open
  <2> QED BY <1>2, <1>3, <2>1, <2>2
<1>12. CASE LeaveQueue(c)
  <2>1. mem' = mem /\ worker[c].at = "queue" /\ ToQueue(c)
    BY <1>12 DEF LeaveQueue, stateVars
  <2>2. Sub(c) \in Final \cup {"pending"} /\ c \in batch.started /\ Sub(c)' = Sub(c)
    BY <1>0, <2>1 DEF Knows, Sub
  <2> QED BY <1>6, <2>1, <2>2
<1>13. CASE SaveBegin(c)
  <2>1. /\ mem' = mem /\ lock' = c /\ worker[c].at = "save"
        /\ worker' = [worker EXCEPT ![c].at = "saving",
                                    ![c].shot = Snapshot(c, worker[c].goal)]
    BY <1>13 DEF SaveBegin, stateVars
  <2>2. /\ worker'[c].at = "saving" /\ worker'[c].shot = Snapshot(c, worker[c].goal)
        /\ worker'[c].goal = worker[c].goal
    BY <1>0, <2>1 DEF Workers
  <2>3. Snapshot(c, worker[c].goal)' = Snapshot(c, worker[c].goal) /\ Sub(c)' = Sub(c)
    BY <1>0, <2>1, <2>2 DEF Snapshot, Sub
  <2>4. c \in batch'.started /\ Sub(c) \in Open /\ worker[c].goal \in Final \cup {"running"}
    BY <1>0, <1>1, <2>1 DEF Knows
  <2> QED BY <2>1, <2>2, <2>3, <2>4 DEF Knows
<1>14. CASE SaveEnd(c)
  <2>1. /\ Breaks(c) \/ (AfterSave(c) /\ mem' = Snapshot(c, worker[c].goal))
        /\ worker[c].at = "saving"
    BY <1>14 DEF SaveEnd, Keep
  <2>2. worker[c].at = "saving" => c \in batch'.started
    BY <1>0, <1>1 DEF Knows
  <2>3. mem' = Snapshot(c, worker[c].goal) => Sub(c)' = worker[c].goal
    BY <1>0, WorkerSaves, SnapshotIs DEF Sub
  <2>4. ASSUME AfterSave(c)
        PROVE \/ worker[c].goal = "running" /\ worker'[c].at = "work"
              \/ worker[c].goal = "running" /\ worker'[c].at = "save"
                 /\ worker'[c].goal = "cancelled"
              \/ worker'[c].at = "gone"
    BY <1>0, <1>3, <2>4 DEF AfterSave, Workers
  <2>5. CASE AfterSave(c) /\ mem' = Snapshot(c, worker[c].goal) /\ worker[c].at = "saving"
    BY <2>2, <2>3, <2>4, <2>5 DEF Knows, Final, Open
  <2> QED BY <1>2, <1>4, <2>1, <2>5
<1>15. CASE Work(c) \/ ChildSaves(c) \/ StopWork(c)
  <2>1. /\ mem' = mem /\ worker[c].at = "work"
        /\ \E goal \in {"completed", "failed", "running", "cancelled"} :
               worker' = [worker EXCEPT ![c].at = "save", ![c].goal = goal]
    BY <1>15 DEF Work, ChildSaves, StopWork, stateVars
  <2>2. worker'[c].at = "save" /\ worker'[c].goal \in Final \cup {"running"}
    BY <1>0, <2>1 DEF Workers, Final
  <2>3. c \in batch'.started /\ Sub(c)' = "running"
    BY <1>0, <1>1, <2>1 DEF Knows, Sub
  <2> QED BY <2>2, <2>3 DEF Knows, Open
<1> QED BY <1>5, <1>7, <1>8, <1>9, <1>10, <1>11, <1>12, <1>13, <1>14, <1>15 DEF Worker

\* While no worker is inside, no task is open, unless something failed.
LEMMA NoneOpen ==
  ASSUME Watched, clean, at # "idle", \A c \in Calls : worker[c].at \in {"none", "gone"}
  PROVE \A c \in Calls : Sub(c) \notin Open
  BY DEF Watched, AtWork

\* What workers know stays true.
LEMMA TrackedStep ==
  ASSUME TypeOK, Running, Cleanly, InHand, Phased, Formed(mem.msgs), Beside, Tracked, Watched,
         [Next]_vars
  PROVE Tracked'
<1>1. CASE StartRun \/ Parent
  <2> SUFFICES ASSUME NEW c \in Calls PROVE Knows(c)'
    BY DEF Tracked
  <2>1. CASE worker'[c].at \in {"none", "gone"}
    BY <2>1 DEF Knows
  <2>2. CASE worker'[c].at \notin {"none", "gone"}
    <3>1. /\ OpenGroup /\ worker'[c].at = "new"
          /\ \A d \in Calls : worker[d].at \in {"none", "gone"}
      BY <1>1, <2>2, Alone
    <3>2. at = "tools" /\ batch.phase = "next" /\ mem' = mem /\ run' = run
      BY <3>1 DEF OpenGroup, stateVars
    <3>3. clean
      BY <3>2 DEF Cleanly
    <3>4. Sub(c) \notin Open
      BY <3>1, <3>2, <3>3, NoneOpen
    <3> QED BY <3>1, <3>2, <3>4 DEF Knows, Sub
  <2> QED BY <2>1, <2>2
<1>2. CASE Cancel
  <2> SUFFICES ASSUME NEW c \in Calls PROVE Knows(c)'
    BY DEF Tracked
  <2>0. worker \in [Calls -> Workers]
    BY TypeParts DEF WorkersOK
  <2>1. /\ worker'[c].at = worker[c].at /\ worker'[c].goal = worker[c].goal
        /\ worker'[c].shot = worker[c].shot
    BY <2>0, <1>2 DEF Cancel, Workers
  <2>2. mem' = mem /\ run' = run /\ batch' = batch /\ lock' = lock
    BY <1>2 DEF Cancel, stateVars, loopVars
  <2> QED BY <2>1, <2>2 DEF Tracked, Knows, Sub, Snapshot
<1>3. CASE Crash
  BY <1>3 DEF Crash, Tracked, Knows, Idle
<1>4. ASSUME NEW c \in TaskCalls, Worker(c) PROVE Tracked'
  BY <1>4, OwnKnows, OthersKnow DEF Tracked
<1>5. CASE UNCHANGED vars
  BY <1>5 DEF vars, stateVars, loopVars, toolVars, Tracked, Knows, Sub, Snapshot
<1> QED BY <1>1, <1>2, <1>3, <1>4, <1>5, NextIs DEF Main

\* A worker does not leave its task open, unless it fails.
LEMMA OwnStays ==
  ASSUME TypeOK, Running, Tracked, NEW c \in TaskCalls, Worker(c), clean', Sub(c)' \in Open
  PROVE worker'[c].at \in AtWork
<1>0. /\ Knows(c) /\ c \in Calls /\ worker \in [Calls -> Workers] /\ run' = run
      /\ ~(clean' = FALSE)
  BY WorkerSaves, TypeParts, WorkerMemIs DEF Tracked, WorkersOK
<1>1. CASE Begin(c) \/ AdmitKnown(c) \/ AdmitRefused(c) \/ AdmitNew(c)
  <2>1. worker[c].at \in {"new", "admit"} /\ mem' = mem
    BY <1>1 DEF Begin, AdmitKnown, AdmitRefused, AdmitNew, stateVars
  <2> QED BY <1>0, <2>1 DEF Knows, Sub
<1>2. CASE Admitted(c)
  <2>1. worker[c].at = "admitting" /\ ToQueue(c)
    BY <1>0, <1>2 DEF Admitted, SaveFails
  <2>2. Sub(c) = "none"
    BY <1>0, <2>1 DEF Knows
  <2> QED BY <1>0, <2>1, <2>2 DEF ToQueue, Move, Workers, AtWork, Sub
<1>3. CASE Enter(c)
  <2>1. /\ mem' = mem /\ worker[c].at = "queue"
        /\ \/ worker' = [worker EXCEPT ![c].at = "save", ![c].goal = "running",
                                       ![c].permit = TRUE]
           \/ Sub(c) \in Final \cup {"running"}
    BY <1>3 DEF Enter, Sub, stateVars
  <2>2. Sub(c) = "pending"
    BY <1>0, <2>1 DEF Knows, Sub, Final, Open
  <2> QED BY <1>0, <2>1, <2>2 DEF Workers, AtWork, Final
<1>4. CASE LeaveQueue(c)
  <2>1. mem' = mem /\ worker[c].at = "queue" /\ ToQueue(c)
    BY <1>4 DEF LeaveQueue, stateVars
  <2>2. Sub(c) = "pending"
    BY <1>0, <2>1 DEF Knows, Sub, Final, Open
  <2> QED BY <1>0, <2>1, <2>2 DEF ToQueue, Move, Workers, AtWork, Sub
<1>5. CASE SaveBegin(c) \/ Work(c) \/ ChildSaves(c) \/ StopWork(c)
  BY <1>0, <1>5, ZenonT(40) DEF SaveBegin, Work, ChildSaves, StopWork, Workers, AtWork
<1>6. CASE SaveEnd(c)
  <2>1. AfterSave(c) /\ mem' = Snapshot(c, worker[c].goal)
    BY <1>0, <1>6 DEF SaveEnd, SaveFails, Keep
  <2>2. Sub(c)' = worker[c].goal
    BY <1>0, <2>1, WorkerSaves, SnapshotIs DEF Sub
  <2>3. worker[c].goal \notin Final
    BY <2>2 DEF Open, Final
  <2> QED BY <1>0, <2>1, <2>3 DEF AfterSave, Workers, AtWork
<1> QED BY <1>1, <1>2, <1>3, <1>4, <1>5, <1>6 DEF Worker

\* A task that is open keeps its worker.
LEMMA WatchedStep ==
  ASSUME TypeOK, Running, Cleanly, InHand, Phased, Formed(mem.msgs), Beside, Tracked, Watched,
         Untouched, [Next]_vars
  PROVE Watched'
<1>0. CountsOK /\ SavedOK /\ NumbersOK
  BY TypeParts
<1>1. CASE StartRun
  <2>1. /\ mem' = [disk EXCEPT !.msgs = Append(disk.msgs, User)]
        /\ run' = run + 1 /\ run < MaxRuns
    BY <1>1 DEF StartRun
  <2>2. mem'.subs = disk.subs
    BY <1>0, <2>1 DEF SavedOK, State
  <2>3. run' \in Runs /\ run' > run
    BY <1>0, <2>1, AgentAssumption DEF Runs, NumbersOK
  <2>4. \A c \in Calls : Sub(c)' = "none"
    BY <2>2, <2>3 DEF Sub, Untouched
  <2> QED BY <2>4 DEF Watched, Open
<1>2. CASE Parent
  <2>1. mem'.subs = mem.subs /\ run' = run /\ at # "idle"
    <3>1. mem'.subs = mem.subs
      BY <1>2, MemIs
    <3>2. run' = run /\ at # "idle"
      BY <1>2, ParentStays
    <3> QED BY <3>1, <3>2
  <2>2. clean' => clean
    BY <1>0, <1>2, SavesAre, SaveIs
  <2>3. \A c \in Calls : worker[c].at \in {"none", "gone"}
    BY <1>2, Alone
  <2>4. clean => \A c \in Calls : Sub(c) \notin Open
    BY <2>1, <2>3, NoneOpen
  <2> QED BY <2>1, <2>2, <2>4 DEF Watched, Sub
<1>3. CASE Cancel
  <2>0. worker \in [Calls -> Workers]
    BY TypeParts DEF WorkersOK
  <2>1. \A c \in Calls : worker'[c].at = worker[c].at
    BY <2>0, <1>3 DEF Cancel, Workers
  <2>2. mem' = mem /\ run' = run /\ at' = at /\ clean' = clean
    BY <1>3 DEF Cancel, stateVars, loopVars, history
  <2> QED BY <2>1, <2>2 DEF Watched, Sub
<1>4. CASE Crash
  BY <1>4 DEF Crash, Watched
<1>5. ASSUME NEW c \in TaskCalls, Worker(c) PROVE Watched'
  <2> SUFFICES ASSUME clean', NEW d \in Calls, Sub(d)' \in Open PROVE worker'[d].at \in AtWork
    BY DEF Watched
  <2>1. clean /\ at # "idle" /\ run' = run /\ run \in Runs
    <3>1. clean' => clean
      BY <1>0, <1>5, SavesAreShots, SaveIs
    <3> QED BY <1>5, <3>1, WorkerMemIs, SubsMove DEF InGroup
  <2>2. CASE d # c
    <3>1. worker'[d].at = worker[d].at /\ Sub(d)' = Sub(d)
      BY <1>5, <2>1, <2>2, OthersKeep, SubsMove DEF Sub
    <3> QED BY <2>1, <3>1 DEF Watched
  <2>3. CASE d = c
    BY <1>5, <2>3, OwnStays
  <2> QED BY <2>2, <2>3
<1>6. CASE UNCHANGED vars
  BY <1>6 DEF vars, stateVars, loopVars, toolVars, history, Watched, Sub
<1> QED BY <1>1, <1>2, <1>3, <1>4, <1>5, <1>6, NextIs DEF Main

\* A child is started once.
LEMMA StartedStep ==
  ASSUME TypeOK, Running, InHand, Phased, Formed(mem.msgs), Tracked, StartedOnce, [Next]_vars
  PROVE StartedOnce'
<1>0. /\ children \in [Runs -> [Calls -> Nat]] /\ run \in Nat /\ \A r \in Runs : r \in Nat
  BY TypeParts, AgentAssumption DEF PastOK, NumbersOK, Runs
<1>1. CASE StartRun
  <2>1. run' = run + 1 /\ children' = children
    BY <1>1 DEF StartRun
  <2>2. \A r \in Runs : r > run' => r > run
    BY <1>0, <2>1
  <2>3. run' > run
    BY <1>0, <2>1
  <2>4. run' \in Runs
    BY <1>1, RunningStep DEF StartRun, Running
  <2>5. \A c \in Calls : children[run'][c] = 0
    BY <2>3, <2>4 DEF StartedOnce
  <2> QED BY <2>1, <2>2, <2>5 DEF StartedOnce
<1>2. CASE Parent
  <2>1. mem'.subs = mem.subs
    BY <1>2, MemIs
  <2>2. run' = run /\ children' = children /\ at # "idle"
    BY <1>2, ParentStays
  <2> QED BY <2>1, <2>2 DEF StartedOnce, Sub
<1>3. CASE Cancel
  BY <1>3 DEF Cancel, stateVars, loopVars, history, StartedOnce, Sub
<1>4. CASE Crash
  BY <1>4 DEF Crash, StartedOnce
<1>5. ASSUME NEW c \in TaskCalls, Worker(c) PROVE StartedOnce'
  <2>1. /\ run' = run /\ at' = at /\ at # "idle" /\ run \in Runs /\ c \in Calls
    BY <1>5, WorkerMemIs, SubsMove DEF InGroup
  <2>2. \A d \in Calls : Sub(d)' \in {"none", "pending"} => Sub(d) \in {"none", "pending"}
    <3> SUFFICES ASSUME NEW d \in Calls, Sub(d)' \in {"none", "pending"}
                 PROVE Sub(d) \in {"none", "pending"}
      OBVIOUS
    <3>1. CASE d # c \/ mem' = mem
      BY <1>5, <2>1, <3>1, SubsMove DEF Sub
    <3>2. CASE d = c /\ mem' # mem
      BY <1>5, <3>2, SubsMove DEF Final
    <3> QED BY <3>1, <3>2
  <2>3. CASE children' = children
    BY <2>1, <2>2, <2>3 DEF StartedOnce
  <2>4. CASE children' # children
    <3>1. PICK e \in TaskCalls : /\ worker[e].at = "saving" /\ Sub(e) = "pending"
                                 /\ worker[e].goal = "running" /\ AfterSave(e) /\ SaveEnd(e)
                                 /\ children' = [children EXCEPT ![run][e] = @ + 1]
      BY <2>4, ChildrenAre
    <3>2. e \in Calls
      BY AgentAssumption
    <3>3. mem' = Snapshot(e, "running")
      BY <2>4, <3>1 DEF SaveEnd, Keep
    <3>4. Sub(e)' = "running"
      <4>1. mem \in State
        BY <1>5, WorkerSaves
      <4> QED BY <2>1, <3>2, <3>3, <4>1, SnapshotIs DEF Sub, Status
    <3>5. children[run][e] = 0
      BY <2>1, <3>1, <3>2 DEF StartedOnce
    <3>6. \A r \in Runs, d \in Calls :
              children'[r][d] = IF r = run /\ d = e THEN 1 ELSE children[r][d]
      BY <1>0, <2>1, <3>1, <3>2, <3>5
    <3>7. \A r \in Runs : r > run => r # run
      BY <1>0
    <3>8. \A r \in Runs, d \in Calls : /\ children'[r][d] <= 1
                                       /\ r > run' => children'[r][d] = 0
      BY <2>1, <3>6, <3>7 DEF StartedOnce
    <3>9. \A d \in Calls : Sub(d)' \in {"none", "pending"} => children'[run'][d] = 0
      BY <2>1, <2>2, <3>4, <3>6 DEF StartedOnce
    <3> QED BY <3>8, <3>9 DEF StartedOnce
  <2> QED BY <2>3, <2>4
<1>6. CASE UNCHANGED vars
  BY <1>6 DEF vars, stateVars, loopVars, history, StartedOnce, Sub
<1> QED BY <1>1, <1>2, <1>3, <1>4, <1>5, <1>6, NextIs DEF Main

\* What the parent changes of the results in hand.
LEMMA OutsAre ==
  ASSUME BatchOK, Parent, at' \in {"tools", "abort"}
  PROVE \/ at = "reply" /\ \A c \in Calls : batch'.out[c] = "none"
        \/ at = "tools" /\ \A c \in Calls : batch'.out[c] \in {batch.out[c], "done"}
<1>0. batch \in Batches
  BY DEF BatchOK
<1>1. CASE Repair \/ Reply \/ NoReply \/ EndRun \/ FinishAborted
  BY <1>1, ZenonT(40) DEF Repair, Reply, NoReply, EndRun, FinishAborted, Goto, Failing
<1>2. CASE SaveReply
  <2>1. batch' = [NoBatch EXCEPT !.calls = mem.msgs[Len(mem.msgs)].calls] /\ at = "reply"
    BY <1>2 DEF SaveReply, Goto, Failing
  <2> QED BY <2>1 DEF NoBatch
<1>3. CASE Act \/ WriteTodos
  <2>1. at = "tools" /\ (batch' = batch \/ Returns("done"))
    BY <1>3 DEF Act, WriteTodos
  <2> QED BY <1>0, <2>1, ZenonT(40) DEF Returns, Batches
<1>4. CASE StartTool \/ CommitOne \/ CommitTask \/ Announce \/ OpenGroup \/ CloseGroup
  <2>1. at = "tools" /\ batch'.out = batch.out
    BY <1>0, <1>4 DEF StartTool, CommitOne, CommitTask, Commit, Announce, OpenGroup, CloseGroup,
                      Batches
  <2> QED BY <2>1
<1> QED BY <1>1, <1>2, <1>3, <1>4 DEF Parent

\* The results in hand stay those of the tasks.
LEMMA OutsStep ==
  ASSUME TypeOK, Running, InHand, Phased, Formed(mem.msgs), Tracked, Outs, [Next]_vars
  PROVE Outs'
<1>0. BatchOK /\ batch \in Batches
  BY TypeParts DEF BatchOK
<1>1. CASE StartRun \/ Crash
  BY <1>1 DEF StartRun, Crash, Outs
<1>2. CASE Parent
  <2> SUFFICES ASSUME at' \in {"tools", "abort"} PROVE Outs'
    BY DEF Outs
  <2>1. mem'.subs = mem.subs
    BY <1>2, MemIs
  <2>2. run' = run
    BY <1>2, ParentStays
  <2>3. \/ \A c \in Calls : batch'.out[c] = "none"
        \/ at = "tools" /\ \A c \in Calls : batch'.out[c] \in {batch.out[c], "done"}
    BY <1>0, <1>2, OutsAre
  <2>4. "none" \notin Final /\ "done" \notin Final
    BY DEF Final
  <2> QED BY <2>1, <2>2, <2>3, <2>4 DEF Outs, Sub
<1>3. CASE Cancel
  BY <1>3 DEF Cancel, stateVars, loopVars, Outs, Sub
<1>4. ASSUME NEW c \in TaskCalls, Worker(c) PROVE Outs'
  <2>1. at' = at /\ run' = run /\ at = "tools" /\ c \in Calls
    BY <1>4, WorkerMemIs, SubsMove DEF InGroup
  <2>2. \A d \in Calls : Sub(d) \in Final => Sub(d)' = Sub(d)
    <3> SUFFICES ASSUME NEW d \in Calls, Sub(d) \in Final PROVE Sub(d)' = Sub(d)
      OBVIOUS
    <3>1. CASE d # c \/ mem' = mem
      BY <1>4, <2>1, <3>1, SubsMove DEF Sub
    <3>2. CASE d = c /\ mem' # mem
      BY <1>4, <3>2, SubsMove DEF Final, Open
    <3> QED BY <3>1, <3>2
  <2>3. \A d \in Calls : d # c => batch'.out[d] = batch.out[d]
    BY <1>0, <1>4, WorkerBatchKeeps
  <2>4. \/ batch'.out[c] = batch.out[c]
        \/ batch'.out[c] = "refused"
        \/ batch'.out[c] \in Final /\ Sub(c)' = batch'.out[c]
    <3>1. CASE batch' = batch \/ batch' = [batch EXCEPT !.started = @ \cup {c}]
      BY <1>0, <3>1 DEF Batches
    <3>2. CASE batch' = [batch EXCEPT !.out[c] = "refused"]
      BY <1>0, <2>1, <3>2 DEF Batches
    <3>3. CASE Sub(c) \in Final /\ mem' = mem /\ batch' = [batch EXCEPT !.out[c] = Sub(c)]
      BY <1>0, <2>1, <3>3 DEF Batches, Sub
    <3>4. CASE worker[c].goal \in Final /\ mem' = Snapshot(c, worker[c].goal)
               /\ batch' = [batch EXCEPT !.out[c] = worker[c].goal]
      <4>1. Sub(c)' = worker[c].goal
        BY <1>4, <2>1, <3>4, WorkerSaves, SnapshotIs DEF Sub
      <4> QED BY <1>0, <2>1, <3>4, <4>1 DEF Batches
    <3> QED BY <1>4, <3>1, <3>2, <3>3, <3>4, WorkerBatchIs
  <2>5. "refused" \notin Final
    BY DEF Final
  <2> QED BY <1>4, <2>1, <2>2, <2>3, <2>4, <2>5 DEF Outs
<1>5. CASE UNCHANGED vars
  BY <1>5 DEF vars, stateVars, loopVars, toolVars, Outs, Sub
<1> QED BY <1>1, <1>2, <1>3, <1>4, <1>5, NextIs DEF Main

\* A Run that ends with nothing failed has closed its tasks.
LEMMA LeftOpenStep ==
  ASSUME TypeOK, Running, Cleanly, InHand, Phased, Formed(mem.msgs), SubsFollow, Beside, Watched,
         NothingIsLeftOpen, [Next]_vars
  PROVE NothingIsLeftOpen'
<1>0. CountsOK /\ SavedOK
  BY TypeParts
<1>1. CASE StartRun \/ Crash
  BY <1>1 DEF StartRun, Crash, NothingIsLeftOpen
<1>2. CASE Parent
  <2> SUFFICES ASSUME at' = "idle", clean'
               PROVE \A c \in Calls : disk'.subs[run'][c] \in Final \cup {"none"}
    BY DEF NothingIsLeftOpen
  <2>1. EndRun /\ at \in {"success", "end"} /\ run' = run /\ mem' = mem
    BY <1>2, ParentStays DEF EndRun
  <2>2. Saves(mem)
    BY <2>1 DEF EndRun, Saves
  <2>3. clean /\ ~behind
    BY <1>0, <2>2, SaveIs DEF Cleanly
  <2>4. disk'.subs = mem.subs
    <3>1. disk' = disk \/ disk' = mem
      BY <1>0, <2>2, SaveIs
    <3> QED BY <2>1, <2>3, <3>1 DEF SubsFollow
  <2>5. \A c \in Calls : Sub(c) \notin Open
    BY <1>2, <2>1, <2>3, Alone, NoneOpen
  <2>6. \A c \in Calls : Sub(c) \in Status
    <3>1. mem.subs \in [Runs -> [Calls -> Status]] /\ run \in Runs
      BY <1>0, <2>1, StateIs DEF SavedOK, Running
    <3> QED BY <3>1 DEF Sub
  <2> QED BY <2>1, <2>4, <2>5, <2>6 DEF Sub, Status, Open
<1>3. CASE Cancel
  BY <1>3 DEF Cancel, stateVars, loopVars, history, NothingIsLeftOpen
<1>4. ASSUME NEW c \in TaskCalls, Worker(c) PROVE NothingIsLeftOpen'
  BY <1>4, WorkerMemIs DEF InGroup, NothingIsLeftOpen
<1>5. CASE UNCHANGED vars
  BY <1>5 DEF vars, stateVars, loopVars, history, NothingIsLeftOpen
<1> QED BY <1>1, <1>2, <1>3, <1>4, <1>5, NextIs DEF Main

\* What the checkpoint holds of a task is not taken back.
LEMMA KeptStep ==
  ASSUME TypeOK, Running, InHand, Phased, Formed(mem.msgs), Tracked, SubsFollow, [Next]_vars
  PROVE \A r \in Runs, c \in Calls :
            /\ Rank(disk'.subs[r][c]) >= Rank(disk.subs[r][c])
            /\ disk.subs[r][c] \in Final => disk'.subs[r][c] = disk.subs[r][c]
<1>0. SavedOK
  BY TypeParts
<1>1. \A st : Rank(st) \in 0..3
  BY DEF Rank
<1>2. CASE disk'.subs = disk.subs
  BY <1>1, <1>2
<1>3. CASE StartRun
  <2>1. disk' = [disk EXCEPT !.msgs = Append(disk.msgs, User)]
    BY <1>3 DEF StartRun
  <2> QED BY <1>0, <1>2, <2>1 DEF SavedOK, State
<1>4. CASE Parent
  <2>1. disk' = disk \/ (~behind /\ disk'.subs = mem.subs)
    BY <1>4, DiskIs
  <2>2. at # "idle"
    BY <1>4, ParentStays
  <2> QED BY <1>2, <2>1, <2>2 DEF SubsFollow
<1>5. CASE Cancel \/ Crash
  BY <1>2, <1>5 DEF Cancel, Crash, stateVars
<1>6. ASSUME NEW c \in TaskCalls, Worker(c), disk' # disk
      PROVE \A r \in Runs, d \in Calls :
                /\ Rank(disk'.subs[r][d]) >= Rank(disk.subs[r][d])
                /\ disk.subs[r][d] \in Final => disk'.subs[r][d] = disk.subs[r][d]
  <2>1. /\ c \in Calls /\ run \in Runs /\ mem \in State /\ worker[c].goal \in Status /\ ~behind
        /\ \/ Sub(c) = "none" /\ disk' = Snapshot(c, "pending")
           \/ /\ Sub(c) \in Open /\ disk' = Snapshot(c, worker[c].goal)
              /\ worker[c].goal \in Final \cup {"running"}
    BY <1>6, WorkerSaves
  <2>2. disk.subs = mem.subs
    BY <1>6, <2>1, WorkerMemIs DEF SubsFollow, InGroup
  <2>3. PICK st \in Status :
            /\ disk' = Snapshot(c, st) /\ Sub(c) \notin Final /\ Rank(st) >= Rank(Sub(c))
    <3>1. CASE Sub(c) = "none" /\ disk' = Snapshot(c, "pending")
      BY <3>1 DEF Status, Final, Rank
    <3>2. CASE /\ Sub(c) \in Open /\ disk' = Snapshot(c, worker[c].goal)
               /\ worker[c].goal \in Final \cup {"running"}
      <4>1. Rank(worker[c].goal) >= Rank(Sub(c)) /\ Sub(c) \notin Final
        BY <3>2 DEF Open, Final, Rank
      <4> QED BY <2>1, <3>2, <4>1
    <3> QED BY <2>1, <3>1, <3>2
  <2>4. \A r \in Runs, d \in Calls :
            disk'.subs[r][d] = IF r = run /\ d = c THEN st ELSE mem.subs[r][d]
    BY <2>1, <2>3, SnapshotIs
  <2> QED BY <1>1, <2>2, <2>3, <2>4 DEF Sub
<1>7. CASE UNCHANGED vars
  BY <1>2, <1>7 DEF vars, stateVars
<1> QED BY <1>2, <1>3, <1>4, <1>5, <1>6, <1>7, NextIs DEF Main

\* Workers save what they change of their task, and leave the history alone.
LEMMA WorkerMsgs ==
  ASSUME TypeOK, Running, Tracked, NEW c \in TaskCalls, Worker(c)
  PROVE /\ mem'.msgs = mem.msgs /\ mem.msgs \in Seq(Message)
        /\ disk'.msgs = disk.msgs \/ disk'.msgs = mem.msgs
<1>1. /\ c \in Calls /\ run \in Runs /\ mem \in State /\ worker[c].goal \in Status
      /\ \/ disk' = disk /\ mem' = mem
         \/ /\ disk' = worker[c].shot /\ mem' \in {mem, worker[c].shot}
            /\ \E st \in {"pending", worker[c].goal} : worker[c].shot = Snapshot(c, st)
  BY WorkerSaves
<1>2. \A st \in {"pending", worker[c].goal} : Snapshot(c, st).msgs = mem.msgs
  BY <1>1, SnapshotIs DEF Status
<1> QED BY <1>1, <1>2, StateIs

\* Repair adds, if anything.
LEMMA RepairedGrows ==
  ASSUME NEW h \in Seq(Message), Formed(h)
  PROVE Repaired(h) \in Seq(Message) /\ Len(h) <= Len(Repaired(h))
<1>1. CASE \A i \in 1..Len(h) : IsReply(h, i) => Whole(h, i)
  BY <1>1, RepairedWhole DEF Formed
<1>2. CASE ~ \A i \in 1..Len(h) : IsReply(h, i) => Whole(h, i)
  <2>1. PICK p \in 1..Len(h) : IsReply(h, p) /\ ~Whole(h, p)
    BY <1>2
  <2>2. \E d \in Nat : Repaired(h) \in Seq(Message) /\ Len(Repaired(h)) = Len(h) + d
    BY <2>1, RepairedOpen
  <2> QED BY <2>2
<1> QED BY <1>1, <1>2

\* h is how g begins.
Begins(h, g) == Len(h) <= Len(g) /\ \A i \in 1..Len(h) : g[i] = h[i]

\* The parent adds to the history, at its end unless it repairs it.
LEMMA MsgsGrow ==
  ASSUME TypeOK, Running, InHand, Phased, Formed(mem.msgs), Parent
  PROVE /\ mem.msgs \in Seq(Message) /\ mem'.msgs \in Seq(Message)
        /\ Len(mem.msgs) <= Len(mem'.msgs)
        /\ ~Repair => Begins(mem.msgs, mem'.msgs)
        /\ Reply => Len(mem'.msgs) = Len(mem.msgs) + 1
<1>0. /\ mem.msgs \in Seq(Message) /\ mem'.msgs \in Seq(Message) /\ Len(mem.msgs) \in Nat
      /\ BatchOK /\ mem \in State
  BY TypeParts, MemIs, StateIs DEF SavedOK
<1>1. CASE mem'.msgs = mem.msgs /\ ~Reply
  BY <1>0, <1>1 DEF Begins
<1>2. CASE Repair /\ mem'.msgs = Repaired(mem.msgs)
  <2>1. ~Reply
    BY <1>2 DEF Repair, Reply
  <2> QED BY <1>0, <1>2, <2>1, RepairedGrows
<1>3. CASE \E m \in Message : mem'.msgs = Append(mem.msgs, m)
  BY <1>0, <1>3, AppendIs, SMTT(40) DEF Begins
<1>4. CASE FinishAborted /\ mem'.msgs = mem.msgs \o Left
  <2>1. at = "abort" /\ ~Reply
    BY <1>4 DEF FinishAborted, Reply
  <2>2. Left \in Seq(Message) /\ Len(Left) \in Nat
    BY <1>0, <2>1, RunIs, LeftIs DEF InHand
  <2>3. Len(mem'.msgs) = Len(mem.msgs) + Len(Left)
        /\ \A i \in 1..Len(mem.msgs) + Len(Left) :
               mem'.msgs[i] = IF i <= Len(mem.msgs) THEN mem.msgs[i] ELSE Left[i - Len(mem.msgs)]
    BY <1>0, <1>4, <2>2, ConcatIs
  <2> QED BY <1>0, <2>1, <2>2, <2>3, SMTT(40) DEF Begins
<1>5. at # "idle"
  BY ParentStays
<1>6. run \in Runs
  BY <1>5, RunIs
<1>7. CASE Reply /\ \E r \in Replies : mem'.msgs = Append(mem.msgs, Assistant(r))
  BY <1>3, <1>6, <1>7, MessagesAre
<1>8. CASE NextCall /\ mem'.msgs = Append(mem.msgs, Result(Current, batch.out[Current]))
  <2>1. Result(Current, batch.out[Current]) \in Message
    BY <1>0, <1>6, <1>8, CommitIs
  <2> QED BY <1>3, <1>8, <2>1
<1> QED BY <1>1, <1>2, <1>4, <1>7, <1>8, MemIs

\* The turn in hand begins with a reply that is saved, and goes on call by call.
LEMMA TurnMoves ==
  ASSUME TypeOK, Running, InHand, Phased, Formed(mem.msgs), Parent, at' \in {"tools", "abort"}
  PROVE \/ /\ SaveReply /\ at = "reply" /\ at' = "tools" /\ mem' = mem /\ disk' = mem
           /\ batch' = [NoBatch EXCEPT !.calls = mem.msgs[Len(mem.msgs)].calls]
           /\ acted' = acted
        \/ /\ at = "tools" /\ batch'.calls = batch.calls /\ HereNow' = HereNow
           /\ batch.started \subseteq batch'.started
           /\ \/ mem'.msgs = mem.msgs /\ batch'.appended = batch.appended
              \/ /\ CommitOne \/ CommitTask
                 /\ NextCall /\ batch'.appended = batch.appended + 1 /\ acted' = acted
                 /\ mem'.msgs = Append(mem.msgs, Result(Current, batch.out[Current]))
<1>0. BatchOK /\ batch \in Batches /\ mem.msgs \in Seq(Message) /\ Len(mem.msgs) \in Nat
  BY TypeParts, StateIs DEF BatchOK, SavedOK
<1>1. CASE Repair \/ Reply \/ NoReply \/ EndRun \/ FinishAborted
  BY <1>1, ZenonT(40) DEF Repair, Reply, NoReply, EndRun, FinishAborted, Goto, Failing
<1>2. CASE SaveReply
  BY <1>2 DEF SaveReply, SaveOk, Goto, Failing
<1>3. CASE CommitOne \/ CommitTask
  <2>1. at = "tools" /\ acted' = acted /\ batch'.appended = batch.appended + 1
        /\ batch'.calls = batch.calls /\ batch'.started = batch.started
    BY <1>0, <1>3 DEF CommitOne, CommitTask, Commit, Batches
  <2>2. ~Reply /\ ~Repair /\ ~FinishAborted
    BY <2>1 DEF Reply, Repair, FinishAborted
  <2>3. NextCall /\ mem'.msgs = Append(mem.msgs, Result(Current, batch.out[Current]))
    BY <1>3, <2>2, MemIs
  <2>4. run \in Runs /\ Result(Current, batch.out[Current]) \in Message
    <3>1. run \in Runs /\ mem \in State
      BY <2>1, RunIs
    <3> QED BY <1>0, <2>3, <3>1, CommitIs
  <2>5. Len(mem'.msgs) = Len(mem.msgs) + 1
    BY <1>0, <2>3, <2>4, AppendIs
  <2>6. batch.appended \in Nat
    BY <1>0, BatchIs
  <2>7. HereNow' = HereNow
    <3>1. HereNow' = (Len(mem.msgs) + 1) - (batch.appended + 1)
      BY <2>1, <2>5 DEF HereNow
    <3>2. (Len(mem.msgs) + 1) - (batch.appended + 1) = Len(mem.msgs) - batch.appended
      BY <1>0, <2>6
    <3> QED BY <3>1, <3>2 DEF HereNow
  <2> QED BY <1>3, <2>1, <2>3, <2>7
<1>4. CASE StartTool \/ Act \/ WriteTodos \/ Announce \/ OpenGroup \/ CloseGroup
  <2>1. at = "tools"
    BY <1>4 DEF StartTool, Act, WriteTodos, Announce, OpenGroup, CloseGroup
  <2>2. ~Reply /\ ~Repair /\ ~FinishAborted
    BY <2>1 DEF Reply, Repair, FinishAborted
  <2>3. ~CommitOne /\ ~CommitTask
    BY <1>4 DEF StartTool, Act, WriteTodos, Announce, OpenGroup, CloseGroup, CommitOne, CommitTask,
                Commit
  <2>4. mem'.msgs = mem.msgs
    BY <2>2, <2>3, MemIs
  <2>5. \/ batch' = batch
        \/ batch' = [batch EXCEPT !.phase = "act", !.started = @ \cup {Current}]
        \/ batch' = [batch EXCEPT !.phase = "commit", !.out[Current] = "done"]
        \/ batch' = [batch EXCEPT !.phase = "group", !.group = Group]
        \/ batch' = [batch EXCEPT !.phase = "commits"]
    BY <1>4 DEF StartTool, Act, WriteTodos, Announce, OpenGroup, CloseGroup, Returns
  <2>6. /\ batch'.calls = batch.calls /\ batch'.appended = batch.appended
        /\ batch.started \subseteq batch'.started
    <3>1. CASE batch' = batch
      BY <3>1
    <3>2. CASE batch' = [batch EXCEPT !.phase = "act", !.started = @ \cup {Current}]
      BY <1>0, <3>2 DEF Batches
    <3>3. CASE batch' = [batch EXCEPT !.phase = "commit", !.out[Current] = "done"]
      BY <1>0, <3>3 DEF Batches
    <3>4. CASE batch' = [batch EXCEPT !.phase = "group", !.group = Group]
      BY <1>0, <3>4 DEF Batches
    <3>5. CASE batch' = [batch EXCEPT !.phase = "commits"]
      BY <1>0, <3>5 DEF Batches
    <3> QED BY <2>5, <3>1, <3>2, <3>3, <3>4, <3>5
  <2> QED BY <2>1, <2>4, <2>6 DEF HereNow
<1> QED BY <1>1, <1>2, <1>3, <1>4 DEF Parent

\* The history in memory stays ahead of the checkpoint.
LEMMA MsgsStep ==
  ASSUME TypeOK, Running, InHand, Phased, Formed(mem.msgs), Tracked, MsgsFollow, [Next]_vars
  PROVE MsgsFollow' /\ Len(disk.msgs) <= Len(disk'.msgs)
<1>0. /\ mem.msgs \in Seq(Message) /\ disk.msgs \in Seq(Message)
      /\ Len(mem.msgs) \in Nat /\ Len(disk.msgs) \in Nat
      /\ disk'.msgs \in Seq(Message) /\ Len(disk'.msgs) \in Nat
  BY TypeParts, StateIs, SavedStep DEF SavedOK
<1>1. CASE StartRun
  <2>1. /\ mem' = disk' /\ at' = "repair"
        /\ disk' = [disk EXCEPT !.msgs = Append(disk.msgs, User)]
    BY <1>1 DEF StartRun
  <2>2. disk'.msgs = Append(disk.msgs, User)
    BY <2>1, TypeParts DEF SavedOK, State
  <2>3. Len(disk'.msgs) = Len(disk.msgs) + 1
    BY <1>0, <2>2
  <2> QED BY <1>0, <2>1, <2>3 DEF MsgsFollow, Asked
<1>2. CASE Parent
  <2>0. /\ mem'.msgs \in Seq(Message) /\ Len(mem'.msgs) \in Nat
        /\ Len(mem.msgs) <= Len(mem'.msgs) /\ (~Repair => Begins(mem.msgs, mem'.msgs))
        /\ (Reply => Len(mem'.msgs) = Len(mem.msgs) + 1)
    BY <1>2, MsgsGrow
  <2>1. at # "idle" /\ at' # "repair" /\ (at' = "reply" => Reply)
        /\ (at' \in Asked => at \in Asked \/ Repair)
    BY <1>2, ParentStays
  <2>2. disk' = disk \/ disk'.msgs = mem'.msgs
    BY <1>2, DiskIs
  <2>3. /\ Len(disk.msgs) <= Len(disk'.msgs) /\ Len(disk'.msgs) <= Len(mem'.msgs)
    BY <1>0, <2>0, <2>1, <2>2 DEF MsgsFollow
  <2>4. at' = "reply" => Len(disk'.msgs) < Len(mem'.msgs)
    <3>1. Reply => disk' = disk
      BY DEF Reply
    <3> QED BY <1>0, <2>0, <2>1, <3>1 DEF MsgsFollow
  <2>5. ASSUME at' \in Asked PROVE \A i \in 1..Len(disk'.msgs) : disk'.msgs[i] = mem'.msgs[i]
    <3>1. CASE disk'.msgs = mem'.msgs
      BY <3>1
    <3>2. CASE disk' = disk /\ Repair
      <4>1. mem' = mem \/ disk' = mem'
        BY <2>5, <3>2 DEF Repair, SaveOk, Failing, Asked
      <4>2. at = "repair"
        BY <3>2 DEF Repair
      <4> QED BY <3>2, <4>1, <4>2 DEF MsgsFollow
    <3>3. CASE disk' = disk /\ ~Repair
      <4>1. \A i \in 1..Len(mem.msgs) : mem'.msgs[i] = mem.msgs[i]
        BY <2>0, <3>3 DEF Begins
      <4>2. \A i \in 1..Len(disk.msgs) : i \in 1..Len(mem.msgs)
        BY <1>0, <2>1 DEF MsgsFollow
      <4> QED BY <2>1, <2>5, <3>3, <4>1, <4>2 DEF MsgsFollow
    <3> QED BY <2>2, <3>1, <3>2, <3>3
  <2>6. at' \in {"tools", "abort"} => HereNow' <= Len(disk'.msgs)
    <3> SUFFICES ASSUME at' \in {"tools", "abort"} PROVE HereNow' <= Len(disk'.msgs)
      OBVIOUS
    <3>1. CASE mem' = mem /\ disk' = mem /\ batch'.appended = 0
      BY <1>0, <3>1 DEF HereNow
    <3>2. CASE at = "tools" /\ HereNow' = HereNow
      <4>1. HereNow <= Len(disk.msgs)
        BY <3>2 DEF MsgsFollow
      <4>2. HereNow \in Int
        BY <1>0, TypeParts, BatchIs DEF HereNow
      <4> QED BY <1>0, <2>3, <3>2, <4>1, <4>2
    <3> QED BY <1>2, <3>1, <3>2, TurnMoves DEF NoBatch
  <2> QED BY <2>1, <2>3, <2>4, <2>5, <2>6 DEF MsgsFollow
<1>3. CASE Cancel
  BY <1>0, <1>3 DEF Cancel, stateVars, loopVars, MsgsFollow, HereNow
<1>4. CASE Crash
  BY <1>0, <1>4 DEF Crash, MsgsFollow, Asked
<1>5. ASSUME NEW c \in TaskCalls, Worker(c) PROVE MsgsFollow' /\ Len(disk.msgs) <= Len(disk'.msgs)
  <2>1. at' = at /\ at = "tools" /\ mem'.msgs = mem.msgs
        /\ (disk'.msgs = disk.msgs \/ disk'.msgs = mem.msgs)
    BY <1>5, WorkerMsgs, WorkerMemIs DEF InGroup
  <2>2. batch'.appended = batch.appended /\ batch.appended \in Nat
    BY <1>5, TypeParts, WorkerBatchKeeps, BatchIs
  <2>3. HereNow' = HereNow /\ HereNow \in Int
    BY <1>0, <2>1, <2>2 DEF HereNow
  <2>4. HereNow <= Len(mem.msgs)
    BY <1>0, <2>2 DEF HereNow
  <2> QED BY <1>0, <2>1, <2>3, <2>4 DEF MsgsFollow
<1>6. CASE UNCHANGED vars
  BY <1>0, <1>6 DEF vars, stateVars, loopVars, toolVars, MsgsFollow, HereNow
<1> QED BY <1>1, <1>2, <1>3, <1>4, <1>5, <1>6, NextIs DEF Main

\* What acts is a call of a saved reply, and was started.
LEMMA ActedStep ==
  ASSUME TypeOK, Running, InHand, Phased, Formed(mem.msgs), Tracked, MsgsFollow,
         ActedSaved, ActedStarted, [Next]_vars
  PROVE ActedSaved' /\ ActedStarted'
<1>0. /\ Len(mem.msgs) \in Nat /\ Len(disk.msgs) \in Nat /\ Len(disk'.msgs) \in Nat
      /\ Len(disk.msgs) <= Len(disk'.msgs)
  BY TypeParts, StateIs, SavedStep, MsgsStep DEF SavedOK
<1>1. ASSUME acted' # acted
      PROVE \E c \in Calls : /\ at = "tools" /\ c \in batch.started
                             /\ acted' = acted \cup {<<HereNow, c>>}
  <2>1. \A c \in TaskCalls : worker[c].at = "work" => c \in batch.started
    BY AgentAssumption DEF Tracked, Knows
  <2> QED BY <1>1, <2>1, ActedIs, AgentAssumption
<1>2. ActedSaved'
  <2> SUFFICES ASSUME NEW p \in Nat, NEW c \in Calls, <<p, c>> \in acted'
               PROVE p <= Len(disk'.msgs)
    BY DEF ActedSaved
  <2>1. CASE <<p, c>> \in acted
    <3>1. p <= Len(disk.msgs)
      BY <2>1 DEF ActedSaved
    <3> QED BY <1>0, <3>1
  <2>2. CASE <<p, c>> \notin acted
    <3>1. p = HereNow /\ at = "tools"
      BY <1>1, <2>2
    <3>2. p <= Len(disk.msgs)
      BY <3>1 DEF MsgsFollow
    <3> QED BY <1>0, <3>2
  <2> QED BY <2>1, <2>2
<1>3. ASSUME at \in {"tools", "abort"}, HereNow' = HereNow, batch.started \subseteq batch'.started
      PROVE ActedStarted'
  BY <1>1, <1>3 DEF ActedStarted
<1> SUFFICES ActedStarted'
  BY <1>2
<1>4. CASE StartRun \/ Crash
  BY <1>4 DEF StartRun, Crash, ActedStarted
<1>5. CASE Parent
  <2> SUFFICES ASSUME at' \in {"tools", "abort"} PROVE ActedStarted'
    BY DEF ActedStarted
  <2>1. CASE /\ at = "reply" /\ mem' = mem /\ acted' = acted
             /\ batch' = [NoBatch EXCEPT !.calls = mem.msgs[Len(mem.msgs)].calls]
    <3>1. HereNow' = Len(mem.msgs)
      BY <1>0, <2>1 DEF HereNow, NoBatch
    <3>2. Len(mem.msgs) > Len(disk.msgs)
      BY <1>0, <2>1 DEF MsgsFollow
    <3>3. \A c \in Calls : <<Len(mem.msgs), c>> \notin acted
      BY <1>0, <3>2 DEF ActedSaved
    <3> QED BY <2>1, <3>1, <3>3 DEF ActedStarted
  <2>2. CASE at = "tools" /\ HereNow' = HereNow /\ batch.started \subseteq batch'.started
    BY <1>3, <2>2
  <2> QED BY <1>5, <2>1, <2>2, TurnMoves
<1>6. CASE Cancel
  BY <1>6 DEF Cancel, stateVars, loopVars, history, ActedStarted, HereNow
<1>7. ASSUME NEW c \in TaskCalls, Worker(c) PROVE ActedStarted'
  <2>1. at = "tools" /\ mem'.msgs = mem.msgs
    BY <1>7, WorkerMsgs, WorkerMemIs DEF InGroup
  <2>2. batch'.appended = batch.appended /\ batch.started \subseteq batch'.started
    BY <1>7, TypeParts, WorkerBatchKeeps
  <2> QED BY <1>3, <2>1, <2>2 DEF HereNow
<1>8. CASE UNCHANGED vars
  BY <1>8 DEF vars, stateVars, loopVars, toolVars, history, ActedStarted, HereNow
<1> QED BY <1>4, <1>5, <1>6, <1>7, <1>8, NextIs DEF Main

\* A group is the tasks that come next.
LEMMA GroupIs ==
  ASSUME BatchOK, NextCall, Current \in TaskCalls
  PROVE /\ \E m \in batch.appended + 1..Len(batch.calls) :
               Group = {batch.calls[k] : k \in batch.appended + 1..m}
        /\ Group \subseteq TaskCalls
<1> DEFINE a == batch.appended
           n == Len(batch.calls)
           Other == {k \in a + 1..n : batch.calls[k] \notin TaskCalls}
           These == {j \in a + 1..n : \A i \in a + 1..j : batch.calls[i] \in TaskCalls}
<1>0. a \in Nat /\ n \in Nat /\ a + 1 \in 1..n /\ batch.calls[a + 1] \in TaskCalls
  BY BatchIs DEF NextCall, Current
<1>1. Group = {batch.calls[k] : k \in These}
  BY DEF Group
<1> HIDE DEF a, n
<1>2. Group \subseteq TaskCalls
  <2>1. \A j \in These : batch.calls[j] \in TaskCalls
    BY <1>0
  <2> QED BY <1>1, <2>1
<1>3. \E m \in a + 1..n : These = a + 1..m
  <2>1. CASE Other = {}
    <3>1. These = a + 1..n
      BY <1>0, <2>1
    <3> QED BY <1>0, <3>1
  <2>2. CASE Other # {}
    <3>1. Other \subseteq Nat
      BY <1>0
    <3>2. PICK f \in Other : \A k \in Other : f <= k
      <4>1. \E f \in Other : \A k \in Other : ~(k < f)
        BY <2>2, <3>1, Least
      <4> QED BY <3>1, <4>1
    <3>3. f \in a + 2..n /\ f - 1 \in a + 1..n
      BY <1>0, <3>2
    <3>4. \A k \in a + 1..f - 1 : batch.calls[k] \in TaskCalls
      BY <1>0, <3>2, <3>3
    <3>5. These = a + 1..f - 1
      BY <1>0, <3>2, <3>3, <3>4
    <3> QED BY <3>3, <3>5
  <2> QED BY <2>1, <2>2
<1>4. \E m \in a + 1..n : Group = {batch.calls[k] : k \in a + 1..m}
  BY <1>1, <1>3
<1> QED BY <1>2, <1>4 DEF a, n

\* What is left of a group is the calls behind the first.
LEMMA GroupShrinks ==
  ASSUME BatchOK, NextCall, NEW m \in batch.appended + 1..Len(batch.calls),
         batch.group = {batch.calls[k] : k \in batch.appended + 1..m}
  PROVE LET left == batch.group \ {Current} IN
        /\ left = {batch.calls[k] : k \in batch.appended + 2..m}
        /\ left # {} => m \in batch.appended + 2..Len(batch.calls)
<1> DEFINE a == batch.appended
           n == Len(batch.calls)
<1>0. /\ a \in Nat /\ n \in Nat /\ a + 1 \in 1..n /\ m \in a + 1..n
      /\ Current = batch.calls[a + 1]
      /\ batch.group = {batch.calls[k] : k \in a + 1..m}
      /\ \A j, k \in 1..n : batch.calls[j] = batch.calls[k] => j = k
  BY BatchIs DEF NextCall, Current
<1> HIDE DEF a, n
<1>1. \A k \in a + 2..m : k \in a + 1..m /\ batch.calls[k] # Current
  BY <1>0
<1>2. \A k \in a + 1..m : batch.calls[k] # Current => k \in a + 2..m
  BY <1>0
<1>3. batch.group \ {Current} = {batch.calls[k] : k \in a + 2..m}
  BY <1>0, <1>1, <1>2
<1>4. ASSUME batch.group \ {Current} # {} PROVE m \in a + 2..n
  <2>1. PICK k : k \in a + 2..m
    BY <1>3, <1>4
  <2> QED BY <1>0, <2>1
<1> QED BY <1>3, <1>4 DEF a, n

\* The phases of execute_tool_calls follow each other.
LEMMA PhasedStep ==
  ASSUME TypeOK, Running, InHand, Phased, Formed(mem.msgs), [Next]_vars
  PROVE Phased'
<1>0. BatchOK /\ batch \in Batches /\ batch.appended \in Nat /\ Len(batch.calls) \in Nat
  BY TypeParts, BatchIs DEF BatchOK
<1>1. CASE StartRun \/ Crash
  BY <1>1 DEF StartRun, Crash, Phased
<1>2. CASE UNCHANGED <<at, batch>>
  BY <1>2 DEF Phased, AllIn, Current
<1>3. CASE Repair \/ Reply \/ NoReply \/ EndRun \/ FinishAborted
  BY <1>3 DEF Repair, Reply, NoReply, EndRun, FinishAborted, Goto, Failing, Phased
<1>4. CASE SaveReply
  <2>1. at' = "tools" => batch' = [NoBatch EXCEPT !.calls = mem.msgs[Len(mem.msgs)].calls]
    BY <1>4 DEF SaveReply, Goto, Failing
  <2> QED BY <2>1 DEF NoBatch, Phased
<1>5. CASE StartTool
  <2> SUFFICES ASSUME at' = "tools" PROVE Phased'
    BY DEF Phased
  <2>1. /\ batch' = [batch EXCEPT !.phase = "act", !.started = batch.started \cup {Current}]
        /\ at = "tools" /\ batch.phase = "next" /\ ~AllIn /\ Current \notin TaskCalls
    BY <1>5 DEF StartTool, Abort
  <2>2. /\ batch'.phase = "act" /\ batch'.group = batch.group /\ batch'.calls = batch.calls
        /\ batch'.appended = batch.appended /\ batch'.started = batch.started \cup {Current}
    BY <1>0, <2>1 DEF Batches
  <2>3. batch.group = {}
    BY <2>1 DEF Phased
  <2> QED BY <2>1, <2>2, <2>3 DEF Phased, AllIn, Current
<1>6. CASE Act \/ WriteTodos
  <2> SUFFICES ASSUME at' = "tools" PROVE Phased'
    BY DEF Phased
  <2>1. at = "tools" /\ batch.phase = "act" /\ Returns("done")
    BY <1>6 DEF Act, WriteTodos, Abort
  <2>2. /\ batch'.phase = "commit" /\ batch'.group = batch.group /\ batch'.calls = batch.calls
        /\ batch'.appended = batch.appended /\ batch'.started = batch.started
    BY <1>0, <2>1 DEF Returns, Batches
  <2> QED BY <2>1, <2>2 DEF Phased, AllIn, Current
<1>7. CASE CommitOne \/ CommitTask
  <2> SUFFICES ASSUME at' = "tools" PROVE Phased'
    BY DEF Phased
  <2> DEFINE left == batch.group \ {Current}
  <2>1. /\ batch' = [batch EXCEPT !.appended = batch.appended + 1, !.group = left,
                       !.phase = IF left = {} THEN "next" ELSE "commits"]
        /\ at = "tools" /\ batch.phase \in {"commit", "commits"}
    BY <1>7 DEF CommitOne, CommitTask, Commit
  <2>2. /\ batch'.phase = (IF left = {} THEN "next" ELSE "commits") /\ batch'.group = left
        /\ batch'.appended = batch.appended + 1 /\ batch'.calls = batch.calls
    BY <1>0, <2>1 DEF Batches
  <2>3. CASE left = {}
    BY <2>2, <2>3 DEF Phased
  <2>4. CASE left # {}
    <3>1. batch.phase = "commits"
      BY <2>1, <2>4 DEF Phased
    <3>2. PICK m \in batch.appended + 1..Len(batch.calls) :
              /\ batch.group = {batch.calls[k] : k \in batch.appended + 1..m}
              /\ batch.group \subseteq TaskCalls
      BY <2>1, <3>1 DEF Phased
    <3>3. NextCall
      BY <1>0, <2>1, <3>1, PhaseIs
    <3>4. left = {batch.calls[k] : k \in batch.appended + 2..m}
          /\ m \in batch.appended + 2..Len(batch.calls)
      BY <1>0, <2>4, <3>2, <3>3, GroupShrinks
    <3>5. batch'.appended + 1 = batch.appended + 2
      BY <1>0, <2>2
    <3>6. \E e \in batch'.appended + 1..Len(batch'.calls) :
              left = {batch'.calls[k] : k \in batch'.appended + 1..e}
      BY <2>2, <3>4, <3>5
    <3>7. left \subseteq TaskCalls
      BY <3>2
    <3> QED BY <2>2, <2>4, <3>6, <3>7 DEF Phased
  <2> QED BY <2>3, <2>4
<1>8. CASE Announce
  BY <1>2, <1>8 DEF Announce, Abort, Phased
<1>9. CASE OpenGroup
  <2> SUFFICES ASSUME at' = "tools" PROVE Phased'
    BY DEF Phased
  <2>1. /\ batch' = [batch EXCEPT !.phase = "group", !.group = Group]
        /\ at = "tools" /\ batch.phase = "next" /\ ~AllIn /\ Current \in TaskCalls
    BY <1>9 DEF OpenGroup, Abort
  <2>2. /\ batch'.phase = "group" /\ batch'.group = Group /\ batch'.calls = batch.calls
        /\ batch'.appended = batch.appended
    BY <1>0, <2>1 DEF Batches
  <2>3. NextCall
    BY <1>0, <2>1, PhaseIs
  <2> QED BY <1>0, <2>1, <2>2, <2>3, GroupIs DEF Phased
<1>10. CASE CloseGroup
  <2> SUFFICES ASSUME at' = "tools" PROVE Phased'
    BY DEF Phased
  <2>1. at = "tools" /\ batch.phase = "group" /\ batch' = [batch EXCEPT !.phase = "commits"]
    BY <1>10 DEF CloseGroup, Abort
  <2>2. /\ batch'.phase = "commits" /\ batch'.group = batch.group /\ batch'.calls = batch.calls
        /\ batch'.appended = batch.appended
    BY <1>0, <2>1 DEF Batches
  <2> QED BY <2>1, <2>2 DEF Phased
<1>11. CASE Cancel
  BY <1>2, <1>11 DEF Cancel, loopVars
<1>12. ASSUME NEW c \in TaskCalls, Worker(c) PROVE Phased'
  <2>1. at' = at /\ at = "tools" /\ batch.phase = "group"
    BY <1>12, WorkerMemIs DEF InGroup
  <2>2. /\ batch'.calls = batch.calls /\ batch'.phase = batch.phase
        /\ batch'.group = batch.group /\ batch'.appended = batch.appended
    BY <1>0, <1>12, WorkerBatchKeeps
  <2> QED BY <2>1, <2>2 DEF Phased
<1>13. CASE UNCHANGED vars
  BY <1>2, <1>13 DEF vars, loopVars, toolVars
<1> QED BY <1>1, <1>3, <1>4, <1>5, <1>6, <1>7, <1>8, <1>9, <1>10, <1>11, <1>12, <1>13, NextIs
        DEF Main, Parent

\* A history g that is h, but for d more results of its last reply p behind the n it has.
GapFilled(h, g, p, n, d) ==
    /\ IsReply(h, p) /\ p + n <= Len(h) /\ Len(h[p].calls) = n + d /\ Len(g) = Len(h) + d
    /\ \A i \in 1..p + n : g[i] = h[i]
    /\ \A k \in 1..n : IsTool(h, p + k) /\ h[p + k].call = h[p].calls[k]
    /\ \A k \in 1..d : g[p + n + k] = Interrupted(h, p, n + k)
    /\ \A i \in p + n + 1..Len(h) : g[i + d] = h[i] /\ ~IsReply(h, i) /\ ~IsTool(h, i)

\* What is where in such a history.
LEMMA GapParts ==
  ASSUME NEW h \in Seq(Message), NEW g \in Seq(Message), Formed(h),
         NEW p \in 1..Len(h), NEW n \in Nat, NEW d \in Nat, GapFilled(h, g, p, n, d)
  PROVE /\ \A k \in 1..n + d : IsTool(g, p + k) /\ g[p + k].call = h[p].calls[k]
        /\ \A k \in 1..d : g[p + n + k].text = "interrupted"
        /\ \A j \in 1..Len(g) :
               \/ j <= p + n /\ g[j] = h[j]
               \/ j > p + n /\ j <= p + n + d /\ IsTool(g, j) /\ ~IsReply(g, j)
                  /\ g[j].text = "interrupted"
               \/ ~IsReply(g, j) /\ ~IsTool(g, j) /\ g[j].text = "none"
        /\ \A j \in 1..Len(g) : IsReply(g, j) => j <= p /\ g[j] = h[j]
<1>0. Len(h) \in Nat
  OBVIOUS
<1>1. \A k \in 1..d : /\ IsTool(g, p + n + k) /\ ~IsReply(g, p + n + k)
                      /\ g[p + n + k].call = h[p].calls[n + k]
                      /\ g[p + n + k].text = "interrupted"
  <2> SUFFICES ASSUME NEW k \in 1..d
               PROVE /\ IsTool(g, p + n + k) /\ ~IsReply(g, p + n + k)
                     /\ g[p + n + k].call = h[p].calls[n + k]
                     /\ g[p + n + k].text = "interrupted"
    OBVIOUS
  <2>1. g[p + n + k] = Interrupted(h, p, n + k)
    BY DEF GapFilled
  <2> QED BY <2>1 DEF Interrupted, IsTool, IsReply
<1>2. ASSUME NEW k \in 1..n + d PROVE IsTool(g, p + k) /\ g[p + k].call = h[p].calls[k]
  <2>1. CASE k <= n
    <3>1. p + k \in 1..p + n /\ k \in 1..n
      BY <2>1
    <3> QED BY <3>1 DEF GapFilled, IsTool
  <2>2. CASE k > n
    <3>1. k - n \in 1..d /\ p + n + (k - n) = p + k /\ n + (k - n) = k
      BY <2>2
    <3> QED BY <1>1, <3>1
  <2> QED BY <2>1, <2>2
<1>3. ASSUME NEW j \in 1..Len(g)
      PROVE \/ j <= p + n /\ g[j] = h[j]
            \/ j > p + n /\ j <= p + n + d /\ IsTool(g, j) /\ ~IsReply(g, j)
               /\ g[j].text = "interrupted"
            \/ ~IsReply(g, j) /\ ~IsTool(g, j) /\ g[j].text = "none"
  <2>1. CASE j <= p + n
    BY <2>1 DEF GapFilled
  <2>2. CASE j > p + n /\ j <= p + n + d
    <3>1. j - (p + n) \in 1..d /\ p + n + (j - (p + n)) = j
      BY <2>2
    <3> QED BY <1>1, <2>2, <3>1
  <2>3. CASE j > p + n + d
    <3>1. j - d \in p + n + 1..Len(h) /\ (j - d) + d = j /\ j - d \in 1..Len(h)
      BY <1>0, <2>3 DEF GapFilled
    <3>2. g[j] = h[j - d] /\ ~IsReply(h, j - d) /\ ~IsTool(h, j - d)
      BY <3>1 DEF GapFilled
    <3>3. h[j - d].text = "none"
      BY <3>1, <3>2 DEF Formed, OnlyToolsSpeak
    <3> QED BY <3>2, <3>3 DEF IsReply, IsTool
  <2> QED BY <2>1, <2>2, <2>3
<1>4. ASSUME NEW j \in 1..Len(g), IsReply(g, j) PROVE j <= p /\ g[j] = h[j]
  <2>1. j <= p + n /\ g[j] = h[j]
    BY <1>3, <1>4
  <2>2. ~(j > p)
    <3>1. SUFFICES ASSUME j > p PROVE FALSE
      OBVIOUS
    <3>2. j - p \in 1..n + d /\ p + (j - p) = j
      BY <2>1, <3>1
    <3>3. IsTool(g, j)
      BY <1>2, <3>2
    <3> QED BY <1>4, <3>3 DEF IsTool, IsReply
  <2> QED BY <2>1, <2>2
<1> QED BY <1>1, <1>2, <1>3, <1>4

\* It is as well formed, and lacks nothing.
LEMMA GapCloses ==
  ASSUME NEW h \in Seq(Message), NEW g \in Seq(Message), Formed(h),
         NEW p \in 1..Len(h), NEW n \in Nat, NEW d \in Nat, GapFilled(h, g, p, n, d)
  PROVE Formed(g) /\ \A i \in 1..Len(g) : IsReply(g, i) => Whole(g, i)
<1>0. /\ Len(h) \in Nat /\ Len(g) \in Nat /\ Len(g) = Len(h) + d /\ p + n <= Len(h)
      /\ Len(h[p].calls) = n + d /\ IsReply(h, p) /\ \A i \in 1..p + n : g[i] = h[i]
  BY DEF GapFilled
<1>1. /\ \A k \in 1..n + d : IsTool(g, p + k) /\ g[p + k].call = h[p].calls[k]
      /\ \A j \in 1..Len(g) :
             \/ j <= p + n /\ g[j] = h[j]
             \/ j > p + n /\ j <= p + n + d /\ IsTool(g, j)
             \/ ~IsTool(g, j) /\ g[j].text = "none"
      /\ \A j \in 1..Len(g) : IsReply(g, j) => j <= p /\ g[j] = h[j]
  BY GapParts
<1>2. p \in 1..p + n /\ p \in 1..Len(g) /\ g[p] = h[p] /\ IsReply(g, p)
  BY <1>0 DEF IsReply
<1>3. ASSUME NEW i \in 1..Len(g), IsReply(g, i) PROVE Whole(g, i)
  <2>1. CASE i = p
    <3>1. p + (n + d) <= Len(g)
      BY <1>0
    <3> QED BY <1>0, <1>1, <1>2, <2>1, <3>1 DEF Whole
  <2>2. CASE i # p
    <3>1. i < p /\ g[i] = h[i] /\ IsReply(h, i) /\ i \in 1..Len(h)
      BY <1>0, <1>1, <1>3, <2>2 DEF IsReply
    <3>2. /\ i + Len(h[i].calls) <= Len(h)
          /\ \A k \in 1..Len(h[i].calls) : IsTool(h, i + k)
      BY <1>0, <3>1 DEF Formed, Mostly, Whole
    <3>3. Len(h[i].calls) \in Nat
      BY <3>1, CallsDiffer
    <3>4. i + Len(h[i].calls) < p
      <4>1. SUFFICES ASSUME i + Len(h[i].calls) >= p PROVE FALSE
        BY <3>1, <3>3
      <4>2. p - i \in 1..Len(h[i].calls) /\ i + (p - i) = p
        BY <3>1, <3>3, <4>1
      <4> QED BY <1>0, <3>2, <4>2 DEF IsTool, IsReply
    <3>5. \A k \in 1..Len(h[i].calls) : i + k \in 1..p + n
      BY <3>1, <3>3, <3>4
    <3>6. i + Len(h[i].calls) <= Len(g)
      BY <1>0, <3>1, <3>3, <3>4
    <3> QED BY <1>0, <3>1, <3>2, <3>5, <3>6 DEF Whole, IsTool
  <2> QED BY <2>1, <2>2
<1>4. Ordered(g)
  <2> SUFFICES ASSUME NEW j \in 1..Len(g), IsTool(g, j)
               PROVE \E i \in 1..j - 1 :
                        /\ IsReply(g, i) /\ j - i <= Len(g[i].calls)
                        /\ g[j].call = g[i].calls[j - i]
                        /\ \A k \in i + 1..j : IsTool(g, k)
    BY DEF Ordered
  <2>1. CASE j <= p + n
    <3>1. j \in 1..Len(h) /\ g[j] = h[j] /\ IsTool(h, j)
      BY <1>0, <2>1 DEF IsTool
    <3>2. PICK i \in 1..j - 1 :
              /\ IsReply(h, i) /\ j - i <= Len(h[i].calls) /\ h[j].call = h[i].calls[j - i]
              /\ \A k \in i + 1..j : IsTool(h, k)
      BY <3>1 DEF Formed, Ordered
    <3>3. i \in 1..p + n /\ \A k \in i + 1..j : k \in 1..p + n
      BY <1>0, <2>1
    <3>4. g[i] = h[i] /\ \A k \in i + 1..j : g[k] = h[k]
      BY <1>0, <3>3
    <3> QED BY <3>1, <3>2, <3>4 DEF IsReply, IsTool
  <2>2. CASE j > p + n
    <3>1. j <= p + n + d
      BY <1>1, <2>2
    <3>2. j - p \in 1..n + d /\ p + (j - p) = j /\ p \in 1..j - 1
      BY <2>2, <3>1
    <3>3. g[j].call = g[p].calls[j - p]
      BY <1>1, <1>2, <3>2
    <3>4. ASSUME NEW k \in p + 1..j PROVE IsTool(g, k)
      <4>1. k - p \in 1..n + d /\ p + (k - p) = k
        BY <3>1
      <4> QED BY <1>1, <4>1
    <3>5. j - p <= Len(g[p].calls)
      BY <1>0, <1>2, <3>2
    <3> QED BY <1>2, <3>2, <3>3, <3>4, <3>5
  <2> QED BY <2>1, <2>2
<1>5. Mostly(g)
  BY <1>3 DEF Mostly
<1>6. OnlyToolsSpeak(g)
  <2> SUFFICES ASSUME NEW j \in 1..Len(g), ~IsTool(g, j) PROVE g[j].text = "none"
    BY DEF OnlyToolsSpeak
  <2>1. CASE j <= p + n
    <3>1. j \in 1..Len(h) /\ g[j] = h[j]
      BY <1>0, <2>1
    <3> QED BY <3>1 DEF Formed, OnlyToolsSpeak, IsTool
  <2>2. CASE j > p + n
    BY <1>1, <2>2
  <2> QED BY <2>1, <2>2
<1> QED BY <1>3, <1>4, <1>5, <1>6 DEF Formed

\* What is added claims nothing.
LEMMA GapClaims ==
  ASSUME NEW h \in Seq(Message), NEW g \in Seq(Message), Formed(h),
         NEW p \in 1..Len(h), NEW n \in Nat, NEW d \in Nat, GapFilled(h, g, p, n, d)
  PROVE /\ \A ran : UnstartedIn(h, ran) => UnstartedIn(g, ran)
        /\ \A subs : OutcomesIn(h, subs) => OutcomesIn(g, subs)
<1>0. /\ Len(h) \in Nat /\ p + n <= Len(h) /\ \A i \in 1..p + n : g[i] = h[i]
  BY DEF GapFilled
<1>1. \A j \in 1..Len(g) : j <= p + n \/ g[j].text \in {"interrupted", "none"}
  BY GapParts
<1>2. ASSUME NEW ran, UnstartedIn(h, ran) PROVE UnstartedIn(g, ran)
  <2> SUFFICES ASSUME NEW j \in 1..Len(g), g[j].text = "unstarted",
                      NEW e \in 1..j, LastReply(g, e, j)
               PROVE <<e, g[j].call>> \notin ran
    BY DEF UnstartedIn
  <2>1. j \in 1..p + n /\ j \in 1..Len(h)
    BY <1>0, <1>1, SMTT(40)
  <2>2. g[j] = h[j] /\ g[e] = h[e] /\ \A k \in e + 1..j : g[k] = h[k]
    BY <1>0, <2>1
  <2>3. LastReply(h, e, j)
    BY <2>2 DEF LastReply, IsReply
  <2> QED BY <1>2, <2>1, <2>2, <2>3 DEF UnstartedIn
<1>3. ASSUME NEW subs, OutcomesIn(h, subs) PROVE OutcomesIn(g, subs)
  <2> SUFFICES ASSUME NEW j \in 1..Len(g), g[j].call \in TaskCalls, g[j].text \in Final
               PROVE subs[g[j].run][g[j].call] = g[j].text
    BY DEF OutcomesIn
  <2>1. j \in 1..Len(h) /\ g[j] = h[j]
    BY <1>0, <1>1 DEF Final
  <2> QED BY <1>3, <2>1 DEF OutcomesIn
<1> QED BY <1>2, <1>3

\* What repair makes of a history lacks nothing, is in order and claims nothing new.
LEMMA RepairMends ==
  ASSUME NEW h \in Seq(Message), Formed(h)
  PROVE LET g == Repaired(h) IN
        /\ Formed(g) /\ \A i \in 1..Len(g) : IsReply(g, i) => Whole(g, i)
        /\ \A ran : UnstartedIn(h, ran) => UnstartedIn(g, ran)
        /\ \A subs : OutcomesIn(h, subs) => OutcomesIn(g, subs)
<1>1. CASE \A i \in 1..Len(h) : IsReply(h, i) => Whole(h, i)
  BY <1>1, RepairedWhole DEF Formed
<1>2. CASE ~ \A i \in 1..Len(h) : IsReply(h, i) => Whole(h, i)
  <2>1. PICK p \in 1..Len(h) : IsReply(h, p) /\ ~Whole(h, p)
    BY <1>2
  <2> DEFINE n == Answers(h, p)
             d == Len(h[p].calls) - Answers(h, p)
             g == Repaired(h)
  <2>2. /\ n \in 0..Len(h) - p /\ Len(h) \in Nat
        /\ \A k \in 1..n : IsTool(h, p + k)
    BY AnswersAre
  <2>3. \A k \in 1..n : h[p + k].call = h[p].calls[k]
    BY <2>1, AnswersAreOwn DEF Formed
  <2>4. \A i \in p + n + 1..Len(h) : ~IsReply(h, i) /\ ~IsTool(h, i)
    BY <2>1, BehindTheGap
  <2>5. /\ g \in Seq(Message) /\ Len(g) = Len(h) + d /\ d \in Nat \ {0}
        /\ \A i \in 1..p + n : g[i] = h[i]
        /\ \A k \in 1..d : g[p + n + k] = Interrupted(h, p, n + k)
        /\ \A i \in p + n + 1..Len(h) : g[i + d] = h[i]
    BY <2>1, RepairedOpen
  <2>6. n \in Nat /\ p + n <= Len(h)
    BY <2>2
  <2>7. Len(h[p].calls) = n + d
    <3>1. Len(h[p].calls) \in Nat
      BY CallsDiffer
    <3> QED BY <2>6, <3>1
  <2> HIDE DEF n, d, g
  <2>8. GapFilled(h, g, p, n, d)
    BY <2>1, <2>2, <2>3, <2>4, <2>5, <2>6, <2>7 DEF GapFilled
  <2>9. d \in Nat
    BY <2>5
  <2>10. Formed(g) /\ \A i \in 1..Len(g) : IsReply(g, i) => Whole(g, i)
    BY <2>5, <2>6, <2>8, <2>9, GapCloses
  <2>11. /\ \A ran : UnstartedIn(h, ran) => UnstartedIn(g, ran)
         /\ \A subs : OutcomesIn(h, subs) => OutcomesIn(g, subs)
    BY <2>5, <2>6, <2>8, <2>9, GapClaims
  <2> QED BY <2>10, <2>11 DEF g
<1> QED BY <1>1, <1>2

\* A reply that is whole stays so.
LEMMA WholeStays ==
  ASSUME NEW h \in Seq(Message), NEW g \in Seq(Message), Begins(h, g),
         NEW i \in 1..Len(h), Whole(h, i)
  PROVE Whole(g, i)
<1>1. Len(h[i].calls) \in Nat /\ Len(h) \in Nat /\ Len(g) \in Nat /\ Len(h) <= Len(g)
  BY CallsDiffer DEF Begins
<1>2. i + Len(h[i].calls) <= Len(h) /\ \A k \in 1..Len(h[i].calls) : IsTool(h, i + k)
  BY DEF Whole
<1>3. g[i] = h[i] /\ \A k \in 1..Len(h[i].calls) : g[i + k] = h[i + k]
  BY <1>1, <1>2 DEF Begins
<1>4. i + Len(g[i].calls) <= Len(g)
  BY <1>1, <1>2, <1>3
<1> QED BY <1>2, <1>3, <1>4 DEF Whole, IsTool

\* What is known of a result does not change with what comes behind it.
LEMMA OrderStays ==
  ASSUME NEW h \in Seq(Message), NEW g \in Seq(Message), Begins(h, g), Ordered(h),
         NEW j \in 1..Len(h), IsTool(g, j)
  PROVE \E i \in 1..j - 1 :
            /\ IsReply(g, i) /\ j - i <= Len(g[i].calls) /\ g[j].call = g[i].calls[j - i]
            /\ \A k \in i + 1..j : IsTool(g, k)
<1>1. g[j] = h[j] /\ IsTool(h, j)
  BY DEF Begins, IsTool
<1>2. PICK i \in 1..j - 1 :
          /\ IsReply(h, i) /\ j - i <= Len(h[i].calls) /\ h[j].call = h[i].calls[j - i]
          /\ \A k \in i + 1..j : IsTool(h, k)
  BY <1>1 DEF Ordered
<1>3. i \in 1..Len(h) /\ \A k \in i + 1..j : k \in 1..Len(h)
  OBVIOUS
<1>4. g[i] = h[i] /\ \A k \in i + 1..j : g[k] = h[k]
  BY <1>3 DEF Begins
<1> QED BY <1>1, <1>2, <1>4 DEF IsReply, IsTool

\* The next results of the last reply may follow.
LEMMA ResultsFollow ==
  ASSUME NEW h \in Seq(Message), NEW g \in Seq(Message), Begins(h, g), Formed(h),
         NEW p \in 1..Len(h), IsReply(h, p), \A k \in p + 1..Len(h) : IsTool(h, k),
         \A j \in Len(h) + 1..Len(g) :
             IsTool(g, j) /\ j - p <= Len(h[p].calls) /\ g[j].call = h[p].calls[j - p]
  PROVE Formed(g)
<1>0. /\ Len(h) \in Nat /\ Len(g) \in Nat /\ Len(h) <= Len(g) /\ g[p] = h[p]
      /\ \A i \in 1..Len(h) : g[i] = h[i]
  BY DEF Begins
<1>1. \A j \in 1..Len(g) : j \in 1..Len(h) \/ j \in Len(h) + 1..Len(g)
  BY <1>0
<1>2. Ordered(g)
  <2> SUFFICES ASSUME NEW j \in 1..Len(g), IsTool(g, j)
               PROVE \E i \in 1..j - 1 :
                        /\ IsReply(g, i) /\ j - i <= Len(g[i].calls)
                        /\ g[j].call = g[i].calls[j - i]
                        /\ \A k \in i + 1..j : IsTool(g, k)
    BY DEF Ordered
  <2>1. CASE j \in 1..Len(h)
    BY <2>1, OrderStays DEF Formed
  <2>2. CASE j \in Len(h) + 1..Len(g)
    <3>1. p \in 1..j - 1 /\ j - p <= Len(g[p].calls) /\ g[j].call = g[p].calls[j - p]
      BY <1>0, <2>2
    <3>2. ASSUME NEW k \in p + 1..j PROVE IsTool(g, k)
      <4>1. k \in p + 1..Len(h) \/ k \in Len(h) + 1..Len(g)
        BY <1>0, <2>2
      <4>2. CASE k \in p + 1..Len(h)
        <5>1. k \in 1..Len(h)
          BY <4>2
        <5> QED BY <1>0, <4>2, <5>1 DEF IsTool
      <4> QED BY <4>1, <4>2
    <3>3. IsReply(g, p)
      BY <1>0 DEF IsReply
    <3> QED BY <3>1, <3>2, <3>3
  <2> QED BY <1>1, <2>1, <2>2
<1>3. Mostly(g)
  <2> SUFFICES ASSUME NEW i \in 1..Len(g), NEW j \in 1..Len(g), i < j,
                      IsReply(g, i), IsReply(g, j)
               PROVE Whole(g, i)
    BY DEF Mostly
  <2>1. i \in 1..Len(h) /\ j \in 1..Len(h)
    BY <1>1 DEF IsTool, IsReply
  <2>2. Whole(h, i)
    BY <1>0, <2>1 DEF Formed, Mostly, IsReply
  <2> QED BY <2>1, <2>2, WholeStays
<1>4. OnlyToolsSpeak(g)
  <2>1. \A j \in 1..Len(g) : ~IsTool(g, j) => j \in 1..Len(h)
    BY <1>1
  <2> QED BY <1>0, <2>1 DEF Formed, OnlyToolsSpeak, IsTool
<1> QED BY <1>2, <1>3, <1>4 DEF Formed

\* So may a message of the user, and a reply if none before it lacks results.
LEMMA OthersFollow ==
  ASSUME NEW h \in Seq(Message), NEW m \in Message, Formed(h), m.role # "tool", m.text = "none",
         m.role = "assistant" => \A i \in 1..Len(h) : IsReply(h, i) => Whole(h, i)
  PROVE Formed(Append(h, m)) /\ Begins(h, Append(h, m))
<1> DEFINE g == Append(h, m)
<1>0. /\ g \in Seq(Message) /\ Len(g) = Len(h) + 1 /\ g[Len(h) + 1] = m /\ Len(h) \in Nat
      /\ \A i \in 1..Len(h) : g[i] = h[i]
  BY AppendIs
<1> HIDE DEF g
<1>1. \A j \in 1..Len(g) : j \in 1..Len(h) \/ j = Len(h) + 1
  BY <1>0
<1>2. Begins(h, g)
  BY <1>0 DEF Begins
<1>3. Ordered(g)
  <2> SUFFICES ASSUME NEW j \in 1..Len(g), IsTool(g, j)
               PROVE \E i \in 1..j - 1 :
                        /\ IsReply(g, i) /\ j - i <= Len(g[i].calls)
                        /\ g[j].call = g[i].calls[j - i]
                        /\ \A k \in i + 1..j : IsTool(g, k)
    BY DEF Ordered
  <2>1. j \in 1..Len(h)
    BY <1>0, <1>1 DEF IsTool
  <2> QED BY <1>0, <1>2, <2>1, OrderStays DEF Formed
<1>4. Mostly(g)
  <2> SUFFICES ASSUME NEW i \in 1..Len(g), NEW j \in 1..Len(g), i < j,
                      IsReply(g, i), IsReply(g, j)
               PROVE Whole(g, i)
    BY DEF Mostly
  <2>1. i \in 1..Len(h) /\ IsReply(h, i)
    BY <1>0 DEF IsReply
  <2>2. Whole(h, i)
    <3>1. CASE j \in 1..Len(h)
      BY <1>0, <2>1, <3>1 DEF Formed, Mostly, IsReply
    <3>2. CASE j = Len(h) + 1
      BY <1>0, <2>1, <3>2 DEF IsReply
    <3> QED BY <1>1, <3>1, <3>2
  <2> QED BY <1>0, <1>2, <2>1, <2>2, WholeStays
<1>5. OnlyToolsSpeak(g)
  <2> SUFFICES ASSUME NEW j \in 1..Len(g), ~IsTool(g, j) PROVE g[j].text = "none"
    BY DEF OnlyToolsSpeak
  <2>1. CASE j \in 1..Len(h)
    BY <1>0, <2>1 DEF Formed, OnlyToolsSpeak, IsTool
  <2> QED BY <1>0, <1>1, <2>1
<1> QED BY <1>2, <1>3, <1>4, <1>5 DEF Formed, g

\* What a history claims does not depend on what follows.
LEMMA ClaimsBefore ==
  ASSUME NEW h \in Seq(Message), NEW g \in Seq(Message), Begins(h, g), NEW ran,
         UnstartedIn(g, ran)
  PROVE UnstartedIn(h, ran)
<1> SUFFICES ASSUME NEW j \in 1..Len(h), h[j].text = "unstarted",
                    NEW e \in 1..j, LastReply(h, e, j)
             PROVE <<e, h[j].call>> \notin ran
  BY DEF UnstartedIn
<1>1. j \in 1..Len(g) /\ e \in 1..Len(h) /\ \A k \in e + 1..j : k \in 1..Len(h)
  BY DEF Begins
<1>2. g[j] = h[j] /\ g[e] = h[e] /\ \A k \in e + 1..j : g[k] = h[k]
  BY <1>1 DEF Begins
<1>3. LastReply(g, e, j)
  BY <1>2 DEF LastReply, IsReply
<1> QED BY <1>1, <1>2, <1>3 DEF UnstartedIn

\* What follows adds its own claims.
LEMMA ClaimsFollow ==
  ASSUME NEW h \in Seq(Message), NEW g \in Seq(Message), Begins(h, g), NEW ran, NEW subs,
         UnstartedIn(h, ran), OutcomesIn(h, subs),
         \A j \in Len(h) + 1..Len(g) : g[j].text = "unstarted" =>
             \A p \in 1..j : LastReply(g, p, j) => <<p, g[j].call>> \notin ran,
         \A j \in Len(h) + 1..Len(g) : g[j].call \in TaskCalls /\ g[j].text \in Final =>
             subs[g[j].run][g[j].call] = g[j].text
  PROVE UnstartedIn(g, ran) /\ OutcomesIn(g, subs)
<1>0. /\ Len(h) \in Nat /\ Len(g) \in Nat /\ Len(h) <= Len(g)
      /\ \A i \in 1..Len(h) : g[i] = h[i]
      /\ \A j \in 1..Len(g) : j \in 1..Len(h) \/ j \in Len(h) + 1..Len(g)
  BY DEF Begins
<1>1. UnstartedIn(g, ran)
  <2> SUFFICES ASSUME NEW j \in 1..Len(g), g[j].text = "unstarted",
                      NEW e \in 1..j, LastReply(g, e, j)
               PROVE <<e, g[j].call>> \notin ran
    BY DEF UnstartedIn
  <2>1. CASE j \in 1..Len(h)
    <3>1. \A k \in 1..j : g[k] = h[k]
      BY <1>0, <2>1, SMTT(40)
    <3>2. LastReply(h, e, j)
      <4>1. \A k \in e + 1..j : k \in 1..j
        OBVIOUS
      <4> QED BY <3>1, <4>1 DEF LastReply, IsReply
    <3> QED BY <1>0, <2>1, <3>2 DEF UnstartedIn
  <2>2. CASE j \in Len(h) + 1..Len(g)
    BY <2>2
  <2> QED BY <1>0, <2>1, <2>2
<1>2. OutcomesIn(g, subs)
  BY <1>0 DEF OutcomesIn
<1> QED BY <1>1, <1>2

\* The outcome memory holds of a task is that of the checkpoint.
LEMMA OutcomeIsKept ==
  ASSUME SubsFollow, at # "idle", run \in Runs, NEW c \in Calls, Sub(c) \in Final
  PROVE disk.subs[run][c] = Sub(c)
  BY DEF SubsFollow, Sub

\* The result of a call that is committed.
LEMMA CommitIsTrue ==
  ASSUME TypeOK, Running, InHand, SubsFollow, Outs, at = "tools", NextCall,
         Formed(mem.msgs), UnstartedIn(mem.msgs, acted), OutcomesIn(mem.msgs, disk.subs)
  PROVE LET g == Append(mem.msgs, Result(Current, batch.out[Current])) IN
        Formed(g) /\ UnstartedIn(g, acted) /\ OutcomesIn(g, disk.subs)
<1> DEFINE h == mem.msgs
           m == Result(Current, batch.out[Current])
           g == Append(h, m)
           p == HereNow
<1>0. /\ BatchOK /\ mem \in State /\ run \in Runs /\ h \in Seq(Message) /\ Len(h) \in Nat
      /\ p \in 1..Len(h) /\ p = Len(h) - batch.appended /\ batch.appended \in Nat
      /\ batch.appended + 1 \in 1..Len(batch.calls)
  BY TypeParts, RunIs, HereIs DEF NextCall, HereNow
<1>1. Current \in Calls /\ m \in Message
  BY <1>0, CommitIs
<1>2. /\ g \in Seq(Message) /\ Len(g) = Len(h) + 1 /\ g[Len(h) + 1] = m
      /\ \A i \in 1..Len(h) : g[i] = h[i]
  BY <1>0, <1>1, AppendIs
<1>3. m.role = "tool" /\ m.call = Current /\ m.text = batch.out[Current] /\ m.run = run
  BY DEF Result
<1>4. /\ batch.out[Current] # "unstarted"
      /\ batch.out[Current] \in Final =>
             disk.subs[run][Current] = batch.out[Current]
  <2>1. /\ batch.out[Current] \in {"none", "done", "refused"} \cup Final
        /\ batch.out[Current] \in Final => Sub(Current) = batch.out[Current]
    BY <1>1 DEF Outs
  <2> QED BY <1>0, <1>1, <2>1, OutcomeIsKept DEF Final
<1>5. /\ IsReply(h, p) /\ h[p].calls = batch.calls /\ \A k \in p + 1..Len(h) : IsTool(h, k)
  BY DEF InHand
<1>6. Current = batch.calls[batch.appended + 1]
  BY DEF Current
<1> HIDE DEF h, m, g, p
<1>7. Begins(h, g) /\ \A j \in Len(h) + 1..Len(g) : j = Len(h) + 1
  BY <1>0, <1>2 DEF Begins
<1>8. (Len(h) + 1) - p = batch.appended + 1 /\ batch.appended + 1 <= Len(batch.calls)
  BY <1>0
<1>9. \A j \in Len(h) + 1..Len(g) :
          IsTool(g, j) /\ j - p <= Len(h[p].calls) /\ g[j].call = h[p].calls[j - p]
  <2> SUFFICES ASSUME NEW j \in Len(h) + 1..Len(g)
               PROVE IsTool(g, j) /\ j - p <= Len(h[p].calls) /\ g[j].call = h[p].calls[j - p]
    OBVIOUS
  <2>1. j = Len(h) + 1 /\ j - p = batch.appended + 1
    BY <1>7, <1>8
  <2>2. g[j].role = "tool" /\ g[j].call = Current
    BY <1>2, <1>3, <2>1
  <2> QED BY <1>5, <1>6, <1>8, <2>1, <2>2 DEF IsTool
<1>10. Formed(h) /\ UnstartedIn(h, acted) /\ OutcomesIn(h, disk.subs)
  BY DEF h
<1>11. Formed(g)
  BY <1>0, <1>2, <1>5, <1>7, <1>9, <1>10, ResultsFollow
<1>12. /\ \A j \in Len(h) + 1..Len(g) : g[j].text # "unstarted"
       /\ \A j \in Len(h) + 1..Len(g) : g[j].text \in Final =>
              disk.subs[g[j].run][g[j].call] = g[j].text
  BY <1>2, <1>3, <1>4, <1>7
<1>13. UnstartedIn(g, acted) /\ OutcomesIn(g, disk.subs)
  BY <1>0, <1>2, <1>7, <1>10, <1>12, ClaimsFollow
<1> QED BY <1>11, <1>13 DEF g, h, m

\* What a call is said to have come to when the turn was broken off.
LEMMA FilledIsTrue ==
  ASSUME TypeOK, Running, InHand, SubsFollow, Outs, ActedStarted, at = "abort", NEW c \in Calls
  PROVE /\ Filled(c) = "unstarted" => <<HereNow, c>> \notin acted
        /\ Filled(c) \in Final => disk.subs[run][c] = Filled(c)
<1>0. run \in Runs
  BY RunIs
<1>1. /\ batch.out[c] \in {"none", "done", "refused"} \cup Final
      /\ batch.out[c] \in Final => Sub(c) = batch.out[c]
  BY DEF Outs
<1>2. CASE batch.out[c] # "none"
  <2>1. Filled(c) = batch.out[c]
    BY <1>2 DEF Filled
  <2> QED BY <1>0, <1>1, <2>1, OutcomeIsKept DEF Final
<1>3. CASE batch.out[c] = "none" /\ c \notin batch.started
  <2>1. Filled(c) = "unstarted" /\ <<HereNow, c>> \notin acted
    BY <1>3 DEF Filled, ActedStarted
  <2> QED BY <2>1 DEF Final
<1>4. CASE batch.out[c] = "none" /\ c \in batch.started
  <2>1. Filled(c) = Known(c)
    BY <1>4 DEF Filled
  <2>2. \/ Known(c) \in {"done", "interrupted"}
        \/ Known(c) = Sub(c) /\ Sub(c) \in Final
    BY DEF Known, Sub
  <2> QED BY <1>0, <2>1, <2>2, OutcomeIsKept DEF Final
<1> QED BY <1>2, <1>3, <1>4

\* The results of a turn that was broken off.
LEMMA AbortIsTrue ==
  ASSUME TypeOK, Running, InHand, SubsFollow, Outs, ActedStarted, at = "abort",
         Formed(mem.msgs), UnstartedIn(mem.msgs, acted), OutcomesIn(mem.msgs, disk.subs)
  PROVE LET g == mem.msgs \o Left IN
        Formed(g) /\ UnstartedIn(g, acted) /\ OutcomesIn(g, disk.subs)
<1> DEFINE h == mem.msgs
           g == h \o Left
           p == HereNow
           a == batch.appended
           n == Len(batch.calls)
<1>0. /\ BatchOK /\ mem \in State /\ run \in Runs /\ h \in Seq(Message) /\ Len(h) \in Nat
      /\ p \in 1..Len(h) /\ p = Len(h) - a /\ a \in Nat /\ n \in Nat /\ a <= n
  BY TypeParts, RunIs, HereIs, BatchIs DEF HereNow, InHand
<1>1. /\ Left \in Seq(Message) /\ Len(Left) = n - a
      /\ \A k \in 1..n - a :
             /\ batch.calls[a + k] \in Calls
             /\ Left[k] = Result(batch.calls[a + k], Filled(batch.calls[a + k]))
  BY <1>0, LeftIs
<1>2. /\ g \in Seq(Message) /\ Len(g) = Len(h) + Len(Left)
      /\ \A i \in 1..Len(h) + Len(Left) : g[i] = IF i <= Len(h) THEN h[i] ELSE Left[i - Len(h)]
  BY <1>0, <1>1, ConcatIs
<1>3. /\ IsReply(h, p) /\ h[p].calls = batch.calls /\ \A k \in p + 1..Len(h) : IsTool(h, k)
  BY DEF InHand
<1>4. \A c \in Calls : /\ Filled(c) = "unstarted" => <<p, c>> \notin acted
                       /\ Filled(c) \in Final => disk.subs[run][c] = Filled(c)
  BY FilledIsTrue
<1>5. Formed(h) /\ UnstartedIn(h, acted) /\ OutcomesIn(h, disk.subs) /\ n = Len(batch.calls)
  OBVIOUS
<1> HIDE DEF h, g, p, a, n
<1>6. Begins(h, g)
  <2>1. Len(Left) \in Nat
    BY <1>0, <1>1
  <2>2. Len(h) <= Len(g) /\ \A i \in 1..Len(h) : i \in 1..Len(h) + Len(Left) /\ i <= Len(h)
    BY <1>0, <1>2, <2>1
  <2> QED BY <1>2, <2>2 DEF Begins
<1>7. ASSUME NEW j \in Len(h) + 1..Len(g)
      PROVE LET c == batch.calls[j - p] IN
            /\ j - p \in 1..n /\ j \in 1..Len(g) /\ c \in Calls
            /\ g[j].role = "tool" /\ g[j].call = c /\ g[j].run = run /\ g[j].text = Filled(c)
  <2> DEFINE k == j - Len(h)
  <2>1. k \in 1..n - a /\ a + k = j - p /\ j - p \in 1..n /\ j \in 1..Len(g)
    BY <1>0, <1>1, <1>2, SMTT(40)
  <2>2. g[j] = Left[k]
    BY <1>0, <1>1, <1>2
  <2>3. g[j] = Result(batch.calls[a + k], Filled(batch.calls[a + k]))
        /\ batch.calls[a + k] \in Calls
    BY <1>1, <2>1, <2>2
  <2>4. g[j] = Result(batch.calls[j - p], Filled(batch.calls[j - p]))
        /\ batch.calls[j - p] \in Calls
    BY <2>1, <2>3
  <2> QED BY <2>1, <2>4 DEF Result
<1>8. \A j \in Len(h) + 1..Len(g) :
          IsTool(g, j) /\ j - p <= Len(h[p].calls) /\ g[j].call = h[p].calls[j - p]
  BY <1>3, <1>5, <1>7 DEF IsTool
<1>9. Formed(g)
  BY <1>0, <1>2, <1>3, <1>5, <1>6, <1>8, ResultsFollow
<1>10. ASSUME NEW j \in Len(h) + 1..Len(g), g[j].text = "unstarted",
              NEW e \in 1..j, LastReply(g, e, j)
       PROVE <<e, g[j].call>> \notin acted
  <2>1. ~(e < p)
    <3>1. SUFFICES ASSUME e < p PROVE FALSE
      OBVIOUS
    <3>2. p \in e + 1..j /\ p \in 1..Len(h)
      BY <1>0, <1>7, <3>1
    <3>3. g[p] = h[p]
      BY <1>6, <3>2 DEF Begins
    <3> QED BY <1>3, <1>10, <3>2, <3>3 DEF LastReply, IsReply
  <2>2. ~(e > p)
    <3>1. SUFFICES ASSUME e > p PROVE FALSE
      OBVIOUS
    <3>2. IsTool(g, e)
      <4>1. CASE e \in 1..Len(h)
        <5>1. e \in p + 1..Len(h)
          BY <1>0, <3>1, <4>1
        <5>2. g[e] = h[e]
          BY <1>6, <4>1 DEF Begins
        <5> QED BY <1>3, <5>1, <5>2 DEF IsTool
      <4>2. CASE e \notin 1..Len(h)
        <5>1. e \in Len(h) + 1..Len(g)
          BY <1>0, <1>2, <1>1, <4>2
        <5> QED BY <1>8, <5>1
      <4> QED BY <4>1, <4>2
    <3> QED BY <1>10, <3>2 DEF LastReply, IsReply, IsTool
  <2>3. e = p
    BY <1>0, <2>1, <2>2
  <2>4. g[j].call = batch.calls[j - p] /\ Filled(g[j].call) = "unstarted" /\ g[j].call \in Calls
    BY <1>7, <1>10
  <2> QED BY <1>4, <2>3, <2>4
<1>11. ASSUME NEW j \in Len(h) + 1..Len(g), g[j].text \in Final
       PROVE disk.subs[g[j].run][g[j].call] = g[j].text
  <2>1. /\ g[j].call \in Calls /\ g[j].text = Filled(g[j].call) /\ g[j].run = run
    BY <1>7
  <2> QED BY <1>4, <1>11, <2>1
<1>12. UnstartedIn(g, acted) /\ OutcomesIn(g, disk.subs)
  BY <1>0, <1>2, <1>5, <1>6, <1>10, <1>11, ClaimsFollow
<1> QED BY <1>9, <1>12 DEF g, h

\* A message that says nothing of a call claims nothing.
LEMMA OthersClaim ==
  ASSUME NEW h \in Seq(Message), NEW m \in Message, m.text = "none", NEW ran, NEW subs,
         UnstartedIn(h, ran), OutcomesIn(h, subs)
  PROVE UnstartedIn(Append(h, m), ran) /\ OutcomesIn(Append(h, m), subs)
<1> DEFINE g == Append(h, m)
<1>0. /\ g \in Seq(Message) /\ Len(g) = Len(h) + 1 /\ g[Len(h) + 1] = m /\ Len(h) \in Nat
      /\ \A i \in 1..Len(h) : g[i] = h[i]
  BY AppendIs
<1> HIDE DEF g
<1>1. Begins(h, g) /\ \A j \in Len(h) + 1..Len(g) : j = Len(h) + 1
  BY <1>0 DEF Begins
<1>2. \A j \in Len(h) + 1..Len(g) : g[j].text # "unstarted" /\ g[j].text \notin Final
  BY <1>0, <1>1 DEF Final
<1>3. UnstartedIn(g, ran) /\ OutcomesIn(g, subs)
  BY <1>0, <1>1, <1>2, ClaimsFollow
<1> QED BY <1>3 DEF g

\* What the parent makes of the history is in order and true.
LEMMA ParentIsTrue ==
  ASSUME TypeOK, Running, InHand, Phased, SubsFollow, Outs, ActedStarted, Parent,
         Formed(mem.msgs), UnstartedIn(mem.msgs, acted), OutcomesIn(mem.msgs, disk.subs)
  PROVE /\ Formed(mem'.msgs) /\ UnstartedIn(mem'.msgs, acted) /\ OutcomesIn(mem'.msgs, disk.subs)
<1>0. mem.msgs \in Seq(Message)
  BY TypeParts, StateIs DEF SavedOK
<1>1. CASE mem'.msgs = mem.msgs
  BY <1>1
<1>2. CASE mem'.msgs = Repaired(mem.msgs)
  BY <1>0, <1>2, RepairMends
<1>3. CASE Reply /\ \E r \in Replies : mem'.msgs = Append(mem.msgs, Assistant(r))
  <2>1. PICK r \in Replies : mem'.msgs = Append(mem.msgs, Assistant(r))
    BY <1>3
  <2>2. at = "model"
    BY <1>3 DEF Reply
  <2>3. Assistant(r) \in Message
    BY <2>2, RunIs, MessagesAre
  <2>4. Assistant(r).role = "assistant" /\ Assistant(r).text = "none"
    BY DEF Assistant
  <2>5. \A i \in 1..Len(mem.msgs) : IsReply(mem.msgs, i) => Whole(mem.msgs, i)
    BY <2>2 DEF InHand
  <2>6. Formed(mem'.msgs)
    BY <1>0, <2>1, <2>3, <2>4, <2>5, OthersFollow
  <2>7. UnstartedIn(mem'.msgs, acted) /\ OutcomesIn(mem'.msgs, disk.subs)
    BY <1>0, <2>1, <2>3, <2>4, OthersClaim
  <2> QED BY <2>6, <2>7
<1>4. CASE /\ CommitOne \/ CommitTask
           /\ NextCall /\ mem'.msgs = Append(mem.msgs, Result(Current, batch.out[Current]))
  <2>1. at = "tools"
    BY <1>4, SMTT(40) DEF CommitOne, CommitTask, Commit
  <2> QED BY <1>4, <2>1, CommitIsTrue
<1>5. CASE FinishAborted /\ mem'.msgs = mem.msgs \o Left
  <2>1. at = "abort"
    BY <1>5 DEF FinishAborted
  <2> QED BY <1>5, <2>1, AbortIsTrue, SMTT(40)
<1> QED BY <1>1, <1>2, <1>3, <1>4, <1>5, MemIs

\* A tool that acts now is one of the reply in hand, none of whose results is called unstarted.
LEMMA ActedIsTrue ==
  ASSUME TypeOK, Running, InHand, Phased, Tracked, OnlyToolsSpeak(mem.msgs), [Next]_vars,
         Formed(mem.msgs), UnstartedIn(mem.msgs, acted), acted' # acted
  PROVE at = "tools" /\ mem'.msgs = mem.msgs /\ UnstartedIn(mem.msgs, acted')
<1>1. PICK c \in Calls : at = "tools" /\ acted' = acted \cup {<<HereNow, c>>}
  BY ActedIs, AgentAssumption
<1>2. mem'.msgs = mem.msgs
  <2>1. CASE Act \/ WriteTodos
    <3>1. Parent /\ ~Repair /\ ~Reply /\ ~FinishAborted
      BY <1>1, <2>1 DEF Parent, Repair, Reply, FinishAborted
    <3>2. ~CommitOne /\ ~CommitTask
      BY DEF CommitOne, CommitTask, Commit
    <3> QED BY <3>1, <3>2, MemIs
  <2>2. CASE \E d \in TaskCalls : Worker(d)
    BY <2>2, WorkerMsgs
  <2> QED BY <2>1, <2>2, ActedIs
<1>3. UnstartedIn(mem.msgs, acted')
  <2> SUFFICES ASSUME NEW j \in 1..Len(mem.msgs), mem.msgs[j].text = "unstarted",
                      NEW e \in 1..j, LastReply(mem.msgs, e, j)
               PROVE <<e, mem.msgs[j].call>> \notin acted'
    BY DEF UnstartedIn
  <2>1. <<e, mem.msgs[j].call>> \notin acted
    BY DEF UnstartedIn
  <2>2. IsTool(mem.msgs, j)
    BY DEF OnlyToolsSpeak
  <2>3. j # e
    BY <2>2 DEF LastReply, IsReply, IsTool
  <2>4. j \notin HereNow + 1..Len(mem.msgs)
    BY <1>1 DEF InHand
  <2>5. HereNow \in Nat /\ Len(mem.msgs) \in Nat
    BY <1>1, HereIs
  <2>6. e # HereNow
    BY <2>3, <2>4, <2>5
  <2> QED BY <1>1, <2>1, <2>6
<1> QED BY <1>1, <1>2, <1>3

\* The histories in memory and in the checkpoint stay in order and true.
LEMMA SoundStep ==
  ASSUME TypeOK, Running, InHand, Phased, Tracked, SubsFollow, Outs, MsgsFollow, ActedStarted,
         Sound(mem.msgs), Sound(disk.msgs), [Next]_vars
  PROVE Sound(mem.msgs)' /\ Sound(disk.msgs)'
<1>0. /\ mem.msgs \in Seq(Message) /\ disk.msgs \in Seq(Message)
      /\ mem'.msgs \in Seq(Message)
  <2>1. Formed(mem.msgs)
    BY DEF Sound
  <2>2. SavedOK /\ SavedOK'
    BY <2>1, TypeParts, SavedStep
  <2> QED BY <2>2, StateIs DEF SavedOK
<1>1. Formed(mem.msgs) /\ UnstartedIn(mem.msgs, acted) /\ OutcomesIn(mem.msgs, disk.subs)
      /\ Formed(disk.msgs) /\ UnstartedIn(disk.msgs, acted) /\ OutcomesIn(disk.msgs, disk.subs)
      /\ OnlyToolsSpeak(mem.msgs)
  BY DEF Sound, Formed
<1>2. ASSUME NEW h \in Seq(Message), OutcomesIn(h, disk.subs) PROVE OutcomesIn(h, disk'.subs)
  <2>1. \A i \in 1..Len(h) : h[i].run \in Runs /\ \A c \in TaskCalls : c \in Calls
    <3>1. \A i \in 1..Len(h) : h[i] \in Message
      OBVIOUS
    <3>2. \A m \in Message : m.run \in Runs
      BY DEF Message
    <3> QED BY <3>1, <3>2, AgentAssumption
  <2>2. \A r \in Runs, c \in Calls :
            disk.subs[r][c] \in Final => disk'.subs[r][c] = disk.subs[r][c]
    BY <1>1, KeptStep
  <2> QED BY <1>2, <2>1, <2>2 DEF OutcomesIn
<1>3. CASE StartRun
  <2>1. /\ mem' = disk' /\ acted' = acted /\ at = "idle" /\ run < MaxRuns
        /\ disk' = [disk EXCEPT !.msgs = Append(disk.msgs, User)]
    BY <1>3 DEF StartRun
  <2>2. disk'.msgs = Append(disk.msgs, User) /\ disk'.subs = disk.subs
    BY <2>1, TypeParts DEF SavedOK, State
  <2>3. User \in Message /\ User.role = "user" /\ User.text = "none"
    <3>1. run + 1 \in Runs
      BY <2>1, TypeParts, AgentAssumption DEF NumbersOK, Runs
    <3> QED BY <3>1, MessagesAre DEF User
  <2>4. Formed(disk'.msgs)
    BY <1>0, <1>1, <2>2, <2>3, OthersFollow
  <2>5. UnstartedIn(disk'.msgs, acted) /\ OutcomesIn(disk'.msgs, disk.subs)
    BY <1>0, <1>1, <2>2, <2>3, OthersClaim
  <2> QED BY <2>1, <2>2, <2>4, <2>5 DEF Sound
<1>4. CASE Crash
  <2>1. mem' = Fresh /\ disk' = disk /\ acted' = acted
    BY <1>4 DEF Crash
  <2>2. mem'.msgs = <<>>
    BY <2>1 DEF Fresh
  <2>3. Sound(mem.msgs)'
    BY <2>2 DEF Sound, Formed, Ordered, Mostly, OnlyToolsSpeak, UnstartedIn, OutcomesIn
  <2> QED BY <1>1, <2>1, <2>3 DEF Sound
<1>5. ASSUME disk'.msgs \in {disk.msgs, mem'.msgs},
             Formed(mem'.msgs), UnstartedIn(mem'.msgs, acted), OutcomesIn(mem'.msgs, disk.subs)
      PROVE Sound(mem.msgs)' /\ Sound(disk.msgs)'
  <2>1. UnstartedIn(mem'.msgs, acted') /\ UnstartedIn(disk.msgs, acted')
    <3>1. CASE acted' = acted
      BY <1>1, <1>5, <3>1
    <3>2. CASE acted' # acted
      <4>1. at = "tools" /\ mem'.msgs = mem.msgs /\ UnstartedIn(mem.msgs, acted')
        BY <1>1, <3>2, ActedIsTrue
      <4>2. Begins(disk.msgs, mem.msgs)
        BY <4>1 DEF MsgsFollow, Begins, Asked
      <4> QED BY <1>0, <4>1, <4>2, ClaimsBefore
    <3> QED BY <3>1, <3>2
  <2>2. OutcomesIn(mem'.msgs, disk'.subs) /\ OutcomesIn(disk.msgs, disk'.subs)
    BY <1>0, <1>1, <1>2, <1>5
  <2> QED BY <1>1, <1>5, <2>1, <2>2 DEF Sound
<1>6. CASE Parent
  <2>1. disk'.msgs \in {disk.msgs, mem'.msgs}
    BY <1>1, <1>6, DiskIs
  <2> QED BY <1>1, <1>5, <1>6, <2>1, ParentIsTrue
<1>7. CASE \E c \in TaskCalls : Worker(c)
  <2>1. mem'.msgs = mem.msgs /\ disk'.msgs \in {disk.msgs, mem.msgs}
    BY <1>7, WorkerMsgs
  <2> QED BY <1>1, <1>5, <2>1
<1>8. CASE Cancel \/ UNCHANGED vars
  <2>1. mem' = mem /\ disk' = disk
    BY <1>8 DEF Cancel, vars, stateVars
  <2> QED BY <1>1, <1>5, <2>1
<1> QED BY <1>3, <1>4, <1>6, <1>7, <1>8, NextIs DEF Main

\* All replies are whole if those before the last one in hand are, and that one is.
LEMMA LastIsWhole ==
  ASSUME NEW h \in Seq(Message), Formed(h), NEW p \in 1..Len(h), IsReply(h, p),
         \A k \in p + 1..Len(h) : IsTool(h, k), Len(h[p].calls) = Len(h) - p
  PROVE \A i \in 1..Len(h) : IsReply(h, i) => Whole(h, i)
<1> SUFFICES ASSUME NEW i \in 1..Len(h), IsReply(h, i) PROVE Whole(h, i)
  OBVIOUS
<1>0. Len(h) \in Nat
  OBVIOUS
<1>1. CASE i < p
  BY <1>1 DEF Formed, Mostly
<1>2. CASE i = p
  <2>1. \A k \in 1..Len(h) - p : p + k \in p + 1..Len(h)
    BY <1>0
  <2> QED BY <1>0, <1>2, <2>1 DEF Whole
<1>3. CASE i > p
  <2>1. i \in p + 1..Len(h)
    BY <1>3
  <2> QED BY <2>1 DEF IsTool, IsReply
<1> QED BY <1>1, <1>2, <1>3

\* The model is asked when no reply lacks results.
LEMMA AskedWhole ==
  ASSUME TypeOK, Running, InHand, Phased, Formed(mem.msgs), Parent, at' = "model"
  PROVE \A i \in 1..Len(mem'.msgs) : IsReply(mem'.msgs, i) => Whole(mem'.msgs, i)
<1>0. mem.msgs \in Seq(Message) /\ Len(mem.msgs) \in Nat
  BY TypeParts, StateIs DEF SavedOK
<1>1. CASE Repair
  <2>1. mem'.msgs = Repaired(mem.msgs)
    BY <1>1, TypeParts DEF Repair, SavedOK, State
  <2> QED BY <1>0, <2>1, RepairMends
<1>2. CASE SaveReply
  <2>1. at = "reply" /\ mem' = mem /\ mem.msgs[Len(mem.msgs)].calls = <<>>
    BY <1>2 DEF SaveReply, Goto, Failing
  <2>2. Len(mem.msgs) \in 1..Len(mem.msgs) /\ IsReply(mem.msgs, Len(mem.msgs))
    BY <1>0, <2>1 DEF InHand
  <2>3. Len(mem.msgs[Len(mem.msgs)].calls) = Len(mem.msgs) - Len(mem.msgs)
    BY <1>0, <2>1
  <2>4. \A k \in Len(mem.msgs) + 1..Len(mem.msgs) : IsTool(mem.msgs, k)
    BY <1>0
  <2> QED BY <1>0, <2>1, <2>2, <2>3, <2>4, LastIsWhole
<1>3. CASE Announce
  <2>1. at = "tools" /\ mem' = mem /\ batch.appended = Len(batch.calls)
    BY <1>3 DEF Announce, stateVars, AllIn
  <2>2. /\ HereNow \in 1..Len(mem.msgs) /\ batch.appended \in Nat
        /\ HereNow = Len(mem.msgs) - batch.appended
    BY <2>1, HereIs DEF HereNow
  <2>3. /\ IsReply(mem.msgs, HereNow) /\ mem.msgs[HereNow].calls = batch.calls
        /\ \A k \in HereNow + 1..Len(mem.msgs) : IsTool(mem.msgs, k)
    BY <2>1 DEF InHand
  <2>4. Len(mem.msgs[HereNow].calls) = Len(mem.msgs) - HereNow
    BY <1>0, <2>1, <2>2, <2>3
  <2> QED BY <1>0, <2>1, <2>2, <2>3, <2>4, LastIsWhole
<1>4. CASE Reply \/ NoReply \/ EndRun \/ StartTool \/ Act \/ WriteTodos \/ CommitOne \/ CommitTask
           \/ OpenGroup \/ CloseGroup \/ FinishAborted
  BY <1>4 DEF Reply, NoReply, EndRun, StartTool, Act, WriteTodos, CommitOne, CommitTask, Commit,
              OpenGroup, CloseGroup, FinishAborted, Goto, Failing, Abort
<1> QED BY <1>1, <1>2, <1>3, <1>4 DEF Parent

\* What InHand says of a turn.
Turn(h, b, p) ==
    /\ b.appended <= Len(b.calls) /\ b.appended < Len(h)
    /\ IsReply(h, p) /\ h[p].calls = b.calls
    /\ \A k \in p + 1..Len(h) : IsTool(h, k)

\* The reply in hand stays where it is, and its results come behind it.
LEMMA TurnStep ==
  ASSUME TypeOK, Running, InHand, Phased, Formed(mem.msgs), Outs, Parent,
         at' \in {"tools", "abort"}
  PROVE /\ Turn(mem'.msgs, batch', HereNow')
        /\ at' = "tools" => \A k \in HereNow' + 1..Len(mem'.msgs) : mem'.msgs[k].text # "unstarted"
<1> DEFINE h == mem.msgs
<1>0. h \in Seq(Message) /\ Len(h) \in Nat /\ BatchOK /\ batch.appended \in Nat
  BY TypeParts, StateIs, BatchIs DEF SavedOK
<1>1. CASE /\ at = "reply" /\ mem' = mem
           /\ batch' = [NoBatch EXCEPT !.calls = h[Len(h)].calls]
  <2>1. batch'.calls = h[Len(h)].calls /\ batch'.appended = 0
    BY <1>1 DEF NoBatch
  <2>2. HereNow' = Len(h)
    BY <1>0, <1>1, <2>1 DEF HereNow
  <2>3. Len(h) > 0 /\ IsReply(h, Len(h))
    BY <1>1 DEF InHand
  <2>4. Len(h[Len(h)].calls) \in Nat
    <3>1. Len(h) \in 1..Len(h)
      BY <1>0, <2>3
    <3> QED BY <1>0, <3>1, CallsDiffer
  <2>5. Len(h) + 1..Len(h) = {}
    BY <1>0
  <2> QED BY <1>0, <1>1, <2>1, <2>2, <2>3, <2>4, <2>5 DEF Turn
<1>2. CASE /\ at = "tools" /\ batch'.calls = batch.calls /\ HereNow' = HereNow
           /\ mem'.msgs = h /\ batch'.appended = batch.appended
  <2>1. Turn(h, batch, HereNow) /\ \A k \in HereNow + 1..Len(h) : h[k].text # "unstarted"
    BY <1>2 DEF InHand, Turn
  <2> QED BY <1>2, <2>1 DEF Turn
<1>3. CASE /\ at = "tools" /\ batch'.calls = batch.calls /\ HereNow' = HereNow
           /\ NextCall /\ batch'.appended = batch.appended + 1
           /\ mem'.msgs = Append(h, Result(Current, batch.out[Current]))
  <2> DEFINE m == Result(Current, batch.out[Current])
             g == mem'.msgs
             p == HereNow
  <2>1. Current \in Calls /\ m \in Message
    <3>1. mem \in State /\ run \in Runs
      BY <1>3, RunIs
    <3> QED BY <1>0, <1>3, <3>1, CommitIs
  <2>2. /\ Len(g) = Len(h) + 1 /\ g[Len(h) + 1] = m /\ \A i \in 1..Len(h) : g[i] = h[i]
    BY <1>0, <1>3, <2>1, AppendIs
  <2>3. m.role = "tool" /\ m.text # "unstarted"
    BY <1>3, <2>1 DEF Result, Outs, Final
  <2>4. /\ p \in 1..Len(h) /\ IsReply(h, p) /\ h[p].calls = batch.calls
        /\ \A k \in p + 1..Len(h) : IsTool(h, k) /\ h[k].text # "unstarted"
    BY <1>3, HereIs DEF InHand
  <2>5. batch.appended + 1 <= Len(batch.calls) /\ batch.appended < Len(h)
    BY <1>0, <1>3 DEF NextCall, InHand
  <2> HIDE DEF h, m, g, p
  <2>6. \A k \in p + 1..Len(g) : (k \in p + 1..Len(h) /\ k \in 1..Len(h)) \/ k = Len(h) + 1
    BY <1>0, <2>2, <2>4
  <2>7. ASSUME NEW k \in p + 1..Len(g) PROVE IsTool(g, k) /\ g[k].text # "unstarted"
    <3>1. CASE k \in p + 1..Len(h) /\ k \in 1..Len(h)
      BY <2>2, <2>4, <3>1 DEF IsTool
    <3>2. CASE k = Len(h) + 1
      BY <2>2, <2>3, <3>2 DEF IsTool
    <3> QED BY <2>6, <3>1, <3>2
  <2>8. IsReply(g, p) /\ g[p].calls = batch'.calls
    BY <1>3, <2>2, <2>4 DEF IsReply
  <2>9. batch'.appended <= Len(batch'.calls) /\ batch'.appended < Len(g)
    BY <1>0, <1>3, <2>2, <2>5
  <2>10. HereNow' = p
    BY <1>3 DEF p
  <2>11. Turn(g, batch', p)
    BY <2>7, <2>8, <2>9 DEF Turn
  <2> QED BY <2>7, <2>10, <2>11 DEF g
<1> QED BY <1>1, <1>2, <1>3, TurnMoves

\* The reply in hand stays in hand.
LEMMA InHandStep ==
  ASSUME TypeOK, Running, InHand, Phased, Formed(mem.msgs), Tracked, Outs, [Next]_vars
  PROVE InHand'
<1>0. mem.msgs \in Seq(Message) /\ Len(mem.msgs) \in Nat /\ BatchOK
  BY TypeParts, StateIs DEF SavedOK
<1>1. CASE StartRun \/ Crash
  BY <1>1 DEF StartRun, Crash, InHand
<1>2. CASE Parent
  <2>1. CASE at' = "model"
    BY <1>2, <2>1, AskedWhole DEF InHand
  <2>2. CASE at' = "reply"
    <3>1. Reply
      BY <1>2, <2>2, ParentStays
    <3>2. PICK r \in Replies : mem' = [mem EXCEPT !.msgs = Append(mem.msgs, Assistant(r))]
      BY <3>1 DEF Reply
    <3>3. mem'.msgs = Append(mem.msgs, Assistant(r))
      BY <3>2, TypeParts DEF SavedOK, State
    <3>4. Assistant(r) \in Message
      BY <3>1, RunIs, MessagesAre DEF Reply
    <3>5. Len(mem'.msgs) = Len(mem.msgs) + 1 /\ mem'.msgs[Len(mem'.msgs)] = Assistant(r)
      BY <1>0, <3>3, <3>4, AppendIs
    <3>6. Len(mem'.msgs) > 0
      BY <1>0, <3>5
    <3> QED BY <2>2, <3>5, <3>6 DEF InHand, IsReply, Assistant
  <2>3. CASE at' \in {"tools", "abort"}
    BY <1>2, <2>3, TurnStep DEF InHand, Turn
  <2>4. CASE at' \notin {"model", "reply", "tools", "abort"}
    BY <2>4 DEF InHand
  <2> QED BY <2>1, <2>2, <2>3, <2>4
<1>3. CASE Cancel
  BY <1>3 DEF Cancel, stateVars, loopVars, InHand, HereNow
<1>4. ASSUME NEW c \in TaskCalls, Worker(c) PROVE InHand'
  <2>1. at' = at /\ at = "tools" /\ mem'.msgs = mem.msgs
    BY <1>4, WorkerMsgs, WorkerMemIs DEF InGroup
  <2>2. batch'.appended = batch.appended /\ batch'.calls = batch.calls
    BY <1>0, <1>4, WorkerBatchKeeps
  <2> QED BY <2>1, <2>2 DEF InHand, HereNow
<1>5. CASE UNCHANGED vars
  BY <1>5 DEF vars, stateVars, loopVars, toolVars, InHand, HereNow
<1> QED BY <1>1, <1>2, <1>3, <1>4, <1>5, NextIs DEF Main

-----------------------------------------------------------------------------
\* Agent holds when the process comes up on an empty Thread.
LEMMA AgentInit == Init => Agent
<1> SUFFICES ASSUME Init PROVE Agent
  OBVIOUS
<1> USE DEF Init
<1>1. TypeOK
  <2>1. SavedOK
    BY FreshIs DEF SavedOK
  <2>2. LoopOK /\ CountsOK
    <3>1. used \in 0..MaxTrouble
      BY AgentAssumption
    <3> QED BY <3>1 DEF LoopOK, CountsOK
  <2>3. NumbersOK
    BY AgentAssumption DEF NumbersOK
  <2>4. BatchOK
    BY DEF BatchOK, Batches, NoBatch, Text
  <2>5. WorkersOK
    BY FreshIs DEF WorkersOK, Workers, Idle, Status
  <2>6. PastOK
    BY DEF PastOK
  <2> QED BY <2>1, <2>2, <2>3, <2>4, <2>5, <2>6, TypeParts
<1>2. Running /\ Cleanly
  BY DEF Running, Cleanly
<1>3. SubsFollow /\ Watched /\ Outs /\ InHand /\ Phased /\ ActedSaved /\ ActedStarted
      /\ NothingIsLeftOpen
  BY DEF SubsFollow, Watched, Outs, InHand, Phased, ActedSaved, ActedStarted, NothingIsLeftOpen
<1>4. Untouched
  BY DEF Untouched, Fresh
<1>5. Beside /\ Tracked
  BY DEF Beside, Tracked, Knows, Idle
<1>6. StartedOnce
  BY DEF StartedOnce
<1>7. MsgsFollow
  BY DEF MsgsFollow, Asked
<1>8. mem.msgs = <<>> /\ disk.msgs = <<>>
  BY DEF Fresh
<1>9. Sound(mem.msgs) /\ Sound(disk.msgs)
  BY <1>8 DEF Sound, Formed, Ordered, Mostly, OnlyToolsSpeak, UnstartedIn, OutcomesIn
<1> QED BY <1>1, <1>2, <1>3, <1>4, <1>5, <1>6, <1>7, <1>9 DEF Agent, Tasks, History

\* Every step keeps it.
LEMMA AgentStep == Agent /\ [Next]_vars => Agent'
<1> SUFFICES ASSUME Agent, [Next]_vars PROVE Agent'
  OBVIOUS
<1>0. /\ TypeOK /\ Running /\ Cleanly
      /\ SubsFollow /\ Untouched /\ Beside /\ Tracked /\ Watched /\ StartedOnce /\ Outs
      /\ NothingIsLeftOpen
      /\ MsgsFollow /\ InHand /\ Phased /\ ActedSaved /\ ActedStarted
      /\ Sound(mem.msgs) /\ Sound(disk.msgs) /\ Formed(mem.msgs)
  BY DEF Agent, Tasks, History, Sound
<1>1. TypeOK' /\ Running' /\ Cleanly'
  BY <1>0, TypeStep, RunningStep, CleanlyStep
<1>2. SubsFollow' /\ Untouched' /\ Beside' /\ Tracked'
  BY <1>0, SubsStep, UntouchedStep, BesideStep, TrackedStep
<1>3. Watched' /\ StartedOnce' /\ Outs' /\ NothingIsLeftOpen'
  BY <1>0, WatchedStep, StartedStep, OutsStep, LeftOpenStep
<1>4. MsgsFollow' /\ InHand' /\ Phased'
  BY <1>0, MsgsStep, InHandStep, PhasedStep
<1>5. ActedSaved' /\ ActedStarted'
  BY <1>0, ActedStep
<1>6. Sound(mem.msgs)' /\ Sound(disk.msgs)'
  BY <1>0, SoundStep
<1> QED BY <1>1, <1>2, <1>3, <1>4, <1>5, <1>6 DEF Agent, Tasks, History

\* The agent, its memory, its checkpoint and its workers stay in step, whatever fails or dies.
\* (agents/lead_agent.py, agents/tool_calls.py, subagents/executor.py)
THEOREM AgentHolds == Spec => []Agent
<1>1. Init => Agent
  BY AgentInit
<1>2. Agent /\ [Next]_vars => Agent'
  BY AgentStep
<1> QED BY <1>1, <1>2, PTL DEF Spec

\* The variables keep their types, repaired histories and snapshots of the state included.
\* (agents/state.py)
THEOREM TypesHold == Spec => []TypeOK
<1>1. Agent => TypeOK
  BY DEF Agent
<1> QED BY <1>1, AgentHolds, PTL

\* What the model is sent is a conversation it accepts, for histories of any length and
\* whatever broke off before.  (repair_interrupted_tool_history, finish_aborted)
THEOREM ModelsAreSentAnswers == Spec => []HistoryIsAnswered
<1>1. Agent => HistoryIsAnswered
  <2> SUFFICES ASSUME Agent, at = "model" PROVE Answered(mem.msgs)
    BY DEF HistoryIsAnswered
  <2> DEFINE h == mem.msgs
  <2>1. h \in Seq(Message) /\ Ordered(h)
    BY TypeParts, StateIs DEF Agent, History, Sound, Formed, SavedOK
  <2>2. \A i \in 1..Len(h) : IsReply(h, i) => Whole(h, i)
    BY DEF Agent, History, InHand
  <2> HIDE DEF h
  <2>3. ASSUME NEW i \in 1..Len(h), IsReply(h, i)
        PROVE /\ i + Len(h[i].calls) <= Len(h)
              /\ \A k \in 1..Len(h[i].calls) :
                     IsTool(h, i + k) /\ h[i + k].call = h[i].calls[k]
    <3>1. Whole(h, i) /\ Answers(h, i) = Len(h[i].calls)
          /\ \A k \in 1..Answers(h, i) : h[i + k].call = h[i].calls[k]
      BY <2>1, <2>2, <2>3, AnswersAreOwn, SMTT(40)
    <3> QED BY <3>1 DEF Whole
  <2>4. ASSUME NEW j \in 1..Len(h), IsTool(h, j)
        PROVE \E i \in 1..j - 1 : IsReply(h, i) /\ j - i <= Len(h[i].calls)
    BY <2>1, <2>4 DEF Ordered
  <2>5. Answered(h)
    BY <2>3, <2>4 DEF Answered, IsReply, IsTool
  <2> QED BY <2>5 DEF h
<1> QED BY <1>1, AgentHolds, PTL

\* The model is told the truth: what it hears did not run did not, and a task came to what
\* the checkpoint says.  (_known_or_interrupted_result, finish_aborted)
THEOREM ModelsAreToldTheTruth == Spec => []ResultsAreTrue
<1>1. Agent => ResultsAreTrue
  <2> SUFFICES ASSUME Agent, NEW i \in 1..Len(mem.msgs)
               PROVE LET m == mem.msgs[i] IN
                     /\ m.text = "unstarted" => <<ReplyOf(mem.msgs, i), m.call>> \notin acted
                     /\ m.call \in TaskCalls /\ m.text \in Final =>
                            disk.subs[m.run][m.call] = m.text
    BY DEF ResultsAreTrue
  <2> DEFINE h == mem.msgs
  <2>1. /\ Ordered(h) /\ OnlyToolsSpeak(h) /\ UnstartedIn(h, acted) /\ OutcomesIn(h, disk.subs)
    BY DEF Agent, History, Sound, Formed
  <2>2. ASSUME h[i].text = "unstarted" PROVE <<ReplyOf(h, i), h[i].call>> \notin acted
    <3>1. IsTool(h, i)
      BY <2>1, <2>2 DEF OnlyToolsSpeak
    <3>2. PICK p \in 1..i - 1 : IsReply(h, p) /\ \A k \in p + 1..i : IsTool(h, k)
      BY <2>1, <3>1 DEF Ordered
    <3>3. LastReply(h, p, i)
      BY <3>2 DEF LastReply, IsTool, IsReply
    <3>4. ReplyOf(h, i) = CHOOSE j \in 1..i : LastReply(h, j, i)
      BY DEF ReplyOf, LastReply, IsReply
    <3>5. p \in 1..i
      BY <3>3 DEF LastReply
    <3>6. ReplyOf(h, i) \in 1..i /\ LastReply(h, ReplyOf(h, i), i)
      <4>1. \E j \in 1..i : LastReply(h, j, i)
        BY <3>3, <3>5
      <4> QED BY <3>4, <4>1
    <3> QED BY <2>1, <2>2, <3>6 DEF UnstartedIn
  <2> QED BY <2>1, <2>2 DEF OutcomesIn
<1> QED BY <1>1, AgentHolds, PTL

\* A child is started once, and a Run that ends leaves no task open unless storage failed it.
\* (SubagentDispatcher, SubagentExecutor)
THEOREM ChildrenEnd == Spec => []ChildrenEndWithTheRun
<1>1. Agent => ChildrenEndWithTheRun
  BY AgentAssumption
  DEF Agent, Tasks, StartedOnce, ChildrenEndWithTheRun, ChildrenStartOnce
<1> QED BY <1>1, AgentHolds, PTL

\* No checkpoint loses a task or takes back how far it came.
\* (checkpoint_lock; UNIQUE(thread_id, run_id, step))
THEOREM TasksAreNotLost == Spec => SubtasksAreKept
<1>1. Agent /\ [Next]_vars =>
          [\A r \in Runs, c \in Calls :
              /\ Rank(disk'.subs[r][c]) >= Rank(disk.subs[r][c])
              /\ disk.subs[r][c] \in Final => disk'.subs[r][c] = disk.subs[r][c]]_vars
  BY KeptStep DEF Agent, Tasks, History, Sound
<1> QED BY <1>1, AgentHolds, PTL DEF Spec, SubtasksAreKept

=============================================================================
