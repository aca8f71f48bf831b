------------------------------- MODULE ModelCall ------------------------------
(***************************************************************************)
(* One call of the model: the attempts, retries and time limits of          *)
(* agents/model_error_handling_middleware.py, the kinds of errors of        *)
(* model/errors.py, and the stream that chat of model/openai_compatible.py  *)
(* puts together.  What is shown while a reply arrives carries the same     *)
(* message id in every attempt, so that a second attempt after something    *)
(* was shown would mix two replies.                                         *)
(*                                                                          *)
(* An attempt is asked, may answer with pieces, and ends with a reply or a  *)
(* reason.  How long things take is left open: each limit may strike        *)
(* wherever the code waits.  A module that makes calls extends this one.    *)
(***************************************************************************)
EXTENDS Naturals, FiniteSets

CONSTANT MaxAttempts  \* ModelCallPolicy.max_attempts

ASSUME CallAssumption == MaxAttempts \in 1..10

VARIABLES
    caller,       \* who waits for it: the Run, or a summary nobody watches
    stage,        \* where the call is
    attempt,      \* attempts
    limit,        \* the fewest any reason so far allows
    pieces,       \* the kinds of pieces this attempt has brought
    finished,     \* it has brought finish_reason
    visible,      \* visible_output
    shownBy,      \* the attempts that showed something under the message id
    interrupted,  \* model.interrupted was published
    emptyUsed,    \* the Run has used its retry of an empty response
    outcome       \* what the caller gets

callVars ==
    <<caller, stage, attempt, limit, pieces, finished, visible, shownBy, interrupted, emptyUsed,
      outcome>>

Kinds == {"text", "blank", "reasoning", "tools"}

\* classify_model_error: how many attempts a reason allows; 1 means no retry.
Reasons == {"transient", "timeout", "empty", "incomplete", "refused"}
Tries(reason) ==
    CASE reason = "transient" -> 3
      [] reason \in {"timeout", "empty", "incomplete"} -> 2
      [] reason = "refused" -> 1

CallTypeOK ==
    /\ caller \in {"none", "run", "summary"}
    /\ stage \in {"off", "asking", "streaming", "accepted", "waiting", "done"}
    /\ attempt \in 0..MaxAttempts /\ limit \in 0..MaxAttempts
    /\ pieces \subseteq Kinds /\ finished \in BOOLEAN
    /\ visible \in BOOLEAN /\ shownBy \subseteq 1..MaxAttempts
    /\ interrupted \in BOOLEAN /\ emptyUsed \in BOOLEAN
    /\ outcome \in {"none", "reply", "failed", "raised"}

NoCall ==
    /\ caller = "none" /\ stage = "off" /\ attempt = 0 /\ limit = 0 /\ pieces = {}
    /\ finished = FALSE /\ visible = FALSE /\ shownBy = {} /\ interrupted = FALSE
    /\ outcome = "none"
CallInit == NoCall /\ emptyUsed = FALSE

\* The caller has its answer and is done with the call.
EndCall ==
    /\ caller' = "none" /\ stage' = "off" /\ attempt' = 0 /\ limit' = 0 /\ pieces' = {}
    /\ finished' = FALSE /\ visible' = FALSE /\ shownBy' = {} /\ interrupted' = FALSE
    /\ outcome' = "none"

BeginCall(by) ==
    /\ stage = "off"
    /\ caller' = by /\ stage' = "asking" /\ attempt' = 1 /\ limit' = MaxAttempts
    /\ UNCHANGED <<pieces, finished, visible, shownBy, interrupted, outcome>>

\* The service answers.
Answers ==
    /\ stage = "asking"
    /\ stage' = "streaming"
    /\ UNCHANGED <<caller, attempt, limit, pieces, finished, visible, shownBy, interrupted,
                   emptyUsed, outcome>>

\* A chunk: text and reasoning are shown as they come, unless nobody watches;
\* that they are is noted first.  It may also come with finish_reason, or after it.
Noted_Text(k) == caller = "run" /\ k \in {"text", "blank"}
Noted(k) == caller = "run" /\ k # "tools"
Piece(k) ==
    /\ stage = "streaming"
    /\ pieces' = pieces \cup {k}
    /\ visible' = (visible \/ Noted(k))
    /\ shownBy' = IF caller = "run" /\ k # "tools" THEN shownBy \cup {attempt} ELSE shownBy
    /\ UNCHANGED <<caller, stage, attempt, limit, finished, interrupted, emptyUsed, outcome>>
FinishReason ==
    /\ stage = "streaming" /\ ~finished
    /\ finished' = TRUE
    /\ UNCHANGED <<caller, stage, attempt, limit, pieces, visible, shownBy, interrupted,
                   emptyUsed, outcome>>

\* What has come of an attempt that did not end in a reply is dropped.
Drop == pieces' = {} /\ finished' = FALSE
\* fail: the call is over; a reader who has seen part of it is told.
Fail ==
    /\ stage' = "done" /\ outcome' = "failed"
    /\ interrupted' = visible
    /\ Drop /\ limit' = 0
    /\ UNCHANGED <<caller, attempt, visible, shownBy, emptyUsed>>

\* A summary has a budget of its own.
EmptyRetryUsed == caller = "run" /\ emptyUsed
Fewest(a, b) == IF a < b THEN a ELSE b
MayRetry(reason) ==
    /\ ~visible
    /\ attempt < Fewest(limit, Tries(reason))
    /\ ~(reason = "empty" /\ EmptyRetryUsed)

\* What a classified error leads to: a wait, if it is short enough, and another
\* attempt; or the end.
Judge(reason) ==
    \/ Fail
    \/ /\ MayRetry(reason)
       /\ stage' = "waiting"
       /\ limit' = Fewest(limit, Tries(reason))
       /\ Drop
       /\ emptyUsed' = (emptyUsed \/ (caller = "run" /\ reason = "empty"))
       /\ UNCHANGED <<caller, attempt, visible, shownBy, interrupted, outcome>>

\* The request or the stream breaks, or the limit of the attempt strikes.
Breaks(reason) ==
    /\ stage \in {"asking", "streaming"} /\ reason \in {"transient", "timeout", "refused"}
    /\ Judge(reason)

\* The stream ends: without finish_reason what came is not used; with another
\* one than stop or tool_calls, or with arguments that do not parse, neither.
Bare == pieces \subseteq {"blank"}
StreamEnds ==
    /\ stage = "streaming"
    /\ \/ ~finished /\ Judge("incomplete")
       \/ finished /\ Judge("refused")
       \/ finished /\ Bare /\ Judge("empty")
       \/ /\ finished /\ ~Bare
          /\ stage' = "accepted"
          /\ UNCHANGED <<caller, attempt, limit, pieces, finished, visible, shownBy, interrupted,
                         emptyUsed, outcome>>

\* status("complete") is published, then the reply is returned.
Returns ==
    /\ stage = "accepted"
    /\ stage' = "done" /\ outcome' = "reply"
    /\ UNCHANGED <<caller, attempt, limit, pieces, finished, visible, shownBy, interrupted,
                   emptyUsed>>

TriesAgain ==
    /\ stage = "waiting"
    /\ stage' = "asking" /\ attempt' = attempt + 1
    /\ UNCHANGED <<caller, limit, pieces, finished, visible, shownBy, interrupted, emptyUsed,
                   outcome>>

Under == stage \in {"asking", "streaming", "accepted", "waiting"}
\* The limit of the whole call strikes, wherever it is.
TimesOut == Under /\ Fail
\* A local error, which is not the service's, goes to the caller as it is.
Raises ==
    /\ stage \in {"asking", "streaming"}
    /\ stage' = "done" /\ outcome' = "raised"
    /\ Drop /\ limit' = 0
    /\ UNCHANGED <<caller, attempt, visible, shownBy, interrupted, emptyUsed>>

CallSteps ==
    \/ Answers \/ FinishReason \/ StreamEnds \/ Returns \/ TriesAgain \/ TimesOut \/ Raises
    \/ \E k \in Kinds : Piece(k)
    \/ \E reason \in Reasons : Breaks(reason)

-----------------------------------------------------------------------------

\* What is shown under a message id comes from one attempt, and if the caller gets a
\* reply, from the attempt that gave it; where the service or a limit has failed the
\* call, whoever was shown a part of it is told by model.interrupted.  (A local error
\* or a cancellation leaves the part as it is; the event of the Run's end marks it.)
OneAnswerIsShown ==
    /\ Cardinality(shownBy) <= 1
    /\ outcome = "reply" => shownBy \subseteq {attempt}
    /\ outcome = "failed" /\ shownBy # {} => interrupted
================================================================================
