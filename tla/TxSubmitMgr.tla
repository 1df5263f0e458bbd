----------------------------- MODULE TxSubmitMgr -----------------------------
(***************************************************************************)
(* One TxSubmitMgr: the state machine that carries one signed transaction  *)
(* through one submitter (src/src/networkClients/TxSubmitMgr.ts) on top of *)
(* the generic StateMachine (src/src/StateMachine.ts).                     *)
(*                                                                         *)
(* The object is a record and every synchronous handler is a function from *)
(* that record to the next one, so that a nested call of the code          *)
(* (transition -> finishTransition -> onEntry -> trySubmit) is a nested    *)
(* application here, and so that the same handlers serve one manager       *)
(* (LoneSubmitMgr) or the several managers of one transaction.  Promise    *)
(* callbacks that run after the synchronous stack has unwound are queued   *)
(* in "todo" and run one at a time, in order: they are the microtasks.     *)
(***************************************************************************)
EXTENDS Naturals, Sequences

CONSTANTS
    SoftConfirmations,        \* hardConfirm needs more sightings than this
    MaxConfirmationFailures,  \* more misses than this: submit again
    BadUtxoAttempts,          \* utxo errors with known inputs, then bad
    MaxRescueAttempts,        \* re-checks of a tx that was found to be bad
    Submitters                \* kinds of submitters: by the lookup they offer

ASSUME MgrAssumption ==
    /\ SoftConfirmations \in Nat
    /\ MaxConfirmationFailures \in Nat
    /\ BadUtxoAttempts \in Nat
    /\ MaxRescueAttempts \in Nat
    /\ Submitters \subseteq {"getTx", "hasUtxo"}

States == {"submitting", "confirming", "softConfirmed", "confirmed", "failed"}

Transitions == {"submitted", "confirmed", "unconfirmed", "hardConfirm",
                "failed", "notOk", "timeout", "txExpired", "reconfirm",
                "resubmit", "otherSubmitterProblem"}

NoState == "none"

(***************************************************************************)
(* A deferred action: $deferredState ("state": enter the target unless the *)
(* machine has left "from") or $deferredTransition ("name": perform        *)
(* reconfirm, to confirming, or resubmit, to submitting).  An "orphan" is  *)
(* a deferred state requested by a destroyed machine: it is recorded, and  *)
(* no callback was ever attached to its timer.                             *)
(***************************************************************************)
DeferredActions ==
    [via : {"state", "name", "orphan"}, from : States, to : {"submitting", "confirming"}]
NoAction == [via |-> "none", from |-> NoState, to |-> NoState]

\* activities tracked by pendingActivity(), and the callbacks it leaves queued
Activities == {"submitting", "confirming"}
Tasks == {"submitClash", "confirmClash", "notConfirmed",
          "submitAborted", "confirmAborted"}

\* the awaits of notSubmitted() on an unknown-utxo error
DiagnosisStages == {"confirmTx", "inputUtxosAreResolvable", "checkTxInputStatus"}

MgrStates ==
    [ submitter : Submitters,
      state : States,
      started : BOOLEAN,               \* the startup delay is over
      destroyed : BOOLEAN,
      deferred : DeferredActions \cup {NoAction},  \* _deferredSMAction
      released : Seq(DeferredActions), \* actions given up, timers still running
      pending : Activities \cup {"none"},
      armed : BOOLEAN,                 \* the timeout of "pending" can still fire
      todo : Seq(Tasks),
      diagnosing : [DiagnosisStages -> Nat],
      submitIssue : BOOLEAN,
      isBadTx : BOOLEAN,
      expirationDetected : BOOLEAN,
      successfulSubmit : BOOLEAN,      \* successfulSubmitAt is set
      failedSubmissions : 0 .. BadUtxoAttempts,
      confirmations : 0 .. SoftConfirmations + 1,
      confirmationFailures : 0 .. MaxConfirmationFailures + 1,
      rescueAttempts : 0 .. MaxRescueAttempts + 1 ]

NewMgr(submitter) ==
    [ submitter |-> submitter,
      state |-> "submitting", started |-> FALSE, destroyed |-> FALSE,
      deferred |-> NoAction, released |-> <<>>,
      pending |-> "none", armed |-> FALSE, todo |-> <<>>,
      diagnosing |-> [d \in DiagnosisStages |-> 0],
      submitIssue |-> FALSE, isBadTx |-> FALSE, expirationDetected |-> FALSE,
      successfulSubmit |-> FALSE, failedSubmissions |-> 0,
      confirmations |-> 0, confirmationFailures |-> 0, rescueAttempts |-> 0 ]

\* Counters stop where the code no longer tells their values apart.
Bump(n, cap) == IF n < cap THEN n + 1 ELSE n

Queue(m, task) == [m EXCEPT !.todo = Append(@, task)]

-----------------------------------------------------------------------------
(* Activities and deferred actions *)

\* pendingActivity(): one at a time; a second one is rejected, and the
\* rejection reaches its caller as a queued callback
StartActivity(m, activity, clash) ==
    IF m.pending = "none"
      THEN [m EXCEPT !.pending = activity, !.armed = TRUE]
      ELSE Queue(m, clash)

trySubmit(m)  == StartActivity(m, "submitting", "submitClash")
tryConfirm(m) == StartActivity(m, "confirming", "confirmClash")

\* mutant of done(): the finished activity is still the pending one
doneKeepsActivity(m) == [m EXCEPT !.armed = FALSE]

\* done(), and the cancel() inside it
done(m) == [m EXCEPT !.pending = "none", !.armed = FALSE]

\* $deferredTransition(): throws, into a listener that swallows it, when an
\* action is already deferred
DeferTransition(m, to) ==
    IF m.deferred = NoAction
      THEN [m EXCEPT !.deferred = [via |-> "name", from |-> m.state, to |-> to]]
      ELSE m

\* $deferredState() from an onTransition hook, where none is deferred
DeferState(m, to) ==
    [m EXCEPT !.deferred = [via  |-> IF m.destroyed THEN "orphan" ELSE "state",
                            from |-> m.state, to |-> to]]

\* mutant: releases without looking whether an action is deferred
ReleaseUnchecked(m) ==
    [m EXCEPT !.deferred = NoAction, !.released = Append(@, m.deferred)]

\* the deferred action is given up, and its timer is not: it keeps running
Release(m) ==
    [m EXCEPT !.deferred = NoAction,
              !.released = IF m.deferred.via \in {"state", "name"}
                             THEN Append(@, m.deferred) ELSE @]

-----------------------------------------------------------------------------
(* Entering a state *)

\* mutants of the hook of failed: the rescue has no bound; a bad tx is not
\* told from an expired one
enterFailedUnbounded(m) ==
    IF m.isBadTx
      THEN DeferTransition([m EXCEPT !.rescueAttempts = Bump(@, MaxRescueAttempts + 1)],
                           "confirming")
      ELSE DeferTransition(m, IF m.successfulSubmit THEN "confirming" ELSE "submitting")
enterFailedBlind(m) ==
    DeferTransition(m, IF m.successfulSubmit THEN "confirming" ELSE "submitting")

enterFailed(m) ==
    IF m.isBadTx
      THEN LET n == [m EXCEPT !.rescueAttempts = Bump(@, MaxRescueAttempts + 1)]
           IN  IF n.rescueAttempts <= MaxRescueAttempts
                 THEN DeferTransition(n, "confirming") ELSE n
      ELSE DeferTransition(m, IF m.successfulSubmit THEN "confirming"
                                                    ELSE "submitting")

\* mutant: too few sightings, and no second look
enterSoftConfirmedOnce(m) ==
    IF m.confirmations > SoftConfirmations THEN [m EXCEPT !.state = "confirmed"] ELSE m

\* enough sightings: hardConfirm, a state with no entry hook; otherwise look again
enterSoftConfirmed(m) ==
    IF m.confirmations > SoftConfirmations
      THEN [m EXCEPT !.state = "confirmed"]
      ELSE DeferTransition(m, "confirming")

\* mutant: finishTransition() does not look at destroyed
EnterDestroyed(m, s) ==
    LET n == [m EXCEPT !.state = s] IN
    CASE s = "submitting"    -> trySubmit([n EXCEPT !.submitIssue = FALSE])
      [] s = "confirming"    -> tryConfirm(n)
      [] s = "softConfirmed" -> enterSoftConfirmed(n)
      [] s = "failed"        -> enterFailed(n)
      [] s = "confirmed"     -> n

\* finishTransition() with a state to enter, and the onEntry hooks
Enter(m, s) ==
    LET n == [m EXCEPT !.state = s] IN
    IF m.destroyed THEN m
    ELSE CASE s = "submitting"    -> trySubmit([n EXCEPT !.submitIssue = FALSE])
           [] s = "confirming"    -> tryConfirm(n)
           [] s = "softConfirmed" -> enterSoftConfirmed(n)
           [] s = "failed"        -> enterFailed(n)
           [] s = "confirmed"     -> n

-----------------------------------------------------------------------------
(* The transition table and its onTransition hooks *)

To(s, tn) ==
    CASE s = "submitting" /\ tn \in {"failed", "confirmed", "submitted", "txExpired"}
           -> "confirming"
      [] s = "submitting" /\ tn \in {"otherSubmitterProblem", "notOk", "timeout"}
           -> "submitting"
      [] s = "confirming" /\ tn \in {"otherSubmitterProblem", "txExpired", "notOk", "timeout"}
           -> "confirming"
      [] s = "confirming" /\ tn = "unconfirmed" -> "submitting"
      [] s = "confirming" /\ tn = "confirmed" -> "softConfirmed"
      [] s = "softConfirmed" /\ tn \in {"timeout", "otherSubmitterProblem", "reconfirm"}
           -> "confirming"
      [] s = "softConfirmed" /\ tn = "confirmed" -> "softConfirmed"
      [] s = "softConfirmed" /\ tn = "hardConfirm" -> "confirmed"
      [] s = "confirmed" /\ tn \in {"otherSubmitterProblem", "reconfirm"} -> "confirming"
      [] s = "failed" /\ tn = "failed" -> "failed"
      [] s = "failed" /\ tn \in {"otherSubmitterProblem", "reconfirm"} -> "confirming"
      [] s = "failed" /\ tn = "resubmit" -> "submitting"
      [] OTHER -> NoState

\* mutants: the first sighting is the only one counted; the sightings survive
\* a new submission
didConfirmOnce(m) == [m EXCEPT !.confirmations = 1]
resetConfirmationFailures(m) == [m EXCEPT !.confirmationFailures = 0]

didConfirm(m) == [m EXCEPT !.confirmations = Bump(@, SoftConfirmations + 1)]
resetConfirmationStats(m) ==
    [m EXCEPT !.confirmations = 0, !.confirmationFailures = 0]

ConfirmFailure(m) ==
    [m EXCEPT !.confirmationFailures = Bump(@, MaxConfirmationFailures + 1)]
SubmitFailure(m) == [m EXCEPT !.failedSubmissions = Bump(@, BadUtxoAttempts)]

\* mutants: gives up resubmitting when the attempts run out, with no verdict;
\* takes too many misses for a failure instead of a reason to submit again
SubmitNotOkGivesUp(m) ==
    LET n == SubmitFailure(m) IN
    CASE ~m.submitIssue            -> n
      [] m.submitIssue /\ m.isBadTx -> Enter(n, "failed")
      [] m.submitIssue /\ ~m.isBadTx
           -> IF n.failedSubmissions < BadUtxoAttempts THEN DeferState(n, "submitting") ELSE n
ConfirmNotOkFails(m) ==
    LET n == ConfirmFailure(m) IN
    IF m.isBadTx \/ m.expirationDetected \/ n.confirmationFailures > MaxConfirmationFailures
      THEN Enter(n, "failed")
      ELSE DeferState(n, IF m.successfulSubmit THEN "confirming" ELSE "submitting")

\* submitting.notOk: without a submitIssue the hook throws, and the state stays
SubmitNotOk(m) ==
    LET n == SubmitFailure(m) IN
    CASE ~m.submitIssue               -> n
      [] m.submitIssue /\ m.isBadTx   -> Enter(n, "failed")
      [] m.submitIssue /\ ~m.isBadTx  -> DeferState(n, "submitting")

\* confirming.notOk; battleDetected is never set by the code
ConfirmNotOk(m) ==
    LET n == ConfirmFailure(m) IN
    CASE m.isBadTx -> Enter(m, "failed")
      [] ~m.isBadTx /\ m.expirationDetected -> Enter(n, "failed")
      [] ~m.isBadTx /\ ~m.expirationDetected /\ ~m.successfulSubmit
           -> DeferState(n, "submitting")
      [] /\ ~m.isBadTx /\ ~m.expirationDetected /\ m.successfulSubmit
         /\ n.confirmationFailures > MaxConfirmationFailures
           -> Enter([n EXCEPT !.successfulSubmit = FALSE], "submitting")
      [] /\ ~m.isBadTx /\ ~m.expirationDetected /\ m.successfulSubmit
         /\ n.confirmationFailures <= MaxConfirmationFailures
           -> DeferState(n, "confirming")

\* The hook of a row, then the state it leads to.  submitting's hook for
\* otherSubmitterProblem answers false, which "||" turns into the target.
Perform(m, tn) ==
    CASE m.state = "submitting" /\ tn = "notOk" -> SubmitNotOk(m)
      [] m.state = "submitting" /\ tn = "timeout" -> DeferState(SubmitFailure(m), "submitting")
      [] m.state = "submitting" /\ tn = "submitted"
           -> Enter(resetConfirmationStats([m EXCEPT !.successfulSubmit = TRUE]), "confirming")
      [] m.state = "submitting" /\ tn = "txExpired"
           -> Enter([m EXCEPT !.expirationDetected = TRUE], "confirming")
      [] m.state = "confirming" /\ tn = "txExpired" -> m  \* the hook throws
      [] m.state = "confirming" /\ tn = "notOk" -> ConfirmNotOk(m)
      [] m.state = "confirming" /\ tn = "timeout" -> DeferState(ConfirmFailure(m), "confirming")
      [] m.state \in {"confirming", "softConfirmed"} /\ tn = "confirmed"
           -> Enter(didConfirm(m), "softConfirmed")
      [] m.state \in {"softConfirmed", "confirmed"} /\ tn = "otherSubmitterProblem"
           -> DeferState(resetConfirmationStats(m), "confirming")
      [] OTHER -> Enter(m, To(m.state, tn))

\* transition() throws when the row is missing, and while an action is
\* deferred; an action deferred to the same state is released instead.  (A
\* deferred transition has no target that deferredTargetState could name.)
Accepts(m, tn) ==
    /\ To(m.state, tn) # NoState
    /\ \/ m.deferred = NoAction
       \/ m.deferred.via # "name" /\ m.deferred.to = To(m.state, tn)

transition(m, tn) == IF Accepts(m, tn) THEN Perform(Release(m), tn) ELSE m

\* Whether transition() would throw while one of two callers waits for it
Throws(m, tn) == ~Accepts(m, tn)

-----------------------------------------------------------------------------
(* Timer callbacks *)

NameOf(action) == IF action.to = "submitting" THEN "resubmit" ELSE "reconfirm"

\* What a timer does once it has taken _deferredSMAction.  A "state" timer
\* finds the machine elsewhere and reports a trampoline, or enters the target.
Commit(m, action) ==
    CASE action.via = "name"                             -> transition(m, NameOf(action))
      [] action.via # "name" /\ m.state = action.from    -> Enter(m, action.to)
      [] action.via # "name" /\ m.state # action.from    -> m

\* the timer of the current deferred action
OwnTimer(m) == Commit([m EXCEPT !.deferred = NoAction], m.deferred)

\* The timer of a released action only looks whether some action is deferred,
\* never whose: it takes whichever it finds.
ReleasedTimer(m, i) ==
    LET action == m.released[i]
        n == [m EXCEPT !.released = SubSeq(@, 1, i - 1) \o SubSeq(@, i + 1, Len(@))]
    IN  IF m.deferred = NoAction THEN n ELSE Commit(Release(n), action)

\* the 3 s timeout of the pending activity: a transition() that throws leaves
\* the activity pending, with no timer any more
Abort(m) == Queue(m, IF m.pending = "submitting" THEN "submitAborted" ELSE "confirmAborted")

\* mutant: the timeout does not reject the activity's promise
TimeoutTimerNoAbort(m) == transition([m EXCEPT !.armed = FALSE], "timeout")

TimeoutTimer(m) ==
    LET n == [m EXCEPT !.armed = FALSE] IN
    CASE m.destroyed                           -> Abort(n)
      [] ~m.destroyed /\ Throws(m, "timeout")  -> n
      [] ~m.destroyed /\ ~Throws(m, "timeout") -> Abort(transition(n, "timeout"))

-----------------------------------------------------------------------------
(* Answers of the network *)

SubmitOutcomes == {"accepted", "alreadySpent", "tooLate", "tooEarly",
                   "unknownUtxo", "rateLimited", "otherError"}

\* trySubmit() and the synchronous part of notSubmitted(), once doSubmit() settles
SubmitAnswered(m, outcome) ==
    LET n == done(m) IN
    CASE outcome \in {"accepted", "alreadySpent"} -> transition(n, "submitted")
      [] outcome = "tooLate"  -> transition(n, "txExpired")
      [] outcome \in {"tooEarly", "rateLimited"}
           -> transition([n EXCEPT !.submitIssue = TRUE], "notOk")
      [] outcome = "unknownUtxo" -> [n EXCEPT !.diagnosing["confirmTx"] = @ + 1]
      [] outcome = "otherError" -> transition([n EXCEPT !.isBadTx = TRUE], "failed")

\* tryConfirm() once confirmTx() settles; a rejection reports twice
ConfirmAnswered(m, outcome) ==
    LET n == done(m)
        missed == transition(n, "notOk") IN
    CASE outcome = "found"   -> transition(n, "confirmed")
      [] outcome = "missing" -> missed
      [] outcome = "error"   -> IF Throws(n, "notOk") THEN missed
                                ELSE Queue(missed, "notConfirmed")

\* the verdicts of notSubmitted() on an unknown utxo, each after its await
DiagnosisEnds(m, stage) == [m EXCEPT !.diagnosing[stage] = @ - 1]
DiagnosisMoves(m, stage, next) ==
    [m EXCEPT !.diagnosing = [m.diagnosing EXCEPT ![stage] = @ - 1, ![next] = @ + 1]]

Diagnosed(m, stage, isBad) ==
    transition([DiagnosisEnds(m, stage) EXCEPT
                  !.submitIssue = TRUE, !.isBadTx = @ \/ isBad], "notOk")

\* A found tx is confirmed.  A missing one needs getTx() for the next question:
\* without it the diagnosis dies of an error that trySubmit() only logs.
ConfirmTxAnswered(m, outcome) ==
    CASE outcome = "found" -> transition(DiagnosisEnds(m, "confirmTx"), "confirmed")
      [] outcome = "missing" /\ m.submitter = "getTx"
           -> DiagnosisMoves(m, "confirmTx", "inputUtxosAreResolvable")
      [] outcome = "error" \/ (outcome = "missing" /\ m.submitter = "hasUtxo")
           -> DiagnosisEnds(m, "confirmTx")

ResolvableAnswered(m, resolvable) ==
    IF resolvable
      THEN Diagnosed(m, "inputUtxosAreResolvable", m.failedSubmissions >= BadUtxoAttempts)
      ELSE DiagnosisMoves(m, "inputUtxosAreResolvable", "checkTxInputStatus")

InputStatuses == {"bad", "expired", "premature"}
InputStatusAnswered(m, status) ==
    Diagnosed(m, "checkTxInputStatus", status \in {"bad", "expired"})

-----------------------------------------------------------------------------
(* Queued callbacks, other calls *)

\* a rejected activity: trySubmit() takes the clash for a submission error and
\* the tx for bad; tryConfirm() reports it as a miss, twice
RunTask(m) ==
    LET n == [m EXCEPT !.todo = Tail(@)]
        task == Head(m.todo) IN
    CASE task = "submitClash"    -> transition([n EXCEPT !.isBadTx = TRUE], "failed")
      [] task = "confirmClash"   -> IF Throws(n, "notOk") THEN n
                                    ELSE Queue(transition(n, "notOk"), "notConfirmed")
      [] task = "notConfirmed"   -> transition(n, "notOk")
      [] task = "submitAborted"  -> done(n)
      [] task = "confirmAborted" -> Queue(done(n), "notConfirmed")

otherSubmitterProblem(m) == transition(m, "otherSubmitterProblem")

\* destroy(): the pending activity is cancelled, which settles it unless a
\* timeout has just done so
Aborting(m) == \E i \in DOMAIN m.todo : m.todo[i] \in {"submitAborted", "confirmAborted"}
destroy(m) ==
    LET n == [m EXCEPT !.destroyed = TRUE, !.armed = FALSE] IN
    IF m.pending = "none" \/ Aborting(m) THEN n ELSE Abort(n)

startup(m) == trySubmit([m EXCEPT !.started = TRUE])
=============================================================================
