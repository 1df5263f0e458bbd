------------------------- MODULE LoneSubmitMgrProofs -------------------------
(***************************************************************************)
(* Proofs about LoneSubmitMgr, for every value of the constants.           *)
(*                                                                         *)
(* Every handler is shown to be a lawful step of the manager it is applied *)
(* to.  Lawful steps compose, as handlers do, and they keep the type, the  *)
(* cause of a failure and the silence of a destroyed manager, which is all *)
(* the theorems need.                                                      *)
(***************************************************************************)
EXTENDS LoneSubmitMgr, TLAPS

Lawful(m, n) ==
    /\ n \in MgrStates
    /\ m.isBadTx => n.isBadTx
    /\ m.expirationDetected => n.expirationDetected
    /\ n.state = "failed" => m.state = "failed" \/ n.isBadTx \/ n.expirationDetected
    /\ m.destroyed => n.destroyed /\ n.state = m.state /\ n.pending \in {m.pending, "none"}
    /\ n.started = m.started /\ n.submitter = m.submitter

LEMMA LawfulTrans ==
    ASSUME NEW m, NEW n, NEW o, Lawful(m, n), Lawful(n, o)
    PROVE  Lawful(m, o)
BY DEF Lawful

\* What Lawful looks at is unchanged.
Alike(m, n) ==
    /\ n.isBadTx = m.isBadTx /\ n.expirationDetected = m.expirationDetected
    /\ n.state = m.state /\ n.destroyed = m.destroyed
    /\ n.pending = m.pending /\ n.started = m.started /\ n.submitter = m.submitter

LEMMA AlikeLawful ==
    ASSUME NEW m, NEW n \in MgrStates, Alike(m, n)
    PROVE  Lawful(m, n)
BY Zenon DEF Alike, Lawful

-----------------------------------------------------------------------------
(* The bookkeeping operators *)

LEMMA BumpType ==
    ASSUME NEW cap \in Nat, NEW n \in 0 .. cap
    PROVE  Bump(n, cap) \in 0 .. cap
BY DEF Bump

LEMMA NewMgrType == \A submitter \in Submitters : NewMgr(submitter) \in MgrStates
BY MgrAssumption DEF NewMgr, MgrStates, States

LEMMA QueueLawful ==
    ASSUME NEW m \in MgrStates, NEW task \in Tasks
    PROVE  Lawful(m, Queue(m, task))
<1>1. Append(m.todo, task) \in Seq(Tasks)
  BY DEF MgrStates
<1>2. Queue(m, task) \in MgrStates
  BY <1>1 DEF Queue, MgrStates
<1> QED
  BY <1>2 DEF Lawful, Queue, MgrStates

LEMMA ActivityType ==
    ASSUME NEW m \in MgrStates, NEW activity \in Activities, NEW clash \in Tasks
    PROVE  LET n == StartActivity(m, activity, clash)
           IN  n \in MgrStates /\ n.state = m.state /\ (~m.destroyed => Lawful(m, n))
<1>1. CASE m.pending = "none"
  BY <1>1 DEF StartActivity, MgrStates, Lawful
<1>2. CASE m.pending # "none"
  BY <1>2, QueueLawful DEF StartActivity, Lawful, Queue, MgrStates
<1> QED
  BY <1>1, <1>2

LEMMA doneLawful == ASSUME NEW m \in MgrStates PROVE Lawful(m, done(m))
BY DEF done, MgrStates, Lawful

LEMMA DeferTransitionLawful ==
    ASSUME NEW m \in MgrStates, NEW to \in {"submitting", "confirming"}
    PROVE  Lawful(m, DeferTransition(m, to))
<1> DEFINE action == [via |-> "name", from |-> m.state, to |-> to]
<1>1. action \in DeferredActions
  BY DEF MgrStates, DeferredActions
<1> HIDE DEF action
<1>2. [m EXCEPT !.deferred = action] \in MgrStates
  BY <1>1 DEF MgrStates
<1>3. Lawful(m, [m EXCEPT !.deferred = action]) /\ Lawful(m, m)
  BY <1>2 DEF MgrStates, Lawful
<1> QED
  BY <1>3 DEF DeferTransition, action

LEMMA DeferStateLawful ==
    ASSUME NEW m \in MgrStates, NEW to \in {"submitting", "confirming"}
    PROVE  Lawful(m, DeferState(m, to))
<1> DEFINE action == [via  |-> IF m.destroyed THEN "orphan" ELSE "state",
                      from |-> m.state, to |-> to]
<1>1. action \in DeferredActions
  BY DEF MgrStates, DeferredActions
<1> HIDE DEF action
<1>2. [m EXCEPT !.deferred = action] \in MgrStates
  BY <1>1 DEF MgrStates
<1>3. Lawful(m, [m EXCEPT !.deferred = action])
  BY <1>2 DEF MgrStates, Lawful
<1> QED
  BY <1>3 DEF DeferState, action

LEMMA ReleaseLawful == ASSUME NEW m \in MgrStates PROVE Lawful(m, Release(m))
<1>1. m.deferred.via \in {"state", "name"} => Append(m.released, m.deferred) \in Seq(DeferredActions)
  BY DEF MgrStates, DeferredActions, NoAction
<1>2. Release(m) \in MgrStates
  BY <1>1 DEF Release, MgrStates
<1> QED
  BY <1>2 DEF Release, MgrStates, Lawful

LEMMA countersLawful ==
    ASSUME NEW m \in MgrStates
    PROVE  /\ Lawful(m, didConfirm(m))
           /\ Lawful(m, resetConfirmationStats(m))
           /\ Lawful(m, ConfirmFailure(m))
           /\ Lawful(m, SubmitFailure(m))
<1>1. Lawful(m, didConfirm(m))
  <2>1. Bump(m.confirmations, SoftConfirmations + 1) \in 0 .. SoftConfirmations + 1
    BY BumpType, MgrAssumption DEF MgrStates
  <2> QED
    BY <2>1 DEF didConfirm, MgrStates, Lawful
<1>2. Lawful(m, resetConfirmationStats(m))
  <2>1. 0 \in 0 .. SoftConfirmations + 1 /\ 0 \in 0 .. MaxConfirmationFailures + 1
    BY MgrAssumption
  <2> QED
    BY <2>1 DEF resetConfirmationStats, MgrStates, Lawful
<1>3. Lawful(m, ConfirmFailure(m))
  <2>1. Bump(m.confirmationFailures, MaxConfirmationFailures + 1)
          \in 0 .. MaxConfirmationFailures + 1
    BY BumpType, MgrAssumption DEF MgrStates
  <2> QED
    BY <2>1 DEF ConfirmFailure, MgrStates, Lawful
<1>4. Lawful(m, SubmitFailure(m))
  <2>1. Bump(m.failedSubmissions, BadUtxoAttempts) \in 0 .. BadUtxoAttempts
    BY BumpType, MgrAssumption DEF MgrStates
  <2> QED
    BY <2>1 DEF SubmitFailure, MgrStates, Lawful
<1> QED
  BY <1>1, <1>2, <1>3, <1>4

-----------------------------------------------------------------------------
(* States and transitions *)

LEMMA LawfulRefl == ASSUME NEW m \in MgrStates PROVE Lawful(m, m)
BY DEF Lawful

LEMMA enterFailedLawful ==
    ASSUME NEW m \in MgrStates
    PROVE  Lawful(m, enterFailed(m))
<1>1. CASE m.isBadTx
  <2> DEFINE n == [m EXCEPT !.rescueAttempts = Bump(@, MaxRescueAttempts + 1)]
  <2>1. Bump(m.rescueAttempts, MaxRescueAttempts + 1) \in 0 .. MaxRescueAttempts + 1
    BY BumpType, MgrAssumption DEF MgrStates
  <2>2. Lawful(m, n)
    BY <2>1 DEF Lawful, MgrStates
  <2>3. n \in MgrStates
    BY <2>2 DEF Lawful
  <2> HIDE DEF n
  <2>4. Lawful(m, DeferTransition(n, "confirming"))
    BY <2>2, <2>3, DeferTransitionLawful, LawfulTrans
  <2>5. enterFailed(m) \in {DeferTransition(n, "confirming"), n}
    BY <1>1 DEF enterFailed, n
  <2> QED
    BY <2>2, <2>4, <2>5
<1>2. CASE ~m.isBadTx
  BY <1>2, DeferTransitionLawful DEF enterFailed
<1> QED
  BY <1>1, <1>2

LEMMA EnterLawful ==
    ASSUME NEW m \in MgrStates, NEW s \in States,
           s = "failed" => m.state = "failed" \/ m.isBadTx \/ m.expirationDetected
    PROVE  Lawful(m, Enter(m, s))
<1> SUFFICES ASSUME ~m.destroyed PROVE Lawful(m, Enter(m, s))
  BY LawfulRefl DEF Enter
<1> DEFINE n == [m EXCEPT !.state = s]
<1>1. Lawful(m, n) /\ n \in MgrStates /\ ~n.destroyed
  <2>1. n \in MgrStates
    BY DEF MgrStates
  <2>2. /\ n.isBadTx = m.isBadTx /\ n.expirationDetected = m.expirationDetected
        /\ n.state = s /\ n.destroyed = m.destroyed /\ n.started = m.started
    BY DEF MgrStates
  <2> QED
    BY <2>1, <2>2 DEF Lawful
<1>2. \A o : Lawful(n, o) => Lawful(m, o)
  BY <1>1, LawfulTrans
<1>3. CASE s = "submitting"
  <2> DEFINE o == [n EXCEPT !.submitIssue = FALSE]
  <2>a. o \in MgrStates
    BY <1>1 DEF MgrStates
  <2>b. Alike(n, o)
    BY <1>1 DEF MgrStates, Alike
  <2> HIDE DEF n, o
  <2>1. o \in MgrStates /\ ~o.destroyed /\ Lawful(n, o)
    BY <1>1, <2>a, <2>b, AlikeLawful DEF Alike
  <2>2. Lawful(o, trySubmit(o))
    BY <2>1, ActivityType DEF trySubmit, Activities, Tasks
  <2>3. Lawful(n, trySubmit(o))
    BY <2>1, <2>2, LawfulTrans
  <2> QED
    BY <1>2, <1>3, <2>3 DEF Enter, n, o
<1>4. CASE s = "confirming"
  <2>1. Lawful(n, tryConfirm(n))
    BY <1>1, ActivityType DEF tryConfirm, Activities, Tasks
  <2> QED
    BY <1>2, <1>4, <2>1 DEF Enter
<1>5. CASE s = "softConfirmed"
  <2>1. CASE n.confirmations > SoftConfirmations
    <3>1. enterSoftConfirmed(n) = [n EXCEPT !.state = "confirmed"]
      BY <2>1 DEF enterSoftConfirmed
    <3>2. Lawful(n, [n EXCEPT !.state = "confirmed"])
      <4> DEFINE o == [n EXCEPT !.state = "confirmed"]
      <4> HIDE DEF n
      <4>1. o \in MgrStates
        BY <1>1 DEF MgrStates, States
      <4>2. /\ o.isBadTx = n.isBadTx /\ o.expirationDetected = n.expirationDetected
            /\ o.state = "confirmed" /\ o.started = n.started /\ o.submitter = n.submitter
        BY <1>1 DEF MgrStates
      <4> HIDE DEF o
      <4>3. Lawful(n, o)
        BY <1>1, <4>1, <4>2 DEF Lawful
      <4> QED
        BY <4>3 DEF o
    <3> QED
      BY <1>2, <1>5, <3>1, <3>2 DEF Enter
  <2>2. CASE ~(n.confirmations > SoftConfirmations)
    BY <1>1, <1>2, <1>5, <2>2, DeferTransitionLawful DEF Enter, enterSoftConfirmed
  <2> QED
    BY <2>1, <2>2
<1>6. CASE s = "failed"
  BY <1>1, <1>2, <1>6, enterFailedLawful DEF Enter
<1>7. CASE s = "confirmed"
  BY <1>1, <1>7 DEF Enter
<1> QED
  BY <1>3, <1>4, <1>5, <1>6, <1>7 DEF States

\* a hook's update of the manager, and the move it ends with
LEMMA ThenLawful ==
    ASSUME NEW m \in MgrStates, NEW n, Lawful(m, n)
    PROVE  /\ \A to \in {"submitting", "confirming"} :
                Lawful(m, DeferState(n, to))
           /\ \A s \in States :
                (s = "failed" => n.state = "failed" \/ n.isBadTx \/ n.expirationDetected)
                  => Lawful(m, Enter(n, s))
<1>1. n \in MgrStates
  BY DEF Lawful
<1> QED
  BY <1>1, EnterLawful, DeferStateLawful, LawfulTrans

LEMMA SubmitNotOkLawful ==
    ASSUME NEW m \in MgrStates
    PROVE  Lawful(m, SubmitNotOk(m))
<1> DEFINE n == SubmitFailure(m)
<1>1. Lawful(m, n)
  BY countersLawful
<1>2. m.isBadTx => n.isBadTx
  BY <1>1 DEF Lawful
<1> HIDE DEF n
<1>3. m.isBadTx => Lawful(m, Enter(n, "failed"))
  BY <1>1, <1>2, ThenLawful DEF States
<1>4. Lawful(m, DeferState(n, "submitting"))
  BY <1>1, ThenLawful
<1>5. CASE ~m.submitIssue
  BY <1>1, <1>5 DEF SubmitNotOk, n
<1>6. CASE m.submitIssue /\ m.isBadTx
  BY <1>3, <1>6 DEF SubmitNotOk, n
<1>7. CASE m.submitIssue /\ ~m.isBadTx
  BY <1>4, <1>7 DEF SubmitNotOk, n
<1> QED
  BY <1>5, <1>6, <1>7

LEMMA ConfirmNotOkLawful ==
    ASSUME NEW m \in MgrStates
    PROVE  Lawful(m, ConfirmNotOk(m))
<1> DEFINE n == ConfirmFailure(m)
           o == [n EXCEPT !.successfulSubmit = FALSE]
<1>1. Lawful(m, n)
  BY countersLawful
<1>2. n \in MgrStates
  BY <1>1 DEF Lawful
<1> HIDE DEF n
<1>3. Lawful(m, o)
  <2>1. o \in MgrStates
    BY <1>2 DEF MgrStates
  <2>2. /\ o.isBadTx = n.isBadTx /\ o.expirationDetected = n.expirationDetected
        /\ o.state = n.state /\ o.destroyed = n.destroyed
        /\ o.pending = n.pending /\ o.started = n.started /\ o.submitter = n.submitter
    BY <1>2 DEF MgrStates
  <2>3. Lawful(n, o)
    BY <2>1, <2>2, Zenon DEF Lawful
  <2> QED
    BY <1>1, <2>3, LawfulTrans
<1>4. m.expirationDetected => n.expirationDetected
  BY <1>1 DEF Lawful
<1> HIDE DEF n, o
<1>5. m.isBadTx => Lawful(m, Enter(m, "failed"))
  BY EnterLawful DEF States
<1>6. m.expirationDetected => Lawful(m, Enter(n, "failed"))
  BY <1>1, <1>4, ThenLawful DEF States
<1>7. /\ Lawful(m, DeferState(n, "submitting"))
      /\ Lawful(m, DeferState(n, "confirming"))
      /\ Lawful(m, Enter(o, "submitting"))
  BY <1>1, <1>3, ThenLawful DEF States
<1>8. CASE m.isBadTx
  BY <1>5, <1>8 DEF ConfirmNotOk
<1>9. CASE ~m.isBadTx /\ m.expirationDetected
  BY <1>6, <1>9 DEF ConfirmNotOk, n
<1>10. CASE ~m.isBadTx /\ ~m.expirationDetected /\ ~m.successfulSubmit
  BY <1>7, <1>10 DEF ConfirmNotOk, n
<1>11. CASE /\ ~m.isBadTx /\ ~m.expirationDetected /\ m.successfulSubmit
            /\ n.confirmationFailures > MaxConfirmationFailures
  BY <1>7, <1>11 DEF ConfirmNotOk, n, o
<1>12. CASE /\ ~m.isBadTx /\ ~m.expirationDetected /\ m.successfulSubmit
            /\ ~(n.confirmationFailures > MaxConfirmationFailures)
  <2>1. n.confirmationFailures \in Nat
    BY <1>1 DEF Lawful, MgrStates
  <2>2. n.confirmationFailures <= MaxConfirmationFailures
    BY <1>12, <2>1, MgrAssumption
  <2> QED
    BY <1>7, <1>12, <2>2 DEF ConfirmNotOk, n
<1> QED
  BY <1>8, <1>9, <1>10, <1>11, <1>12 DEF MgrStates

\* A row never leads into failed except from failed, and always to a state.
LEMMA ToType ==
    ASSUME NEW s \in States, NEW tn \in Transitions, To(s, tn) # NoState
    PROVE  To(s, tn) \in States /\ (To(s, tn) = "failed" => s = "failed")
BY DEF To, States, Transitions, NoState

LEMMA PerformLawful ==
    ASSUME NEW m \in MgrStates, NEW tn \in Transitions, To(m.state, tn) # NoState
    PROVE  Lawful(m, Perform(m, tn))
<1> DEFINE submitted == [m EXCEPT !.successfulSubmit = TRUE]
           expired == [m EXCEPT !.expirationDetected = TRUE]
<1>1. Lawful(m, m)
  BY LawfulRefl
<1>2. Lawful(m, Enter(m, To(m.state, tn)))
  BY ToType, EnterLawful DEF MgrStates
<1>3. Lawful(m, SubmitNotOk(m)) /\ Lawful(m, ConfirmNotOk(m))
  BY SubmitNotOkLawful, ConfirmNotOkLawful
<1>4. /\ Lawful(m, DeferState(SubmitFailure(m), "submitting"))
      /\ Lawful(m, DeferState(ConfirmFailure(m), "confirming"))
      /\ Lawful(m, DeferState(resetConfirmationStats(m), "confirming"))
      /\ Lawful(m, Enter(didConfirm(m), "softConfirmed"))
  BY countersLawful, ThenLawful DEF States
<1>5. Lawful(m, Enter(resetConfirmationStats(submitted), "confirming"))
  <2>1. submitted \in MgrStates /\ Lawful(m, submitted)
    BY DEF MgrStates, Lawful
  <2> HIDE DEF submitted
  <2>2. Lawful(m, resetConfirmationStats(submitted))
    BY <2>1, countersLawful, LawfulTrans
  <2> QED
    BY <2>2, ThenLawful DEF States
<1>6. Lawful(m, Enter(expired, "confirming"))
  <2>1. Lawful(m, expired)
    BY DEF MgrStates, Lawful
  <2> QED
    BY <2>1, ThenLawful DEF States
<1> QED
  BY <1>1, <1>2, <1>3, <1>4, <1>5, <1>6 DEF Perform

LEMMA transitionLawful ==
    ASSUME NEW m \in MgrStates, NEW tn \in Transitions
    PROVE  Lawful(m, transition(m, tn))
<1>1. CASE Accepts(m, tn)
  <2>1. Release(m) \in MgrStates /\ Lawful(m, Release(m)) /\ Release(m).state = m.state
    <3>1. Release(m).state = m.state
      BY DEF Release, MgrStates
    <3> QED
      BY <3>1, ReleaseLawful DEF Lawful
  <2>2. To(Release(m).state, tn) # NoState
    BY <1>1, <2>1 DEF Accepts
  <2> QED
    BY <1>1, <2>1, <2>2, PerformLawful, LawfulTrans DEF transition
<1>2. CASE ~Accepts(m, tn)
  BY <1>2, LawfulRefl DEF transition
<1> QED
  BY <1>1, <1>2

\* the same, after an update that is lawful
LEMMA ThenTransition ==
    ASSUME NEW m \in MgrStates, NEW n, Lawful(m, n), NEW tn \in Transitions
    PROVE  Lawful(m, transition(n, tn))
<1>1. n \in MgrStates
  BY DEF Lawful
<1> QED
  BY <1>1, transitionLawful, LawfulTrans

-----------------------------------------------------------------------------
(* Timers *)

LEMMA CommitLawful ==
    ASSUME NEW m \in MgrStates, NEW action \in DeferredActions
    PROVE  Lawful(m, Commit(m, action))
<1>1. NameOf(action) \in Transitions
  BY DEF NameOf, Transitions
<1>2. action.to \in {"submitting", "confirming"}
  BY DEF DeferredActions
<1>3. Lawful(m, transition(m, NameOf(action)))
  BY <1>1, transitionLawful
<1>4. Lawful(m, Enter(m, action.to))
  BY <1>2, EnterLawful DEF States
<1>5. CASE action.via = "name"
  BY <1>3, <1>5 DEF Commit
<1>6. CASE action.via # "name" /\ m.state = action.from
  BY <1>4, <1>6 DEF Commit
<1>7. CASE action.via # "name" /\ m.state # action.from
  BY <1>7, LawfulRefl DEF Commit
<1> QED
  BY <1>5, <1>6, <1>7

LEMMA OwnTimerLawful ==
    ASSUME NEW m \in MgrStates, m.deferred.via \in {"state", "name"}
    PROVE  Lawful(m, OwnTimer(m))
<1> DEFINE n == [m EXCEPT !.deferred = NoAction]
<1>1. n \in MgrStates /\ Lawful(m, n)
  BY DEF MgrStates, Lawful
<1>2. m.deferred \in DeferredActions
  BY DEF MgrStates, NoAction
<1> HIDE DEF n
<1>3. Lawful(n, Commit(n, m.deferred))
  BY <1>1, <1>2, CommitLawful
<1> QED
  BY <1>1, <1>3, LawfulTrans DEF OwnTimer, n

LEMMA ReleasedTimerLawful ==
    ASSUME NEW m \in MgrStates, NEW i \in DOMAIN m.released
    PROVE  Lawful(m, ReleasedTimer(m, i))
<1> DEFINE action == m.released[i]
           rest == SubSeq(m.released, 1, i - 1) \o SubSeq(m.released, i + 1, Len(m.released))
           n == [m EXCEPT !.released = rest]
<1>1. action \in DeferredActions /\ rest \in Seq(DeferredActions)
  BY DEF MgrStates
<1> HIDE DEF action, rest
<1>2. n \in MgrStates /\ Lawful(m, n)
  BY <1>1 DEF MgrStates, Lawful
<1>3. ReleasedTimer(m, i) = IF m.deferred = NoAction THEN n ELSE Commit(Release(n), action)
  BY DEF ReleasedTimer, action, rest
<1> HIDE DEF n
<1>4. Release(n) \in MgrStates /\ Lawful(n, Release(n))
  BY <1>2, ReleaseLawful DEF Lawful
<1>5. Lawful(n, Commit(Release(n), action))
  BY <1>1, <1>2, <1>4, CommitLawful, LawfulTrans
<1> QED
  BY <1>2, <1>3, <1>5, LawfulTrans

LEMMA AbortLawful == ASSUME NEW m \in MgrStates PROVE Lawful(m, Abort(m))
BY QueueLawful DEF Abort, Tasks

LEMMA TimeoutTimerLawful ==
    ASSUME NEW m \in MgrStates
    PROVE  Lawful(m, TimeoutTimer(m))
<1> DEFINE n == [m EXCEPT !.armed = FALSE]
<1>1. n \in MgrStates /\ Lawful(m, n)
  <2>1. n \in MgrStates
    BY DEF MgrStates
  <2>2. Alike(m, n)
    BY DEF MgrStates, Alike
  <2> QED
    BY <2>1, <2>2, AlikeLawful
<1> HIDE DEF n
<1>2. Lawful(n, Abort(n))
  BY <1>1, AbortLawful
<1>3. Lawful(n, transition(n, "timeout")) /\ transition(n, "timeout") \in MgrStates
  BY <1>1, transitionLawful DEF Transitions, Lawful
<1>4. Lawful(n, Abort(transition(n, "timeout")))
  BY <1>3, AbortLawful, LawfulTrans
<1>5. TimeoutTimer(m) \in {Abort(n), n, Abort(transition(n, "timeout"))}
  BY DEF TimeoutTimer, n
<1> QED
  BY <1>1, <1>2, <1>4, <1>5, LawfulTrans

-----------------------------------------------------------------------------
(* Answers and queued callbacks *)

LEMMA doneType == ASSUME NEW m \in MgrStates
                  PROVE  done(m) \in MgrStates /\ Lawful(m, done(m))
BY doneLawful DEF Lawful

LEMMA SubmitAnsweredLawful ==
    ASSUME NEW m \in MgrStates, NEW outcome \in SubmitOutcomes
    PROVE  Lawful(m, SubmitAnswered(m, outcome))
<1> DEFINE n == done(m)
           issue == [n EXCEPT !.submitIssue = TRUE]
           bad == [n EXCEPT !.isBadTx = TRUE]
           asked == [n EXCEPT !.diagnosing["confirmTx"] = @ + 1]
<1>1. n \in MgrStates /\ Lawful(m, n)
  BY doneType
<1>2. SubmitAnswered(m, outcome) \in
        {transition(n, "submitted"), transition(n, "txExpired"),
         transition(issue, "notOk"), asked, transition(bad, "failed")}
  BY DEF SubmitAnswered, SubmitOutcomes
<1> HIDE DEF n
<1>3. Lawful(n, issue) /\ Lawful(n, bad)
  <2>1. issue \in MgrStates
    BY <1>1 DEF MgrStates
  <2>2. Alike(n, issue)
    BY <1>1 DEF MgrStates, Alike
  <2>3. bad \in MgrStates
    BY <1>1 DEF MgrStates
  <2>4. /\ bad.isBadTx /\ bad.expirationDetected = n.expirationDetected
        /\ bad.state = n.state /\ bad.destroyed = n.destroyed
        /\ bad.pending = n.pending /\ bad.started = n.started /\ bad.submitter = n.submitter
    BY <1>1 DEF MgrStates
  <2> HIDE DEF issue, bad
  <2>5. Lawful(n, bad)
    BY <2>3, <2>4 DEF Lawful
  <2> QED
    BY <2>1, <2>2, <2>5, AlikeLawful
<1>4. Lawful(n, asked)
  <2> DEFINE d == [n.diagnosing EXCEPT !["confirmTx"] = @ + 1]
  <2>1. d \in [DiagnosisStages -> Nat]
    <3>1. n.diagnosing \in [DiagnosisStages -> Nat]
      BY <1>1 DEF MgrStates
    <3>2. n.diagnosing["confirmTx"] + 1 \in Nat
      BY <3>1 DEF DiagnosisStages
    <3> QED
      BY <3>1, <3>2
  <2>2. asked = [n EXCEPT !.diagnosing = d]
    BY <1>1 DEF MgrStates, DiagnosisStages
  <2> HIDE DEF d, asked
  <2>3. [n EXCEPT !.diagnosing = d] \in MgrStates
    BY <1>1, <2>1 DEF MgrStates
  <2>4. Alike(n, [n EXCEPT !.diagnosing = d])
    BY <1>1 DEF MgrStates, Alike
  <2> QED
    BY <2>2, <2>3, <2>4, AlikeLawful
<1>5. Lawful(m, issue) /\ Lawful(m, bad) /\ Lawful(m, asked)
  BY <1>1, <1>3, <1>4, LawfulTrans
<1> HIDE DEF issue, bad, asked
<1>6. /\ Lawful(m, transition(n, "submitted"))
      /\ Lawful(m, transition(n, "txExpired"))
      /\ Lawful(m, transition(issue, "notOk"))
      /\ Lawful(m, transition(bad, "failed"))
  BY <1>1, <1>5, ThenTransition DEF Transitions
<1> QED
  BY <1>2, <1>5, <1>6

LEMMA ConfirmAnsweredLawful ==
    ASSUME NEW m \in MgrStates, NEW outcome \in {"found", "missing", "error"}
    PROVE  Lawful(m, ConfirmAnswered(m, outcome))
<1> DEFINE n == done(m)
           missed == transition(n, "notOk")
<1>1. n \in MgrStates /\ Lawful(m, n)
  BY doneType
<1>2. ConfirmAnswered(m, outcome) \in
        {transition(n, "confirmed"), missed, Queue(missed, "notConfirmed")}
  BY DEF ConfirmAnswered
<1> HIDE DEF n
<1>3. Lawful(m, transition(n, "confirmed")) /\ Lawful(m, missed)
  BY <1>1, ThenTransition DEF Transitions
<1> HIDE DEF missed
<1>4. Lawful(m, Queue(missed, "notConfirmed"))
  BY <1>3, QueueLawful, LawfulTrans DEF Lawful, Tasks
<1> QED
  BY <1>2, <1>3, <1>4

\* One diagnosis gives its verdict, or asks the next question.
LEMMA DiagnosisLawful ==
    ASSUME NEW m \in MgrStates, NEW stage \in DiagnosisStages, m.diagnosing[stage] > 0
    PROVE  /\ Lawful(m, DiagnosisEnds(m, stage))
           /\ \A next \in DiagnosisStages :
                next # stage => Lawful(m, DiagnosisMoves(m, stage, next))
           /\ \A isBad \in BOOLEAN : Lawful(m, Diagnosed(m, stage, isBad))
<1>1. ASSUME NEW d \in [DiagnosisStages -> Nat]
      PROVE  Lawful(m, [m EXCEPT !.diagnosing = d])
  BY DEF MgrStates, Lawful
<1>2. Lawful(m, DiagnosisEnds(m, stage))
  <2> DEFINE d == [m.diagnosing EXCEPT ![stage] = @ - 1]
  <2>1. d \in [DiagnosisStages -> Nat]
    BY DEF MgrStates
  <2>2. DiagnosisEnds(m, stage) = [m EXCEPT !.diagnosing = d]
    BY DEF DiagnosisEnds, MgrStates
  <2> QED
    BY <1>1, <2>1, <2>2
<1>3. ASSUME NEW next \in DiagnosisStages, next # stage
      PROVE  Lawful(m, DiagnosisMoves(m, stage, next))
  <2> DEFINE d == [m.diagnosing EXCEPT ![stage] = @ - 1, ![next] = @ + 1]
  <2>1. d \in [DiagnosisStages -> Nat]
    BY <1>3 DEF MgrStates
  <2>2. DiagnosisMoves(m, stage, next) = [m EXCEPT !.diagnosing = d]
    BY DEF DiagnosisMoves
  <2> QED
    BY <1>1, <2>1, <2>2
<1>4. ASSUME NEW isBad \in BOOLEAN
      PROVE  Lawful(m, Diagnosed(m, stage, isBad))
  <2> DEFINE n == DiagnosisEnds(m, stage)
             b == n.isBadTx \/ isBad
             o == [n EXCEPT !.submitIssue = TRUE, !.isBadTx = b]
  <2>1. n \in MgrStates
    BY <1>2 DEF Lawful
  <2>2. Diagnosed(m, stage, isBad) = transition(o, "notOk")
    BY DEF Diagnosed
  <2>3. b \in BOOLEAN /\ (n.isBadTx => b)
    BY <2>1 DEF MgrStates
  <2> HIDE DEF n, b
  <2>a. o \in MgrStates
    BY <2>1, <2>3 DEF MgrStates
  <2>b. /\ n.isBadTx => o.isBadTx
        /\ o.expirationDetected = n.expirationDetected
        /\ o.state = n.state /\ o.destroyed = n.destroyed
        /\ o.pending = n.pending /\ o.started = n.started /\ o.submitter = n.submitter
    BY <2>1, <2>3 DEF MgrStates
  <2> HIDE DEF o
  <2>4. Lawful(n, o)
    BY <2>a, <2>b DEF Lawful
  <2>5. Lawful(m, o)
    BY <1>2, <2>4, LawfulTrans DEF n
  <2> QED
    BY <2>2, <2>5, ThenTransition DEF Transitions
<1> QED
  BY <1>2, <1>3, <1>4

LEMMA RunTaskLawful ==
    ASSUME NEW m \in MgrStates, m.todo # <<>>
    PROVE  Lawful(m, RunTask(m))
<1> DEFINE n == [m EXCEPT !.todo = Tail(@)]
           task == Head(m.todo)
           bad == [n EXCEPT !.isBadTx = TRUE]
           missed == transition(n, "notOk")
<1>1. task \in Tasks /\ Tail(m.todo) \in Seq(Tasks)
  BY DEF MgrStates
<1>2. n \in MgrStates /\ Lawful(m, n)
  BY <1>1 DEF MgrStates, Lawful
<1>3. RunTask(m) \in {transition(bad, "failed"), n, Queue(missed, "notConfirmed"),
                      missed, done(n), Queue(done(n), "notConfirmed")}
  BY <1>1 DEF RunTask, Tasks
<1> HIDE DEF n
<1>4. Lawful(n, bad)
  BY <1>2 DEF MgrStates, Lawful
<1> HIDE DEF bad
<1>5. Lawful(n, transition(bad, "failed")) /\ Lawful(n, missed) /\ Lawful(n, done(n))
  BY <1>2, <1>4, ThenTransition, transitionLawful, doneLawful DEF Transitions
<1> HIDE DEF missed
<1>6. Lawful(n, Queue(missed, "notConfirmed")) /\ Lawful(n, Queue(done(n), "notConfirmed"))
  BY <1>5, QueueLawful, LawfulTrans DEF Lawful, Tasks
<1> QED
  BY <1>2, <1>3, <1>5, <1>6, LawfulTrans

LEMMA otherSubmitterProblemLawful ==
    ASSUME NEW m \in MgrStates PROVE Lawful(m, otherSubmitterProblem(m))
BY transitionLawful DEF otherSubmitterProblem, Transitions

LEMMA destroyLawful == ASSUME NEW m \in MgrStates PROVE Lawful(m, destroy(m))
<1> DEFINE n == [m EXCEPT !.destroyed = TRUE, !.armed = FALSE]
<1>1. n \in MgrStates /\ Lawful(m, n)
  <2>1. n \in MgrStates
    BY DEF MgrStates
  <2>2. /\ n.isBadTx = m.isBadTx /\ n.expirationDetected = m.expirationDetected
        /\ n.state = m.state /\ n.destroyed
        /\ n.pending = m.pending /\ n.started = m.started
    BY DEF MgrStates
  <2> QED
    BY <2>1, <2>2 DEF Lawful
<1>2. destroy(m) \in {n, Abort(n)}
  BY DEF destroy, Abort
<1> HIDE DEF n
<1> QED
  BY <1>1, <1>2, AbortLawful, LawfulTrans

LEMMA startupType ==
    ASSUME NEW m \in MgrStates
    PROVE  /\ startup(m) \in MgrStates
           /\ startup(m).state = m.state
           /\ startup(m).isBadTx = m.isBadTx
           /\ startup(m).expirationDetected = m.expirationDetected
<1>1. [m EXCEPT !.started = TRUE] \in MgrStates
  BY DEF MgrStates
<1>2. startup(m) \in MgrStates /\ startup(m).state = m.state
  BY <1>1, ActivityType DEF startup, trySubmit, Activities, Tasks, MgrStates
<1> QED
  BY <1>2 DEF startup, trySubmit, StartActivity, Queue, MgrStates

-----------------------------------------------------------------------------
(* The system *)

\* What a step does to the manager: the startup delay ends, or it is lawful.
LEMMA StepLawful ==
    ASSUME TypeOK, Next
    PROVE  Lawful(mgr, mgr') \/ (~mgr.started /\ mgr' = startup(mgr))
<1> USE DEF TypeOK
<1>1. ASSUME Land \/ Rollback PROVE Lawful(mgr, mgr')
  BY <1>1, LawfulRefl DEF Land, Rollback
<1>2. ASSUME Startup PROVE ~mgr.started /\ mgr' = startup(mgr)
  BY <1>2 DEF Startup
<1>3. ASSUME DeferredFires PROVE Lawful(mgr, mgr')
  BY <1>3, OwnTimerLawful DEF DeferredFires
<1>4. ASSUME ReleasedFires PROVE Lawful(mgr, mgr')
  BY <1>4, ReleasedTimerLawful DEF ReleasedFires
<1>5. ASSUME Timeout PROVE Lawful(mgr, mgr')
  BY <1>5, TimeoutTimerLawful DEF Timeout
<1>6. ASSUME RunQueued PROVE Lawful(mgr, mgr')
  BY <1>6, RunTaskLawful DEF RunQueued, Idle
<1>7. ASSUME NEW outcome \in SubmitOutcomes, SubmitAnswer(outcome)
      PROVE  Lawful(mgr, mgr')
  BY <1>7, SubmitAnsweredLawful DEF SubmitAnswer
<1>8. ASSUME ConfirmAnswer PROVE Lawful(mgr, mgr')
  BY <1>8, ConfirmAnsweredLawful DEF ConfirmAnswer, LookupAnswers
<1>9. ASSUME DiagnosisAnswer PROVE Lawful(mgr, mgr')
  <2>1. ASSUME mgr.diagnosing["confirmTx"] > 0, NEW outcome \in LookupAnswers,
               mgr' = ConfirmTxAnswered(mgr, outcome)
        PROVE  Lawful(mgr, mgr')
    <3>1. Lawful(mgr, DiagnosisEnds(mgr, "confirmTx"))
      BY <2>1, DiagnosisLawful DEF DiagnosisStages
    <3>2. Lawful(mgr, transition(DiagnosisEnds(mgr, "confirmTx"), "confirmed"))
      BY <3>1, ThenTransition DEF Transitions
    <3>3. Lawful(mgr, DiagnosisMoves(mgr, "confirmTx", "inputUtxosAreResolvable"))
      BY <2>1, DiagnosisLawful DEF DiagnosisStages
    <3>4. mgr' \in {transition(DiagnosisEnds(mgr, "confirmTx"), "confirmed"),
                    DiagnosisMoves(mgr, "confirmTx", "inputUtxosAreResolvable"),
                    DiagnosisEnds(mgr, "confirmTx")}
      <4>1. mgr.submitter \in {"getTx", "hasUtxo"}
        BY MgrAssumption DEF TypeOK, MgrStates
      <4>2. outcome \in {"found", "missing", "error"}
        BY DEF LookupAnswers
      <4> QED
        BY <2>1, <4>1, <4>2 DEF ConfirmTxAnswered
    <3> QED
      BY <3>1, <3>2, <3>3, <3>4
  <2>2. ASSUME mgr.diagnosing["inputUtxosAreResolvable"] > 0, NEW resolvable \in BOOLEAN,
               mgr' = ResolvableAnswered(mgr, resolvable)
        PROVE  Lawful(mgr, mgr')
    <3> DEFINE isBad == mgr.failedSubmissions >= BadUtxoAttempts
    <3>1. isBad \in BOOLEAN
      OBVIOUS
    <3> HIDE DEF isBad
    <3>2. Lawful(mgr, Diagnosed(mgr, "inputUtxosAreResolvable", isBad))
      BY <2>2, <3>1, DiagnosisLawful DEF DiagnosisStages
    <3>3. Lawful(mgr, DiagnosisMoves(mgr, "inputUtxosAreResolvable", "checkTxInputStatus"))
      BY <2>2, DiagnosisLawful DEF DiagnosisStages
    <3> QED
      BY <2>2, <3>2, <3>3 DEF ResolvableAnswered, isBad
  <2>3. ASSUME mgr.diagnosing["checkTxInputStatus"] > 0, NEW status \in InputStatuses,
               mgr' = InputStatusAnswered(mgr, status)
        PROVE  Lawful(mgr, mgr')
    <3> DEFINE isBad == status \in {"bad", "expired"}
    <3>1. isBad \in BOOLEAN
      OBVIOUS
    <3> HIDE DEF isBad
    <3>2. Lawful(mgr, Diagnosed(mgr, "checkTxInputStatus", isBad))
      BY <2>3, <3>1, DiagnosisLawful DEF DiagnosisStages
    <3> QED
      BY <2>3, <3>2 DEF InputStatusAnswered, isBad
  <2> QED
    BY <1>9, <2>1, <2>2, <2>3 DEF DiagnosisAnswer
<1>10. ASSUME OtherSubmitterProblem PROVE Lawful(mgr, mgr')
  BY <1>10, otherSubmitterProblemLawful DEF OtherSubmitterProblem
<1>11. ASSUME Destroy PROVE Lawful(mgr, mgr')
  BY <1>11, destroyLawful DEF Destroy
<1>12. ASSUME UserResubmits PROVE Lawful(mgr, mgr')
  BY <1>12, transitionLawful DEF UserResubmits, Transitions
<1> QED
  BY <1>1, <1>2, <1>3, <1>4, <1>5, <1>6, <1>7, <1>8, <1>9, <1>10, <1>11, <1>12 DEF Next

LEMMA InitType == Init => TypeOK
<1>1. 0 \in 0 .. OtherProblems /\ 0 \in 0 .. Resubmits /\ 0 \in 0 .. SoftConfirmations + 1
  BY LoneAssumption, MgrAssumption
<1> QED
  BY <1>1, NewMgrType DEF Init, TypeOK

LEMMA NextType == TypeOK /\ [Next]_vars => TypeOK'
<1> SUFFICES ASSUME TypeOK, Next PROVE TypeOK'
  BY DEF TypeOK, vars, history, calls
<1>1. mgr' \in MgrStates
  BY StepLawful, startupType DEF Lawful, TypeOK
<1>2. onChain' \in BOOLEAN /\ rejected' \in BOOLEAN /\ stolen' \in BOOLEAN
  BY DEF TypeOK, Next, Land, Rollback, Startup, DeferredFires, ReleasedFires, Timeout,
         RunQueued, SubmitAnswer, ConfirmAnswer, DiagnosisAnswer, OtherSubmitterProblem,
         UserResubmits, Destroy, history, calls
<1>3. reports' \in 0 .. OtherProblems
  <2>1. reports' = reports \/ (reports < OtherProblems /\ reports' = reports + 1)
    BY DEF Next, Land, Rollback, Startup, DeferredFires, ReleasedFires, Timeout,
           RunQueued, SubmitAnswer, ConfirmAnswer, DiagnosisAnswer, OtherSubmitterProblem,
           UserResubmits, Destroy, history, calls
  <2> QED
    BY <2>1, LoneAssumption DEF TypeOK
<1>4. sightings' \in 0 .. SoftConfirmations + 1
  <2>1. sightings' \in {sightings, 0, Bump(sightings, SoftConfirmations + 1)}
    BY DEF Next, Land, Rollback, Startup, DeferredFires, ReleasedFires, Timeout,
           RunQueued, SubmitAnswer, ConfirmAnswer, DiagnosisAnswer, OtherSubmitterProblem,
           UserResubmits, Destroy, history, calls, Sighted
  <2>2. Bump(sightings, SoftConfirmations + 1) \in 0 .. SoftConfirmations + 1
    BY BumpType, MgrAssumption DEF TypeOK
  <2>3. 0 \in 0 .. SoftConfirmations + 1
    BY MgrAssumption
  <2> QED
    BY <2>1, <2>2, <2>3 DEF TypeOK
<1>5. resubmits' \in 0 .. Resubmits
  <2>1. resubmits' = resubmits \/ (resubmits < Resubmits /\ resubmits' = resubmits + 1)
    BY DEF Next, Land, Rollback, Startup, DeferredFires, ReleasedFires, Timeout,
           RunQueued, SubmitAnswer, ConfirmAnswer, DiagnosisAnswer, OtherSubmitterProblem,
           UserResubmits, Destroy, history, calls
  <2> QED
    BY <2>1, LoneAssumption DEF TypeOK
<1> QED
  BY <1>1, <1>2, <1>3, <1>4, <1>5 DEF TypeOK

\* Every manager the program can reach is a MgrStates record: counters stay
\* within the bounds the code gives them, and no handler invents a state.
THEOREM TypeCorrect == Spec => []TypeOK
<1> QED
  BY InitType, NextType, PTL DEF Spec

\* "failed" is entered only with a verdict on the tx: no mix of timeouts,
\* problems of other submitters and late answers gives a tx up without cause.
THEOREM FailureHasCause == Spec => []FailedForCause
<1>1. Init => FailedForCause
  BY DEF Init, NewMgr, FailedForCause
<1>2. TypeOK /\ FailedForCause /\ [Next]_vars => FailedForCause'
  <2> SUFFICES ASSUME TypeOK, FailedForCause, [Next]_vars PROVE FailedForCause'
    OBVIOUS
  <2>1. CASE Next
    BY <2>1, StepLawful, startupType DEF FailedForCause, Lawful, TypeOK
  <2>2. CASE UNCHANGED vars
    BY <2>2 DEF vars, FailedForCause
  <2> QED
    BY <2>1, <2>2
<1> QED
  BY <1>1, <1>2, TypeCorrect, PTL DEF Spec

\* No timer, answer or queued callback left behind by destroy() changes the
\* state of the manager or sends a request (the startup delay apart).
THEOREM DestroyedStaysInert == Spec => DestroyedIsInert
<1>1. TypeOK /\ [Next]_vars =>
        [mgr.destroyed => /\ mgr'.state = mgr.state
                          /\ mgr.started => mgr'.pending \in {mgr.pending, "none"}]_vars
  BY StepLawful, startupType DEF Lawful, TypeOK
<1> QED
  BY <1>1, TypeCorrect, PTL DEF Spec, DestroyedIsInert
=============================================================================
