--------------------------- MODULE LoneThreadProofs ---------------------------
(***************************************************************************)
(* A manager that no other submitter has disturbed has one thread of work: *)
(* a submission or a look for confirmations, what is queued of it, a       *)
(* diagnosis of a refused submission, or a deferred action that will start *)
(* the next.  ThreadInv says which of them may go on in which state.       *)
(*                                                                         *)
(* What a transition makes of a manager is one of five kinds: it begins an *)
(* activity, waits for a deferred state, sights the tx, fails, or only     *)
(* drops the deferred action.  Each handler is an edit of the manager and  *)
(* such a transition, and each pair keeps the thread.  A destroyed manager *)
(* keeps less: no activity clashes, and it is as suspect as it was.        *)
(***************************************************************************)
EXTENDS LoneSubmitMgrProofs, SequenceTheorems

Deferring(m) == m.deferred # NoAction

(* What a handler makes of a live manager whose deferred action is taken.     *)

\* what transitions leave alone
Kept(m, n) ==
    /\ n \in MgrStates
    /\ n.submitter = m.submitter /\ n.started = m.started /\ n.destroyed = m.destroyed
    /\ n.diagnosing = m.diagnosing /\ n.isBadTx = m.isBadTx /\ n.released = m.released

\* only counters and marks differ
Tweaked(m, n) ==
    /\ Kept(m, n)
    /\ n.state = m.state /\ n.deferred = m.deferred /\ n.submitIssue = m.submitIssue
    /\ n.pending = m.pending /\ n.todo = m.todo

Later(via, state, to) == [via |-> via, from |-> state, to |-> to]

Stays(m, n) ==
    /\ n.state = m.state /\ n.pending = m.pending /\ n.todo = m.todo
    /\ n.submitIssue = m.submitIssue
Drops(m, n) == Kept(m, n) /\ Stays(m, n) /\ n.deferred = NoAction
Waits(m, n, to) == Kept(m, n) /\ Stays(m, n) /\ n.deferred = Later("state", m.state, to)

ClashOf(s) == IF s = "submitting" THEN "submitClash" ELSE "confirmClash"

\* n starts the activity of state s, or finds another one pending.
Begins(m, n, s) ==
    /\ Kept(m, n)
    /\ n.state = s /\ n.deferred = NoAction
    /\ n.submitIssue = IF s = "submitting" THEN FALSE ELSE m.submitIssue
    /\ m.pending = "none" => n.pending = s /\ n.todo = m.todo
    /\ m.pending # "none" => n.pending = m.pending /\ n.todo = Append(m.todo, ClashOf(s))

Sights(m, n) ==
    /\ Kept(m, n) /\ n.pending = m.pending /\ n.todo = m.todo
    /\ \/ n.state = "softConfirmed" /\ n.deferred = Later("name", "softConfirmed", "confirming")
       \/ n.state = "confirmed" /\ n.deferred = NoAction /\ n.confirmations > SoftConfirmations

Fails(m, n) ==
    /\ Kept(m, n) /\ n.pending = m.pending /\ n.todo = m.todo
    /\ n.state = "failed"
    /\ \/ n.isBadTx /\ n.rescueAttempts > MaxRescueAttempts /\ n.deferred = NoAction
       \/ n.deferred = Later("name", "failed", "confirming")
       \/ ~n.isBadTx /\ ~n.successfulSubmit /\ n.deferred = Later("name", "failed", "submitting")

SameMarks(m, n) ==
    n.successfulSubmit = m.successfulSubmit /\ n.confirmations = m.confirmations

\* what holds for a tweaked manager holds for the one it was made from
LEMMA TweakedThen ==
    ASSUME NEW m, NEW o, Tweaked(m, o), NEW n
    PROVE  /\ \A to : Waits(o, n, to) => Waits(m, n, to)
           /\ \A s : Begins(o, n, s) => Begins(m, n, s)
           /\ Sights(o, n) => Sights(m, n)
           /\ Fails(o, n) => Fails(m, n)
<1>1. Kept(o, n) => Kept(m, n)
  BY DEF Tweaked, Kept
<1>2. \A to : Waits(o, n, to) => Waits(m, n, to)
  BY <1>1 DEF Tweaked, Waits, Stays
<1>3. \A s : Begins(o, n, s) => Begins(m, n, s)
  BY <1>1 DEF Tweaked, Begins
<1>4. (Sights(o, n) => Sights(m, n)) /\ (Fails(o, n) => Fails(m, n))
  BY <1>1 DEF Tweaked, Sights, Fails
<1> QED BY <1>2, <1>3, <1>4

\* nothing changed is kept
LEMMA KeptRefl == ASSUME NEW m \in MgrStates PROVE Kept(m, m)
BY DEF Kept

\* startActivity() starts the activity unless another one is pending
LEMMA StartEffect ==
    ASSUME NEW m \in MgrStates, NEW s \in Activities
    PROVE  LET n == StartActivity(m, s, ClashOf(s))
           IN  /\ Kept(m, n) /\ SameMarks(m, n)
               /\ n.state = m.state /\ n.deferred = m.deferred /\ n.submitIssue = m.submitIssue
               /\ m.pending = "none" => n.pending = s /\ n.todo = m.todo
               /\ m.pending # "none" => n.pending = m.pending /\ n.todo = Append(m.todo, ClashOf(s))
<1> DEFINE n == StartActivity(m, s, ClashOf(s))
<1>1. n \in MgrStates
  BY ActivityType DEF ClashOf, Tasks, Activities
<1>2. CASE m.pending = "none"
  <2>1. n = [m EXCEPT !.pending = s, !.armed = TRUE]
    BY <1>2 DEF StartActivity
  <2> QED BY <1>1, <1>2, <2>1 DEF Kept, SameMarks, MgrStates
<1>3. CASE m.pending # "none"
  <2>1. n = [m EXCEPT !.todo = Append(@, ClashOf(s))]
    BY <1>3 DEF StartActivity, Queue
  <2> QED BY <1>1, <1>3, <2>1 DEF Kept, SameMarks, MgrStates
<1> QED BY <1>2, <1>3

\* deferring a transition keeps everything else
LEMMA DeferTransitionEffect ==
    ASSUME NEW m \in MgrStates, m.deferred = NoAction, NEW to \in {"submitting", "confirming"}
    PROVE  LET n == DeferTransition(m, to)
           IN  /\ Kept(m, n) /\ SameMarks(m, n)
               /\ n.state = m.state /\ n.submitIssue = m.submitIssue
               /\ n.pending = m.pending /\ n.todo = m.todo
               /\ n.rescueAttempts = m.rescueAttempts
               /\ n.deferred = Later("name", m.state, to)
<1>1. DeferTransition(m, to) = [m EXCEPT !.deferred = Later("name", m.state, to)]
  BY DEF DeferTransition, Later
<1>2. DeferTransition(m, to) \in MgrStates
  BY DeferTransitionLawful DEF Lawful
<1> QED BY <1>1, <1>2 DEF Kept, SameMarks, MgrStates

\* ... and so does deferring a state
LEMMA DeferStateEffect ==
    ASSUME NEW m \in MgrStates, ~m.destroyed, NEW to \in {"submitting", "confirming"}
    PROVE  LET n == DeferState(m, to) IN Waits(m, n, to) /\ SameMarks(m, n)
<1>1. DeferState(m, to) = [m EXCEPT !.deferred = Later("state", m.state, to)]
  BY DEF DeferState, Later
<1>2. DeferState(m, to) \in MgrStates
  BY DeferStateLawful DEF Lawful
<1> QED BY <1>1, <1>2 DEF Waits, Stays, Kept, SameMarks, MgrStates

\* what the hook of each state does to a live manager that has taken its deferred action
LEMMA EnterEffect ==
    ASSUME NEW m \in MgrStates, ~m.destroyed, m.deferred = NoAction,
           NEW s \in {"submitting", "confirming", "softConfirmed", "failed"}
    PROVE  LET n == Enter(m, s)
           IN  /\ SameMarks(m, n)
               /\ s \in Activities => Begins(m, n, s)
               /\ s = "softConfirmed" => Sights(m, n)
               /\ s = "failed" => Fails(m, n)
<1> DEFINE n == [m EXCEPT !.state = s]
<1>1. n \in MgrStates
  BY DEF MgrStates, States
<1>2. /\ Kept(m, n) /\ SameMarks(m, n) /\ n.state = s /\ n.deferred = NoAction
      /\ n.pending = m.pending /\ n.todo = m.todo /\ n.submitIssue = m.submitIssue
  BY <1>1 DEF Kept, SameMarks, MgrStates
<1>3. \A o : Kept(n, o) => Kept(m, o)
  BY <1>2 DEF Kept
<1>4. CASE s = "submitting"
  <2> DEFINE o == [n EXCEPT !.submitIssue = FALSE]
  <2>0. Enter(m, s) = StartActivity(o, s, ClashOf(s))
    BY <1>4 DEF Enter, trySubmit, ClashOf
  <2> HIDE DEF n
  <2>1. o \in MgrStates
    BY <1>1 DEF MgrStates
  <2>2. /\ Kept(n, o) /\ SameMarks(n, o) /\ o.state = s /\ o.deferred = NoAction
        /\ o.pending = m.pending /\ o.todo = m.todo /\ o.submitIssue = FALSE
    BY <1>1, <1>2, <2>1 DEF Kept, SameMarks, MgrStates
  <2> HIDE DEF o
  <2> DEFINE e == StartActivity(o, s, ClashOf(s))
  <2>3. /\ Kept(o, e) /\ SameMarks(o, e)
        /\ e.state = o.state /\ e.deferred = o.deferred /\ e.submitIssue = o.submitIssue
        /\ o.pending = "none" => e.pending = s /\ e.todo = o.todo
        /\ o.pending # "none" => e.pending = o.pending /\ e.todo = Append(o.todo, ClashOf(s))
    BY <1>4, <2>1, StartEffect DEF Activities
  <2>4. Kept(m, e) /\ SameMarks(m, e)
    BY <1>2, <1>3, <2>2, <2>3 DEF Kept, SameMarks
  <2> HIDE DEF e
  <2>5. Begins(m, e, s)
    BY <1>4, <2>2, <2>3, <2>4 DEF Begins
  <2> QED BY <1>4, <2>0, <2>4, <2>5 DEF e
<1>5. CASE s = "confirming"
  <2>0. Enter(m, s) = StartActivity(n, s, ClashOf(s))
    BY <1>5 DEF Enter, tryConfirm, ClashOf
  <2> HIDE DEF n
  <2> DEFINE e == StartActivity(n, s, ClashOf(s))
  <2>3. /\ Kept(n, e) /\ SameMarks(n, e)
        /\ e.state = n.state /\ e.deferred = n.deferred /\ e.submitIssue = n.submitIssue
        /\ n.pending = "none" => e.pending = s /\ e.todo = n.todo
        /\ n.pending # "none" => e.pending = n.pending /\ e.todo = Append(n.todo, ClashOf(s))
    BY <1>1, <1>5, StartEffect DEF Activities
  <2>4. Kept(m, e) /\ SameMarks(m, e)
    BY <1>2, <1>3, <2>3 DEF SameMarks
  <2> HIDE DEF e
  <2>6. /\ e.state = s /\ e.deferred = NoAction /\ e.submitIssue = m.submitIssue
        /\ m.pending = "none" => e.pending = s /\ e.todo = m.todo
        /\ m.pending # "none" => e.pending = m.pending /\ e.todo = Append(m.todo, ClashOf(s))
    BY <1>2, <2>3
  <2>7. Begins(m, e, s)
    BY <1>5, <2>4, <2>6 DEF Begins
  <2> QED BY <1>5, <2>0, <2>4, <2>7 DEF e
<1>6. CASE s = "softConfirmed"
  <2>0. Enter(m, s) = enterSoftConfirmed(n)
    BY <1>6 DEF Enter
  <2> HIDE DEF n
  <2>1. CASE n.confirmations > SoftConfirmations
    <3> DEFINE o == [n EXCEPT !.state = "confirmed"]
    <3>1. o \in MgrStates
      BY <1>1 DEF MgrStates, States
    <3>2. /\ Kept(n, o) /\ SameMarks(n, o) /\ o.state = "confirmed" /\ o.deferred = NoAction
          /\ o.pending = m.pending /\ o.todo = m.todo
      BY <1>1, <1>2, <3>1 DEF Kept, SameMarks, MgrStates
    <3>3. Enter(m, s) = o
      BY <2>0, <2>1 DEF enterSoftConfirmed
    <3> HIDE DEF o
    <3>4. Sights(m, o) /\ SameMarks(m, o)
      BY <1>2, <1>3, <2>1, <3>2 DEF Sights, SameMarks
    <3> QED BY <1>6, <3>3, <3>4 DEF Activities
  <2>2. CASE ~(n.confirmations > SoftConfirmations)
    <3> DEFINE o == DeferTransition(n, "confirming")
    <3>1. /\ Kept(n, o) /\ SameMarks(n, o) /\ o.state = n.state
          /\ o.pending = n.pending /\ o.todo = n.todo
          /\ o.deferred = Later("name", n.state, "confirming")
      BY <1>1, <1>2, DeferTransitionEffect
    <3>2. Enter(m, s) = o
      BY <2>0, <2>2 DEF enterSoftConfirmed
    <3> HIDE DEF o
    <3>3. Sights(m, o) /\ SameMarks(m, o)
      BY <1>2, <1>3, <1>6, <3>1 DEF Sights, SameMarks
    <3> QED BY <1>6, <3>2, <3>3 DEF Activities
  <2> QED BY <2>1, <2>2
<1>7. CASE s = "failed"
  <2>0. Enter(m, s) = enterFailed(n)
    BY <1>7 DEF Enter
  <2> HIDE DEF n
  <2>1. CASE n.isBadTx
    <3> DEFINE o == [n EXCEPT !.rescueAttempts = Bump(@, MaxRescueAttempts + 1)]
    <3>0. Bump(n.rescueAttempts, MaxRescueAttempts + 1) \in 0 .. MaxRescueAttempts + 1
      BY <1>1, BumpType, MgrAssumption DEF MgrStates
    <3>1. o \in MgrStates
      BY <1>1, <3>0 DEF MgrStates
    <3>2. /\ Kept(n, o) /\ SameMarks(n, o) /\ o.state = n.state /\ o.deferred = NoAction
          /\ o.pending = m.pending /\ o.todo = m.todo /\ o.isBadTx
      BY <1>1, <1>2, <2>1, <3>1 DEF Kept, SameMarks, MgrStates
    <3>3. enterFailed(n) = IF o.rescueAttempts <= MaxRescueAttempts
                           THEN DeferTransition(o, "confirming") ELSE o
      BY <2>1 DEF enterFailed
    <3> HIDE DEF o
    <3>4. CASE o.rescueAttempts <= MaxRescueAttempts
      <4> DEFINE e == DeferTransition(o, "confirming")
      <4>1. /\ Kept(o, e) /\ SameMarks(o, e) /\ e.state = o.state
            /\ e.pending = o.pending /\ e.todo = o.todo
            /\ e.deferred = Later("name", o.state, "confirming")
        BY <3>1, <3>2, DeferTransitionEffect
      <4>2. Enter(m, s) = e
        BY <2>0, <3>3, <3>4
      <4> HIDE DEF e
      <4>3. Kept(n, e)
        BY <3>2, <4>1 DEF Kept
      <4>4. Fails(m, e) /\ SameMarks(m, e)
        BY <1>2, <1>3, <1>7, <3>2, <4>1, <4>3 DEF Fails, SameMarks
      <4> QED BY <1>7, <4>2, <4>4 DEF Activities
    <3>5. CASE ~(o.rescueAttempts <= MaxRescueAttempts)
      <4>1. Enter(m, s) = o
        BY <2>0, <3>3, <3>5
      <4>2. o.rescueAttempts > MaxRescueAttempts
        BY <3>1, <3>5, MgrAssumption DEF MgrStates
      <4>3. Fails(m, o) /\ SameMarks(m, o)
        BY <1>2, <1>3, <1>7, <3>2, <4>2 DEF Fails, SameMarks
      <4> QED BY <1>7, <4>1, <4>3 DEF Activities
    <3> QED BY <3>4, <3>5
  <2>2. CASE ~n.isBadTx
    <3> DEFINE to == IF n.successfulSubmit THEN "confirming" ELSE "submitting"
               o == DeferTransition(n, to)
    <3>1. Enter(m, s) = o
      BY <2>0, <2>2, <1>2 DEF enterFailed, SameMarks
    <3>2. /\ Kept(n, o) /\ SameMarks(n, o) /\ o.state = n.state
          /\ o.pending = n.pending /\ o.todo = n.todo
          /\ o.deferred = Later("name", n.state, to)
      BY <1>1, <1>2, DeferTransitionEffect
    <3> HIDE DEF o
    <3>3. Fails(m, o) /\ SameMarks(m, o)
      BY <1>2, <1>3, <1>7, <2>2, <3>2 DEF Fails, SameMarks, Kept
    <3> QED BY <1>7, <3>1, <3>3 DEF Activities
  <2> QED BY <2>1, <2>2
<1> QED BY <1>4, <1>5, <1>6, <1>7

-----------------------------------------------------------------------------
(* Transitions *)

\* the edits of transition()'s hooks that only count and mark
LEMMA Tweaks ==
    ASSUME NEW m \in MgrStates
    PROVE  /\ Tweaked(m, [m EXCEPT !.successfulSubmit = TRUE])
           /\ Tweaked(m, [m EXCEPT !.successfulSubmit = FALSE])
           /\ Tweaked(m, [m EXCEPT !.expirationDetected = TRUE])
           /\ Tweaked(m, didConfirm(m))
           /\ Tweaked(m, resetConfirmationStats(m))
           /\ Tweaked(m, ConfirmFailure(m)) /\ SameMarks(m, ConfirmFailure(m))
           /\ Tweaked(m, SubmitFailure(m)) /\ SameMarks(m, SubmitFailure(m))
           /\ SameMarks(m, [m EXCEPT !.expirationDetected = TRUE])
           /\ didConfirm(m).successfulSubmit = m.successfulSubmit
           /\ didConfirm(m).confirmations = Bump(m.confirmations, SoftConfirmations + 1)
           /\ resetConfirmationStats(m).confirmations = 0
           /\ resetConfirmationStats(m).successfulSubmit = m.successfulSubmit
           /\ [m EXCEPT !.successfulSubmit = TRUE].successfulSubmit
           /\ ~[m EXCEPT !.successfulSubmit = FALSE].successfulSubmit
           /\ [m EXCEPT !.successfulSubmit = FALSE].confirmations = m.confirmations
<1>1. ASSUME NEW b \in BOOLEAN
      PROVE  /\ Tweaked(m, [m EXCEPT !.successfulSubmit = b])
             /\ [m EXCEPT !.successfulSubmit = b].successfulSubmit = b
             /\ [m EXCEPT !.successfulSubmit = b].confirmations = m.confirmations
  <2>1. [m EXCEPT !.successfulSubmit = b] \in MgrStates
    BY DEF MgrStates
  <2> QED BY <2>1 DEF Tweaked, Kept, MgrStates
<1>2. Tweaked(m, [m EXCEPT !.expirationDetected = TRUE]) /\ SameMarks(m, [m EXCEPT !.expirationDetected = TRUE])
  <2>1. [m EXCEPT !.expirationDetected = TRUE] \in MgrStates
    BY DEF MgrStates
  <2> QED BY <2>1 DEF Tweaked, Kept, SameMarks, MgrStates
<1>3. /\ didConfirm(m) \in MgrStates /\ resetConfirmationStats(m) \in MgrStates
      /\ ConfirmFailure(m) \in MgrStates /\ SubmitFailure(m) \in MgrStates
  BY countersLawful DEF Lawful
<1>4. /\ Tweaked(m, didConfirm(m))
      /\ didConfirm(m).successfulSubmit = m.successfulSubmit
      /\ didConfirm(m).confirmations = Bump(m.confirmations, SoftConfirmations + 1)
  BY <1>3 DEF didConfirm, Tweaked, Kept, MgrStates
<1>5. /\ Tweaked(m, resetConfirmationStats(m))
      /\ resetConfirmationStats(m).confirmations = 0
      /\ resetConfirmationStats(m).successfulSubmit = m.successfulSubmit
  BY <1>3 DEF resetConfirmationStats, Tweaked, Kept, MgrStates
<1>6. Tweaked(m, ConfirmFailure(m)) /\ SameMarks(m, ConfirmFailure(m))
  BY <1>3 DEF ConfirmFailure, Tweaked, Kept, SameMarks, MgrStates
<1>7. Tweaked(m, SubmitFailure(m)) /\ SameMarks(m, SubmitFailure(m))
  BY <1>3 DEF SubmitFailure, Tweaked, Kept, SameMarks, MgrStates
<1> QED BY <1>1, <1>2, <1>4, <1>5, <1>6, <1>7

\* the transitions that handlers perform
Performed == {"submitted", "txExpired", "notOk", "timeout", "failed", "confirmed",
              "otherSubmitterProblem", "reconfirm", "resubmit"}

\* What each of them makes of a live manager, its deferred action taken
SubmitOutcome(m, n, tn) ==
    CASE tn = "submitted" -> /\ Begins(m, n, "confirming")
                             /\ n.confirmations = 0 /\ n.successfulSubmit
      [] tn \in {"txExpired", "failed", "confirmed"} -> Begins(m, n, "confirming") /\ SameMarks(m, n)
      [] tn = "otherSubmitterProblem" -> Begins(m, n, "submitting") /\ SameMarks(m, n)
      [] tn = "timeout" -> Waits(m, n, "submitting") /\ SameMarks(m, n)
      [] tn = "notOk" -> /\ SameMarks(m, n)
                         /\ \/ ~m.submitIssue /\ Drops(m, n)
                            \/ m.submitIssue /\ m.isBadTx /\ Fails(m, n)
                            \/ m.submitIssue /\ ~m.isBadTx /\ Waits(m, n, "submitting")

ConfirmOutcome(m, n, tn) ==
    CASE tn = "otherSubmitterProblem" -> Begins(m, n, "confirming") /\ SameMarks(m, n)
      [] tn = "timeout" -> Waits(m, n, "confirming") /\ SameMarks(m, n)
      [] tn = "txExpired" -> Drops(m, n) /\ SameMarks(m, n)
      [] tn = "confirmed" -> /\ Sights(m, n) /\ n.successfulSubmit = m.successfulSubmit
                             /\ n.confirmations = Bump(m.confirmations, SoftConfirmations + 1)
      [] tn = "notOk" -> /\ n.confirmations = m.confirmations
                         /\ \/ Fails(m, n) /\ SameMarks(m, n)
                            \/ ~m.isBadTx /\ ~n.successfulSubmit /\ Begins(m, n, "submitting")
                            \/ /\ ~m.isBadTx /\ ~m.successfulSubmit /\ ~n.successfulSubmit
                               /\ Waits(m, n, "submitting")
                            \/ ~m.isBadTx /\ m.successfulSubmit /\ SameMarks(m, n) /\ Waits(m, n, "confirming")

Outcome(m, n, tn) ==
    CASE m.state = "submitting" -> SubmitOutcome(m, n, tn)
      [] m.state = "confirming" -> ConfirmOutcome(m, n, tn)
      [] m.state = "softConfirmed" ->
           \/ /\ tn = "confirmed" /\ Sights(m, n) /\ n.successfulSubmit = m.successfulSubmit
              /\ n.confirmations = Bump(m.confirmations, SoftConfirmations + 1)
           \/ tn \in {"timeout", "reconfirm"} /\ Begins(m, n, "confirming") /\ SameMarks(m, n)
           \/ /\ tn = "otherSubmitterProblem" /\ Waits(m, n, "confirming")
              /\ n.successfulSubmit = m.successfulSubmit
      [] m.state = "confirmed" ->
           \/ tn = "reconfirm" /\ Begins(m, n, "confirming") /\ SameMarks(m, n)
           \/ /\ tn = "otherSubmitterProblem" /\ Waits(m, n, "confirming")
              /\ n.successfulSubmit = m.successfulSubmit
      [] m.state = "failed" ->
           /\ SameMarks(m, n)
           /\ \/ tn = "failed" /\ Fails(m, n)
              \/ tn \in {"reconfirm", "otherSubmitterProblem"} /\ Begins(m, n, "confirming")
              \/ tn = "resubmit" /\ Begins(m, n, "submitting")

\* Which states have a row for which transition
Rowed(s) ==
    CASE s = "submitting" -> {"submitted", "txExpired", "failed", "confirmed",
                              "otherSubmitterProblem", "timeout", "notOk"}
      [] s = "confirming" -> {"otherSubmitterProblem", "timeout", "txExpired", "confirmed", "notOk"}
      [] s = "softConfirmed" -> {"confirmed", "timeout", "reconfirm", "otherSubmitterProblem"}
      [] s = "confirmed" -> {"reconfirm", "otherSubmitterProblem"}
      [] s = "failed" -> {"failed", "reconfirm", "otherSubmitterProblem", "resubmit"}

\* the rows of the transition table, as sets
LEMMA RowedIs == \A s \in States, tn \in Performed : To(s, tn) # NoState <=> tn \in Rowed(s)
BY DEF To, States, Performed, Rowed, NoState

\* notOk in the states before the tx is seen
LEMMA SubmitNotOkEffect ==
    ASSUME NEW m \in MgrStates, ~m.destroyed, m.deferred = NoAction
    PROVE  LET n == SubmitNotOk(m)
           IN  /\ SameMarks(m, n)
               /\ \/ ~m.submitIssue /\ Drops(m, n)
                  \/ m.submitIssue /\ m.isBadTx /\ Fails(m, n)
                  \/ m.submitIssue /\ ~m.isBadTx /\ Waits(m, n, "submitting")
<1> DEFINE o == SubmitFailure(m)
<1>1. Tweaked(m, o) /\ SameMarks(m, o)
  BY Tweaks
<1>2. o \in MgrStates /\ ~o.destroyed /\ o.deferred = NoAction
  BY <1>1 DEF Tweaked, Kept
<1> HIDE DEF o
<1>3. CASE ~m.submitIssue
  BY <1>1, <1>2, <1>3 DEF SubmitNotOk, o, Tweaked, Drops, Stays
<1>4. CASE m.submitIssue /\ m.isBadTx
  <2>1. Fails(o, Enter(o, "failed")) /\ SameMarks(o, Enter(o, "failed"))
    BY <1>2, EnterEffect
  <2>2. Fails(m, Enter(o, "failed")) /\ SameMarks(m, Enter(o, "failed"))
    BY <1>1, <2>1, TweakedThen DEF SameMarks
  <2> QED BY <1>4, <2>2 DEF SubmitNotOk, o
<1>5. CASE m.submitIssue /\ ~m.isBadTx
  <2>1. Waits(o, DeferState(o, "submitting"), "submitting") /\ SameMarks(o, DeferState(o, "submitting"))
    BY <1>2, DeferStateEffect
  <2>2. Waits(m, DeferState(o, "submitting"), "submitting") /\ SameMarks(m, DeferState(o, "submitting"))
    BY <1>1, <2>1, TweakedThen DEF SameMarks
  <2> QED BY <1>5, <2>2 DEF SubmitNotOk, o
<1> QED BY <1>3, <1>4, <1>5

\* ... and in those that look for confirmations
LEMMA ConfirmNotOkEffect ==
    ASSUME NEW m \in MgrStates, ~m.destroyed, m.deferred = NoAction
    PROVE  LET n == ConfirmNotOk(m)
           IN  /\ n.confirmations = m.confirmations
               /\ \/ Fails(m, n) /\ SameMarks(m, n)
                  \/ ~m.isBadTx /\ ~n.successfulSubmit /\ Begins(m, n, "submitting")
                  \/ /\ ~m.isBadTx /\ ~m.successfulSubmit /\ ~n.successfulSubmit
                     /\ Waits(m, n, "submitting")
                  \/ ~m.isBadTx /\ m.successfulSubmit /\ SameMarks(m, n) /\ Waits(m, n, "confirming")
<1> DEFINE o == ConfirmFailure(m)
           again == [o EXCEPT !.successfulSubmit = FALSE]
<1>1. Tweaked(m, o) /\ SameMarks(m, o)
  BY Tweaks
<1>2. o \in MgrStates /\ ~o.destroyed /\ o.deferred = NoAction
  BY <1>1 DEF Tweaked, Kept
<1>3. Tweaked(o, again) /\ ~again.successfulSubmit /\ again.confirmations = o.confirmations
  <2> HIDE DEF o
  <2> QED BY <1>2, Tweaks
<1>a. o.confirmationFailures \in 0 .. MaxConfirmationFailures + 1
  <2> HIDE DEF o
  <2> QED BY <1>2 DEF MgrStates
<1>b. ~(o.confirmationFailures > MaxConfirmationFailures) <=> o.confirmationFailures <= MaxConfirmationFailures
  <2> HIDE DEF o
  <2> QED BY <1>a, MgrAssumption
<1>4. CASE m.isBadTx
  BY <1>4, EnterEffect DEF ConfirmNotOk, SameMarks
<1>5. CASE ~m.isBadTx /\ m.expirationDetected
  <2> HIDE DEF o
  <2>1. Fails(o, Enter(o, "failed")) /\ SameMarks(o, Enter(o, "failed"))
    BY <1>2, EnterEffect
  <2>2. Fails(m, Enter(o, "failed")) /\ SameMarks(m, Enter(o, "failed"))
    BY <1>1, <2>1, TweakedThen DEF SameMarks
  <2> QED BY <1>5, <2>2 DEF ConfirmNotOk, o, SameMarks
<1>6. CASE ~m.isBadTx /\ ~m.expirationDetected /\ ~m.successfulSubmit
  <2> HIDE DEF o
  <2>1. Waits(o, DeferState(o, "submitting"), "submitting") /\ SameMarks(o, DeferState(o, "submitting"))
    BY <1>2, DeferStateEffect
  <2>2. Waits(m, DeferState(o, "submitting"), "submitting") /\ SameMarks(m, DeferState(o, "submitting"))
    BY <1>1, <2>1, TweakedThen DEF SameMarks
  <2> QED BY <1>6, <2>2 DEF ConfirmNotOk, o, SameMarks
<1>7. CASE /\ ~m.isBadTx /\ ~m.expirationDetected /\ m.successfulSubmit
           /\ o.confirmationFailures > MaxConfirmationFailures
  <2>0. ConfirmNotOk(m) = Enter(again, "submitting")
    BY <1>7, <1>b DEF ConfirmNotOk
  <2> HIDE DEF o, again
  <2>1. again \in MgrStates /\ ~again.destroyed /\ again.deferred = NoAction
    BY <1>2, <1>3 DEF Tweaked, Kept
  <2>2. /\ Begins(again, Enter(again, "submitting"), "submitting")
        /\ SameMarks(again, Enter(again, "submitting"))
    BY <2>1, EnterEffect DEF Activities
  <2>3. Begins(m, Enter(again, "submitting"), "submitting")
    BY <1>1, <1>3, <2>2, TweakedThen
  <2>4. /\ ~Enter(again, "submitting").successfulSubmit
        /\ Enter(again, "submitting").confirmations = m.confirmations
    BY <1>1, <1>3, <2>2 DEF SameMarks
  <2> QED BY <1>7, <2>0, <2>3, <2>4
<1>8. CASE /\ ~m.isBadTx /\ ~m.expirationDetected /\ m.successfulSubmit
           /\ ~(o.confirmationFailures > MaxConfirmationFailures)
  <2>9. ConfirmNotOk(m) = DeferState(o, "confirming")
    BY <1>8, <1>b DEF ConfirmNotOk
  <2> HIDE DEF o
  <2>1. Waits(o, DeferState(o, "confirming"), "confirming") /\ SameMarks(o, DeferState(o, "confirming"))
    BY <1>2, DeferStateEffect
  <2>2. Waits(m, DeferState(o, "confirming"), "confirming") /\ SameMarks(m, DeferState(o, "confirming"))
    BY <1>1, <2>1, TweakedThen DEF SameMarks
  <2> QED BY <1>8, <2>9, <2>2 DEF SameMarks
<1> QED BY <1>4, <1>5, <1>6, <1>7, <1>8

\* what a transition that has a row amounts to
LEMMA PerformEffect ==
    ASSUME NEW m \in MgrStates, ~m.destroyed, m.deferred = NoAction,
           NEW tn \in Performed, tn \in Rowed(m.state)
    PROVE  Outcome(m, Perform(m, tn), tn)
<1> DEFINE n == Perform(m, tn)
<1>1. CASE m.state = "submitting"
  <2>1. CASE tn = "submitted"
    <3> DEFINE t == [m EXCEPT !.successfulSubmit = TRUE]
               o == resetConfirmationStats(t)
    <3>1. t \in MgrStates /\ Tweaked(m, t) /\ t.successfulSubmit
      BY Tweaks DEF Tweaked, Kept
    <3>2. n = Enter(o, "confirming")
      BY <1>1, <2>1 DEF Perform
    <3> HIDE DEF t
    <3>3. Tweaked(t, o) /\ o.confirmations = 0 /\ o.successfulSubmit
      BY <3>1, Tweaks
    <3>4. o \in MgrStates /\ ~o.destroyed /\ o.deferred = NoAction
      BY <3>1, <3>3 DEF Tweaked, Kept
    <3> HIDE DEF o
    <3>5. Begins(o, n, "confirming") /\ SameMarks(o, n)
      BY <3>2, <3>4, EnterEffect DEF Activities
    <3>6. Begins(m, n, "confirming")
      BY <3>1, <3>3, <3>5, TweakedThen
    <3> QED BY <1>1, <2>1, <3>3, <3>5, <3>6 DEF Outcome, SubmitOutcome, SameMarks
  <2>2. CASE tn = "txExpired"
    <3> DEFINE o == [m EXCEPT !.expirationDetected = TRUE]
    <3>1. Tweaked(m, o) /\ SameMarks(m, o)
      BY Tweaks
    <3>2. n = Enter(o, "confirming")
      BY <1>1, <2>2 DEF Perform
    <3>4. o \in MgrStates /\ ~o.destroyed /\ o.deferred = NoAction
      BY <3>1 DEF Tweaked, Kept
    <3> HIDE DEF o
    <3>5. Begins(o, n, "confirming") /\ SameMarks(o, n)
      BY <3>2, <3>4, EnterEffect DEF Activities
    <3>6. Begins(m, n, "confirming") /\ SameMarks(m, n)
      BY <3>1, <3>5, TweakedThen DEF SameMarks
    <3> QED BY <1>1, <2>2, <3>6 DEF Outcome, SubmitOutcome
  <2>3. CASE tn = "timeout"
    <3> DEFINE o == SubmitFailure(m)
    <3>1. Tweaked(m, o) /\ SameMarks(m, o)
      BY Tweaks
    <3>2. n = DeferState(o, "submitting")
      BY <1>1, <2>3 DEF Perform
    <3>4. o \in MgrStates /\ ~o.destroyed
      BY <3>1 DEF Tweaked, Kept
    <3> HIDE DEF o
    <3>5. Waits(o, n, "submitting") /\ SameMarks(o, n)
      BY <3>2, <3>4, DeferStateEffect
    <3>6. Waits(m, n, "submitting") /\ SameMarks(m, n)
      BY <3>1, <3>5, TweakedThen DEF SameMarks
    <3> QED BY <1>1, <2>3, <3>6 DEF Outcome, SubmitOutcome
  <2>4. CASE tn = "notOk"
    <3>1. n = SubmitNotOk(m)
      BY <1>1, <2>4 DEF Perform
    <3> QED BY <1>1, <2>4, <3>1, SubmitNotOkEffect DEF Outcome, SubmitOutcome
  <2>5. CASE tn \in {"failed", "confirmed"}
    <3>1. n = Enter(m, "confirming")
      BY <1>1, <2>5 DEF Perform, To
    <3>2. Begins(m, n, "confirming") /\ SameMarks(m, n)
      BY <3>1, EnterEffect DEF Activities
    <3> QED BY <1>1, <2>5, <3>2 DEF Outcome, SubmitOutcome
  <2>6. CASE tn = "otherSubmitterProblem"
    <3>1. n = Enter(m, "submitting")
      BY <1>1, <2>6 DEF Perform, To
    <3>2. Begins(m, n, "submitting") /\ SameMarks(m, n)
      BY <3>1, EnterEffect DEF Activities
    <3> QED BY <1>1, <2>6, <3>2 DEF Outcome, SubmitOutcome
  <2> QED BY <1>1, <2>1, <2>2, <2>3, <2>4, <2>5, <2>6 DEF Rowed
<1>2. CASE m.state = "confirming"
  <2>1. CASE tn = "otherSubmitterProblem"
    <3>1. n = Enter(m, "confirming")
      BY <1>2, <2>1 DEF Perform, To
    <3>2. Begins(m, n, "confirming") /\ SameMarks(m, n)
      BY <3>1, EnterEffect DEF Activities
    <3> QED BY <1>2, <2>1, <3>2 DEF Outcome, ConfirmOutcome
  <2>2. CASE tn = "timeout"
    <3> DEFINE o == ConfirmFailure(m)
    <3>1. Tweaked(m, o) /\ SameMarks(m, o)
      BY Tweaks
    <3>2. n = DeferState(o, "confirming")
      BY <1>2, <2>2 DEF Perform
    <3>4. o \in MgrStates /\ ~o.destroyed
      BY <3>1 DEF Tweaked, Kept
    <3> HIDE DEF o
    <3>5. Waits(o, n, "confirming") /\ SameMarks(o, n)
      BY <3>2, <3>4, DeferStateEffect
    <3>6. Waits(m, n, "confirming") /\ SameMarks(m, n)
      BY <3>1, <3>5, TweakedThen DEF SameMarks
    <3> QED BY <1>2, <2>2, <3>6 DEF Outcome, ConfirmOutcome
  <2>3. CASE tn = "txExpired"
    <3>1. n = m
      BY <1>2, <2>3 DEF Perform
    <3> QED BY <1>2, <2>3, <3>1 DEF Outcome, ConfirmOutcome, Drops, Stays, Kept, SameMarks
  <2>4. CASE tn = "confirmed"
    <3>1. Sights(m, n) /\ n.successfulSubmit = m.successfulSubmit
          /\ n.confirmations = Bump(m.confirmations, SoftConfirmations + 1)
      <4> DEFINE o == didConfirm(m)
      <4>1. Tweaked(m, o) /\ o.successfulSubmit = m.successfulSubmit
            /\ o.confirmations = Bump(m.confirmations, SoftConfirmations + 1)
        BY Tweaks
      <4>2. n = Enter(o, "softConfirmed")
        BY <1>2, <2>4 DEF Perform
      <4>3. o \in MgrStates /\ ~o.destroyed /\ o.deferred = NoAction
        BY <4>1 DEF Tweaked, Kept
      <4> HIDE DEF o
      <4>4. Sights(o, n) /\ SameMarks(o, n)
        BY <4>2, <4>3, EnterEffect
      <4> QED BY <4>1, <4>4, TweakedThen DEF SameMarks
    <3> QED BY <1>2, <2>4, <3>1 DEF Outcome, ConfirmOutcome
  <2>5. CASE tn = "notOk"
    <3>1. n = ConfirmNotOk(m)
      BY <1>2, <2>5 DEF Perform
    <3> QED BY <1>2, <2>5, <3>1, ConfirmNotOkEffect DEF Outcome, ConfirmOutcome
  <2> QED BY <1>2, <2>1, <2>2, <2>3, <2>4, <2>5 DEF Rowed
<1>3. ASSUME m.state \in {"softConfirmed", "confirmed"}, tn = "otherSubmitterProblem"
      PROVE  Waits(m, n, "confirming") /\ n.successfulSubmit = m.successfulSubmit
  <2> DEFINE o == resetConfirmationStats(m)
  <2>1. Tweaked(m, o) /\ o.successfulSubmit = m.successfulSubmit
    BY Tweaks
  <2>2. n = DeferState(o, "confirming")
    BY <1>3 DEF Perform
  <2>3. o \in MgrStates /\ ~o.destroyed
    BY <2>1 DEF Tweaked, Kept
  <2> HIDE DEF o
  <2>4. Waits(o, n, "confirming") /\ SameMarks(o, n)
    BY <2>2, <2>3, DeferStateEffect
  <2> QED BY <2>1, <2>4, TweakedThen DEF SameMarks
<1>4. CASE m.state = "softConfirmed"
  <2>1. CASE tn = "confirmed"
    <3> DEFINE o == didConfirm(m)
    <3>1. Tweaked(m, o) /\ o.successfulSubmit = m.successfulSubmit
          /\ o.confirmations = Bump(m.confirmations, SoftConfirmations + 1)
      BY Tweaks
    <3>2. n = Enter(o, "softConfirmed")
      BY <1>4, <2>1 DEF Perform
    <3>3. o \in MgrStates /\ ~o.destroyed /\ o.deferred = NoAction
      BY <3>1 DEF Tweaked, Kept
    <3> HIDE DEF o
    <3>4. Sights(o, n) /\ SameMarks(o, n)
      BY <3>2, <3>3, EnterEffect
    <3>5. Sights(m, n) /\ n.successfulSubmit = m.successfulSubmit
          /\ n.confirmations = Bump(m.confirmations, SoftConfirmations + 1)
      BY <3>1, <3>4, TweakedThen DEF SameMarks
    <3> QED BY <1>4, <2>1, <3>5 DEF Outcome
  <2>2. CASE tn \in {"timeout", "reconfirm"}
    <3>1. n = Enter(m, "confirming")
      BY <1>4, <2>2 DEF Perform, To
    <3>2. Begins(m, n, "confirming") /\ SameMarks(m, n)
      BY <3>1, EnterEffect DEF Activities
    <3> QED BY <1>4, <2>2, <3>2 DEF Outcome
  <2>3. CASE tn = "otherSubmitterProblem"
    BY <1>3, <1>4, <2>3 DEF Outcome
  <2> QED BY <1>4, <2>1, <2>2, <2>3 DEF Rowed
<1>5. CASE m.state = "confirmed"
  <2>1. CASE tn = "reconfirm"
    <3>1. n = Enter(m, "confirming")
      BY <1>5, <2>1 DEF Perform, To
    <3>2. Begins(m, n, "confirming") /\ SameMarks(m, n)
      BY <3>1, EnterEffect DEF Activities
    <3> QED BY <1>5, <2>1, <3>2 DEF Outcome
  <2>2. CASE tn = "otherSubmitterProblem"
    BY <1>3, <1>5, <2>2 DEF Outcome
  <2> QED BY <1>5, <2>1, <2>2 DEF Rowed
<1>6. CASE m.state = "failed"
  <2>1. CASE tn = "failed"
    <3>1. n = Enter(m, "failed")
      BY <1>6, <2>1 DEF Perform, To
    <3>2. Fails(m, n) /\ SameMarks(m, n)
      BY <3>1, EnterEffect
    <3> QED BY <1>6, <2>1, <3>2 DEF Outcome
  <2>2. CASE tn \in {"reconfirm", "otherSubmitterProblem"}
    <3>1. n = Enter(m, "confirming")
      BY <1>6, <2>2 DEF Perform, To
    <3>2. Begins(m, n, "confirming") /\ SameMarks(m, n)
      BY <3>1, EnterEffect DEF Activities
    <3> QED BY <1>6, <2>2, <3>2 DEF Outcome
  <2>3. CASE tn = "resubmit"
    <3>1. n = Enter(m, "submitting")
      BY <1>6, <2>3 DEF Perform, To
    <3>2. Begins(m, n, "submitting") /\ SameMarks(m, n)
      BY <3>1, EnterEffect DEF Activities
    <3> QED BY <1>6, <2>3, <3>2 DEF Outcome
  <2> QED BY <1>6, <2>1, <2>2, <2>3 DEF Rowed
<1> QED BY <1>1, <1>2, <1>4, <1>5, <1>6 DEF MgrStates, States

\* The deferred action is taken or given up; timers that run on are among those before.
Taken(m, o) ==
    /\ o \in MgrStates /\ o.deferred = NoAction
    /\ o.submitter = m.submitter /\ o.started = m.started /\ o.destroyed = m.destroyed
    /\ o.diagnosing = m.diagnosing /\ o.isBadTx = m.isBadTx
    /\ o.state = m.state /\ o.pending = m.pending /\ o.todo = m.todo
    /\ o.submitIssue = m.submitIssue /\ SameMarks(m, o) /\ o.rescueAttempts = m.rescueAttempts
    /\ \A i \in DOMAIN o.released :
         \/ Deferring(m) /\ o.released[i] = m.deferred
         \/ \E j \in DOMAIN m.released : o.released[i] = m.released[j]

\* taking the deferred action leaves a live manager with nothing deferred
LEMMA ReleaseTakes ==
    ASSUME NEW m \in MgrStates
    PROVE  Taken(m, Release(m)) /\ (~Deferring(m) => Release(m).released = m.released)
<1> DEFINE o == Release(m)
<1>1. o \in MgrStates
  BY ReleaseLawful DEF Lawful
<1>2. /\ o.deferred = NoAction
      /\ o.submitter = m.submitter /\ o.started = m.started /\ o.destroyed = m.destroyed
      /\ o.diagnosing = m.diagnosing /\ o.isBadTx = m.isBadTx
      /\ o.state = m.state /\ o.pending = m.pending /\ o.todo = m.todo
      /\ o.submitIssue = m.submitIssue /\ SameMarks(m, o) /\ o.rescueAttempts = m.rescueAttempts
      /\ o.released = IF m.deferred.via \in {"state", "name"}
                      THEN Append(m.released, m.deferred) ELSE m.released
  BY DEF Release, MgrStates, SameMarks
<1>3. m.released \in Seq(DeferredActions)
  BY DEF MgrStates
<1>4. ~Deferring(m) => m.deferred.via \notin {"state", "name"}
  BY DEF Deferring, NoAction
<1> HIDE DEF o
<1>5. \A i \in DOMAIN o.released :
         \/ Deferring(m) /\ o.released[i] = m.deferred
         \/ \E j \in DOMAIN m.released : o.released[i] = m.released[j]
  BY <1>2, <1>3, <1>4
<1>6. Taken(m, o) /\ (~Deferring(m) => o.released = m.released)
  BY <1>1, <1>2, <1>4, <1>5 DEF Taken
<1> QED BY <1>6 DEF o

\* What transition() does to a live manager
LEMMA TransitionEffect ==
    ASSUME NEW m \in MgrStates, ~m.destroyed, NEW tn \in Performed
    PROVE  \/ ~Accepts(m, tn) /\ transition(m, tn) = m
           \/ /\ Accepts(m, tn) /\ tn \in Rowed(m.state)
              /\ \E o : /\ Taken(m, o) /\ Outcome(o, transition(m, tn), tn)
                        /\ ~Deferring(m) => o.released = m.released
<1>1. CASE ~Accepts(m, tn)
  BY <1>1 DEF transition
<1>2. CASE Accepts(m, tn)
  <2>1. tn \in Rowed(m.state)
    BY <1>2, RowedIs DEF Accepts, MgrStates
  <2>2. Taken(m, Release(m)) /\ (~Deferring(m) => Release(m).released = m.released)
    BY ReleaseTakes
  <2>3. Outcome(Release(m), Perform(Release(m), tn), tn)
    BY <2>1, <2>2, PerformEffect DEF Taken
  <2> QED BY <1>2, <2>1, <2>2, <2>3 DEF transition
<1> QED BY <1>1, <1>2

\* When it is not accepted
LEMMA AcceptsWhen ==
    ASSUME NEW m \in MgrStates, NEW tn \in Performed, tn \in Rowed(m.state)
    PROVE  Accepts(m, tn) <=> \/ ~Deferring(m)
                              \/ m.deferred.via # "name" /\ m.deferred.to = To(m.state, tn)
<1>1. To(m.state, tn) # NoState
  BY RowedIs DEF MgrStates
<1> QED BY <1>1 DEF Accepts, Deferring

\* What a handler does to a destroyed manager: nothing that matters
Numb(m, n) ==
    /\ n \in MgrStates
    /\ n.submitter = m.submitter /\ n.started = m.started /\ n.destroyed = m.destroyed
    /\ n.diagnosing = m.diagnosing /\ n.isBadTx = m.isBadTx
    /\ n.state = m.state /\ n.pending = m.pending /\ n.todo = m.todo

\* A transition without a row, of a manager that defers nothing, does nothing.
LEMMA TransitionNumb ==
    ASSUME NEW m \in MgrStates, m.destroyed, NEW tn \in Transitions
    PROVE  Numb(m, transition(m, tn))
<1>1. ASSUME NEW o, Numb(m, o) PROVE \A s : Enter(o, s) = o
  BY <1>1 DEF Numb, Enter
<1>2. ASSUME NEW o, Numb(m, o), NEW to \in {"submitting", "confirming"}
      PROVE  Numb(m, DeferState(o, to))
  <2>1. o \in MgrStates
    BY <1>2 DEF Numb
  <2>2. DeferState(o, to) \in MgrStates
    BY <2>1, DeferStateLawful DEF Lawful
  <2> QED BY <1>2, <2>1, <2>2 DEF Numb, DeferState, MgrStates
<1>3. ASSUME NEW o, Numb(m, o), NEW t, Tweaked(o, t) PROVE Numb(m, t)
  BY <1>3 DEF Numb, Tweaked, Kept
<1>4. ASSUME NEW o \in MgrStates, Numb(m, o) PROVE Numb(m, Perform(o, tn))
  <2>1. Numb(m, SubmitFailure(o)) /\ Numb(m, ConfirmFailure(o)) /\ Numb(m, didConfirm(o))
        /\ Numb(m, resetConfirmationStats(o))
    BY <1>3, <1>4, Tweaks
  <2>2. Numb(m, [o EXCEPT !.expirationDetected = TRUE])
    BY <1>3, <1>4, Tweaks
  <2>3. Numb(m, resetConfirmationStats([o EXCEPT !.successfulSubmit = TRUE]))
    <3>1. Tweaked(o, [o EXCEPT !.successfulSubmit = TRUE])
      BY Tweaks
    <3> DEFINE t == [o EXCEPT !.successfulSubmit = TRUE]
    <3>2. t \in MgrStates /\ Numb(m, t)
      BY <1>3, <1>4, <3>1 DEF Tweaked, Kept
    <3> HIDE DEF t
    <3>3. Numb(m, resetConfirmationStats(t))
      BY <1>3, <3>2, Tweaks
    <3> QED BY <3>3 DEF t
  <2>4. Numb(m, [ConfirmFailure(o) EXCEPT !.successfulSubmit = FALSE])
    <3> DEFINE t == ConfirmFailure(o)
    <3>1. t \in MgrStates
      BY <2>1 DEF Numb
    <3> HIDE DEF t
    <3>2. Tweaked(t, [t EXCEPT !.successfulSubmit = FALSE])
      BY <3>1, Tweaks
    <3> QED BY <1>3, <2>1, <3>2 DEF t
  <2>5. Numb(m, SubmitNotOk(o))
    BY <1>1, <1>2, <2>1 DEF SubmitNotOk, MgrStates
  <2>6. Numb(m, ConfirmNotOk(o))
    <3> DEFINE f == ConfirmFailure(o).confirmationFailures
    <3>1. f > MaxConfirmationFailures \/ f <= MaxConfirmationFailures
      <4>1. f \in 0 .. MaxConfirmationFailures + 1
        BY <2>1 DEF Numb, MgrStates
      <4> HIDE DEF f
      <4> QED BY <4>1, MgrAssumption
    <3> QED BY <1>1, <1>2, <1>4, <2>1, <2>4, <3>1 DEF ConfirmNotOk, MgrStates
  <2> QED BY <1>1, <1>2, <1>4, <2>1, <2>2, <2>3, <2>5, <2>6 DEF Perform
<1>5. Numb(m, Release(m)) /\ Numb(m, m)
  BY ReleaseTakes DEF Taken, Numb
<1> QED BY <1>4, <1>5 DEF transition, Numb

-----------------------------------------------------------------------------
(* Timers, and what handlers do before they call transition() *)

Live(m) == m.started /\ ~m.destroyed

\* A deferred action was deferred in the present state, for somewhere sensible.
Tidy(m) == Deferring(m) =>
    /\ m.deferred.from = m.state
    /\ \/ /\ m.deferred.via = "state" /\ m.state # "failed"
          /\ m.state = "submitting" => m.deferred.to = "submitting"
          /\ m.state \in {"softConfirmed", "confirmed"} => m.deferred.to = "confirming"
       \/ /\ m.deferred.via = "name" /\ m.state \in {"softConfirmed", "failed"}
          /\ m.state = "softConfirmed" => m.deferred.to = "confirming"

\* the parts of a deferred action have their types
LEMMA DeferredType ==
    ASSUME NEW m \in MgrStates, Deferring(m)
    PROVE  m.deferred \in DeferredActions /\ m.deferred.to \in {"submitting", "confirming"}
           /\ m.deferred.via \in {"state", "name", "orphan"}
BY DEF MgrStates, Deferring, DeferredActions

\* A "name" timer performs its transition if the state has a row for it.
LEMMA NamedEffect ==
    ASSUME NEW o \in MgrStates, ~o.destroyed, o.deferred = NoAction, NEW action \in DeferredActions
    PROVE  LET n == transition(o, NameOf(action))
           IN  \/ n = o
               \/ /\ action.to = "confirming" /\ o.state \in {"softConfirmed", "confirmed", "failed"}
                  /\ \E r : Taken(o, r) /\ r.released = o.released /\ Begins(r, n, "confirming") /\ SameMarks(r, n)
               \/ /\ action.to = "submitting" /\ o.state = "failed"
                  /\ \E r : Taken(o, r) /\ r.released = o.released /\ Begins(r, n, "submitting") /\ SameMarks(r, n)
<1> DEFINE tn == NameOf(action)
           n == transition(o, tn)
<1>1. tn \in Performed /\ tn = (IF action.to = "submitting" THEN "resubmit" ELSE "reconfirm")
      /\ action.to \in {"submitting", "confirming"}
  BY DEF NameOf, Performed, DeferredActions
<1> HIDE DEF tn
<1>2. ~Deferring(o)
  BY DEF Deferring
<1>3. CASE n # o
  <2>1. PICK r : Taken(o, r) /\ Outcome(r, n, tn) /\ r.released = o.released
    BY <1>1, <1>2, <1>3, TransitionEffect
  <2>2. tn \in Rowed(o.state)
    BY <1>1, <1>3, TransitionEffect
  <2>3. r.state = o.state /\ o.state \in States
    BY <2>1 DEF Taken, MgrStates
  <2>4. CASE tn = "resubmit"
    <3>1. o.state = "failed"
      BY <2>2, <2>3, <2>4 DEF Rowed, States
    <3>2. Begins(r, n, "submitting") /\ SameMarks(r, n)
      BY <2>1, <2>3, <2>4, <3>1 DEF Outcome
    <3> QED BY <1>1, <2>1, <2>4, <3>1, <3>2 DEF tn
  <2>5. CASE tn = "reconfirm"
    <3>1. o.state \in {"softConfirmed", "confirmed", "failed"}
      BY <2>2, <2>3, <2>5 DEF Rowed, States
    <3>2. Begins(r, n, "confirming") /\ SameMarks(r, n)
      BY <2>1, <2>3, <2>5, <3>1 DEF Outcome
    <3> QED BY <1>1, <2>1, <2>5, <3>1, <3>2 DEF tn
  <2> QED BY <1>1, <2>4, <2>5
<1> QED BY <1>3 DEF tn

\* the timer of the deferred action, while it is the manager's own
LEMMA OwnTimerEffect ==
    ASSUME NEW m \in MgrStates, ~m.destroyed, Deferring(m), Tidy(m)
    PROVE  \E o : /\ Taken(m, o) /\ o.released = m.released
                  /\ Begins(o, OwnTimer(m), m.deferred.to) /\ SameMarks(o, OwnTimer(m))
<1> DEFINE o == [m EXCEPT !.deferred = NoAction]
           n == OwnTimer(m)
<1>1. Taken(m, o) /\ o.released = m.released /\ o \in MgrStates /\ ~o.destroyed
  <2>1. o \in MgrStates
    BY DEF MgrStates
  <2> QED BY <2>1 DEF Taken, MgrStates, SameMarks
<1>2. n = Commit(o, m.deferred) /\ o.deferred = NoAction /\ o.state = m.state
  BY <1>1 DEF OwnTimer, Taken
<1>3. m.deferred \in DeferredActions /\ m.deferred.to \in {"submitting", "confirming"}
  BY DeferredType
<1> HIDE DEF o, n
<1>4. CASE m.deferred.via = "state"
  <2>1. n = Enter(o, m.deferred.to)
    BY <1>2, <1>4 DEF Commit, Tidy
  <2> QED BY <1>1, <1>2, <1>3, <2>1, EnterEffect DEF n, Activities
<1>5. CASE m.deferred.via = "name"
  <2>1. n = transition(o, NameOf(m.deferred))
    BY <1>2, <1>5 DEF Commit
  <2>2. m.state = "failed" \/ (m.state = "softConfirmed" /\ m.deferred.to = "confirming")
    BY <1>5 DEF Tidy
  <2>3. n # o
    <3>1. NameOf(m.deferred) \in Rowed(o.state) /\ NameOf(m.deferred) \in Performed
      BY <1>2, <1>3, <2>2 DEF NameOf, Rowed, Performed
    <3>2. Accepts(o, NameOf(m.deferred))
      BY <1>1, <1>2, <3>1, AcceptsWhen DEF Deferring
    <3>3. PICK r : Taken(o, r) /\ Outcome(r, n, NameOf(m.deferred))
      BY <1>1, <2>1, <3>1, <3>2, TransitionEffect
    <3>4. n.state = m.deferred.to
      BY <1>2, <1>3, <2>2, <3>3 DEF Outcome, Begins, NameOf, Taken
    <3> QED BY <1>2, <1>3, <2>2, <3>4
  <2>4. \E r : Taken(o, r) /\ r.released = o.released /\ Begins(r, n, m.deferred.to) /\ SameMarks(r, n)
    BY <1>1, <1>2, <1>3, <2>1, <2>3, NamedEffect
  <2>5. PICK r : Taken(o, r) /\ r.released = o.released /\ Begins(r, n, m.deferred.to) /\ SameMarks(r, n)
    BY <2>4
  <2>6. Begins(o, n, m.deferred.to) /\ SameMarks(o, n)
    BY <1>2, <2>5 DEF Begins, Kept, Taken, SameMarks
  <2> QED BY <1>1, <2>6 DEF n
<1> QED BY <1>4, <1>5 DEF Tidy

\* Removing an element from a sequence leaves others of it.
LEMMA RemovedFrom ==
    ASSUME NEW S, NEW s \in Seq(S), NEW i \in DOMAIN s
    PROVE  LET rest == SubSeq(s, 1, i - 1) \o SubSeq(s, i + 1, Len(s))
           IN  /\ s[i] \in S /\ rest \in Seq(S)
               /\ \A k \in DOMAIN rest : \E j \in DOMAIN s : rest[k] = s[j]
<1> DEFINE front == SubSeq(s, 1, i - 1)
           back == SubSeq(s, i + 1, Len(s))
           rest == front \o back
<1>0. i \in 1 .. Len(s) /\ Len(s) \in Nat /\ DOMAIN s = 1 .. Len(s)
  OBVIOUS
<1>1. /\ front \in Seq(S) /\ Len(front) = i - 1
      /\ \A k \in 1 .. (i - 1) : front[k] = s[k]
  BY <1>0
<1>2. /\ back \in Seq(S) /\ Len(back) = Len(s) - i
      /\ \A k \in 1 .. (Len(s) - i) : back[k] = s[i + k]
  <2>1. i + 1 \in Int /\ Len(s) \in Int /\ \A k \in (i + 1) .. Len(s) : s[k] \in S
    BY <1>0
  <2>2. /\ back \in Seq(S) /\ Len(back) = (IF i + 1 <= Len(s) THEN Len(s) - (i + 1) + 1 ELSE 0)
        /\ \A k \in 1 .. (Len(s) - (i + 1) + 1) : back[k] = s[(i + 1) + k - 1]
    BY <2>1, SubSeqProperties
  <2> HIDE DEF back
  <2>3. Len(back) = Len(s) - i
    BY <1>0, <2>2
  <2>4. \A k \in 1 .. (Len(s) - i) : k \in 1 .. (Len(s) - (i + 1) + 1) /\ (i + 1) + k - 1 = i + k
    BY <1>0
  <2> QED BY <2>2, <2>3, <2>4
<1> HIDE DEF front, back
<1>3. /\ rest \in Seq(S) /\ Len(rest) = Len(s) - 1
      /\ \A k \in 1 .. (Len(s) - 1) : rest[k] = IF k <= i - 1 THEN front[k] ELSE back[k - (i - 1)]
  <2>1. /\ rest \in Seq(S) /\ Len(rest) = Len(front) + Len(back)
        /\ \A k \in 1 .. (Len(front) + Len(back)) :
             rest[k] = IF k <= Len(front) THEN front[k] ELSE back[k - Len(front)]
    BY <1>1, <1>2, ConcatProperties
  <2> HIDE DEF rest
  <2>2. Len(front) + Len(back) = Len(s) - 1
    BY <1>0, <1>1, <1>2
  <2> QED BY <1>1, <2>1, <2>2
<1> HIDE DEF rest
<1>4. ASSUME NEW k \in 1 .. (Len(s) - 1)
      PROVE  \E j \in 1 .. Len(s) : rest[k] = s[j]
  <2>1. CASE k <= i - 1
    <3>1. rest[k] = s[k] /\ k \in 1 .. Len(s)
      BY <1>0, <1>1, <1>3, <2>1
    <3> QED BY <3>1
  <2>2. CASE ~(k <= i - 1)
    <3>1. k - (i - 1) \in 1 .. (Len(s) - i) /\ k + 1 \in 1 .. Len(s) /\ i + (k - (i - 1)) = k + 1
      BY <1>0, <2>2
    <3>2. rest[k] = s[k + 1]
      BY <1>2, <1>3, <2>2, <3>1
    <3> QED BY <3>1, <3>2
  <2> QED BY <2>1, <2>2
<1>5. DOMAIN rest = 1 .. (Len(s) - 1)
  BY <1>3
<1>6. s[i] \in S
  BY <1>0
<1>7. \A k \in DOMAIN rest : \E j \in DOMAIN s : rest[k] = s[j]
  BY <1>0, <1>4, <1>5
<1> QED BY <1>3, <1>6, <1>7 DEF rest, front, back

\* A released timer goes; the manager drops it, or what is deferred is taken, for
\* nothing or for what the released action names.
LEMMA ReleasedEffect ==
    ASSUME NEW m \in MgrStates, ~m.destroyed, NEW i \in DOMAIN m.released
    PROVE  LET n == ReleasedTimer(m, i)
               action == m.released[i]
           IN  \/ /\ ~Deferring(m) /\ Taken(m, n)
               \/ /\ Deferring(m) /\ Taken(m, n)
               \/ /\ Deferring(m) /\ action.to \in {"submitting", "confirming"}
                  /\ \E o : Taken(m, o) /\ Begins(o, n, action.to) /\ SameMarks(o, n)
                  /\ \/ action.via # "name" /\ m.state = action.from
                     \/ action.via = "name" /\ m.state \in {"softConfirmed", "confirmed", "failed"}
<1> DEFINE action == m.released[i]
           rest == SubSeq(m.released, 1, i - 1) \o SubSeq(m.released, i + 1, Len(m.released))
           d == [m EXCEPT !.released = rest]
           n == ReleasedTimer(m, i)
<1>1. action \in DeferredActions /\ rest \in Seq(DeferredActions)
      /\ \A k \in DOMAIN rest : \E j \in DOMAIN m.released : rest[k] = m.released[j]
  <2>1. m.released \in Seq(DeferredActions)
    BY DEF MgrStates
  <2> QED BY <2>1, RemovedFrom
<1>2. n = IF m.deferred = NoAction THEN d ELSE Commit(Release(d), action)
  BY DEF ReleasedTimer
<1> HIDE DEF rest, n
<1>3. d \in MgrStates
  BY <1>1 DEF MgrStates
<1>4. /\ d.deferred = m.deferred /\ d.released = rest
      /\ d.submitter = m.submitter /\ d.started = m.started /\ d.destroyed = m.destroyed
      /\ d.diagnosing = m.diagnosing /\ d.isBadTx = m.isBadTx
      /\ d.state = m.state /\ d.pending = m.pending /\ d.todo = m.todo
      /\ d.submitIssue = m.submitIssue /\ SameMarks(m, d) /\ d.rescueAttempts = m.rescueAttempts
  BY DEF MgrStates, SameMarks
<1> HIDE DEF d
<1>5. CASE ~Deferring(m)
  BY <1>1, <1>2, <1>3, <1>4, <1>5 DEF Taken, Deferring, n, action
<1>6. CASE Deferring(m)
  <2> DEFINE o == Release(d)
  <2>1. Taken(d, o)
    BY <1>3, ReleaseTakes
  <2> HIDE DEF o
  <2>2. Taken(m, o)
    BY <1>1, <1>4, <1>6, <2>1 DEF Taken, Deferring, SameMarks
  <2>3. n = Commit(o, action) /\ o \in MgrStates /\ ~o.destroyed /\ o.deferred = NoAction /\ o.state = m.state
    BY <1>2, <1>6, <2>2 DEF Deferring, Taken, o
  <2>4. action.to \in {"submitting", "confirming"}
    BY <1>1 DEF DeferredActions
  <2> HIDE DEF action
  <2>5. CASE action.via = "name"
    <3>1. n = transition(o, NameOf(action))
      BY <2>3, <2>5 DEF Commit
    <3>2. CASE n = o
      BY <1>6, <2>2, <3>2 DEF n
    <3>3. CASE n # o
      <4>1. m.state \in {"softConfirmed", "confirmed", "failed"}
        BY <1>1, <2>3, <3>1, <3>3, NamedEffect
      <4>2. PICK r : Taken(o, r) /\ r.released = o.released /\ Begins(r, n, action.to) /\ SameMarks(r, n)
        BY <1>1, <2>3, <2>4, <3>1, <3>3, NamedEffect
      <4>3. Begins(o, n, action.to) /\ SameMarks(o, n)
        BY <2>3, <4>2 DEF Begins, Kept, Taken, SameMarks
      <4> QED BY <1>6, <2>2, <2>4, <2>5, <4>1, <4>3 DEF n, action
    <3> QED BY <3>2, <3>3
  <2>6. CASE action.via # "name" /\ m.state = action.from
    <3>1. n = Enter(o, action.to)
      BY <2>3, <2>6 DEF Commit
    <3>2. Begins(o, n, action.to) /\ SameMarks(o, n)
      BY <2>3, <2>4, <3>1, EnterEffect DEF Activities
    <3> QED BY <1>6, <2>2, <2>4, <2>6, <3>2 DEF n, action
  <2>7. CASE action.via # "name" /\ m.state # action.from
    <3>1. n = o
      BY <2>3, <2>7 DEF Commit
    <3> QED BY <1>6, <2>2, <3>1 DEF n
  <2> QED BY <2>5, <2>6, <2>7
<1> QED BY <1>5, <1>6

-----------------------------------------------------------------------------
(* Small steps *)

\* Some of the fields that transitions leave alone are changed: n has these values.
Edited(m, n, pending, todo, diagnosing, submitIssue, isBadTx) ==
    /\ n \in MgrStates
    /\ n.submitter = m.submitter /\ n.started = m.started /\ n.destroyed = m.destroyed
    /\ n.state = m.state /\ n.deferred = m.deferred /\ n.released = m.released
    /\ SameMarks(m, n) /\ n.rescueAttempts = m.rescueAttempts
    /\ n.pending = pending /\ n.todo = todo /\ n.diagnosing = diagnosing
    /\ n.submitIssue = submitIssue /\ n.isBadTx = isBadTx

\* The edits of handlers before and after their transitions: each changes no more
\* than Edited allows.
LEMMA doneEdits ==
    ASSUME NEW m \in MgrStates
    PROVE  Edited(m, done(m), "none", m.todo, m.diagnosing, m.submitIssue, m.isBadTx)
<1>1. done(m) \in MgrStates
  BY doneLawful DEF Lawful
<1> QED BY <1>1 DEF Edited, done, MgrStates, SameMarks

\* ... an answer queued by a diagnosis
LEMMA QueueEdits ==
    ASSUME NEW m \in MgrStates, NEW task \in Tasks
    PROVE  Edited(m, Queue(m, task), m.pending, Append(m.todo, task), m.diagnosing, m.submitIssue, m.isBadTx)
<1>1. Queue(m, task) \in MgrStates
  BY QueueLawful DEF Lawful
<1> QED BY <1>1 DEF Edited, Queue, MgrStates, SameMarks

\* ... the first task taken
LEMMA PopEdits ==
    ASSUME NEW m \in MgrStates, m.todo # <<>>
    PROVE  LET n == [m EXCEPT !.todo = Tail(@)]
           IN  Edited(m, n, m.pending, Tail(m.todo), m.diagnosing, m.submitIssue, m.isBadTx)
<1>1. Tail(m.todo) \in Seq(Tasks)
  BY DEF MgrStates
<1>2. [m EXCEPT !.todo = Tail(@)] \in MgrStates
  BY <1>1 DEF MgrStates
<1> QED BY <1>2 DEF Edited, MgrStates, SameMarks

\* ... the flags of verdicts and answers
LEMMA MarkEdits ==
    ASSUME NEW m \in MgrStates, NEW issue \in BOOLEAN, NEW bad \in BOOLEAN
    PROVE  /\ Edited(m, [m EXCEPT !.submitIssue = issue], m.pending, m.todo, m.diagnosing, issue, m.isBadTx)
           /\ Edited(m, [m EXCEPT !.isBadTx = bad], m.pending, m.todo, m.diagnosing, m.submitIssue, bad)
           /\ Edited(m, [m EXCEPT !.submitIssue = issue, !.isBadTx = bad],
                     m.pending, m.todo, m.diagnosing, issue, bad)
<1>1. /\ [m EXCEPT !.submitIssue = issue] \in MgrStates
      /\ [m EXCEPT !.isBadTx = bad] \in MgrStates
      /\ [m EXCEPT !.submitIssue = issue, !.isBadTx = bad] \in MgrStates
  BY DEF MgrStates
<1> QED BY <1>1 DEF Edited, MgrStates, SameMarks

\* ... a diagnosis begun or ended
LEMMA DiagnosingEdits ==
    ASSUME NEW m \in MgrStates, NEW d \in [DiagnosisStages -> Nat]
    PROVE  Edited(m, [m EXCEPT !.diagnosing = d], m.pending, m.todo, d, m.submitIssue, m.isBadTx)
<1>1. [m EXCEPT !.diagnosing = d] \in MgrStates
  BY DEF MgrStates
<1> QED BY <1>1 DEF Edited, MgrStates, SameMarks

\* ... a timer armed
LEMMA ArmedEdits ==
    ASSUME NEW m \in MgrStates
    PROVE  LET n == [m EXCEPT !.armed = FALSE]
           IN  Edited(m, n, m.pending, m.todo, m.diagnosing, m.submitIssue, m.isBadTx)
<1>1. [m EXCEPT !.armed = FALSE] \in MgrStates
  BY DEF MgrStates
<1> QED BY <1>1 DEF Edited, MgrStates, SameMarks

-----------------------------------------------------------------------------
(* One thread of control: as long as no other submitter reports a problem.    *)

NoDiagnosis == [d \in DiagnosisStages |-> 0]
OneDiagnosis(stage) == [NoDiagnosis EXCEPT ![stage] = 1]
Clashes == {"submitClash", "confirmClash"}

\* before the startup delay is over
Fresh(m) ==
    /\ m.state = "submitting" /\ m.pending = "none" /\ m.todo = <<>>
    /\ ~Deferring(m) /\ m.released = <<>> /\ m.diagnosing = NoDiagnosis
    /\ ~m.submitIssue /\ ~m.isBadTx /\ ~m.successfulSubmit /\ m.confirmations = 0

Resting(m) == m.todo \in {<<>>, <<"notConfirmed">>}
Aborted(m) == \/ m.todo = <<"submitAborted">> /\ m.pending = "submitting"
              \/ m.todo = <<"confirmAborted">> /\ m.pending = "confirming"

\* An activity, a diagnosis or a deferred action: one at a time.
OneThread(m) ==
    /\ Resting(m) \/ Aborted(m)
    /\ m.todo = <<"notConfirmed">> => m.pending # "confirming"
    /\ m.pending \in {"none", m.state}
    /\ m.pending = "submitting" => ~m.submitIssue
    /\ Deferring(m) => /\ m.pending = "none" \/ Aborted(m)
                       /\ m.deferred.via # "name" => m.state \in Activities
    /\ \/ m.diagnosing = NoDiagnosis
       \/ /\ \E stage \in DiagnosisStages : m.diagnosing = OneDiagnosis(stage)
          /\ m.pending = "none" /\ m.todo = <<>> /\ ~Deferring(m) /\ m.state = "submitting"
    /\ \A i \in DOMAIN m.released :
         m.released[i].via # "name" => m.released[i].from \in Activities

NoClash(m) == \A i \in DOMAIN m.todo : m.todo[i] \notin Clashes

Single(m) ==
    /\ NoClash(m)
    /\ m.pending = "submitting" => m.state = "submitting"
    /\ ~m.started => Fresh(m)
    /\ Live(m) => Tidy(m) /\ OneThread(m)

\* What may become of a live manager with nothing pending, transition by transition
Kinds(o, n, tn) ==
    \/ Drops(o, n) /\ SameMarks(o, n)
    \/ \E to \in Activities :
         /\ Waits(o, n, to) /\ n.confirmations = o.confirmations
         /\ o.state \in Activities /\ (o.state = "submitting" => to = "submitting")
         /\ o.isBadTx => tn = "timeout" /\ to = o.state
    \/ \E s \in Activities :
         /\ Begins(o, n, s) /\ n.confirmations \in {o.confirmations, 0}
         /\ s = "submitting" => tn = "resubmit" \/ (tn = "notOk" /\ ~o.isBadTx)
         /\ s = "confirming" => tn \notin {"resubmit", "notOk"}
    \/ /\ tn = "confirmed" /\ Sights(o, n)
       /\ n.confirmations = Bump(o.confirmations, SoftConfirmations + 1)
    \/ Fails(o, n) /\ n.confirmations = o.confirmations

\* Every outcome of a transition is one of five kinds.
LEMMA OutcomeKinds ==
    ASSUME NEW o \in MgrStates, NEW n, NEW tn \in Performed \ {"otherSubmitterProblem"},
           tn \in Rowed(o.state), Outcome(o, n, tn)
    PROVE  /\ Kinds(o, n, tn)
           /\ tn = "submitted" => n.confirmations = 0
           /\ tn = "notOk" /\ o.isBadTx /\ (o.submitIssue \/ o.state = "confirming") => Fails(o, n)
           /\ tn = "failed" /\ o.state = "submitting" => Begins(o, n, "confirming")
<1>1. CASE o.state = "submitting"
  <2>1. SubmitOutcome(o, n, tn)
    BY <1>1 DEF Outcome
  <2>2. CASE tn \in {"submitted", "txExpired", "failed", "confirmed"}
    BY <1>1, <2>1, <2>2 DEF SubmitOutcome, Kinds, SameMarks, Activities
  <2>3. CASE tn = "timeout"
    BY <1>1, <2>1, <2>3 DEF SubmitOutcome, Kinds, SameMarks, Activities
  <2>4. CASE tn = "notOk"
    BY <1>1, <2>1, <2>4 DEF SubmitOutcome, Kinds, SameMarks, Activities
  <2> QED BY <1>1, <2>2, <2>3, <2>4 DEF Rowed
<1>2. CASE o.state = "confirming"
  <2>1. ConfirmOutcome(o, n, tn)
    BY <1>2 DEF Outcome
  <2>2. CASE tn \in {"timeout", "txExpired", "confirmed"}
    BY <1>2, <2>1, <2>2 DEF ConfirmOutcome, Kinds, SameMarks, Activities
  <2>4. CASE tn = "notOk"
    BY <1>2, <2>1, <2>4 DEF ConfirmOutcome, Kinds, SameMarks, Activities
  <2> QED BY <1>2, <2>2, <2>4 DEF Rowed
<1>3. CASE o.state \in {"softConfirmed", "confirmed", "failed"}
  BY <1>3 DEF Outcome, Kinds, SameMarks, Activities, Rowed
<1> QED BY <1>1, <1>2, <1>3 DEF MgrStates, States

Ready(o) ==
    /\ o \in MgrStates /\ Live(o) /\ Tidy(o) /\ Resting(o)
    /\ o.pending = "none" /\ o.diagnosing = NoDiagnosis
    /\ Deferring(o) /\ o.deferred.via # "name" => o.state \in Activities
    /\ \A i \in DOMAIN o.released :
         o.released[i].via # "name" => o.released[i].from \in Activities

\* Each kind keeps what Calm says of the pending activity.
LEMMA KindsKeep ==
    ASSUME NEW r, Ready(r), ~Deferring(r), NEW n, NEW tn, Kinds(r, n, tn),
           r.todo = <<"notConfirmed">> => tn = "resubmit"
    PROVE  /\ n \in MgrStates /\ Live(n) /\ Tidy(n) /\ OneThread(n)
           /\ n.todo = r.todo /\ n.isBadTx = r.isBadTx /\ n.diagnosing = NoDiagnosis
           /\ tn = "notOk" => n.pending # "confirming"
<1> USE DEF Ready, Live, Resting
<1>1. CASE Drops(r, n)
  BY <1>1 DEF Drops, Kept, Stays, Tidy, OneThread, Deferring
<1>2. ASSUME NEW to \in Activities, Waits(r, n, to), r.state \in Activities,
             r.state = "submitting" => to = "submitting"
      PROVE  /\ n \in MgrStates /\ Live(n) /\ Tidy(n) /\ OneThread(n)
             /\ n.todo = r.todo /\ n.isBadTx = r.isBadTx /\ n.diagnosing = NoDiagnosis
             /\ n.pending = "none"
  <2>1. n.deferred.via = "state" /\ n.deferred.from = n.state /\ n.deferred.to = to
    BY <1>2 DEF Waits, Stays, Later
  <2> QED BY <1>2, <2>1 DEF Waits, Kept, Stays, Tidy, OneThread, Activities
<1>3. ASSUME NEW s \in Activities, Begins(r, n, s), s = "confirming" => tn \notin {"resubmit", "notOk"}
      PROVE  /\ n \in MgrStates /\ Live(n) /\ Tidy(n) /\ OneThread(n)
             /\ n.todo = r.todo /\ n.isBadTx = r.isBadTx /\ n.diagnosing = NoDiagnosis
             /\ n.pending = s
  BY <1>3 DEF Begins, Kept, Tidy, OneThread, Deferring, Activities
<1>4. CASE Sights(r, n)
  <2>1. CASE n.state = "softConfirmed" /\ n.deferred = Later("name", "softConfirmed", "confirming")
    BY <1>4, <2>1 DEF Sights, Kept, Tidy, OneThread, Later
  <2>2. CASE n.state = "confirmed" /\ n.deferred = NoAction
    BY <1>4, <2>2 DEF Sights, Kept, Tidy, OneThread, Deferring
  <2> QED BY <1>4, <2>1, <2>2 DEF Sights
<1>5. CASE Fails(r, n)
  <2>1. CASE n.deferred = NoAction
    BY <1>5, <2>1 DEF Fails, Kept, Tidy, OneThread, Deferring
  <2>2. ASSUME NEW to, n.deferred = Later("name", "failed", to)
        PROVE  /\ n \in MgrStates /\ Live(n) /\ Tidy(n) /\ OneThread(n)
               /\ n.todo = r.todo /\ n.isBadTx = r.isBadTx /\ n.diagnosing = NoDiagnosis
               /\ n.pending = "none"
    BY <1>5, <2>2 DEF Fails, Kept, Tidy, OneThread, Later
  <2> QED BY <1>5, <2>1, <2>2 DEF Fails, Kept
<1> QED BY <1>1, <1>2, <1>3, <1>4, <1>5 DEF Kinds, Activities, Drops, Stays

\* A transition of a manager with nothing pending and no diagnosis
LEMMA ReadyMoves ==
    ASSUME NEW o, Ready(o), NEW tn \in Performed \ {"otherSubmitterProblem"},
           o.todo = <<"notConfirmed">> => tn = "resubmit"
    PROVE  LET n == transition(o, tn)
           IN  /\ n \in MgrStates /\ Live(n) /\ Tidy(n) /\ OneThread(n)
               /\ n.todo = o.todo /\ n.isBadTx = o.isBadTx /\ n.diagnosing = NoDiagnosis
               /\ tn = "notOk" => n.pending # "confirming"
<1> DEFINE n == transition(o, tn)
<1>0. o \in MgrStates /\ ~o.destroyed
  BY DEF Ready, Live
<1>1. CASE n = o
  BY <1>1 DEF Ready, Tidy, OneThread
<1>2. CASE n # o
  <2>1. PICK r : Taken(o, r) /\ Outcome(r, n, tn)
    BY <1>0, <1>2, TransitionEffect
  <2>2. tn \in Rowed(o.state) /\ Accepts(o, tn)
    BY <1>0, <1>2, TransitionEffect
  <2>3. Ready(r) /\ ~Deferring(r) /\ r.todo = o.todo /\ r.isBadTx = o.isBadTx
    <3>1. Deferring(o) => o.deferred.via # "name" /\ o.deferred.from = o.state /\ o.state \in Activities
      BY <2>2 DEF Accepts, Deferring, Ready, Tidy
    <3>2. ~Deferring(r)
      BY <2>1 DEF Taken, Deferring
    <3>3. \A i \in DOMAIN r.released : r.released[i].via # "name" => r.released[i].from \in Activities
      BY <2>1, <3>1 DEF Taken, Ready
    <3> QED BY <2>1, <3>2, <3>3 DEF Taken, Ready, Live, Resting, Tidy
  <2>4. r \in MgrStates /\ r.state = o.state
    BY <2>1 DEF Taken
  <2>5. Kinds(r, n, tn)
    BY <2>1, <2>2, <2>4, OutcomeKinds
  <2> QED BY <2>3, <2>5, KindsKeep
<1> QED BY <1>1, <1>2

-----------------------------------------------------------------------------
(* What the moves of a ready manager do to its counters, and to a bad tx *)

\* Sightings counted, kept or forgotten; "confirmed" needs enough of them.
Counts(o, n, tn) ==
    /\ \/ n.confirmations \in {o.confirmations, 0}
       \/ tn = "confirmed" /\ n.confirmations = Bump(o.confirmations, SoftConfirmations + 1)
    /\ n.state = "confirmed" => o.state = "confirmed" \/ n.confirmations > SoftConfirmations

Named(m) == \E i \in DOMAIN m.released : m.released[i].via = "name"

\* ... and it counts no confirmation that was not seen
LEMMA ReadyCounts ==
    ASSUME NEW o, Ready(o), NEW tn \in Performed \ {"otherSubmitterProblem"}
    PROVE  LET n == transition(o, tn)
           IN  /\ Counts(o, n, tn)
               /\ Named(n) => Named(o)
               /\ tn = "submitted" /\ o.state = "submitting" /\ ~Deferring(o) =>
                    n.confirmations = 0 /\ n.state = "confirming"
<1> DEFINE n == transition(o, tn)
<1>0. o \in MgrStates /\ ~o.destroyed
  BY DEF Ready, Live
<1>1. CASE n = o /\ ~Accepts(o, tn)
  <2>1. tn = "submitted" /\ o.state = "submitting" => Deferring(o)
    BY <1>0, <1>1, AcceptsWhen DEF Rowed
  <2> QED BY <1>1, <2>1 DEF Counts
<1>2. CASE Accepts(o, tn)
  <2>1. PICK r : Taken(o, r) /\ Outcome(r, n, tn)
    BY <1>0, <1>2, TransitionEffect
  <2>2. tn \in Rowed(o.state)
    BY <1>0, <1>2, TransitionEffect
  <2>3. r \in MgrStates /\ r.state = o.state /\ r.confirmations = o.confirmations
    BY <2>1 DEF Taken, SameMarks
  <2>4. Kinds(r, n, tn) /\ (tn = "submitted" => n.confirmations = 0)
    BY <2>1, <2>2, <2>3, OutcomeKinds
  <2>5. n.released = r.released
    BY <2>4 DEF Kinds, Drops, Waits, Begins, Sights, Fails, Kept
  <2>6. Named(n) => Named(o)
    <3>1. Deferring(o) => o.deferred.via # "name"
      BY <1>2 DEF Accepts, Deferring
    <3> QED BY <2>1, <2>5, <3>1 DEF Taken, Named
  <2>7. Counts(r, n, tn)
    <3>1. CASE Drops(r, n) /\ SameMarks(r, n)
      BY <3>1 DEF Drops, Stays, SameMarks, Counts
    <3>2. CASE \E to \in Activities : Waits(r, n, to) /\ n.confirmations = r.confirmations
      BY <3>2 DEF Waits, Stays, Counts
    <3>3. CASE \E s \in Activities : Begins(r, n, s) /\ n.confirmations \in {r.confirmations, 0}
      BY <3>3 DEF Begins, Counts, Activities
    <3>4. CASE tn = "confirmed" /\ Sights(r, n)
               /\ n.confirmations = Bump(r.confirmations, SoftConfirmations + 1)
      BY <3>4 DEF Sights, Counts
    <3>5. CASE Fails(r, n) /\ n.confirmations = r.confirmations
      BY <3>5 DEF Fails, Counts
    <3> QED BY <2>4, <3>1, <3>2, <3>3, <3>4, <3>5 DEF Kinds
  <2>8. tn = "submitted" /\ o.state = "submitting" => n.confirmations = 0 /\ n.state = "confirming"
    BY <2>1, <2>3, <2>4 DEF Outcome, SubmitOutcome, Begins
  <2> QED BY <2>3, <2>6, <2>7, <2>8 DEF Counts
<1> QED BY <1>0, <1>1, <1>2, TransitionEffect

\* nothing that is deferred leads a bad tx back to submitting
OffSubmitting(m) ==
    m.isBadTx => /\ m.state # "submitting"
                 /\ Deferring(m) => m.deferred.to = "confirming"

\* ... and it brings no bad tx back to submission
LEMMA ReadyBad ==
    ASSUME NEW o, Ready(o), o.isBadTx, NEW tn,
           \/ /\ tn = "notOk" /\ (o.state = "submitting" => o.submitIssue /\ ~Deferring(o))
              /\ Deferring(o) => o.deferred.to = "confirming"
           \/ tn = "failed" /\ o.state = "submitting" /\ ~Deferring(o)
           \/ tn = "confirmed" /\ o.state = "confirming" /\ ~Deferring(o)
    PROVE  LET n == transition(o, tn)
           IN  OffSubmitting(n) /\ (n.state = "confirming" => ~Deferring(n))
<1> DEFINE n == transition(o, tn)
<1>0. o \in MgrStates /\ ~o.destroyed /\ tn \in Performed \ {"otherSubmitterProblem"}
  BY DEF Ready, Live, Performed
<1>1. CASE ~Accepts(o, tn)
  <2>1. n = o
    BY <1>1 DEF transition
  <2>2. tn \in Rowed(o.state) => Deferring(o) /\ (o.deferred.via = "name" \/ o.deferred.to # To(o.state, tn))
    BY <1>0, <1>1, AcceptsWhen
  <2>3. o.state \notin Activities
    BY <2>2 DEF Rowed, Ready, Tidy, To, Activities
  <2> QED BY <2>1, <2>3 DEF OffSubmitting, Activities
<1>2. CASE Accepts(o, tn)
  <2>1. PICK r : Taken(o, r) /\ Outcome(r, n, tn)
    BY <1>0, <1>2, TransitionEffect
  <2>2. tn \in Rowed(o.state)
    BY <1>0, <1>2, TransitionEffect
  <2>3. /\ r \in MgrStates /\ r.state = o.state /\ r.isBadTx = o.isBadTx
        /\ r.submitIssue = o.submitIssue /\ r.pending = "none"
    BY <2>1 DEF Taken, Ready
  <2>4. /\ tn = "notOk" => Fails(r, n)
        /\ tn = "failed" => Begins(r, n, "confirming")
        /\ tn = "confirmed" => Sights(r, n)
    <3>1. tn = "notOk" => Fails(r, n)
      BY <1>0, <2>1, <2>2, <2>3, OutcomeKinds DEF Rowed, Ready, MgrStates, States
    <3>2. tn = "failed" => Begins(r, n, "confirming")
      BY <1>0, <2>1, <2>2, <2>3, OutcomeKinds
    <3>3. tn = "confirmed" => Sights(r, n)
      BY <2>1, <2>3 DEF Outcome, ConfirmOutcome
    <3> QED BY <3>1, <3>2, <3>3
  <2>5. CASE tn = "notOk"
    <3>1. n.state = "failed" /\ n.isBadTx
      BY <2>3, <2>4, <2>5 DEF Fails, Kept
    <3>2. Deferring(n) => n.deferred.to = "confirming"
      BY <2>4, <2>5, <3>1 DEF Fails, Deferring, Later
    <3> QED BY <3>1, <3>2 DEF OffSubmitting
  <2>6. CASE tn = "failed"
    BY <2>4, <2>6 DEF Begins, OffSubmitting, Deferring
  <2>7. CASE tn = "confirmed"
    <3>1. n.state \in {"softConfirmed", "confirmed"}
      BY <2>4, <2>7 DEF Sights
    <3>2. Deferring(n) => n.deferred.to = "confirming"
      BY <2>4, <2>7 DEF Sights, Deferring, Later
    <3> QED BY <3>1, <3>2 DEF OffSubmitting
  <2> QED BY <2>5, <2>6, <2>7
<1> QED BY <1>1, <1>2

-----------------------------------------------------------------------------
(* The handlers of a live manager, undisturbed *)

Calm(m) == m \in MgrStates /\ Live(m) /\ Tidy(m) /\ OneThread(m)

\* a verdict on the tx, or a question that may end in one
Suspect(m) == m.isBadTx \/ m.diagnosing # NoDiagnosis

\* A bad tx never gets back to submitting: no deferred action leads there, and
\* a released one that could is alone.
NoWayBack(m) ==
    /\ OffSubmitting(m)
    /\ m.isBadTx /\ m.state = "confirming" /\ Deferring(m) => m.todo # <<>>
    /\ Named(m) => /\ ~Deferring(m) /\ m.pending = "none" /\ m.todo = <<>>
                   /\ m.diagnosing = NoDiagnosis /\ m.state \in {"softConfirmed", "failed"}

\* An edit keeps a manager ready for a transition.
LEMMA EditedReady ==
    ASSUME NEW m, Calm(m), NEW o, NEW todo \in {<<>>, <<"notConfirmed">>}, NEW issue, NEW bad,
           Edited(m, o, "none", todo, NoDiagnosis, issue, bad)
    PROVE  Ready(o) /\ (Named(o) => Named(m))
BY DEF Edited, Calm, Ready, Live, Tidy, Resting, OneThread, Deferring, Named

\* A handler that edits the manager, and then asks for a transition
Moved(m, n, tn, todo, bad) ==
    /\ Calm(n) /\ Counts(m, n, tn)
    /\ n.isBadTx = bad /\ n.diagnosing = NoDiagnosis /\ n.todo = todo
    /\ Named(n) => Named(m)
    /\ tn = "notOk" => n.pending # "confirming"
    /\ tn = "submitted" /\ m.state = "submitting" /\ ~Deferring(m) =>
         n.confirmations = 0 /\ n.state = "confirming"

\* An edited manager moves by a transition,
LEMMA EditedMoves ==
    ASSUME NEW m, Calm(m), NEW o, NEW todo \in {<<>>, <<"notConfirmed">>}, NEW issue, NEW bad,
           Edited(m, o, "none", todo, NoDiagnosis, issue, bad),
           NEW tn \in Performed \ {"otherSubmitterProblem"}, todo # <<>> => tn = "resubmit"
    PROVE  Moved(m, transition(o, tn), tn, todo, bad)
<1>1. Ready(o) /\ (Named(o) => Named(m))
  BY EditedReady
<1>2. /\ o.todo = todo /\ o.isBadTx = bad /\ o.state = m.state /\ o.deferred = m.deferred
      /\ o.confirmations = m.confirmations
  BY DEF Edited, SameMarks
<1>3. o.todo = <<"notConfirmed">> => tn = "resubmit"
  BY <1>2
<1> DEFINE n == transition(o, tn)
<1>4. /\ n \in MgrStates /\ Live(n) /\ Tidy(n) /\ OneThread(n)
      /\ n.todo = o.todo /\ n.isBadTx = o.isBadTx /\ n.diagnosing = NoDiagnosis
      /\ tn = "notOk" => n.pending # "confirming"
  BY <1>1, <1>3, ReadyMoves
<1>5. /\ Counts(o, n, tn) /\ (Named(n) => Named(o))
      /\ tn = "submitted" /\ o.state = "submitting" /\ ~Deferring(o) =>
           n.confirmations = 0 /\ n.state = "confirming"
  BY <1>1, ReadyCounts
<1> HIDE DEF n
<1>6. Counts(m, n, tn)
  BY <1>2, <1>5 DEF Counts
<1> QED BY <1>1, <1>2, <1>4, <1>5, <1>6 DEF Calm, Deferring, Moved, n

\* ... still without a way back for a bad tx,
LEMMA EditedNoWayBack ==
    ASSUME NEW m, Calm(m), ~Named(m), NEW o, NEW issue, NEW bad,
           Edited(m, o, "none", <<>>, NoDiagnosis, issue, bad),
           NEW tn \in Performed \ {"otherSubmitterProblem"},
           o.isBadTx =>
              \/ /\ tn = "notOk" /\ (m.state = "submitting" => o.submitIssue /\ ~Deferring(m))
                 /\ Deferring(m) => m.deferred.to = "confirming"
              \/ tn = "failed" /\ m.state = "submitting" /\ ~Deferring(m)
              \/ tn = "confirmed" /\ m.state = "confirming" /\ ~Deferring(m)
    PROVE  LET n == transition(o, tn)
           IN  OffSubmitting(n) /\ ~Named(n) /\ (n.isBadTx /\ n.state = "confirming" => ~Deferring(n))
<1>1. Ready(o)
  BY EditedReady
<1>2. o.isBadTx = bad /\ o.state = m.state /\ o.deferred = m.deferred
  BY DEF Edited
<1> DEFINE n == transition(o, tn)
<1>3. n.isBadTx = bad /\ (Named(n) => Named(m))
  <2>1. Moved(m, n, tn, <<>>, bad)
    BY EditedMoves
  <2> QED BY <2>1 DEF Moved
<1>4. CASE o.isBadTx
  <2>1. OffSubmitting(n) /\ (n.state = "confirming" => ~Deferring(n))
    <3>1. \/ /\ tn = "notOk" /\ (o.state = "submitting" => o.submitIssue /\ ~Deferring(o))
             /\ Deferring(o) => o.deferred.to = "confirming"
          \/ tn = "failed" /\ o.state = "submitting" /\ ~Deferring(o)
          \/ tn = "confirmed" /\ o.state = "confirming" /\ ~Deferring(o)
      BY <1>2, <1>4 DEF Deferring
    <3> QED BY <1>1, <1>2, <1>4, <3>1, ReadyBad
  <2> QED BY <2>1, <1>3
<1>5. CASE ~o.isBadTx
  BY <1>2, <1>3, <1>5 DEF OffSubmitting
<1> QED BY <1>4, <1>5

\* The answer to a submission, in each of its cases
LEMMA SubmitAnsweredCalm ==
    ASSUME NEW m, Calm(m), m.todo = <<>>, m.pending = "submitting", NEW outcome \in SubmitOutcomes
    PROVE  LET n == SubmitAnswered(m, outcome)
           IN  /\ Calm(n) /\ Counts(m, n, outcome)
               /\ Suspect(n) => m.isBadTx \/ outcome \in {"unknownUtxo", "otherError"}
               /\ outcome \in Acknowledged => n.confirmations = 0 /\ n.state = "confirming"
               /\ NoWayBack(m) => NoWayBack(n)
<1> DEFINE n == SubmitAnswered(m, outcome)
           d == done(m)
<1>0. /\ m \in MgrStates /\ m.state = "submitting" /\ ~Deferring(m) /\ m.diagnosing = NoDiagnosis
      /\ m.isBadTx \in BOOLEAN
  BY DEF Calm, OneThread, Aborted, MgrStates
<1>1. Edited(m, d, "none", <<>>, NoDiagnosis, m.submitIssue, m.isBadTx)
  BY <1>0, doneEdits
<1>2. d \in MgrStates
  BY <1>1 DEF Edited
<1>3. NoWayBack(m) => ~Named(m) /\ ~m.isBadTx
  BY <1>0 DEF NoWayBack, OffSubmitting
<1>4. ASSUME NEW o, NEW issue, NEW bad \in BOOLEAN,
             Edited(m, o, "none", <<>>, NoDiagnosis, issue, bad),
             NEW tn \in {"submitted", "txExpired", "notOk", "failed"},
             n = transition(o, tn),
             outcome \in Acknowledged => tn = "submitted",
             bad => m.isBadTx \/ (outcome = "otherError" /\ tn = "failed")
      PROVE  /\ Calm(n) /\ Counts(m, n, outcome)
             /\ Suspect(n) => m.isBadTx \/ outcome \in {"unknownUtxo", "otherError"}
             /\ outcome \in Acknowledged => n.confirmations = 0 /\ n.state = "confirming"
             /\ NoWayBack(m) => NoWayBack(n)
  <2>1. tn \in Performed \ {"otherSubmitterProblem"} /\ tn # "confirmed"
    BY DEF Performed
  <2>2. /\ Calm(n) /\ Counts(m, n, tn)
        /\ n.isBadTx = bad /\ n.diagnosing = NoDiagnosis /\ n.todo = <<>>
        /\ tn = "submitted" /\ m.state = "submitting" /\ ~Deferring(m) =>
             n.confirmations = 0 /\ n.state = "confirming"
    <3>1. Moved(m, n, tn, <<>>, bad)
      BY <1>4, <2>1, EditedMoves
    <3> QED BY <3>1 DEF Moved
  <2>3. NoWayBack(m) => NoWayBack(n)
    <3>1. SUFFICES ASSUME NoWayBack(m) PROVE NoWayBack(n)
      OBVIOUS
    <3>2. o.isBadTx => tn = "failed"
      BY <1>3, <1>4, <3>1 DEF Edited
    <3>3. OffSubmitting(n) /\ ~Named(n) /\ (n.isBadTx /\ n.state = "confirming" => ~Deferring(n))
      BY <1>0, <1>3, <1>4, <2>1, <3>1, <3>2, EditedNoWayBack
    <3> QED BY <3>3 DEF NoWayBack
  <2>4. Counts(m, n, outcome)
    BY <2>1, <2>2 DEF Counts
  <2> QED BY <1>0, <1>4, <2>2, <2>3, <2>4 DEF Suspect
<1>5. CASE outcome \in {"accepted", "alreadySpent"}
  <2>1. n = transition(d, "submitted")
    BY <1>5 DEF SubmitAnswered
  <2> QED BY <1>0, <1>1, <1>4, <1>5, <2>1
<1>6. CASE outcome = "tooLate"
  <2>1. n = transition(d, "txExpired")
    BY <1>6 DEF SubmitAnswered
  <2> QED BY <1>0, <1>1, <1>4, <1>6, <2>1 DEF Acknowledged
<1>7. CASE outcome \in {"tooEarly", "rateLimited"}
  <2> DEFINE o == [d EXCEPT !.submitIssue = TRUE]
  <2>1. n = transition(o, "notOk")
    BY <1>7 DEF SubmitAnswered
  <2>2. Edited(d, o, d.pending, d.todo, d.diagnosing, TRUE, d.isBadTx)
    BY <1>2, MarkEdits
  <2> HIDE DEF o, d
  <2>3. Edited(m, o, "none", <<>>, NoDiagnosis, TRUE, m.isBadTx)
    BY <1>1, <2>2 DEF Edited, SameMarks
  <2> QED BY <1>0, <1>4, <1>7, <2>1, <2>3 DEF Acknowledged
<1>8. CASE outcome = "otherError"
  <2> DEFINE o == [d EXCEPT !.isBadTx = TRUE]
  <2>1. n = transition(o, "failed")
    BY <1>8 DEF SubmitAnswered
  <2>2. Edited(d, o, d.pending, d.todo, d.diagnosing, d.submitIssue, TRUE)
    BY <1>2, MarkEdits
  <2> HIDE DEF o, d
  <2>3. Edited(m, o, "none", <<>>, NoDiagnosis, m.submitIssue, TRUE)
    BY <1>1, <2>2 DEF Edited, SameMarks
  <2> QED BY <1>0, <1>4, <1>8, <2>1, <2>3 DEF Acknowledged
<1>9. CASE outcome = "unknownUtxo"
  <2> DEFINE dg == [d.diagnosing EXCEPT !["confirmTx"] = @ + 1]
             o == [d EXCEPT !.diagnosing = dg]
  <2>1. n = o
    BY <1>2, <1>9 DEF SubmitAnswered
  <2>2. d.diagnosing = NoDiagnosis
    BY <1>1 DEF Edited
  <2>3. dg = OneDiagnosis("confirmTx") /\ dg \in [DiagnosisStages -> Nat]
    BY <2>2 DEF OneDiagnosis, NoDiagnosis, DiagnosisStages
  <2>4. Edited(d, o, d.pending, d.todo, dg, d.submitIssue, d.isBadTx)
    BY <1>2, <2>3, DiagnosingEdits
  <2> HIDE DEF o, d, dg
  <2>5. Edited(m, n, "none", <<>>, OneDiagnosis("confirmTx"), m.submitIssue, m.isBadTx)
    BY <1>1, <2>1, <2>3, <2>4 DEF Edited, SameMarks
  <2> HIDE DEF n
  <2>6. Calm(n)
    BY <1>0, <2>5 DEF Edited, Calm, Live, Tidy, OneThread, Resting, Aborted, Deferring, DiagnosisStages
  <2>7. Counts(m, n, outcome)
    BY <2>5 DEF Edited, SameMarks, Counts
  <2>8. NoWayBack(m) => NoWayBack(n)
    BY <1>0, <1>3, <2>5 DEF Edited, NoWayBack, OffSubmitting, Named
  <2> QED BY <1>9, <2>6, <2>7, <2>8 DEF Acknowledged, n
<1> QED BY <1>5, <1>6, <1>7, <1>8, <1>9 DEF SubmitOutcomes

\* A handler keeps the manager calm, and never makes its tx bad.
Follows(m, n, tn) ==
    /\ Calm(n) /\ Counts(m, n, tn)
    /\ Suspect(n) => Suspect(m)
    /\ NoWayBack(m) => NoWayBack(n)

\* ... by a transition with nothing queued
LEMMA EditedFollows ==
    ASSUME NEW m, Calm(m), NEW o, NEW issue, NEW bad,
           Edited(m, o, "none", <<>>, NoDiagnosis, issue, bad),
           NEW tn \in Performed \ {"otherSubmitterProblem"},
           o.isBadTx => Suspect(m),
           NoWayBack(m) =>
              /\ ~Named(m)
              /\ o.isBadTx =>
                   \/ /\ tn = "notOk" /\ (m.state = "submitting" => o.submitIssue /\ ~Deferring(m))
                      /\ Deferring(m) => m.deferred.to = "confirming"
                   \/ tn = "failed" /\ m.state = "submitting" /\ ~Deferring(m)
                   \/ tn = "confirmed" /\ m.state = "confirming" /\ ~Deferring(m)
    PROVE  Follows(m, transition(o, tn), tn)
<1> DEFINE n == transition(o, tn)
<1>1. Moved(m, n, tn, <<>>, bad)
  BY EditedMoves
<1>2. NoWayBack(m) => OffSubmitting(n) /\ ~Named(n) /\ (n.isBadTx /\ n.state = "confirming" => ~Deferring(n))
  BY EditedNoWayBack
<1>3. o.isBadTx = bad
  BY DEF Edited
<1> HIDE DEF n
<1>4. Suspect(n) => Suspect(m)
  BY <1>1, <1>3 DEF Moved, Suspect
<1> QED BY <1>1, <1>2, <1>4 DEF Moved, Follows, NoWayBack, n

\* The answer to a look for confirmations
LEMMA ConfirmAnsweredCalm ==
    ASSUME NEW m, Calm(m), m.todo = <<>>, m.pending = "confirming",
           NEW outcome \in {"found", "missing", "error"}
    PROVE  Follows(m, ConfirmAnswered(m, outcome), IF outcome = "found" THEN "confirmed" ELSE "notOk")
<1> DEFINE n == ConfirmAnswered(m, outcome)
           d == done(m)
           missed == transition(d, "notOk")
<1>0. /\ m \in MgrStates /\ m.state = "confirming" /\ ~Deferring(m) /\ m.diagnosing = NoDiagnosis
  BY DEF Calm, OneThread, Aborted
<1>1. Edited(m, d, "none", <<>>, NoDiagnosis, m.submitIssue, m.isBadTx)
  BY <1>0, doneEdits
<1>2. d \in MgrStates /\ d.isBadTx = m.isBadTx /\ d.state = "confirming" /\ d.deferred = NoAction /\ d.destroyed = FALSE
  BY <1>0, <1>1 DEF Edited, Deferring, Calm, Live, MgrStates
<1>3. NoWayBack(m) => ~Named(m)
  BY <1>0 DEF NoWayBack
<1>4. /\ Follows(m, transition(d, "confirmed"), "confirmed")
      /\ Follows(m, missed, "notOk")
  <2>1. ASSUME NEW tn \in {"confirmed", "notOk"} PROVE Follows(m, transition(d, tn), tn)
    <3>1. d.isBadTx => Suspect(m)
      BY <1>2 DEF Suspect
    <3>2. tn \in Performed \ {"otherSubmitterProblem"}
      BY DEF Performed
    <3> HIDE DEF d
    <3> QED BY <1>0, <1>1, <1>3, <3>1, <3>2, EditedFollows
  <2> QED BY <2>1
<1>5. CASE outcome = "found"
  BY <1>4, <1>5 DEF ConfirmAnswered
<1>6. CASE outcome = "missing"
  BY <1>4, <1>6 DEF ConfirmAnswered
<1>7. CASE outcome = "error"
  <2>1. ~Throws(d, "notOk")
    <3> HIDE DEF d
    <3> QED BY <1>2 DEF Throws, Accepts, To, NoState
  <2>2. n = Queue(missed, "notConfirmed")
    BY <1>7, <2>1 DEF ConfirmAnswered
  <2>3. Moved(m, missed, "notOk", <<>>, m.isBadTx)
    <3> HIDE DEF d
    <3>1. "notOk" \in Performed \ {"otherSubmitterProblem"}
      BY DEF Performed
    <3> QED BY <1>1, <3>1, EditedMoves
  <2>4. Follows(m, missed, "notOk")
    BY <1>4
  <2> HIDE DEF missed, d
  <2>5. missed \in MgrStates /\ missed.pending # "confirming" /\ missed.todo = <<>>
        /\ missed.diagnosing = NoDiagnosis
    BY <2>3 DEF Moved, Calm
  <2>6. Edited(missed, n, missed.pending, <<"notConfirmed">>, NoDiagnosis, missed.submitIssue, missed.isBadTx)
    <3>1. Append(missed.todo, "notConfirmed") = <<"notConfirmed">>
      BY <2>5
    <3>2. Edited(missed, n, missed.pending, Append(missed.todo, "notConfirmed"),
                 missed.diagnosing, missed.submitIssue, missed.isBadTx)
      BY <2>2, <2>5, QueueEdits DEF Tasks
    <3> QED BY <2>5, <3>1, <3>2
  <2> HIDE DEF n
  <2>7. Calm(n)
    <3>1. Calm(missed)
      BY <2>3 DEF Moved
    <3>2. n \in MgrStates /\ Live(n) /\ Tidy(n)
      BY <2>6, <3>1 DEF Calm, Edited, Live, Tidy, Deferring
    <3>3. n.pending # "confirming" /\ n.todo = <<"notConfirmed">> /\ n.diagnosing = NoDiagnosis
      BY <2>5, <2>6 DEF Edited
    <3>4. Deferring(missed) => missed.pending = "none"
      BY <2>5, <3>1 DEF Calm, OneThread, Aborted
    <3>5. OneThread(n)
      BY <2>6, <3>1, <3>3, <3>4 DEF Calm, Edited, OneThread, Resting, Deferring
    <3> QED BY <3>2, <3>5 DEF Calm
  <2>8. Counts(m, n, "notOk") /\ (Suspect(n) => Suspect(m))
    BY <2>4, <2>5, <2>6 DEF Follows, Counts, Suspect, Edited, SameMarks
  <2>9. NoWayBack(m) => NoWayBack(n)
    BY <1>3, <2>3, <2>4, <2>6 DEF Follows, NoWayBack, OffSubmitting, Moved, Edited, Named, Deferring
  <2> QED BY <1>7, <2>7, <2>8, <2>9 DEF Follows, n
<1> QED BY <1>5, <1>6, <1>7

\* a manager that keeps everything but its diagnosis
LEMMA DiagnosisEdited ==
    ASSUME NEW m, Calm(m), NEW stage \in DiagnosisStages, m.diagnosing[stage] > 0
    PROVE  /\ m \in MgrStates /\ m.diagnosing = OneDiagnosis(stage)
           /\ m.pending = "none" /\ m.todo = <<>> /\ ~Deferring(m) /\ m.state = "submitting"
           /\ Suspect(m) /\ (NoWayBack(m) => ~Named(m) /\ ~m.isBadTx)
           /\ Edited(m, DiagnosisEnds(m, stage), "none", <<>>, NoDiagnosis, m.submitIssue, m.isBadTx)
           /\ \A next \in DiagnosisStages : next # stage =>
                Edited(m, DiagnosisMoves(m, stage, next), "none", <<>>, OneDiagnosis(next), m.submitIssue, m.isBadTx)
<1>1. m \in MgrStates /\ m.diagnosing \in [DiagnosisStages -> Nat]
  BY DEF Calm, MgrStates
<1>2. m.diagnosing # NoDiagnosis
  BY DEF NoDiagnosis
<1>3. PICK s \in DiagnosisStages : m.diagnosing = OneDiagnosis(s)
  BY <1>2 DEF Calm, OneThread
<1>4. m.diagnosing = OneDiagnosis(stage)
  <2>1. s # stage => OneDiagnosis(s)[stage] = 0
    BY DEF OneDiagnosis, NoDiagnosis
  <2>2. m.diagnosing[stage] # 0
    BY <1>1
  <2> QED BY <1>3, <2>1, <2>2
<1>5. m.pending = "none" /\ m.todo = <<>> /\ ~Deferring(m) /\ m.state = "submitting"
  BY <1>2 DEF Calm, OneThread
<1>6. Suspect(m) /\ (NoWayBack(m) => ~Named(m) /\ ~m.isBadTx)
  BY <1>2, <1>5 DEF Suspect, NoWayBack, OffSubmitting
<1>7. Edited(m, DiagnosisEnds(m, stage), "none", <<>>, NoDiagnosis, m.submitIssue, m.isBadTx)
  <2>1. [m.diagnosing EXCEPT ![stage] = @ - 1] = NoDiagnosis
    BY <1>4 DEF OneDiagnosis, NoDiagnosis
  <2>2. DiagnosisEnds(m, stage) = [m EXCEPT !.diagnosing = NoDiagnosis]
    BY <1>1, <2>1 DEF DiagnosisEnds, MgrStates
  <2>3. NoDiagnosis \in [DiagnosisStages -> Nat]
    BY DEF NoDiagnosis
  <2> QED BY <1>1, <1>5, <2>2, <2>3, DiagnosingEdits
<1>8. ASSUME NEW next \in DiagnosisStages, next # stage
      PROVE  Edited(m, DiagnosisMoves(m, stage, next), "none", <<>>, OneDiagnosis(next), m.submitIssue, m.isBadTx)
  <2>1. [m.diagnosing EXCEPT ![stage] = @ - 1, ![next] = @ + 1] = OneDiagnosis(next)
    BY <1>4, <1>8 DEF OneDiagnosis, NoDiagnosis
  <2>2. DiagnosisMoves(m, stage, next) = [m EXCEPT !.diagnosing = OneDiagnosis(next)]
    BY <2>1 DEF DiagnosisMoves
  <2>3. OneDiagnosis(next) \in [DiagnosisStages -> Nat]
    BY DEF NoDiagnosis, OneDiagnosis
  <2> QED BY <1>1, <1>5, <2>2, <2>3, DiagnosingEdits
<1> QED BY <1>1, <1>4, <1>5, <1>6, <1>7, <1>8

\* a diagnosis that ends with its answer queued
LEMMA DiagnosisWaits ==
    ASSUME NEW m, Calm(m), NEW stage \in DiagnosisStages, m.diagnosing[stage] > 0, NEW tn
    PROVE  /\ Follows(m, DiagnosisEnds(m, stage), tn)
           /\ \A next \in DiagnosisStages : next # stage => Follows(m, DiagnosisMoves(m, stage, next), tn)
<1>0. /\ m \in MgrStates /\ m.diagnosing = OneDiagnosis(stage)
      /\ m.pending = "none" /\ m.todo = <<>> /\ ~Deferring(m) /\ m.state = "submitting"
      /\ Suspect(m) /\ (NoWayBack(m) => ~Named(m) /\ ~m.isBadTx)
  BY DiagnosisEdited
<1>1. ASSUME NEW n, NEW d, Edited(m, n, "none", <<>>, d, m.submitIssue, m.isBadTx),
             d = NoDiagnosis \/ \E next \in DiagnosisStages : d = OneDiagnosis(next)
      PROVE  Follows(m, n, tn)
  <2>1. Calm(n)
    BY <1>0, <1>1 DEF Edited, Calm, Live, Tidy, OneThread, Resting, Aborted, Deferring
  <2>2. Counts(m, n, tn)
    BY <1>1 DEF Edited, SameMarks, Counts
  <2>3. NoWayBack(m) => NoWayBack(n)
    BY <1>0, <1>1 DEF Edited, NoWayBack, OffSubmitting, Named
  <2> QED BY <1>0, <2>1, <2>2, <2>3 DEF Follows
<1>2. Edited(m, DiagnosisEnds(m, stage), "none", <<>>, NoDiagnosis, m.submitIssue, m.isBadTx)
  BY DiagnosisEdited
<1>3. \A next \in DiagnosisStages : next # stage =>
        Edited(m, DiagnosisMoves(m, stage, next), "none", <<>>, OneDiagnosis(next), m.submitIssue, m.isBadTx)
  BY DiagnosisEdited
<1> QED BY <1>1, <1>2, <1>3

\* The end of a diagnosis
LEMMA DiagnosedCalm ==
    ASSUME NEW m, Calm(m), NEW stage \in DiagnosisStages, m.diagnosing[stage] > 0, NEW isBad \in BOOLEAN
    PROVE  Follows(m, Diagnosed(m, stage, isBad), "notOk")
<1> DEFINE e == DiagnosisEnds(m, stage)
           o == [e EXCEPT !.submitIssue = TRUE, !.isBadTx = @ \/ isBad]
<1>0. /\ ~Deferring(m) /\ m.state = "submitting" /\ Suspect(m) /\ (NoWayBack(m) => ~Named(m))
  BY DiagnosisEdited
<1>1. Edited(m, e, "none", <<>>, NoDiagnosis, m.submitIssue, m.isBadTx)
  BY DiagnosisEdited
<1>2. e \in MgrStates
  BY <1>1 DEF Edited
<1> DEFINE bad == e.isBadTx \/ isBad
<1> HIDE DEF e
<1>3. o = [e EXCEPT !.submitIssue = TRUE, !.isBadTx = bad] /\ bad \in BOOLEAN
  BY <1>2 DEF MgrStates
<1>4. Edited(e, o, e.pending, e.todo, e.diagnosing, TRUE, bad)
  <2> HIDE DEF bad, o
  <2> QED BY <1>2, <1>3, MarkEdits
<1> HIDE DEF bad, o
<1>5. Edited(m, o, "none", <<>>, NoDiagnosis, TRUE, bad)
  BY <1>1, <1>4 DEF Edited, SameMarks
<1>6. o.submitIssue
  BY <1>5 DEF Edited
<1>7. "notOk" \in Performed \ {"otherSubmitterProblem"}
  BY DEF Performed
<1>8. Follows(m, transition(o, "notOk"), "notOk")
  BY <1>0, <1>5, <1>6, <1>7, EditedFollows
<1> QED BY <1>8 DEF Diagnosed, e, o

\* the tasks of a calm manager
LEMMA TodoCases ==
    ASSUME NEW m, Calm(m), m.todo # <<>>
    PROVE  \/ /\ m.todo = <<"submitAborted">> /\ m.pending = "submitting"
              /\ Tail(m.todo) = <<>> /\ Head(m.todo) = "submitAborted"
           \/ /\ m.todo = <<"confirmAborted">> /\ m.pending = "confirming"
              /\ Tail(m.todo) = <<>> /\ Head(m.todo) = "confirmAborted"
           \/ /\ m.todo = <<"notConfirmed">> /\ m.pending # "confirming"
              /\ Tail(m.todo) = <<>> /\ Head(m.todo) = "notConfirmed"
<1>1. \A x : Tail(<<x>>) = <<>> /\ Head(<<x>>) = x
  OBVIOUS
<1> QED BY <1>1 DEF Calm, OneThread, Resting, Aborted

\* A task of a calm manager runs.
LEMMA RunTaskCalm ==
    ASSUME NEW m, Calm(m), m.todo # <<>>
    PROVE  Follows(m, RunTask(m), "notOk")
<1> DEFINE n == RunTask(m)
           p == [m EXCEPT !.todo = Tail(@)]
<1>0. m \in MgrStates /\ Tail(m.todo) = <<>> /\ m.diagnosing = NoDiagnosis
      /\ (NoWayBack(m) => ~Named(m))
  BY TodoCases DEF Calm, OneThread, NoWayBack
<1>1. Edited(m, p, m.pending, <<>>, NoDiagnosis, m.submitIssue, m.isBadTx)
  BY <1>0, PopEdits
<1>2. p \in MgrStates /\ p.pending = m.pending /\ p.isBadTx = m.isBadTx
  BY <1>1 DEF Edited
<1> HIDE DEF p
<1>3. CASE m.todo = <<"submitAborted">>
  <2>1. m.pending = "submitting" /\ Head(m.todo) = "submitAborted" /\ m.state = "submitting"
    BY <1>3, TodoCases DEF Calm, OneThread
  <2>2. n = done(p)
    BY <2>1 DEF RunTask, p
  <2>3. Edited(p, n, "none", p.todo, p.diagnosing, p.submitIssue, p.isBadTx)
    BY <1>2, <2>2, doneEdits
  <2> HIDE DEF n
  <2>4. Edited(m, n, "none", <<>>, NoDiagnosis, m.submitIssue, m.isBadTx)
    BY <1>1, <2>3 DEF Edited, SameMarks
  <2>5. Calm(n)
    BY <1>0, <2>1, <2>4 DEF Edited, Calm, Live, Tidy, OneThread, Resting, Deferring
  <2>6. Counts(m, n, "notOk") /\ (Suspect(n) => Suspect(m))
    BY <2>4 DEF Edited, SameMarks, Counts, Suspect
  <2>7. NoWayBack(m) => NoWayBack(n)
    BY <1>0, <2>1, <2>4 DEF Edited, NoWayBack, OffSubmitting, Named
  <2> QED BY <2>5, <2>6, <2>7 DEF Follows, n
<1>4. CASE m.todo = <<"confirmAborted">>
  <2>1. m.pending = "confirming" /\ Head(m.todo) = "confirmAborted" /\ m.state = "confirming"
    BY <1>4, TodoCases DEF Calm, OneThread
  <2> DEFINE d == done(p)
  <2>2. n = Queue(d, "notConfirmed")
    BY <2>1 DEF RunTask, p
  <2>3. Edited(p, d, "none", p.todo, p.diagnosing, p.submitIssue, p.isBadTx)
    BY <1>2, doneEdits
  <2> HIDE DEF n, d
  <2>4. Edited(m, d, "none", <<>>, NoDiagnosis, m.submitIssue, m.isBadTx)
    BY <1>1, <2>3 DEF Edited, SameMarks
  <2>5. d \in MgrStates /\ Append(d.todo, "notConfirmed") = <<"notConfirmed">>
    BY <2>4 DEF Edited
  <2>6. Edited(d, n, d.pending, Append(d.todo, "notConfirmed"), d.diagnosing, d.submitIssue, d.isBadTx)
    BY <2>2, <2>5, QueueEdits DEF Tasks
  <2>7. Edited(m, n, "none", <<"notConfirmed">>, NoDiagnosis, m.submitIssue, m.isBadTx)
    BY <2>4, <2>5, <2>6 DEF Edited, SameMarks
  <2>8. Calm(n)
    BY <1>0, <2>1, <2>7 DEF Edited, Calm, Live, Tidy, OneThread, Resting, Deferring
  <2>9. Counts(m, n, "notOk") /\ (Suspect(n) => Suspect(m))
    BY <2>7 DEF Edited, SameMarks, Counts, Suspect
  <2>10. NoWayBack(m) => NoWayBack(n)
    BY <1>0, <2>1, <2>7 DEF Edited, NoWayBack, OffSubmitting, Named, Deferring
  <2> QED BY <2>8, <2>9, <2>10 DEF Follows, n
<1>5. CASE m.todo = <<"notConfirmed">>
  <2>1. m.pending \in {"none", "submitting"} /\ Head(m.todo) = "notConfirmed"
    <3>1. m.pending \in {"none", "submitting", "confirming"}
      BY <1>0 DEF MgrStates, Activities
    <3>2. m.pending # "confirming" /\ Head(m.todo) = "notConfirmed"
      BY <1>5, TodoCases
    <3> QED BY <3>1, <3>2
  <2>2. n = transition(p, "notOk")
    BY <2>1 DEF RunTask, p
  <2>3. "notOk" \in Performed \ {"otherSubmitterProblem"}
    BY DEF Performed
  <2>4. CASE m.pending = "none"
    <3>1. Edited(m, p, "none", <<>>, NoDiagnosis, m.submitIssue, m.isBadTx)
      BY <1>1, <2>4
    <3>2. p.isBadTx => Suspect(m)
      BY <1>2 DEF Suspect
    <3>3. NoWayBack(m) =>
             /\ ~Named(m)
             /\ p.isBadTx => /\ m.state = "submitting" => p.submitIssue /\ ~Deferring(m)
                             /\ Deferring(m) => m.deferred.to = "confirming"
      BY <1>0, <1>2 DEF NoWayBack, OffSubmitting
    <3>4. Follows(m, transition(p, "notOk"), "notOk")
      BY <2>3, <3>1, <3>2, <3>3, EditedFollows
    <3> QED BY <2>2, <3>4
  <2>5. CASE m.pending = "submitting"
    <3>1. m.state = "submitting" /\ ~Deferring(m) /\ m.submitIssue = FALSE
      BY <1>0, <1>5, <2>5 DEF Calm, OneThread, Aborted, MgrStates
    <3>2. p.state = "submitting" /\ ~Deferring(p) /\ ~p.submitIssue /\ ~p.destroyed
      BY <1>1, <3>1 DEF Edited, Deferring, Calm, Live
    <3>3. Accepts(p, "notOk")
      BY <3>2 DEF Accepts, Deferring, To, NoState
    <3>4. PICK r : Taken(p, r) /\ Outcome(r, n, "notOk") /\ r.released = p.released
      BY <1>2, <2>2, <2>3, <3>2, <3>3, TransitionEffect
    <3>5. Drops(r, n) /\ SameMarks(r, n)
      BY <3>2, <3>4 DEF Taken, Outcome, SubmitOutcome
    <3> HIDE DEF n
    <3>6. /\ n \in MgrStates
          /\ n.submitter = m.submitter /\ n.started = m.started /\ n.destroyed = m.destroyed
          /\ n.state = m.state /\ n.deferred = NoAction /\ n.released = m.released
          /\ SameMarks(m, n)
          /\ n.pending = m.pending /\ n.todo = <<>> /\ n.diagnosing = NoDiagnosis
          /\ n.submitIssue = m.submitIssue /\ n.isBadTx = m.isBadTx
      BY <1>1, <3>4, <3>5 DEF Edited, Taken, Drops, Kept, Stays, SameMarks
    <3>7. Calm(n)
      BY <1>0, <2>5, <3>1, <3>6 DEF Calm, Live, Tidy, OneThread, Resting, Deferring
    <3>8. Counts(m, n, "notOk") /\ (Suspect(n) => Suspect(m))
      BY <3>6 DEF SameMarks, Counts, Suspect
    <3>9. NoWayBack(m) => NoWayBack(n)
      BY <1>0, <2>5, <3>1, <3>6 DEF NoWayBack, OffSubmitting, Named
    <3> QED BY <3>7, <3>8, <3>9 DEF Follows, n
  <2> QED BY <2>1, <2>4, <2>5
<1> QED BY <1>3, <1>4, <1>5, TodoCases

\* The timer of a deferred action fires while it is the manager's own,
LEMMA OwnTimerCalm ==
    ASSUME NEW m, Calm(m), m.todo = <<>>, Deferring(m)
    PROVE  Follows(m, OwnTimer(m), "none")
<1> DEFINE n == OwnTimer(m)
<1>1. m \in MgrStates /\ ~m.destroyed /\ Tidy(m) /\ m.pending = "none" /\ m.diagnosing = NoDiagnosis
  BY DEF Calm, Live, OneThread, Aborted
<1>2. PICK o : /\ Taken(m, o) /\ o.released = m.released
               /\ Begins(o, n, m.deferred.to) /\ SameMarks(o, n)
  BY <1>1, OwnTimerEffect
<1>3. m.deferred.to \in Activities
  BY <1>1, DeferredType DEF Activities
<1> HIDE DEF n
<1>4. /\ n \in MgrStates /\ Live(n) /\ n.deferred = NoAction /\ n.state = m.deferred.to
      /\ n.pending = n.state /\ n.todo = <<>> /\ n.diagnosing = NoDiagnosis /\ n.isBadTx = m.isBadTx
      /\ n.state = "submitting" => ~n.submitIssue
      /\ n.released = m.released /\ SameMarks(m, n)
  BY <1>1, <1>2 DEF Taken, Begins, Kept, SameMarks, Calm, Live
<1>5. Calm(n)
  BY <1>3, <1>4 DEF Calm, Tidy, OneThread, Resting, Deferring, Activities
<1>6. Counts(m, n, "none") /\ (Suspect(n) => Suspect(m))
  BY <1>1, <1>3, <1>4 DEF Counts, Suspect, SameMarks, Activities
<1>7. NoWayBack(m) => NoWayBack(n)
  BY <1>4 DEF NoWayBack, OffSubmitting, Named, Deferring
<1> QED BY <1>5, <1>6, <1>7 DEF Follows, n

\* ... or after it was released.
LEMMA ReleasedTimerCalm ==
    ASSUME NEW m, Calm(m), m.todo = <<>>, NEW i \in DOMAIN m.released
    PROVE  Follows(m, ReleasedTimer(m, i), "none")
<1> DEFINE n == ReleasedTimer(m, i)
           action == m.released[i]
<1>1. m \in MgrStates /\ ~m.destroyed /\ Tidy(m)
      /\ (Deferring(m) => m.pending = "none" /\ m.diagnosing = NoDiagnosis)
  BY DEF Calm, Live, OneThread, Aborted
<1>2. Taken(m, n) \/ /\ Deferring(m) /\ action.to \in {"submitting", "confirming"}
                     /\ \E o : Taken(m, o) /\ Begins(o, n, action.to) /\ SameMarks(o, n)
                     /\ \/ action.via # "name" /\ m.state = action.from
                        \/ action.via = "name" /\ m.state \in {"softConfirmed", "confirmed", "failed"}
  BY <1>1, ReleasedEffect
<1>3. \A k \in DOMAIN m.released : m.released[k].via # "name" => m.released[k].from \in Activities
  BY DEF Calm, OneThread
<1>a. Deferring(m) /\ m.deferred.via # "name" => m.state \in Activities /\ m.deferred.from = m.state
  BY DEF Calm, OneThread, Tidy
<1> HIDE DEF n
<1>4. ASSUME NEW o, Taken(m, o)
      PROVE  /\ \A k \in DOMAIN o.released : o.released[k].via # "name" => o.released[k].from \in Activities
             /\ Named(o) => Named(m) \/ (Deferring(m) /\ m.deferred.via = "name")
  BY <1>3, <1>4, <1>a DEF Taken, Named
<1>5. CASE Taken(m, n)
  <2>1. Calm(n)
    BY <1>4, <1>5 DEF Taken, Calm, Live, Tidy, OneThread, Resting, Aborted, Deferring
  <2>2. Counts(m, n, "none") /\ (Suspect(n) => Suspect(m))
    BY <1>5 DEF Taken, Counts, Suspect, SameMarks
  <2>3. NoWayBack(m) => NoWayBack(n)
    <3>1. Named(n) => Named(m) \/ (Deferring(m) /\ m.state \in {"softConfirmed", "failed"})
      BY <1>4, <1>5 DEF Calm, Tidy
    <3> QED BY <1>1, <1>5, <3>1 DEF Taken, NoWayBack, OffSubmitting, Deferring
  <2> QED BY <2>1, <2>2, <2>3 DEF Follows, n
<1>6. ASSUME Deferring(m), action.to \in {"submitting", "confirming"},
             NEW o, Taken(m, o), Begins(o, n, action.to), SameMarks(o, n),
             \/ action.via # "name" /\ m.state = action.from
             \/ action.via = "name" /\ m.state \in {"softConfirmed", "confirmed", "failed"}
      PROVE  Follows(m, n, "none")
  <2>1. /\ n \in MgrStates /\ Live(n) /\ n.deferred = NoAction /\ n.state = action.to
        /\ n.pending = n.state /\ n.todo = <<>> /\ n.diagnosing = NoDiagnosis /\ n.isBadTx = m.isBadTx
        /\ n.state = "submitting" => ~n.submitIssue
        /\ n.released = o.released /\ SameMarks(m, n)
    BY <1>1, <1>6 DEF Taken, Begins, Kept, SameMarks, Calm, Live
  <2>2. Calm(n)
    BY <1>4, <1>6, <2>1 DEF Calm, Tidy, OneThread, Resting, Deferring
  <2>3. Counts(m, n, "none") /\ (Suspect(n) => Suspect(m))
    BY <1>1, <1>6, <2>1 DEF Counts, Suspect, SameMarks
  <2>4. NoWayBack(m) => NoWayBack(n)
    <3>1. SUFFICES ASSUME NoWayBack(m) PROVE NoWayBack(n)
      OBVIOUS
    <3>2. ~Named(m)
      BY <1>6, <3>1 DEF NoWayBack
    <3>3. action.via # "name" /\ m.state = action.from /\ m.state \in Activities
      BY <1>3, <1>6, <3>2 DEF Named
    <3>4. ~m.isBadTx
      BY <1>6, <3>1, <3>3 DEF NoWayBack, OffSubmitting, Activities
    <3>5. m.deferred.via # "name"
      BY <1>6, <3>3 DEF Calm, Tidy, Activities
    <3>6. ~Named(n)
      BY <1>4, <1>6, <2>1, <3>2, <3>5 DEF Named
    <3> QED BY <2>1, <3>4, <3>6 DEF NoWayBack, OffSubmitting
  <2> QED BY <2>2, <2>3, <2>4 DEF Follows
<1> QED BY <1>2, <1>5, <1>6 DEF n

\* The timeout of an activity
LEMMA TimeoutCalm ==
    ASSUME NEW m, Calm(m), m.todo = <<>>, m.pending # "none"
    PROVE  Follows(m, TimeoutTimer(m), "timeout")
<1> DEFINE n == TimeoutTimer(m)
           a == [m EXCEPT !.armed = FALSE]
           t == transition(a, "timeout")
<1>0. /\ m \in MgrStates /\ ~m.destroyed /\ m.state = m.pending /\ m.state \in Activities
      /\ m.deferred = NoAction /\ m.diagnosing = NoDiagnosis /\ (NoWayBack(m) => ~Named(m))
  BY DEF Calm, Live, OneThread, Aborted, Deferring, NoWayBack, MgrStates
<1>1. Edited(m, a, m.pending, <<>>, NoDiagnosis, m.submitIssue, m.isBadTx)
  BY <1>0, ArmedEdits
<1> HIDE DEF a
<1>2. /\ a \in MgrStates /\ ~a.destroyed /\ a.state = m.state /\ a.deferred = NoAction /\ a.pending = m.pending
      /\ a.todo = <<>> /\ a.released = m.released
  BY <1>0, <1>1 DEF Edited
<1>3. Accepts(a, "timeout") /\ ~Throws(m, "timeout")
  BY <1>0, <1>2 DEF Accepts, Throws, To, NoState, Activities
<1>4. n = Abort(t)
  BY <1>0, <1>3 DEF TimeoutTimer, a
<1>5. PICK o : Taken(a, o) /\ Outcome(o, t, "timeout") /\ o.released = a.released
  BY <1>2, <1>3, TransitionEffect DEF Performed, Deferring
<1>6. Waits(o, t, m.state) /\ SameMarks(o, t)
  BY <1>0, <1>2, <1>5 DEF Taken, Outcome, SubmitOutcome, ConfirmOutcome, Activities
<1> HIDE DEF t
<1>7. /\ t \in MgrStates /\ t.deferred = Later("state", m.state, m.state) /\ t.state = m.state
      /\ t.pending = m.pending /\ t.todo = <<>> /\ t.released = m.released /\ t.diagnosing = NoDiagnosis
      /\ t.submitIssue = m.submitIssue /\ t.isBadTx = m.isBadTx /\ t.confirmations = m.confirmations
      /\ t.started = m.started /\ t.destroyed = m.destroyed
  BY <1>1, <1>5, <1>6 DEF Edited, Taken, Waits, Kept, Stays, SameMarks
<1> DEFINE tag == IF m.pending = "submitting" THEN "submitAborted" ELSE "confirmAborted"
<1>8. n = Queue(t, tag) /\ tag \in Tasks
  BY <1>4, <1>7 DEF Abort, Tasks
<1> HIDE DEF tag, n
<1>9. Append(t.todo, tag) = <<tag>>
  BY <1>7
<1>10. Edited(t, n, t.pending, <<tag>>, t.diagnosing, t.submitIssue, t.isBadTx)
  BY <1>7, <1>8, <1>9, QueueEdits
<1>11. /\ n \in MgrStates /\ n.deferred = Later("state", m.state, m.state) /\ n.state = m.state
       /\ n.pending = m.pending /\ n.todo = <<tag>> /\ n.released = m.released /\ n.diagnosing = NoDiagnosis
       /\ n.submitIssue = m.submitIssue /\ n.isBadTx = m.isBadTx /\ n.confirmations = m.confirmations
       /\ n.started = m.started /\ n.destroyed = m.destroyed
  BY <1>7, <1>10 DEF Edited, SameMarks
<1>12. Tidy(n) /\ Aborted(n)
  BY <1>0, <1>11 DEF Tidy, Aborted, Later, Activities, tag
<1>13. OneThread(n)
  <2>1. n.todo # <<"notConfirmed">>
    BY <1>12 DEF Aborted
  <2> QED BY <1>0, <1>11, <1>12, <2>1 DEF Calm, OneThread
<1>14. Calm(n)
  BY <1>11, <1>12, <1>13 DEF Calm, Live
<1>15. Counts(m, n, "timeout") /\ (Suspect(n) => Suspect(m))
  BY <1>11 DEF Counts, Suspect
<1>16. NoWayBack(m) => NoWayBack(n)
  <2>1. n.deferred.to = m.state /\ n.todo # <<>>
    BY <1>11 DEF Later
  <2> QED BY <1>0, <1>11, <2>1 DEF NoWayBack, OffSubmitting, Named, Activities
<1> QED BY <1>14, <1>15, <1>16 DEF Follows, n

\* the user's resubmission: only a failed manager with nothing deferred takes it
LEMMA ResubmitCalm ==
    ASSUME NEW m, Calm(m)
    PROVE  LET n == transition(m, "resubmit")
           IN  Calm(n) /\ Counts(m, n, "resubmit") /\ (Suspect(n) => Suspect(m))
<1> DEFINE n == transition(m, "resubmit")
<1>1. CASE ~Accepts(m, "resubmit")
  <2>1. n = m
    BY <1>1 DEF transition
  <2> QED BY <2>1 DEF Counts
<1>2. CASE Accepts(m, "resubmit")
  <2>1. m.state = "failed"
    BY <1>2 DEF Accepts, To, NoState
  <2>2. Ready(m)
    <3>1. m.pending # "failed"
      BY DEF Calm, MgrStates, Activities
    <3> QED BY <2>1, <3>1 DEF Ready, Calm, OneThread, Aborted
  <2>3. "resubmit" \in Performed \ {"otherSubmitterProblem"}
    BY DEF Performed
  <2>4. /\ n \in MgrStates /\ Live(n) /\ Tidy(n) /\ OneThread(n)
        /\ n.todo = m.todo /\ n.isBadTx = m.isBadTx /\ n.diagnosing = NoDiagnosis
        /\ "resubmit" = "notOk" => n.pending # "confirming"
    BY <2>2, <2>3, ReadyMoves
  <2>5. Counts(m, n, "resubmit")
    BY <2>2, <2>3, ReadyCounts
  <2> QED BY <2>4, <2>5 DEF Calm, Suspect
<1> QED BY <1>1, <1>2

\* The manager starts.
LEMMA startupCalm ==
    ASSUME NEW m \in MgrStates, Fresh(m), ~m.started
    PROVE  LET n == startup(m)
           IN  /\ n \in MgrStates /\ n.started /\ n.destroyed = m.destroyed /\ n.state = m.state /\ n.todo = <<>>
               /\ n.isBadTx = m.isBadTx /\ n.diagnosing = m.diagnosing /\ n.confirmations = 0
               /\ ~m.destroyed => Calm(n) /\ NoWayBack(n)
<1> DEFINE n == startup(m)
           o == [m EXCEPT !.started = TRUE]
<1>1. /\ o \in MgrStates /\ o.started /\ o.destroyed = m.destroyed /\ o.state = m.state
      /\ o.pending = m.pending /\ o.todo = m.todo /\ o.isBadTx = m.isBadTx /\ o.diagnosing = m.diagnosing
      /\ o.confirmations = m.confirmations /\ o.deferred = m.deferred /\ o.released = m.released
      /\ o.submitIssue = m.submitIssue
  BY DEF MgrStates
<1>2. n = StartActivity(o, "submitting", ClashOf("submitting"))
  BY DEF startup, trySubmit, ClashOf
<1> HIDE DEF o
<1>3. /\ Kept(o, n) /\ SameMarks(o, n)
      /\ n.state = o.state /\ n.deferred = o.deferred /\ n.submitIssue = o.submitIssue
      /\ o.pending = "none" => n.pending = "submitting" /\ n.todo = o.todo
  BY <1>1, <1>2, StartEffect DEF Activities
<1> HIDE DEF n
<1>4. /\ n \in MgrStates /\ n.started /\ n.destroyed = m.destroyed /\ n.state = "submitting" /\ n.todo = <<>>
      /\ ~n.isBadTx /\ n.isBadTx = m.isBadTx /\ n.diagnosing = NoDiagnosis /\ n.confirmations = 0
      /\ n.deferred = NoAction /\ n.released = <<>> /\ ~n.submitIssue /\ n.pending = "submitting"
  BY <1>1, <1>3 DEF Fresh, Kept, SameMarks, Deferring
<1>5. ~m.destroyed => Calm(n)
  BY <1>4 DEF Calm, Live, Tidy, OneThread, Resting, Deferring
<1>6. NoWayBack(n)
  BY <1>4 DEF NoWayBack, OffSubmitting, Named
<1> QED BY <1>4, <1>5, <1>6 DEF Fresh, n

-----------------------------------------------------------------------------
(* The handlers of a destroyed manager: what is under way ends, and no more *)

Quiets(m, n) == NoClash(n) /\ (Suspect(n) => Suspect(m))

\* A destroyed manager only loses tasks and activities: no clash is added.
\* Tasks appended that are no activity clash with none.
LEMMA NoClashSeq ==
    ASSUME NEW s \in Seq(Tasks), \A i \in DOMAIN s : s[i] \notin Clashes
    PROVE  /\ s # <<>> => /\ Tail(s) \in Seq(Tasks) /\ \A i \in DOMAIN Tail(s) : Tail(s)[i] \notin Clashes
                          /\ Head(s) \in Tasks \ Clashes
           /\ \A x \in Tasks \ Clashes :
                \A i \in DOMAIN Append(s, x) : Append(s, x)[i] \notin Clashes
<1>1. CASE s # <<>>
  <2>1. /\ Tail(s) \in Seq(Tasks) /\ Len(Tail(s)) = Len(s) - 1 /\ Len(s) \in Nat /\ Len(s) > 0
        /\ \A i \in 1 .. (Len(s) - 1) : Tail(s)[i] = s[i + 1]
    BY <1>1
  <2>2. DOMAIN Tail(s) = 1 .. (Len(s) - 1) /\ DOMAIN s = 1 .. Len(s)
    BY <2>1
  <2>3. ASSUME NEW i \in DOMAIN Tail(s) PROVE Tail(s)[i] \notin Clashes
    <3>1. i \in 1 .. (Len(s) - 1)
      BY <2>2
    <3>2. Tail(s)[i] = s[i + 1] /\ i + 1 \in DOMAIN s
      BY <2>1, <2>2, <3>1
    <3> QED BY <3>2
  <2>4. Head(s) = s[1] /\ 1 \in DOMAIN s /\ Head(s) \in Tasks
    BY <1>1, <2>1, <2>2
  <2>5. Head(s) \notin Clashes
    BY <2>4
  <2> QED BY <2>1, <2>3, <2>4, <2>5
<1>2. ASSUME NEW x \in Tasks \ Clashes, NEW i \in DOMAIN Append(s, x)
      PROVE  Append(s, x)[i] \notin Clashes
  <2>1. /\ DOMAIN Append(s, x) = 1 .. (Len(s) + 1) /\ DOMAIN s = 1 .. Len(s) /\ Len(s) \in Nat
        /\ Append(s, x)[Len(s) + 1] = x
        /\ \A j \in 1 .. Len(s) : Append(s, x)[j] = s[j]
    OBVIOUS
  <2>2. CASE i = Len(s) + 1
    BY <2>1, <2>2
  <2>3. CASE i # Len(s) + 1
    <3>1. i \in DOMAIN s
      BY <2>1, <2>3
    <3> QED BY <2>1, <3>1
  <2> QED BY <2>2, <2>3
<1> QED BY <1>1, <1>2

\* ... and so of a manager's own tasks
LEMMA NoClashTodo ==
    ASSUME NEW m \in MgrStates, NoClash(m), NEW n
    PROVE  /\ n.todo = m.todo => NoClash(n)
           /\ m.todo # <<>> => Head(m.todo) \in Tasks \ Clashes
           /\ m.todo # <<>> /\ n.todo = Tail(m.todo) => NoClash(n)
           /\ \A x \in Tasks \ Clashes : n.todo = Append(m.todo, x) => NoClash(n)
<1>1. m.todo \in Seq(Tasks)
  BY DEF MgrStates
<1> QED BY <1>1, NoClashSeq DEF NoClash

\* an edit and a transition that does nothing
Ended(m, n, diagnosing, bad) ==
    n \in MgrStates /\ NoClash(n) /\ n.isBadTx = bad /\ n.diagnosing = diagnosing /\ n.todo = m.todo

\* an edit of a destroyed manager
LEMMA EditedQuiets ==
    ASSUME NEW m \in MgrStates, NoClash(m), NEW o, NEW pending, NEW diagnosing, NEW issue, NEW bad,
           Edited(m, o, pending, m.todo, diagnosing, issue, bad), m.destroyed,
           NEW tn \in Transitions
    PROVE  Ended(m, transition(o, tn), diagnosing, bad)
<1>1. o \in MgrStates /\ o.destroyed /\ o.todo = m.todo /\ o.isBadTx = bad /\ o.diagnosing = diagnosing
  BY DEF Edited
<1>2. Numb(o, transition(o, tn))
  BY <1>1, TransitionNumb
<1> QED BY <1>1, <1>2, NoClashTodo DEF Numb, Ended

\* its submission is answered
LEMMA SubmitAnsweredQuiets ==
    ASSUME NEW m \in MgrStates, NoClash(m), m.destroyed, NEW outcome \in SubmitOutcomes
    PROVE  LET n == SubmitAnswered(m, outcome)
           IN  NoClash(n) /\ (Suspect(n) => Suspect(m) \/ outcome \in {"unknownUtxo", "otherError"})
<1> DEFINE n == SubmitAnswered(m, outcome)
           d == done(m)
<1>1. Edited(m, d, "none", m.todo, m.diagnosing, m.submitIssue, m.isBadTx)
  BY doneEdits
<1>2. d \in MgrStates
  BY <1>1 DEF Edited
<1>3. ASSUME NEW o, NEW issue, NEW bad, Edited(m, o, "none", m.todo, m.diagnosing, issue, bad),
             NEW tn \in Transitions, n = transition(o, tn), (bad = m.isBadTx) \/ outcome = "otherError"
      PROVE  NoClash(n) /\ (Suspect(n) => Suspect(m) \/ outcome \in {"unknownUtxo", "otherError"})
  <2>1. Ended(m, n, m.diagnosing, bad)
    BY <1>3, EditedQuiets
  <2> QED BY <1>3, <2>1 DEF Suspect, Ended
<1>4. CASE outcome \in {"accepted", "alreadySpent"}
  <2>1. n = transition(d, "submitted")
    BY <1>4 DEF SubmitAnswered
  <2> QED BY <1>1, <1>3, <2>1 DEF Transitions
<1>5. CASE outcome = "tooLate"
  <2>1. n = transition(d, "txExpired")
    BY <1>5 DEF SubmitAnswered
  <2> QED BY <1>1, <1>3, <2>1 DEF Transitions
<1>6. CASE outcome \in {"tooEarly", "rateLimited"}
  <2> DEFINE o == [d EXCEPT !.submitIssue = TRUE]
  <2>1. n = transition(o, "notOk")
    BY <1>6 DEF SubmitAnswered
  <2>2. Edited(d, o, d.pending, d.todo, d.diagnosing, TRUE, d.isBadTx)
    BY <1>2, MarkEdits
  <2> HIDE DEF o, d
  <2>3. Edited(m, o, "none", m.todo, m.diagnosing, TRUE, m.isBadTx)
    BY <1>1, <2>2 DEF Edited, SameMarks
  <2> QED BY <1>3, <2>1, <2>3 DEF Transitions
<1>7. CASE outcome = "otherError"
  <2> DEFINE o == [d EXCEPT !.isBadTx = TRUE]
  <2>1. n = transition(o, "failed")
    BY <1>7 DEF SubmitAnswered
  <2>2. Edited(d, o, d.pending, d.todo, d.diagnosing, d.submitIssue, TRUE)
    BY <1>2, MarkEdits
  <2> HIDE DEF o, d
  <2>3. Edited(m, o, "none", m.todo, m.diagnosing, m.submitIssue, TRUE)
    BY <1>1, <2>2 DEF Edited, SameMarks
  <2> QED BY <1>3, <1>7, <2>1, <2>3 DEF Transitions
<1>8. CASE outcome = "unknownUtxo"
  <2>1. n.todo = d.todo
    BY <1>2, <1>8 DEF SubmitAnswered, MgrStates
  <2>2. n.todo = m.todo
    BY <1>1, <2>1 DEF Edited
  <2> HIDE DEF n
  <2> QED BY <1>8, <2>2, NoClashTodo DEF n
<1> QED BY <1>4, <1>5, <1>6, <1>7, <1>8 DEF SubmitOutcomes

\* its look for confirmations is answered
LEMMA ConfirmAnsweredQuiets ==
    ASSUME NEW m \in MgrStates, NoClash(m), m.destroyed, NEW outcome \in {"found", "missing", "error"}
    PROVE  Quiets(m, ConfirmAnswered(m, outcome))
<1> DEFINE d == done(m)
           missed == transition(d, "notOk")
           told == Queue(missed, "notConfirmed")
<1>1. Edited(m, d, "none", m.todo, m.diagnosing, m.submitIssue, m.isBadTx)
  BY doneEdits
<1>2. ASSUME NEW tn \in Transitions PROVE Quiets(m, transition(d, tn)) /\ transition(d, tn) \in MgrStates
  <2> HIDE DEF d
  <2>1. Ended(m, transition(d, tn), m.diagnosing, m.isBadTx)
    BY <1>1, EditedQuiets
  <2> QED BY <2>1 DEF Quiets, Suspect, Ended
<1>3. Quiets(m, missed) /\ missed \in MgrStates /\ Quiets(m, transition(d, "confirmed"))
  BY <1>2 DEF Transitions
<1>4. Quiets(m, told)
  <2> HIDE DEF missed
  <2>1. Edited(missed, told, missed.pending, Append(missed.todo, "notConfirmed"), missed.diagnosing,
               missed.submitIssue, missed.isBadTx)
    BY <1>3, QueueEdits DEF Tasks
  <2> HIDE DEF told
  <2>2. NoClash(missed) /\ missed \in MgrStates
    BY <1>3 DEF Quiets
  <2>3. NoClash(told)
    BY <2>1, <2>2, NoClashTodo DEF Edited, Tasks, Clashes
  <2> QED BY <1>3, <2>1, <2>3 DEF Quiets, Suspect, Edited
<1>5. ConfirmAnswered(m, outcome) \in {transition(d, "confirmed"), missed, told}
  BY DEF ConfirmAnswered
<1> QED BY <1>3, <1>4, <1>5

\* its diagnosis ends
LEMMA DiagnosisQuiets ==
    ASSUME NEW m \in MgrStates, NoClash(m), m.destroyed, NEW stage \in DiagnosisStages,
           m.diagnosing[stage] > 0
    PROVE  /\ Quiets(m, DiagnosisEnds(m, stage))
           /\ Quiets(m, transition(DiagnosisEnds(m, stage), "confirmed"))
           /\ \A next \in DiagnosisStages : Quiets(m, DiagnosisMoves(m, stage, next))
           /\ \A isBad \in BOOLEAN : Quiets(m, Diagnosed(m, stage, isBad))
<1>1. Suspect(m)
  BY DEF Suspect, NoDiagnosis
<1>2. /\ DiagnosisEnds(m, stage).todo = m.todo /\ DiagnosisEnds(m, stage).destroyed
      /\ \A next \in DiagnosisStages : DiagnosisMoves(m, stage, next).todo = m.todo
      /\ DiagnosisEnds(m, stage) \in MgrStates
  <2>1. DiagnosisEnds(m, stage) \in MgrStates
    BY DiagnosisLawful DEF Lawful
  <2> QED BY <2>1 DEF DiagnosisEnds, DiagnosisMoves, MgrStates
<1>3. NoClash(DiagnosisEnds(m, stage)) /\ \A next \in DiagnosisStages : NoClash(DiagnosisMoves(m, stage, next))
  BY <1>2, NoClashTodo
<1>4. ASSUME NEW o \in MgrStates, o.todo = m.todo, o.destroyed, NEW tn \in Transitions
      PROVE  NoClash(transition(o, tn))
  <2>1. Numb(o, transition(o, tn))
    BY <1>4, TransitionNumb
  <2> QED BY <1>4, <2>1, NoClashTodo DEF Numb
<1>5. ASSUME NEW isBad \in BOOLEAN PROVE NoClash(Diagnosed(m, stage, isBad))
  <2> DEFINE e == DiagnosisEnds(m, stage)
             bad == e.isBadTx \/ isBad
             o == [e EXCEPT !.submitIssue = TRUE, !.isBadTx = bad]
  <2>1. Diagnosed(m, stage, isBad) = transition(o, "notOk")
    <3>1. [e EXCEPT !.submitIssue = TRUE, !.isBadTx = @ \/ isBad] = o
      <4>1. e \in MgrStates
        BY <1>2
      <4> HIDE DEF e
      <4> QED BY <4>1 DEF MgrStates
    <3> QED BY <3>1 DEF Diagnosed
  <2>2. bad \in BOOLEAN
    OBVIOUS
  <2> HIDE DEF bad
  <2>3. Edited(e, o, e.pending, e.todo, e.diagnosing, TRUE, bad)
    BY <1>2, <2>2, MarkEdits
  <2> HIDE DEF o
  <2>4. o \in MgrStates /\ o.todo = m.todo /\ o.destroyed
    BY <1>2, <2>3 DEF Edited
  <2> QED BY <1>4, <2>1, <2>4 DEF Transitions
<1> QED BY <1>1, <1>2, <1>3, <1>4, <1>5 DEF Quiets, Transitions

\* its activity is aborted
LEMMA AbortQuiets ==
    ASSUME NEW m \in MgrStates, NoClash(m)
    PROVE  Quiets(m, Abort(m))
<1> DEFINE tag == IF m.pending = "submitting" THEN "submitAborted" ELSE "confirmAborted"
<1>1. Abort(m) = Queue(m, tag) /\ tag \in Tasks \ Clashes
  BY DEF Abort, Tasks, Clashes
<1> HIDE DEF tag
<1>2. Edited(m, Abort(m), m.pending, Append(m.todo, tag), m.diagnosing, m.submitIssue, m.isBadTx)
  BY <1>1, QueueEdits
<1> QED BY <1>1, <1>2, NoClashTodo DEF Edited, Quiets, Suspect

\* its timers fire
LEMMA TimersQuiet ==
    ASSUME NEW m \in MgrStates, NoClash(m), m.destroyed
    PROVE  /\ Quiets(m, TimeoutTimer(m))
           /\ m.deferred \in DeferredActions => Quiets(m, OwnTimer(m))
           /\ \A i \in DOMAIN m.released : Quiets(m, ReleasedTimer(m, i))
<1>1. Quiets(m, TimeoutTimer(m))
  <2> DEFINE a == [m EXCEPT !.armed = FALSE]
  <2>1. Edited(m, a, m.pending, m.todo, m.diagnosing, m.submitIssue, m.isBadTx)
    BY ArmedEdits
  <2>2. TimeoutTimer(m) = Abort(a)
    BY DEF TimeoutTimer
  <2> HIDE DEF a
  <2>3. a \in MgrStates /\ NoClash(a)
    BY <2>1, NoClashTodo DEF Edited
  <2>4. Quiets(a, Abort(a))
    BY <2>3, AbortQuiets
  <2> QED BY <2>1, <2>2, <2>4 DEF Quiets, Suspect, Edited
<1>2. ASSUME NEW o \in MgrStates, o.todo = m.todo, o.isBadTx = m.isBadTx, o.diagnosing = m.diagnosing,
             o.destroyed, NEW action \in DeferredActions
      PROVE  Quiets(m, Commit(o, action))
  <2>1. CASE action.via = "name"
    <3>1. Commit(o, action) = transition(o, NameOf(action)) /\ NameOf(action) \in Transitions
      BY <2>1 DEF Commit, NameOf, Transitions
    <3>2. Numb(o, transition(o, NameOf(action)))
      BY <1>2, <3>1, TransitionNumb
    <3> QED BY <1>2, <3>1, <3>2, NoClashTodo DEF Numb, Quiets, Suspect
  <2>2. CASE action.via # "name"
    <3>1. Commit(o, action) = o
      BY <1>2, <2>2 DEF Commit, Enter
    <3> QED BY <1>2, <3>1, NoClashTodo DEF Quiets, Suspect
  <2> QED BY <2>1, <2>2
<1>3. ASSUME m.deferred \in DeferredActions PROVE Quiets(m, OwnTimer(m))
  <2> DEFINE o == [m EXCEPT !.deferred = NoAction]
  <2>1. o \in MgrStates /\ o.todo = m.todo /\ o.isBadTx = m.isBadTx /\ o.diagnosing = m.diagnosing /\ o.destroyed
    BY DEF MgrStates
  <2> HIDE DEF o
  <2> QED BY <1>2, <1>3, <2>1 DEF OwnTimer, o
<1>4. ASSUME NEW i \in DOMAIN m.released PROVE Quiets(m, ReleasedTimer(m, i))
  <2> DEFINE action == m.released[i]
             rest == SubSeq(m.released, 1, i - 1) \o SubSeq(m.released, i + 1, Len(m.released))
             d == [m EXCEPT !.released = rest]
  <2>1. action \in DeferredActions /\ rest \in Seq(DeferredActions)
    <3>1. m.released \in Seq(DeferredActions)
      BY DEF MgrStates
    <3> QED BY <3>1, RemovedFrom
  <2>2. ReleasedTimer(m, i) = IF m.deferred = NoAction THEN d ELSE Commit(Release(d), action)
    BY DEF ReleasedTimer
  <2> HIDE DEF rest, action
  <2>3. d \in MgrStates /\ d.todo = m.todo /\ d.isBadTx = m.isBadTx /\ d.diagnosing = m.diagnosing /\ d.destroyed
    BY <2>1 DEF MgrStates
  <2> HIDE DEF d
  <2>4. Taken(d, Release(d))
    BY <2>3, ReleaseTakes
  <2>5. Quiets(m, Commit(Release(d), action))
    BY <1>2, <2>1, <2>3, <2>4 DEF Taken
  <2>6. Quiets(m, d)
    BY <2>3, NoClashTodo DEF Quiets, Suspect
  <2> QED BY <2>2, <2>5, <2>6
<1> QED BY <1>1, <1>3, <1>4

\* its tasks run
LEMMA RunTaskQuiets ==
    ASSUME NEW m \in MgrStates, NoClash(m), m.destroyed, m.todo # <<>>
    PROVE  Quiets(m, RunTask(m))
<1> DEFINE p == [m EXCEPT !.todo = Tail(@)]
           task == Head(m.todo)
<1>1. Edited(m, p, m.pending, Tail(m.todo), m.diagnosing, m.submitIssue, m.isBadTx)
  BY PopEdits
<1>2. task \in Tasks \ Clashes
  BY NoClashTodo
<1>3. RunTask(m) = CASE task = "notConfirmed" -> transition(p, "notOk")
                     [] task = "submitAborted" -> done(p)
                     [] task = "confirmAborted" -> Queue(done(p), "notConfirmed")
  BY <1>2 DEF RunTask, Tasks, Clashes
<1> HIDE DEF p, task
<1>4. p \in MgrStates /\ NoClash(p) /\ p.destroyed /\ p.isBadTx = m.isBadTx /\ p.diagnosing = m.diagnosing
  BY <1>1, NoClashTodo DEF Edited
<1>5. Quiets(m, transition(p, "notOk"))
  <2>1. Numb(p, transition(p, "notOk"))
    BY <1>4, TransitionNumb DEF Transitions
  <2> QED BY <1>4, <2>1, NoClashTodo DEF Numb, Quiets, Suspect
<1> DEFINE d == done(p)
           q == Queue(d, "notConfirmed")
<1>6. Edited(p, d, "none", p.todo, p.diagnosing, p.submitIssue, p.isBadTx)
  BY <1>4, doneEdits
<1> HIDE DEF d
<1>7. d \in MgrStates /\ NoClash(d) /\ Quiets(m, d)
  BY <1>4, <1>6, NoClashTodo DEF Edited, Quiets, Suspect
<1>8. Edited(d, q, d.pending, Append(d.todo, "notConfirmed"), d.diagnosing, d.submitIssue, d.isBadTx)
  BY <1>7, QueueEdits DEF Tasks
<1> HIDE DEF q
<1>9. Quiets(m, q)
  BY <1>7, <1>8, NoClashTodo DEF Edited, Quiets, Suspect, Tasks, Clashes
<1> QED BY <1>2, <1>3, <1>5, <1>7, <1>9 DEF Tasks, Clashes, d, q

\* destroy() itself
LEMMA destroyQuiets ==
    ASSUME NEW m \in MgrStates, NoClash(m)
    PROVE  LET n == destroy(m)
           IN  /\ Quiets(m, n) /\ n.destroyed /\ n.started = m.started
               /\ ~m.started /\ Fresh(m) => Fresh(n)
<1> DEFINE o == [m EXCEPT !.destroyed = TRUE, !.armed = FALSE]
<1>1. /\ o \in MgrStates /\ o.destroyed /\ o.started = m.started /\ o.state = m.state
      /\ o.pending = m.pending /\ o.todo = m.todo /\ o.isBadTx = m.isBadTx /\ o.diagnosing = m.diagnosing
      /\ o.deferred = m.deferred /\ o.released = m.released /\ o.submitIssue = m.submitIssue
      /\ o.successfulSubmit = m.successfulSubmit /\ o.confirmations = m.confirmations
  BY DEF MgrStates
<1>2. destroy(m) = IF m.pending = "none" \/ Aborting(m) THEN o ELSE Abort(o)
  BY DEF destroy
<1> HIDE DEF o
<1>3. NoClash(o) /\ Quiets(m, o)
  BY <1>1, NoClashTodo DEF Quiets, Suspect
<1>4. Quiets(o, Abort(o)) /\ Abort(o).destroyed /\ Abort(o).started = o.started
  <2>1. Quiets(o, Abort(o))
    BY <1>1, <1>3, AbortQuiets
  <2> QED BY <1>1, <2>1 DEF Abort, Queue, MgrStates
<1>5. ~m.started /\ Fresh(m) => destroy(m) = o /\ Fresh(o)
  BY <1>1, <1>2 DEF Fresh, Deferring
<1>6. Quiets(m, Abort(o))
  BY <1>1, <1>4 DEF Quiets, Suspect
<1> QED BY <1>1, <1>2, <1>3, <1>4, <1>5, <1>6

-----------------------------------------------------------------------------
(* The system, undisturbed *)

\* The inductive invariant: the manager m follows one thread of control, and its
\* counters and verdicts are backed by what the service has answered (seen,
\* known); until the user asks for a resubmission, no bad tx finds its way back.
Thread(m, asked, seen, known) ==
    /\ NoClash(m)
    /\ m.pending = "submitting" => m.state = "submitting"
    /\ ~m.started => Fresh(m)
    /\ Live(m) => Calm(m) /\ m.confirmations <= seen
    /\ m.state = "confirmed" => seen > SoftConfirmations
    /\ Suspect(m) => known
    /\ Live(m) /\ asked = 0 => NoWayBack(m)

ThreadInv == reports = 0 => Thread(mgr, resubmits, sightings, rejected)

\* a calm manager's activities do not clash
LEMMA CalmNoClash ==
    ASSUME NEW m, Calm(m)
    PROVE  NoClash(m) /\ (m.pending = "submitting" => m.state = "submitting") /\ m.started
<1>1. m.todo \in {<<>>, <<"notConfirmed">>, <<"submitAborted">>, <<"confirmAborted">>}
  BY DEF Calm, OneThread, Resting, Aborted
<1>2. NoClash(m)
  BY <1>1 DEF NoClash, Clashes
<1> QED BY <1>2 DEF Calm, OneThread, Live

\* a live manager follows a handler
LEMMA LiveThread ==
    ASSUME NEW m \in MgrStates, NEW asked, NEW seen \in 0 .. SoftConfirmations + 1, NEW known,
           Thread(m, asked, seen, known), Live(m),
           NEW n, NEW tn, Calm(n), Counts(m, n, tn),
           NEW asked2, NEW seen2, NEW known2,
           seen2 = IF tn = "confirmed" THEN Bump(seen, SoftConfirmations + 1) ELSE seen,
           Suspect(n) => known2, asked2 = 0 => NoWayBack(n)
    PROVE  Thread(n, asked2, seen2, known2)
<1>1. /\ m.confirmations \in 0 .. SoftConfirmations + 1 /\ SoftConfirmations \in Nat
      /\ m.confirmations <= seen /\ (m.state = "confirmed" => seen > SoftConfirmations)
  BY MgrAssumption DEF MgrStates, Thread
<1>2. n.confirmations <= seen2
  BY <1>1 DEF Counts, Bump
<1>3. n.state = "confirmed" => seen2 > SoftConfirmations
  <2>1. n.confirmations \in 0 .. SoftConfirmations + 1
    BY DEF Calm, MgrStates
  <2>2. seen2 \in Nat /\ seen2 >= seen
    BY <1>1 DEF Bump
  <2> QED BY <1>1, <1>2, <2>1, <2>2 DEF Counts
<1> QED BY <1>2, <1>3, CalmNoClash DEF Thread

\* a destroyed manager, or one that is being destroyed
LEMMA DeadThread ==
    ASSUME NEW m \in MgrStates, NEW asked, NEW seen \in 0 .. SoftConfirmations + 1, NEW known,
           Thread(m, asked, seen, known),
           NEW n, NoClash(n), n.destroyed, n.state = m.state, n.pending \in {m.pending, "none"} \/ m.state = "submitting",
           ~n.started => Fresh(n),
           NEW asked2, NEW seen2, NEW known2, Suspect(n) => known2,
           m.state = "confirmed" => seen2 \in {seen, Bump(seen, SoftConfirmations + 1)}
    PROVE  Thread(n, asked2, seen2, known2)
<1>1. n.state = "confirmed" => seen2 > SoftConfirmations
  BY MgrAssumption DEF Thread, Bump
<1>2. n.pending = "submitting" => n.state = "submitting"
  BY DEF Thread
<1> QED BY <1>1, <1>2 DEF Thread, Live

\* a diagnosis decides nothing of a confirmed tx
LEMMA DiagnosisConfirmed ==
    ASSUME NEW m, Calm(m), NEW stage \in DiagnosisStages, m.diagnosing[stage] > 0
    PROVE  Follows(m, transition(DiagnosisEnds(m, stage), "confirmed"), "confirmed")
<1> DEFINE e == DiagnosisEnds(m, stage)
<1>1. Suspect(m) /\ (NoWayBack(m) => ~Named(m) /\ ~m.isBadTx)
  BY DiagnosisEdited
<1>2. Edited(m, e, "none", <<>>, NoDiagnosis, m.submitIssue, m.isBadTx)
  BY DiagnosisEdited
<1> HIDE DEF e
<1>3. e.isBadTx = m.isBadTx
  BY <1>2 DEF Edited
<1>4. "confirmed" \in Performed \ {"otherSubmitterProblem"}
  BY DEF Performed
<1>5. Follows(m, transition(e, "confirmed"), "confirmed")
  BY <1>1, <1>2, <1>3, <1>4, EditedFollows
<1> QED BY <1>5 DEF e

\* The invariant holds at first,
LEMMA InitThread == Init => ThreadInv
<1> SUFFICES ASSUME Init PROVE ThreadInv
  OBVIOUS
<1>1. PICK submitter \in Submitters : mgr = NewMgr(submitter)
  BY DEF Init
<1>2. /\ mgr.state = "submitting" /\ mgr.pending = "none" /\ mgr.todo = <<>>
      /\ mgr.deferred = NoAction /\ mgr.released = <<>> /\ mgr.diagnosing = NoDiagnosis
      /\ ~mgr.submitIssue /\ ~mgr.isBadTx /\ ~mgr.successfulSubmit /\ mgr.confirmations = 0
      /\ ~mgr.started
  BY <1>1 DEF NewMgr, NoDiagnosis
<1> QED BY <1>2 DEF ThreadInv, Thread, NoClash, Fresh, Deferring, Suspect, Live

ThreadNow == Thread(mgr, resubmits, sightings, rejected)

\* ... nothing happens to a manager before it starts,
LEMMA StartsFirst ==
    ASSUME TypeOK, Fresh(mgr), ~mgr.started, Next
    PROVE  Land \/ Rollback \/ Startup \/ Destroy
<1>1. /\ mgr.pending = "none" /\ mgr.todo = <<>> /\ mgr.deferred = NoAction /\ mgr.released = <<>>
      /\ \A d \in DiagnosisStages : mgr.diagnosing[d] = 0
  BY DEF Fresh, Deferring, NoDiagnosis
<1>2. DOMAIN mgr.released = {}
  BY <1>1
<1>3. ~DeferredFires /\ ~ReleasedFires /\ ~Timeout /\ ~RunQueued
  BY <1>1, <1>2 DEF DeferredFires, ReleasedFires, Timeout, RunQueued, Idle, NoAction
<1>4. ~ConfirmAnswer /\ ~DiagnosisAnswer /\ \A outcome \in SubmitOutcomes : ~SubmitAnswer(outcome)
  BY <1>1 DEF ConfirmAnswer, DiagnosisAnswer, SubmitAnswer, DiagnosisStages
<1>5. ~OtherSubmitterProblem /\ ~UserResubmits
  BY DEF OtherSubmitterProblem, UserResubmits
<1> QED BY <1>3, <1>4, <1>5 DEF Next

\* ... destroy() keeps it,
LEMMA DestroyThread ==
    ASSUME TypeOK, ThreadNow, Destroy
    PROVE  ThreadNow'
<1>1. mgr' = destroy(mgr) /\ ~mgr.destroyed /\ sightings' = sightings /\ rejected' = rejected
  BY DEF Destroy, history
<1>2. mgr \in MgrStates /\ sightings \in 0 .. SoftConfirmations + 1 /\ NoClash(mgr) /\ (Suspect(mgr) => rejected)
      /\ (~mgr.started => Fresh(mgr))
  BY DEF TypeOK, ThreadNow, Thread
<1>3. /\ Quiets(mgr, mgr') /\ mgr'.destroyed /\ mgr'.started = mgr.started
      /\ ~mgr.started /\ Fresh(mgr) => Fresh(mgr')
  BY <1>1, <1>2, destroyQuiets
<1>4. mgr'.state = mgr.state /\ mgr'.pending = mgr.pending
  BY <1>1 DEF destroy, Abort, Queue, TypeOK, MgrStates
<1> QED BY <1>1, <1>2, <1>3, <1>4, DeadThread DEF ThreadNow, Quiets

\* ... and so does the start;
LEMMA StartupThread ==
    ASSUME TypeOK, ThreadNow, Startup
    PROVE  ThreadNow'
<1> DEFINE n == startup(mgr)
<1>1. mgr' = n /\ ~mgr.started /\ sightings' = sightings /\ rejected' = rejected
      /\ mgr \in MgrStates /\ Fresh(mgr) /\ resubmits' = resubmits /\ sightings \in 0 .. SoftConfirmations + 1
  BY DEF Startup, history, calls, TypeOK, ThreadNow, Thread
<1>2. /\ n \in MgrStates /\ n.started /\ n.destroyed = mgr.destroyed /\ n.state = mgr.state /\ n.todo = <<>>
      /\ n.isBadTx = mgr.isBadTx /\ n.diagnosing = mgr.diagnosing /\ n.confirmations = 0
      /\ ~mgr.destroyed => Calm(n) /\ NoWayBack(n)
  BY <1>1, startupCalm
<1> HIDE DEF n
<1>3. n.state = "submitting" /\ NoClash(n) /\ (Suspect(n) => rejected)
  BY <1>1, <1>2 DEF Fresh, NoClash, Suspect, ThreadNow, Thread
<1>4. n.confirmations <= sightings
  BY <1>1, <1>2
<1> QED BY <1>1, <1>2, <1>3, <1>4 DEF ThreadNow, Thread, Live

\* ... it is kept by each step of a destroyed manager,
LEMMA DeadStep ==
    ASSUME TypeOK, ThreadNow, mgr.started, mgr.destroyed, Next, reports' = 0
    PROVE  ThreadNow'
<1>0. mgr \in MgrStates /\ NoClash(mgr) /\ sightings \in 0 .. SoftConfirmations + 1
      /\ (Suspect(mgr) => rejected) /\ (mgr.pending = "submitting" => mgr.state = "submitting")
  BY DEF TypeOK, ThreadNow, Thread
<1>1. Lawful(mgr, mgr')
  BY StepLawful
<1>2. mgr'.destroyed /\ mgr'.started /\ mgr'.state = mgr.state /\ mgr'.pending \in {mgr.pending, "none"}
  BY <1>1 DEF Lawful
<1>3. ASSUME Quiets(mgr, mgr'), rejected' = rejected,
             sightings' \in {sightings, Bump(sightings, SoftConfirmations + 1)}
      PROVE  ThreadNow'
  BY <1>0, <1>2, <1>3, DeadThread DEF ThreadNow, Quiets
<1>4. CASE Land \/ Rollback
  BY <1>0, <1>3, <1>4 DEF Land, Rollback, history, Quiets
<1>5. CASE Startup \/ OtherSubmitterProblem \/ UserResubmits \/ Destroy
  BY <1>5 DEF Startup, OtherSubmitterProblem, UserResubmits, Destroy
<1>6. CASE DeferredFires
  <2>1. mgr' = OwnTimer(mgr) /\ rejected' = rejected /\ sightings' = sightings
    BY <1>6 DEF DeferredFires, history
  <2>2. mgr.deferred \in DeferredActions
    BY <1>0, <1>6 DEF DeferredFires, MgrStates, NoAction
  <2>3. Quiets(mgr, mgr')
    BY <1>0, <2>1, <2>2, TimersQuiet
  <2> QED BY <1>3, <2>1, <2>3
<1>7. CASE ReleasedFires
  <2>1. PICK i \in DOMAIN mgr.released : mgr' = ReleasedTimer(mgr, i)
    BY <1>7 DEF ReleasedFires
  <2>2. rejected' = rejected /\ sightings' = sightings
    BY <1>7 DEF ReleasedFires
  <2>3. Quiets(mgr, mgr')
    BY <1>0, <2>1, TimersQuiet
  <2> QED BY <1>3, <2>2, <2>3
<1>8. CASE Timeout
  <2>1. mgr' = TimeoutTimer(mgr) /\ rejected' = rejected /\ sightings' = sightings
    BY <1>8 DEF Timeout, history
  <2>2. Quiets(mgr, mgr')
    BY <1>0, <2>1, TimersQuiet
  <2> QED BY <1>3, <2>1, <2>2
<1>9. CASE RunQueued
  <2>1. mgr' = RunTask(mgr) /\ rejected' = rejected /\ sightings' = sightings /\ mgr.todo # <<>>
    BY <1>9 DEF RunQueued, history, Idle
  <2>2. Quiets(mgr, mgr')
    BY <1>0, <2>1, RunTaskQuiets
  <2> QED BY <1>3, <2>1, <2>2
<1>10. CASE \E outcome \in SubmitOutcomes : SubmitAnswer(outcome)
  <2>1. PICK outcome \in SubmitOutcomes : SubmitAnswer(outcome)
    BY <1>10
  <2>2. /\ mgr' = SubmitAnswered(mgr, outcome) /\ mgr.state # "confirmed"
        /\ rejected' = (rejected \/ outcome \in {"unknownUtxo", "otherError"})
    BY <1>0, <2>1 DEF SubmitAnswer
  <2>3. NoClash(mgr') /\ (Suspect(mgr') => Suspect(mgr) \/ outcome \in {"unknownUtxo", "otherError"})
    BY <1>0, <2>2, SubmitAnsweredQuiets
  <2>4. Suspect(mgr') => rejected'
    BY <1>0, <2>2, <2>3
  <2> QED BY <1>0, <1>2, <2>2, <2>3, <2>4, DeadThread DEF ThreadNow
<1>11. CASE ConfirmAnswer
  <2>1. PICK outcome \in LookupAnswers : mgr' = ConfirmAnswered(mgr, outcome) /\ Sighted(outcome)
    BY <1>11 DEF ConfirmAnswer
  <2>2. outcome \in {"found", "missing", "error"} /\ rejected' = rejected
    BY <1>11 DEF LookupAnswers, ConfirmAnswer
  <2>3. Quiets(mgr, mgr')
    BY <1>0, <2>1, <2>2, ConfirmAnsweredQuiets
  <2>4. sightings' \in {sightings, Bump(sightings, SoftConfirmations + 1)}
    BY <2>1 DEF Sighted
  <2> QED BY <1>3, <2>2, <2>3, <2>4
<1>12. CASE DiagnosisAnswer
  <2>1. rejected' = rejected
    BY <1>12 DEF DiagnosisAnswer
  <2>2. ASSUME mgr.diagnosing["confirmTx"] > 0, NEW outcome \in LookupAnswers,
               mgr' = ConfirmTxAnswered(mgr, outcome), Sighted(outcome)
        PROVE  ThreadNow'
    <3>1. outcome \in {"found", "missing", "error"} /\ mgr.submitter \in {"getTx", "hasUtxo"}
      BY <1>0, MgrAssumption DEF LookupAnswers, MgrStates
    <3>2. mgr' \in {transition(DiagnosisEnds(mgr, "confirmTx"), "confirmed"), DiagnosisEnds(mgr, "confirmTx"),
                    DiagnosisMoves(mgr, "confirmTx", "inputUtxosAreResolvable")}
      BY <2>2, <3>1 DEF ConfirmTxAnswered
    <3>3. Quiets(mgr, mgr')
      BY <1>0, <2>2, <3>2, DiagnosisQuiets DEF DiagnosisStages
    <3>4. sightings' \in {sightings, Bump(sightings, SoftConfirmations + 1)}
      BY <2>2 DEF Sighted
    <3> QED BY <1>3, <2>1, <3>3, <3>4
  <2>3. ASSUME mgr.diagnosing["inputUtxosAreResolvable"] > 0, NEW resolvable \in BOOLEAN,
               mgr' = ResolvableAnswered(mgr, resolvable), sightings' = sightings
        PROVE  ThreadNow'
    <3>1. \/ \E isBad \in BOOLEAN : mgr' = Diagnosed(mgr, "inputUtxosAreResolvable", isBad)
          \/ mgr' = DiagnosisMoves(mgr, "inputUtxosAreResolvable", "checkTxInputStatus")
      <4>1. (mgr.failedSubmissions >= BadUtxoAttempts) \in BOOLEAN
        OBVIOUS
      <4> QED BY <2>3, <4>1 DEF ResolvableAnswered
    <3>2. Quiets(mgr, mgr')
      BY <1>0, <2>3, <3>1, DiagnosisQuiets DEF DiagnosisStages
    <3> QED BY <1>3, <2>1, <2>3, <3>2
  <2>4. ASSUME mgr.diagnosing["checkTxInputStatus"] > 0, NEW status \in InputStatuses,
               mgr' = InputStatusAnswered(mgr, status), sightings' = sightings
        PROVE  ThreadNow'
    <3>1. \E isBad \in BOOLEAN : mgr' = Diagnosed(mgr, "checkTxInputStatus", isBad)
      <4> DEFINE isBad == status \in {"bad", "expired"}
      <4>1. mgr' = Diagnosed(mgr, "checkTxInputStatus", isBad) /\ isBad \in BOOLEAN
        BY <2>4 DEF InputStatusAnswered
      <4> HIDE DEF isBad
      <4> QED BY <4>1
    <3>2. Quiets(mgr, mgr')
      BY <1>0, <2>4, <3>1, DiagnosisQuiets DEF DiagnosisStages
    <3> QED BY <1>3, <2>1, <2>4, <3>2
  <2> QED BY <1>12, <2>2, <2>3, <2>4 DEF DiagnosisAnswer
<1> QED BY <1>4, <1>5, <1>6, <1>7, <1>8, <1>9, <1>10, <1>11, <1>12 DEF Next

\* ... and by each step of a live one.
LEMMA LiveStep ==
    ASSUME TypeOK, ThreadNow, mgr.started, ~mgr.destroyed, Next, ~Destroy, reports = 0, reports' = 0
    PROVE  ThreadNow' /\ Live(mgr')
<1>0. mgr \in MgrStates /\ sightings \in 0 .. SoftConfirmations + 1 /\ Live(mgr) /\ Calm(mgr)
      /\ (Suspect(mgr) => rejected) /\ (resubmits = 0 => NoWayBack(mgr))
  BY DEF TypeOK, ThreadNow, Thread, Live
<1>1. ASSUME NEW tn, Follows(mgr, mgr', tn), rejected' = rejected, resubmits' = resubmits,
             sightings' = IF tn = "confirmed" THEN Bump(sightings, SoftConfirmations + 1) ELSE sightings
      PROVE  ThreadNow' /\ Live(mgr')
  <2>1. Calm(mgr') /\ Counts(mgr, mgr', tn) /\ (Suspect(mgr') => rejected') /\ (resubmits' = 0 => NoWayBack(mgr'))
    BY <1>0, <1>1 DEF Follows
  <2>2. Thread(mgr, resubmits, sightings, rejected)
    BY DEF ThreadNow
  <2>3. Thread(mgr', resubmits', sightings', rejected')
    BY <1>0, <1>1, <2>1, <2>2, LiveThread
  <2> QED BY <2>1, <2>3 DEF ThreadNow, Calm
<1>4. CASE Land \/ Rollback
  BY <1>0, <1>4 DEF Land, Rollback, history, calls, ThreadNow
<1>5. CASE Startup
  BY <1>5 DEF Startup
<1>o. CASE OtherSubmitterProblem
  BY <1>o DEF OtherSubmitterProblem
<1>6. CASE DeferredFires
  <2>1. mgr' = OwnTimer(mgr) /\ rejected' = rejected /\ sightings' = sightings /\ resubmits' = resubmits
    BY <1>6 DEF DeferredFires, history, calls
  <2>2. mgr.todo = <<>> /\ Deferring(mgr)
    BY <1>6 DEF DeferredFires, NoAction, Idle, Deferring
  <2>3. Follows(mgr, mgr', "none")
    BY <1>0, <2>1, <2>2, OwnTimerCalm
  <2> QED BY <1>1, <2>1, <2>3
<1>7. CASE ReleasedFires
  <2>1. PICK i \in DOMAIN mgr.released : mgr' = ReleasedTimer(mgr, i)
    BY <1>7 DEF ReleasedFires
  <2>2. rejected' = rejected /\ sightings' = sightings /\ resubmits' = resubmits /\ mgr.todo = <<>>
    BY <1>7 DEF ReleasedFires, calls, Idle
  <2>3. Follows(mgr, mgr', "none")
    BY <1>0, <2>1, <2>2, ReleasedTimerCalm
  <2> QED BY <1>1, <2>2, <2>3
<1>8. CASE Timeout
  <2>1. mgr' = TimeoutTimer(mgr) /\ rejected' = rejected /\ sightings' = sightings /\ resubmits' = resubmits
        /\ mgr.todo = <<>> /\ mgr.pending # "none"
    BY <1>8 DEF Timeout, history, calls, Idle
  <2>2. Follows(mgr, mgr', "timeout")
    BY <1>0, <2>1, TimeoutCalm
  <2> QED BY <1>1, <2>1, <2>2
<1>9. CASE RunQueued
  <2>1. mgr' = RunTask(mgr) /\ rejected' = rejected /\ sightings' = sightings /\ resubmits' = resubmits
        /\ mgr.todo # <<>>
    BY <1>9 DEF RunQueued, history, calls, Idle
  <2>2. Follows(mgr, mgr', "notOk")
    BY <1>0, <2>1, RunTaskCalm
  <2> QED BY <1>1, <2>1, <2>2
<1>10. CASE \E outcome \in SubmitOutcomes : SubmitAnswer(outcome)
  <2>1. PICK outcome \in SubmitOutcomes : SubmitAnswer(outcome)
    BY <1>10
  <2>2. /\ mgr' = SubmitAnswered(mgr, outcome) /\ mgr.todo = <<>> /\ mgr.pending = "submitting"
        /\ sightings' = IF outcome \in Acknowledged THEN 0 ELSE sightings
        /\ rejected' = (rejected \/ outcome \in {"unknownUtxo", "otherError"})
        /\ resubmits' = resubmits
    BY <2>1 DEF SubmitAnswer, Idle, calls
  <2>3. /\ Calm(mgr') /\ Counts(mgr, mgr', outcome)
        /\ Suspect(mgr') => mgr.isBadTx \/ outcome \in {"unknownUtxo", "otherError"}
        /\ outcome \in Acknowledged => mgr'.confirmations = 0 /\ mgr'.state = "confirming"
        /\ NoWayBack(mgr) => NoWayBack(mgr')
    BY <1>0, <2>2, SubmitAnsweredCalm
  <2>4. (Suspect(mgr') => rejected') /\ (resubmits' = 0 => NoWayBack(mgr'))
    BY <1>0, <2>2, <2>3 DEF Suspect
  <2>5. CASE outcome \in Acknowledged
    <3>1. mgr'.confirmations <= sightings' /\ mgr'.state # "confirmed"
      BY <2>2, <2>3, <2>5
    <3> QED BY <2>3, <2>4, <3>1, CalmNoClash DEF ThreadNow, Thread, Calm
  <2>6. CASE outcome \notin Acknowledged
    <3>1. outcome # "confirmed" /\ sightings' = sightings
      BY <2>2, <2>6 DEF SubmitOutcomes
    <3> QED BY <1>0, <2>3, <2>4, <3>1, LiveThread DEF ThreadNow, Calm
  <2> QED BY <2>5, <2>6
<1>11. CASE ConfirmAnswer
  <2>1. PICK outcome \in LookupAnswers : mgr' = ConfirmAnswered(mgr, outcome) /\ Sighted(outcome)
    BY <1>11 DEF ConfirmAnswer
  <2>2. outcome \in {"found", "missing", "error"} /\ rejected' = rejected /\ resubmits' = resubmits
        /\ mgr.todo = <<>> /\ mgr.pending = "confirming"
    BY <1>11 DEF LookupAnswers, ConfirmAnswer, calls, Idle
  <2> DEFINE tn == IF outcome = "found" THEN "confirmed" ELSE "notOk"
  <2>3. Follows(mgr, mgr', tn)
    BY <1>0, <2>1, <2>2, ConfirmAnsweredCalm
  <2>4. sightings' = IF tn = "confirmed" THEN Bump(sightings, SoftConfirmations + 1) ELSE sightings
    BY <2>1 DEF Sighted
  <2> HIDE DEF tn
  <2> QED BY <1>1, <2>2, <2>3, <2>4
<1>12. CASE DiagnosisAnswer
  <2>1. rejected' = rejected /\ resubmits' = resubmits
    BY <1>12 DEF DiagnosisAnswer, calls
  <2>2. ASSUME mgr.diagnosing["confirmTx"] > 0, NEW outcome \in LookupAnswers,
               mgr' = ConfirmTxAnswered(mgr, outcome), Sighted(outcome)
        PROVE  ThreadNow' /\ Live(mgr')
    <3>1. outcome \in {"found", "missing", "error"} /\ mgr.submitter \in {"getTx", "hasUtxo"}
      BY <1>0, MgrAssumption DEF LookupAnswers, MgrStates
    <3>2. CASE outcome = "found"
      <4>1. mgr' = transition(DiagnosisEnds(mgr, "confirmTx"), "confirmed")
        BY <2>2, <3>2 DEF ConfirmTxAnswered
      <4>2. Follows(mgr, mgr', "confirmed")
        BY <1>0, <2>2, <4>1, DiagnosisConfirmed DEF DiagnosisStages
      <4>3. sightings' = Bump(sightings, SoftConfirmations + 1)
        BY <2>2, <3>2 DEF Sighted
      <4> QED BY <1>1, <2>1, <4>2, <4>3
    <3>3. CASE outcome # "found"
      <4>1. mgr' \in {DiagnosisEnds(mgr, "confirmTx"), DiagnosisMoves(mgr, "confirmTx", "inputUtxosAreResolvable")}
        BY <2>2, <3>1, <3>3 DEF ConfirmTxAnswered
      <4>2. Follows(mgr, mgr', "none")
        BY <1>0, <2>2, <4>1, DiagnosisWaits DEF DiagnosisStages
      <4>3. sightings' = sightings
        BY <2>2, <3>3 DEF Sighted
      <4> QED BY <1>1, <2>1, <4>2, <4>3
    <3> QED BY <3>2, <3>3
  <2>3. ASSUME mgr.diagnosing["inputUtxosAreResolvable"] > 0, NEW resolvable \in BOOLEAN,
               mgr' = ResolvableAnswered(mgr, resolvable), sightings' = sightings
        PROVE  ThreadNow' /\ Live(mgr')
    <3>1. CASE resolvable
      <4> DEFINE isBad == mgr.failedSubmissions >= BadUtxoAttempts
      <4>1. mgr' = Diagnosed(mgr, "inputUtxosAreResolvable", isBad) /\ isBad \in BOOLEAN
        BY <2>3, <3>1 DEF ResolvableAnswered
      <4> HIDE DEF isBad
      <4>2. Follows(mgr, mgr', "notOk")
        BY <1>0, <2>3, <4>1, DiagnosedCalm DEF DiagnosisStages
      <4> QED BY <1>1, <2>1, <2>3, <4>2
    <3>2. CASE ~resolvable
      <4>1. mgr' = DiagnosisMoves(mgr, "inputUtxosAreResolvable", "checkTxInputStatus")
        BY <2>3, <3>2 DEF ResolvableAnswered
      <4>2. Follows(mgr, mgr', "none")
        BY <1>0, <2>3, <4>1, DiagnosisWaits DEF DiagnosisStages
      <4> QED BY <1>1, <2>1, <2>3, <4>2
    <3> QED BY <3>1, <3>2
  <2>4. ASSUME mgr.diagnosing["checkTxInputStatus"] > 0, NEW status \in InputStatuses,
               mgr' = InputStatusAnswered(mgr, status), sightings' = sightings
        PROVE  ThreadNow' /\ Live(mgr')
    <3> DEFINE isBad == status \in {"bad", "expired"}
    <3>1. mgr' = Diagnosed(mgr, "checkTxInputStatus", isBad) /\ isBad \in BOOLEAN
      BY <2>4 DEF InputStatusAnswered
    <3> HIDE DEF isBad
    <3>2. Follows(mgr, mgr', "notOk")
      BY <1>0, <2>4, <3>1, DiagnosedCalm DEF DiagnosisStages
    <3> QED BY <1>1, <2>1, <2>4, <3>2
  <2> QED BY <1>12, <2>2, <2>3, <2>4 DEF DiagnosisAnswer
<1>13. CASE UserResubmits
  <2>1. mgr' = transition(mgr, "resubmit") /\ resubmits' = resubmits + 1 /\ resubmits \in Nat
        /\ rejected' = rejected /\ sightings' = sightings
    BY <1>13, LoneAssumption DEF UserResubmits, history, TypeOK
  <2>2. Calm(mgr') /\ Counts(mgr, mgr', "resubmit") /\ (Suspect(mgr') => Suspect(mgr))
    BY <1>0, <2>1, ResubmitCalm
  <2>3. resubmits' # 0
    BY <2>1
  <2>4. Thread(mgr, resubmits, sightings, rejected) /\ (Suspect(mgr') => rejected') /\ "resubmit" # "confirmed"
    BY <1>0, <2>1, <2>2 DEF ThreadNow
  <2>5. Thread(mgr', resubmits', sightings', rejected')
    BY <1>0, <2>1, <2>2, <2>3, <2>4, LiveThread
  <2> QED BY <2>2, <2>5 DEF ThreadNow, Calm
<1> QED BY <1>4, <1>5, <1>o, <1>6, <1>7, <1>8, <1>9, <1>10, <1>11, <1>12, <1>13 DEF Next

\* reports of other submitters are not taken back
LEMMA ReportsGrow == ASSUME TypeOK, [Next]_vars, reports' = 0 PROVE reports = 0
<1>1. reports \in Nat /\ (reports' = reports \/ reports' = reports + 1)
  BY LoneAssumption
     DEF TypeOK, Next, Land, Rollback, Startup, DeferredFires, ReleasedFires, Timeout, RunQueued,
         SubmitAnswer, ConfirmAnswer, DiagnosisAnswer, OtherSubmitterProblem, UserResubmits, Destroy,
         calls, vars
<1> QED BY <1>1

\* Every step keeps the invariant:
LEMMA NextThread == ASSUME TypeOK, ThreadInv, [Next]_vars PROVE ThreadInv'
<1> SUFFICES ASSUME reports' = 0 PROVE ThreadNow'
  BY DEF ThreadInv, ThreadNow
<1>1. ThreadNow /\ reports = 0
  BY ReportsGrow DEF ThreadInv, ThreadNow
<1>2. CASE UNCHANGED vars
  BY <1>1, <1>2 DEF vars, ThreadNow
<1>3. CASE Next /\ ~mgr.started
  <2>1. CASE Land \/ Rollback
    BY <1>1, <2>1 DEF Land, Rollback, calls, history, ThreadNow
  <2>2. Fresh(mgr)
    BY <1>1, <1>3 DEF ThreadNow, Thread
  <2> QED BY <1>1, <1>3, <2>1, <2>2, StartsFirst, StartupThread, DestroyThread
<1>4. CASE Next /\ mgr.started
  BY <1>1, <1>4, DeadStep, LiveStep, DestroyThread
<1> QED BY <1>2, <1>3, <1>4

\* ... it always holds.
LEMMA SpecThread == Spec => [](TypeOK /\ ThreadInv)
<1>1. Init => TypeOK /\ ThreadInv
  BY InitType, InitThread
<1>2. (TypeOK /\ ThreadInv) /\ [Next]_vars => (TypeOK /\ ThreadInv)'
  BY NextType, NextThread
<1> QED BY <1>1, <1>2, PTL DEF Spec

\* Submission and confirmation never overlap while no other submitter reports a
\* problem: pendingActivity() refuses no activity.
THEOREM ActivitiesStaySeparate == Spec => []ActivitiesNeverClash
<1>1. TypeOK /\ ThreadInv => ActivitiesNeverClash
  BY DEF ThreadInv, Thread, NoClash, Clashes, ActivitiesNeverClash, Undisturbed
<1> QED BY <1>1, SpecThread, PTL

\* Undisturbed, a tx counts as bad only after the service has rejected it.
THEOREM BadNeedsVerdict == Spec => []BadByVerdictOrReport
<1>1. TypeOK /\ ThreadInv => BadByVerdictOrReport
  BY DEF ThreadInv, Thread, Suspect, BadByVerdictOrReport, BadByVerdict, Undisturbed
<1> QED BY <1>1, SpecThread, PTL

\* Undisturbed, "confirmed" is reached only after more than SoftConfirmations
\* sightings since the last acknowledged submission: resubmissions and late
\* answers never let the sightings of an earlier submission count.
THEOREM ConfirmationEarned == Spec => []HardConfirmEarned
<1>1. TypeOK /\ ThreadInv => HardConfirmEarned
  BY DEF ThreadInv, Thread, HardConfirmEarned, Undisturbed
<1> QED BY <1>1, SpecThread, PTL

\* Undisturbed, and unless the user asks for it, no timer, answer or callback
\* submits a bad tx again, in whatever order they run.
THEOREM BadStaysUnsubmitted == Spec => BadTxNotResubmitted
<1>1. TypeOK /\ ThreadInv /\ [Next]_vars =>
        [mgr.isBadTx /\ Undisturbed /\ resubmits' = 0 => ~NewSubmission]_vars
  <2> SUFFICES ASSUME TypeOK, ThreadInv, [Next]_vars, mgr.isBadTx, reports = 0, resubmits' = 0, NewSubmission
               PROVE  FALSE
    BY DEF Undisturbed
  <2>1. Next
    BY DEF NewSubmission, vars
  <2>2. mgr \in MgrStates /\ ThreadNow /\ mgr.started
    BY DEF TypeOK, ThreadInv, ThreadNow, Thread, Fresh
  <2>3. Lawful(mgr, mgr')
    BY <2>1, <2>2, StepLawful
  <2>4. ~mgr.destroyed
    BY <2>3 DEF Lawful, NewSubmission
  <2>5. resubmits = 0
    BY <2>1, LoneAssumption
       DEF TypeOK, Next, Land, Rollback, Startup, DeferredFires, ReleasedFires, Timeout, RunQueued,
           SubmitAnswer, ConfirmAnswer, DiagnosisAnswer, OtherSubmitterProblem, UserResubmits, Destroy, calls
  <2>6. NoWayBack(mgr) /\ Calm(mgr)
    BY <2>2, <2>4, <2>5 DEF ThreadNow, Thread, Live
  <2>7. CASE Destroy
    BY <2>7 DEF Destroy, destroy, Abort, Queue, NewSubmission, TypeOK, MgrStates
  <2>8. CASE OtherSubmitterProblem
    <3>1. mgr' = transition(mgr, "otherSubmitterProblem") /\ mgr.state # "submitting"
      BY <2>6, <2>8 DEF OtherSubmitterProblem, otherSubmitterProblem, NoWayBack, OffSubmitting
    <3>2. PICK o : Taken(mgr, o) /\ Outcome(o, mgr', "otherSubmitterProblem")
      BY <2>2, <2>4, <3>1, TransitionEffect DEF Performed, NewSubmission
    <3>3. o.state \in {"confirming", "softConfirmed", "confirmed", "failed"} /\ o.pending = mgr.pending
      BY <2>2, <3>1, <3>2 DEF Taken, MgrStates, States
    <3>4. Begins(o, mgr', "confirming") \/ Waits(o, mgr', "confirming")
      BY <3>2, <3>3 DEF Outcome, ConfirmOutcome
    <3> QED BY <3>3, <3>4 DEF Begins, Waits, Stays, NewSubmission
  <2>9. CASE ~Destroy /\ ~OtherSubmitterProblem
    <3>1. reports' = 0
      BY <2>1, <2>9 DEF Next, Land, Rollback, Startup, DeferredFires, ReleasedFires, Timeout, RunQueued,
           SubmitAnswer, ConfirmAnswer, DiagnosisAnswer, UserResubmits, calls
    <3>2. ThreadNow' /\ Live(mgr')
      BY <2>1, <2>2, <2>4, <2>9, <3>1, LiveStep
    <3>3. mgr'.state = "submitting" /\ mgr'.isBadTx
      BY <2>3, <3>2 DEF Lawful, NewSubmission, ThreadNow, Thread
    <3> QED BY <3>2, <3>3 DEF ThreadNow, Thread, NoWayBack, OffSubmitting
  <2> QED BY <2>7, <2>8, <2>9
<1> QED BY <1>1, SpecThread, PTL DEF Spec, BadTxNotResubmitted

====
