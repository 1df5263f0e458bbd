---------------------------- MODULE LoneMovesProofs ----------------------------
(***************************************************************************)
(* Why a manager does not stop before it is settled.                       *)
(*                                                                         *)
(* Supported says what will move a manager on from each state: a callback, *)
(* a deferred action, a diagnosis or the pending activity.  It is not      *)
(* inductive alone: a miss drops the deferred action of a manager that is  *)
(* submitting, and an aborted activity ends without a report.  Guarded     *)
(* says where a miss may be queued, and AbortsPending which activity an    *)
(* abort ends; Moving is the three together.                               *)
(*                                                                         *)
(* MovesInv keeps Moving for a manager of which no action was stolen, with *)
(* a submitter that can diagnose: StrandedByTheft.  CleanInv adds that,    *)
(* with a service that answers in time and no other submitter, nothing is  *)
(* ever stolen: PromptNeverStranded.                                       *)
(***************************************************************************)
EXTENDS LoneThreadProofs

-----------------------------------------------------------------------------
(* What moves a manager on, whoever has disturbed it.                         *)

\* A callback of these tasks is queued.
Holds(s, tasks) == \E i \in DOMAIN s : s[i] \in tasks

\* the ends of aborted activities, of which at most one is queued
Ends == {"submitAborted", "confirmAborted"}
OneEnd(s) == \A i, j \in DOMAIN s : s[i] \in Ends /\ s[j] \in Ends => i = j

\* callbacks that report a miss
Misses == {"confirmClash", "notConfirmed", "confirmAborted"}

\* a diagnosis of a refused submission is under way
Diagnosing(m) == \E d \in DiagnosisStages : m.diagnosing[d] > 0

\* Something will move m from its state, unless it is at rest there.
Supported(m) ==
    CASE m.state = "submitting" ->
           \/ Holds(m.todo, {"submitClash"}) \/ Deferring(m) \/ Diagnosing(m)
           \/ m.pending = "submitting" /\ ~Holds(m.todo, {"submitAborted"})
      [] m.state = "confirming" ->
           \/ Holds(m.todo, Misses) \/ Deferring(m) \/ Diagnosing(m)
           \/ m.pending = "confirming"
      [] m.state = "softConfirmed" -> Deferring(m)
      [] m.state = "failed" -> Deferring(m) \/ (m.isBadTx /\ m.rescueAttempts > MaxRescueAttempts)
      [] m.state = "confirmed" -> TRUE

\* An aborted activity is the pending one.
AbortsPending(m) ==
    /\ Holds(m.todo, {"submitAborted"}) => m.pending = "submitting"
    /\ Holds(m.todo, {"confirmAborted"}) => m.pending = "confirming"
    /\ OneEnd(m.todo)

\* A tx on its way to the service is bad, or not acknowledged.
Unacknowledged(m) == m.isBadTx \/ ~m.successfulSubmit

\* No miss finds a manager that it would only stop: notOk drops what a manager
\* in "submitting" has deferred, and fails without an issue to report.
Guarded(m) ==
    /\ m.state = "submitting" /\ Deferring(m) /\ ~m.submitIssue => ~Holds(m.todo, Misses)
    /\ m.state = "submitting" /\ m.pending = "confirming" =>
         Holds(m.todo, {"submitClash"}) /\ ~Deferring(m) /\ ~m.submitIssue
    /\ m.state = "confirming" /\ m.pending = "submitting" /\ Deferring(m) =>
         m.deferred.to = "submitting" \/ Holds(m.todo, {"submitAborted"})
    /\ m.state = "submitting" \/ m.pending = "submitting" => Unacknowledged(m)
    /\ Deferring(m) /\ m.deferred.to = "submitting" => Unacknowledged(m)

\* ... together
Moving(m) == AbortsPending(m) /\ Supported(m) /\ Guarded(m)

\* What a sequence holds, its last and its first element apart
LEMMA HoldsNone == \A tasks : ~Holds(<<>>, tasks)
BY DEF Holds

\* the last element
LEMMA HoldsAppend ==
    ASSUME NEW s \in Seq(Tasks), NEW x \in Tasks
    PROVE  /\ \A tasks : Holds(Append(s, x), tasks) <=> Holds(s, tasks) \/ x \in tasks
           /\ OneEnd(s) /\ (x \in Ends => ~Holds(s, Ends)) => OneEnd(Append(s, x))
<1> DEFINE t == Append(s, x)
<1>1. /\ DOMAIN t = 1 .. (Len(s) + 1) /\ DOMAIN s = 1 .. Len(s) /\ Len(s) \in Nat
      /\ t[Len(s) + 1] = x /\ \A i \in 1 .. Len(s) : t[i] = s[i]
  OBVIOUS
<1> HIDE DEF t
<1>2. \A i \in DOMAIN t : i \in DOMAIN s \/ i = Len(s) + 1
  BY <1>1
<1>3. \A i \in DOMAIN s : i \in DOMAIN t /\ t[i] = s[i]
  BY <1>1
<1>4. Len(s) + 1 \in DOMAIN t
  BY <1>1
<1>5. ASSUME NEW tasks PROVE Holds(t, tasks) <=> Holds(s, tasks) \/ x \in tasks
  BY <1>1, <1>2, <1>3, <1>4 DEF Holds
<1>6. ASSUME OneEnd(s), x \in Ends => ~Holds(s, Ends) PROVE OneEnd(t)
  BY <1>1, <1>2, <1>3, <1>6 DEF OneEnd, Holds
<1> QED BY <1>5, <1>6 DEF t

\* the first element
LEMMA HoldsTail ==
    ASSUME NEW s \in Seq(Tasks), s # <<>>
    PROVE  /\ \A tasks : Holds(s, tasks) <=> Holds(Tail(s), tasks) \/ Head(s) \in tasks
           /\ OneEnd(s) => OneEnd(Tail(s)) /\ (Head(s) \in Ends => ~Holds(Tail(s), Ends))
           /\ Head(s) \in Tasks /\ Tail(s) \in Seq(Tasks)
<1> DEFINE t == Tail(s)
<1>1. /\ DOMAIN s = 1 .. Len(s) /\ Len(s) \in Nat \ {0} /\ Len(t) = Len(s) - 1 /\ t \in Seq(Tasks)
      /\ \A i \in 1 .. (Len(s) - 1) : t[i] = s[i + 1]
      /\ Head(s) = s[1]
  OBVIOUS
<1>2. DOMAIN t = 1 .. (Len(s) - 1)
  BY <1>1
<1> HIDE DEF t
<1>3. \A i \in DOMAIN t : i + 1 \in DOMAIN s /\ t[i] = s[i + 1] /\ i + 1 # 1 /\ i \in Nat
  BY <1>1, <1>2
<1>4. \A i \in DOMAIN s : i = 1 \/ \E j \in DOMAIN t : i = j + 1 /\ t[j] = s[i]
  <2> TAKE i \in DOMAIN s
  <2>1. CASE i # 1
    <3>1. i - 1 \in DOMAIN t /\ i = (i - 1) + 1
      BY <1>1, <1>2, <2>1
    <3> QED BY <1>3, <3>1
  <2> QED BY <2>1
<1>5. 1 \in DOMAIN s /\ s[1] \in Tasks
  BY <1>1
<1>6. ASSUME NEW tasks PROVE Holds(s, tasks) <=> Holds(t, tasks) \/ Head(s) \in tasks
  BY <1>1, <1>3, <1>4, <1>5 DEF Holds
<1>7. ASSUME OneEnd(s) PROVE OneEnd(t) /\ (Head(s) \in Ends => ~Holds(t, Ends))
  <2>1. \A i, j \in DOMAIN t : i + 1 = j + 1 => i = j
    BY <1>3
  <2>2. OneEnd(t)
    BY <1>3, <1>7, <2>1 DEF OneEnd
  <2>3. Head(s) \in Ends => ~Holds(t, Ends)
    BY <1>1, <1>3, <1>5, <1>7 DEF OneEnd, Holds
  <2> QED BY <2>2, <2>3
<1> QED BY <1>1, <1>5, <1>6, <1>7 DEF t

\* of two sets of tasks
LEMMA HoldsUnion ==
    \A s : Holds(s, Ends) => Holds(s, {"submitAborted"}) \/ Holds(s, {"confirmAborted"})
BY DEF Holds, Ends

-----------------------------------------------------------------------------
(* Each kind of outcome keeps a manager moving.                               *)

\* nothing pending was aborted
LEMMA NonePending ==
    ASSUME NEW m, AbortsPending(m), m.pending = "none"
    PROVE  ~Holds(m.todo, Ends) /\ ~Holds(m.todo, {"submitAborted"})
BY HoldsUnion DEF AbortsPending

\* a clash queued
LEMMA ClashKeeps ==
    ASSUME NEW m \in MgrStates, AbortsPending(m), NEW s \in Activities
    PROVE  LET todo == Append(m.todo, ClashOf(s))
           IN  /\ \A tasks : Holds(todo, tasks) <=> Holds(m.todo, tasks) \/ ClashOf(s) \in tasks
               /\ OneEnd(todo)
               /\ Holds(todo, {"submitAborted"}) => m.pending = "submitting"
               /\ Holds(todo, {"confirmAborted"}) => m.pending = "confirming"
<1>1. m.todo \in Seq(Tasks) /\ ClashOf(s) \in Tasks /\ ClashOf(s) \notin Ends
  BY DEF MgrStates, ClashOf, Tasks, Ends, Activities
<1>2. /\ \A tasks : Holds(Append(m.todo, ClashOf(s)), tasks) <=> Holds(m.todo, tasks) \/ ClashOf(s) \in tasks
      /\ OneEnd(Append(m.todo, ClashOf(s)))
  BY <1>1, HoldsAppend DEF AbortsPending
<1>3. ClashOf(s) \notin {"submitAborted"} /\ ClashOf(s) \notin {"confirmAborted"}
  BY <1>1 DEF Ends
<1> HIDE DEF ClashOf
<1> QED BY <1>2, <1>3 DEF AbortsPending

\* a submission begun, or found to clash with what is pending
LEMMA BeginsSubmitting ==
    ASSUME NEW r \in MgrStates, AbortsPending(r), NEW n, Begins(r, n, "submitting"), Unacknowledged(n)
    PROVE  Moving(n)
<1>1. n.state = "submitting" /\ ~Deferring(n) /\ n.submitIssue = FALSE /\ n \in MgrStates
  BY DEF Begins, Kept, Deferring
<1>2. CASE r.pending = "none"
  <2>1. n.pending = "submitting" /\ n.todo = r.todo
    BY <1>2 DEF Begins
  <2>2. ~Holds(n.todo, {"submitAborted"}) /\ ~Holds(n.todo, {"confirmAborted"}) /\ OneEnd(n.todo)
    BY <1>2, <2>1, NonePending DEF AbortsPending
  <2> QED BY <1>1, <2>1, <2>2 DEF Moving, AbortsPending, Supported, Guarded
<1>3. CASE r.pending # "none"
  <2>1. n.pending = r.pending /\ n.todo = Append(r.todo, ClashOf("submitting"))
    BY <1>3 DEF Begins
  <2>2. /\ \A tasks : Holds(n.todo, tasks) <=> Holds(r.todo, tasks) \/ ClashOf("submitting") \in tasks
        /\ OneEnd(n.todo)
        /\ Holds(n.todo, {"submitAborted"}) => n.pending = "submitting"
        /\ Holds(n.todo, {"confirmAborted"}) => n.pending = "confirming"
    BY <2>1, ClashKeeps DEF Activities
  <2>3. Holds(n.todo, {"submitClash"})
    BY <2>2 DEF ClashOf
  <2> QED BY <1>1, <2>2, <2>3 DEF Moving, AbortsPending, Supported, Guarded
<1> QED BY <1>2, <1>3

\* ... a look for confirmations
LEMMA BeginsConfirming ==
    ASSUME NEW r \in MgrStates, AbortsPending(r), NEW n, Begins(r, n, "confirming"),
           r.pending = "submitting" => Unacknowledged(n)
    PROVE  Moving(n)
<1>1. n.state = "confirming" /\ ~Deferring(n) /\ n \in MgrStates
  BY DEF Begins, Kept, Deferring
<1>2. CASE r.pending = "none"
  <2>1. n.pending = "confirming" /\ n.todo = r.todo
    BY <1>2 DEF Begins
  <2>2. ~Holds(n.todo, {"submitAborted"}) /\ ~Holds(n.todo, {"confirmAborted"}) /\ OneEnd(n.todo)
    BY <1>2, <2>1, NonePending DEF AbortsPending
  <2> QED BY <1>1, <2>1, <2>2 DEF Moving, AbortsPending, Supported, Guarded
<1>3. CASE r.pending # "none"
  <2>1. n.pending = r.pending /\ n.todo = Append(r.todo, ClashOf("confirming"))
    BY <1>3 DEF Begins
  <2>2. /\ \A tasks : Holds(n.todo, tasks) <=> Holds(r.todo, tasks) \/ ClashOf("confirming") \in tasks
        /\ OneEnd(n.todo)
        /\ Holds(n.todo, {"submitAborted"}) => n.pending = "submitting"
        /\ Holds(n.todo, {"confirmAborted"}) => n.pending = "confirming"
    BY <2>1, ClashKeeps DEF Activities
  <2>3. Holds(n.todo, Misses)
    BY <2>2 DEF ClashOf, Misses
  <2> QED BY <1>1, <2>1, <2>2, <2>3 DEF Moving, AbortsPending, Supported, Guarded
<1> QED BY <1>2, <1>3

\* ... of those that start no activity: the callbacks and what is pending stay
LEMMA SightsMoving ==
    ASSUME NEW r, AbortsPending(r), NEW n, Sights(r, n), r.pending = "submitting" => Unacknowledged(n)
    PROVE  Moving(n)
<1>1. n.pending = r.pending /\ n.todo = r.todo /\ n.state \in {"softConfirmed", "confirmed"}
      /\ (n.state = "softConfirmed" => Deferring(n))
      /\ (Deferring(n) => n.deferred.to = "confirming")
  BY DEF Sights, Later, Deferring, NoAction
<1> QED BY <1>1 DEF Moving, AbortsPending, Supported, Guarded

\* a failure, and what is deferred after it
LEMMA FailsMoving ==
    ASSUME NEW r, AbortsPending(r), NEW n, Fails(r, n), r.pending = "submitting" => Unacknowledged(n)
    PROVE  Moving(n)
<1>1. n.pending = r.pending /\ n.todo = r.todo /\ n.state = "failed"
      /\ (~Deferring(n) => n.isBadTx /\ n.rescueAttempts > MaxRescueAttempts)
      /\ (Deferring(n) /\ n.deferred.to = "submitting" => Unacknowledged(n))
  BY DEF Fails, Later, Deferring, NoAction, Unacknowledged
<1> QED BY <1>1 DEF Moving, AbortsPending, Supported, Guarded

\* a deferred state, of a manager that no miss will stop
LEMMA WaitsMoving ==
    ASSUME NEW r, AbortsPending(r), NEW n, NEW to, Waits(r, n, to),
           r.state \in {"submitting", "confirming", "softConfirmed", "confirmed"},
           r.state = "submitting" => /\ r.pending # "confirming"
                                     /\ ~r.submitIssue => ~Holds(r.todo, Misses),
           r.state = "confirming" /\ r.pending = "submitting" =>
               to = "submitting" \/ Holds(r.todo, {"submitAborted"}),
           r.state = "submitting" \/ r.pending = "submitting" \/ to = "submitting" => Unacknowledged(n)
    PROVE  Moving(n) /\ Deferring(n) /\ n.state = r.state /\ n.submitIssue = r.submitIssue
<1>1. n.pending = r.pending /\ n.todo = r.todo /\ n.state = r.state /\ n.submitIssue = r.submitIssue
      /\ Deferring(n) /\ n.deferred.to = to
  BY DEF Waits, Stays, Later, Deferring, NoAction
<1> QED BY <1>1 DEF Moving, AbortsPending, Supported, Guarded

-----------------------------------------------------------------------------
(* Transitions                                                                *)

\* Whoever takes the deferred action leaves what is said of the rest.
LEMMA TakenSame ==
    ASSUME NEW o, NEW r, Taken(o, r)
    PROVE  /\ r \in MgrStates /\ r.state = o.state /\ r.pending = o.pending /\ r.todo = o.todo
           /\ r.submitIssue = o.submitIssue /\ r.isBadTx = o.isBadTx /\ r.diagnosing = o.diagnosing
           /\ r.rescueAttempts = o.rescueAttempts /\ ~Deferring(r)
           /\ AbortsPending(o) => AbortsPending(r)
           /\ Unacknowledged(r) <=> Unacknowledged(o)
BY DEF Taken, SameMarks, Deferring, AbortsPending, Unacknowledged

\* Whatever transition() does, what is deferred then was deferred in this state.
LEMMA OutcomeTidy ==
    ASSUME NEW r \in MgrStates, ~Deferring(r), NEW n, NEW tn \in Performed, tn \in Rowed(r.state), Outcome(r, n, tn)
    PROVE  Tidy(n)
<1>1. ASSUME NEW s, Begins(r, n, s) PROVE Tidy(n)
  BY <1>1 DEF Begins, Tidy, Deferring
<1>2. Drops(r, n) => Tidy(n)
  BY DEF Drops, Tidy, Deferring
<1>3. Sights(r, n) => Tidy(n)
  BY DEF Sights, Tidy, Deferring, Later
<1>4. Fails(r, n) => Tidy(n)
  BY DEF Fails, Tidy, Deferring, Later
<1>5. ASSUME NEW to, Waits(r, n, to), r.state # "failed", r.state = "submitting" => to = "submitting",
             r.state \in {"softConfirmed", "confirmed"} => to = "confirming"
      PROVE  Tidy(n)
  BY <1>5 DEF Waits, Stays, Tidy, Later
<1>6. CASE r.state = "submitting"
  BY <1>1, <1>2, <1>4, <1>5, <1>6 DEF Outcome, SubmitOutcome, Rowed
<1>7. CASE r.state = "confirming"
  <2>1. \A to : Waits(r, n, to) => Tidy(n)
    BY <1>5, <1>7
  <2> QED BY <1>1, <1>2, <1>3, <1>4, <1>7, <2>1 DEF Outcome, ConfirmOutcome, Rowed
<1>8. CASE r.state \in {"softConfirmed", "confirmed", "failed"}
  BY <1>1, <1>3, <1>4, <1>5, <1>8 DEF Outcome
<1> QED BY <1>6, <1>7, <1>8 DEF MgrStates, States

\* ... so transition() keeps it so.
LEMMA TransitionTidy ==
    ASSUME NEW o \in MgrStates, ~o.destroyed, Tidy(o), NEW tn \in Performed
    PROVE  Tidy(transition(o, tn))
<1>1. CASE ~Accepts(o, tn)
  BY <1>1, TransitionEffect
<1>2. CASE Accepts(o, tn)
  <2>1. PICK r : Taken(o, r) /\ Outcome(r, transition(o, tn), tn)
    BY <1>2, TransitionEffect
  <2>2. tn \in Rowed(o.state)
    BY <1>2, TransitionEffect
  <2>3. r \in MgrStates /\ r.state = o.state /\ ~Deferring(r)
    BY <2>1, TakenSame
  <2> QED BY <2>1, <2>2, <2>3, OutcomeTidy
<1> QED BY <1>1, <1>2

\* What a transition needs to find, and leaves: all of Moving but a reason to go on
Loose(o) ==
    /\ o \in MgrStates /\ ~o.destroyed /\ Tidy(o) /\ AbortsPending(o)
    /\ o.state = "submitting" \/ o.pending = "submitting" => Unacknowledged(o)
    /\ Deferring(o) /\ o.deferred.to = "submitting" => Unacknowledged(o)

\* In "submitting", and in no other state, a miss may find an action deferred for
\* another reason.
Exposed(m) == m.state = "submitting" /\ Deferring(m) /\ ~m.submitIssue

\* notOk while submitting, with an issue to retry, or else with nothing deferred
LEMMA NotOkSubmitting ==
    ASSUME NEW o, Loose(o), o.state = "submitting",
           o.submitIssue => o.pending # "confirming",
           ~o.submitIssue => /\ ~Deferring(o) /\ Supported(o)
                             /\ o.pending = "confirming" => Holds(o.todo, {"submitClash"})
    PROVE  LET n == transition(o, "notOk") IN Moving(n) /\ ~Exposed(n)
<1> DEFINE n == transition(o, "notOk")
<1>1. "notOk" \in Performed /\ "notOk" \in Rowed(o.state) /\ To("submitting", "notOk") = "submitting"
  BY DEF Performed, Rowed, To
<1>2. Accepts(o, "notOk")
  BY <1>1, AcceptsWhen DEF Loose, Tidy
<1>3. PICK r : Taken(o, r) /\ Outcome(r, n, "notOk")
  BY <1>1, <1>2, TransitionEffect DEF Loose
<1> HIDE DEF n
<1>4. /\ r \in MgrStates /\ r.state = "submitting" /\ r.pending = o.pending /\ r.todo = o.todo
      /\ r.submitIssue = o.submitIssue /\ r.isBadTx = o.isBadTx /\ r.diagnosing = o.diagnosing
      /\ AbortsPending(r) /\ Unacknowledged(r)
  BY <1>3, TakenSame DEF Loose
<1>5. SameMarks(r, n) /\ \/ ~r.submitIssue /\ Drops(r, n)
                         \/ r.submitIssue /\ r.isBadTx /\ Fails(r, n)
                         \/ r.submitIssue /\ ~r.isBadTx /\ Waits(r, n, "submitting")
  BY <1>3, <1>4 DEF Outcome, SubmitOutcome
<1>6. ASSUME Kept(r, n) PROVE Unacknowledged(n)
  BY <1>4, <1>5, <1>6 DEF Unacknowledged, SameMarks, Kept
<1>7. CASE ~r.submitIssue /\ Drops(r, n)
  <2>1. /\ n.state = "submitting" /\ n.pending = o.pending /\ n.todo = o.todo /\ n.submitIssue = o.submitIssue
        /\ n.diagnosing = o.diagnosing /\ ~Deferring(n) /\ Unacknowledged(n)
    BY <1>4, <1>6, <1>7 DEF Drops, Stays, Kept, Deferring
  <2>2. AbortsPending(n)
    BY <2>1 DEF Loose, AbortsPending
  <2>3. Supported(n)
    BY <1>4, <1>7, <2>1 DEF Supported, Diagnosing
  <2>4. o.submitIssue = FALSE
    BY <1>4, <1>7 DEF MgrStates
  <2>5. Guarded(n)
    BY <2>1, <2>4 DEF Guarded
  <2> QED BY <2>1, <2>2, <2>3, <2>5 DEF Moving, Exposed, n
<1>8. CASE r.submitIssue /\ Fails(r, n)
  <2>1. Unacknowledged(n)
    BY <1>6, <1>8 DEF Fails
  <2>2. n.state # "submitting"
    BY <1>8 DEF Fails
  <2> QED BY <1>4, <1>8, <2>1, <2>2, FailsMoving DEF Exposed, n
<1>9. CASE r.submitIssue /\ Waits(r, n, "submitting")
  <2>1. Unacknowledged(n)
    BY <1>6, <1>9 DEF Waits
  <2>2. r.pending # "confirming"
    BY <1>4, <1>9
  <2>3. Moving(n) /\ n.submitIssue = r.submitIssue
    BY <1>4, <1>9, <2>1, <2>2, WaitsMoving
  <2> QED BY <1>9, <2>3 DEF Exposed, n
<1> QED BY <1>5, <1>7, <1>8, <1>9

\* notOk while confirming: it submits again or waits to, looks again later, or fails
LEMMA NotOkConfirming ==
    ASSUME NEW o, Loose(o), o.state = "confirming"
    PROVE  LET n == transition(o, "notOk") IN Moving(n) /\ ~Exposed(n)
<1> DEFINE n == transition(o, "notOk")
<1>1. "notOk" \in Performed /\ "notOk" \in Rowed(o.state) /\ To("confirming", "notOk") = "confirming"
  BY DEF Performed, Rowed, To
<1>2. CASE ~Accepts(o, "notOk")
  <2>1. n = o
    BY <1>1, <1>2, TransitionEffect DEF Loose
  <2>2. Deferring(o) /\ o.deferred.to = "submitting"
    BY <1>1, <1>2, AcceptsWhen, DeferredType DEF Loose, Tidy
  <2>3. Supported(o) /\ Guarded(o)
    BY <2>2 DEF Supported, Guarded, Loose
  <2> QED BY <2>1, <2>3 DEF Loose, Moving, Exposed
<1>3. CASE Accepts(o, "notOk")
  <2>1. PICK r : Taken(o, r) /\ Outcome(r, n, "notOk")
    BY <1>1, <1>3, TransitionEffect DEF Loose
  <2> HIDE DEF n
  <2>2. /\ r \in MgrStates /\ r.state = "confirming" /\ r.pending = o.pending /\ r.isBadTx = o.isBadTx
        /\ AbortsPending(r) /\ (r.pending = "submitting" => Unacknowledged(r))
    BY <2>1, TakenSame DEF Loose
  <2>3. \/ Fails(r, n) /\ SameMarks(r, n)
        \/ ~r.isBadTx /\ ~n.successfulSubmit /\ Begins(r, n, "submitting")
        \/ ~r.isBadTx /\ ~r.successfulSubmit /\ ~n.successfulSubmit /\ Waits(r, n, "submitting")
        \/ ~r.isBadTx /\ r.successfulSubmit /\ SameMarks(r, n) /\ Waits(r, n, "confirming")
    BY <2>1, <2>2 DEF Outcome, ConfirmOutcome
  <2>4. CASE Fails(r, n) /\ SameMarks(r, n)
    <3>1. n.state # "submitting" /\ (r.pending = "submitting" => Unacknowledged(n))
      BY <2>2, <2>4 DEF Fails, Unacknowledged, SameMarks, Kept
    <3> QED BY <2>2, <2>4, <3>1, FailsMoving DEF Exposed, n
  <2>5. CASE ~n.successfulSubmit /\ Begins(r, n, "submitting")
    <3>1. Unacknowledged(n) /\ ~Deferring(n)
      BY <2>5 DEF Unacknowledged, Begins, Deferring
    <3> QED BY <2>2, <2>5, <3>1, BeginsSubmitting DEF Exposed, n
  <2>6. CASE ~n.successfulSubmit /\ Waits(r, n, "submitting")
    <3>1. Unacknowledged(n)
      BY <2>6 DEF Unacknowledged
    <3>2. Moving(n) /\ n.state = "confirming"
      BY <2>2, <2>6, <3>1, WaitsMoving
    <3> QED BY <3>2 DEF Exposed, n
  <2>7. CASE ~r.isBadTx /\ r.successfulSubmit /\ SameMarks(r, n) /\ Waits(r, n, "confirming")
    <3>1. r.pending # "submitting"
      BY <2>2, <2>7 DEF Unacknowledged
    <3>2. Moving(n) /\ n.state = "confirming"
      BY <2>2, <2>7, <3>1, WaitsMoving
    <3> QED BY <3>2 DEF Exposed, n
  <2> QED BY <2>3, <2>4, <2>5, <2>6, <2>7
<1> QED BY <1>2, <1>3

\* notOk in any state
LEMMA NotOkMoving ==
    ASSUME NEW o, Loose(o),
           o.state = "submitting" =>
               /\ o.submitIssue => o.pending # "confirming"
               /\ ~o.submitIssue => /\ ~Deferring(o) /\ Supported(o)
                                    /\ o.pending = "confirming" => Holds(o.todo, {"submitClash"}),
           o.state \notin Activities => Supported(o)
    PROVE  LET n == transition(o, "notOk") IN Moving(n) /\ ~Exposed(n)
<1>1. CASE o.state = "submitting"
  BY <1>1, NotOkSubmitting
<1>2. CASE o.state = "confirming"
  BY <1>2, NotOkConfirming
<1>3. CASE o.state \notin Activities
  <2>1. "notOk" \in Performed /\ "notOk" \notin Rowed(o.state)
    BY <1>3 DEF Performed, Rowed, Activities, Loose, MgrStates, States
  <2>2. transition(o, "notOk") = o
    BY <2>1, TransitionEffect DEF Loose
  <2>3. Guarded(o) /\ ~Exposed(o)
    BY <1>3 DEF Guarded, Exposed, Loose, Activities
  <2> QED BY <1>3, <2>2, <2>3 DEF Moving, Loose
<1> QED BY <1>1, <1>2, <1>3 DEF Activities

\* The answers that a transition takes on to the next state, or nowhere
\* the verdicts of the service and of a diagnosis
Answers == {"submitted", "txExpired", "failed", "confirmed"}

\* A verdict of the service that its row accepts moves the manager on.
LEMMA AnswerTaken ==
    ASSUME NEW o, Loose(o), NEW tn \in Answers, Accepts(o, tn),
           Supported(o) \/ o.state = "submitting" \/ (tn = "confirmed" /\ o.state = "confirming"),
           tn = "submitted" => o.pending # "submitting",
           tn = "txExpired" /\ o.state = "confirming" /\ Deferring(o) =>
               o.deferred.to = "submitting" \/ Diagnosing(o)
    PROVE  Moving(transition(o, tn))
<1> DEFINE n == transition(o, tn)
<1>1. tn \in Performed /\ o \in MgrStates /\ ~o.destroyed
  BY DEF Performed, Answers, Loose
<1>2. tn \in Rowed(o.state)
  BY <1>1, TransitionEffect
<1>3. PICK r : Taken(o, r) /\ Outcome(r, n, tn)
  BY <1>1, TransitionEffect
<1> HIDE DEF n
<1>4. /\ r \in MgrStates /\ r.state = o.state /\ r.pending = o.pending /\ r.todo = o.todo
      /\ r.isBadTx = o.isBadTx /\ r.diagnosing = o.diagnosing /\ r.submitIssue = o.submitIssue
      /\ AbortsPending(r) /\ (r.pending = "submitting" => Unacknowledged(r))
  BY <1>3, TakenSame DEF Loose
<1>5. ASSUME Kept(r, n), n.successfulSubmit = r.successfulSubmit, r.pending = "submitting"
      PROVE  Unacknowledged(n)
  BY <1>4, <1>5 DEF Unacknowledged, Kept
<1>6. CASE o.state = "submitting"
  <2>1. Begins(r, n, "confirming") /\ (tn # "submitted" => SameMarks(r, n))
    BY <1>3, <1>4, <1>6 DEF Outcome, SubmitOutcome, Answers
  <2>2. r.pending = "submitting" => Unacknowledged(n)
    BY <1>4, <1>5, <2>1 DEF Begins, SameMarks
  <2> QED BY <1>4, <2>1, <2>2, BeginsConfirming DEF n
<1>7. CASE o.state = "confirming" /\ tn = "txExpired"
  <2>1. Drops(r, n) /\ SameMarks(r, n)
    BY <1>3, <1>4, <1>7 DEF Outcome, ConfirmOutcome
  <2>2. /\ n.state = "confirming" /\ n.pending = o.pending /\ n.todo = o.todo /\ n.diagnosing = o.diagnosing
        /\ ~Deferring(n) /\ (n.pending = "submitting" => Unacknowledged(n))
    BY <1>4, <1>5, <1>7, <2>1 DEF Drops, Stays, Kept, Deferring, SameMarks
  <2>3. Deferring(o) => o.deferred.to # "submitting"
    <3>1. To("confirming", "txExpired") = "confirming"
      BY DEF To
    <3> QED BY <1>1, <1>2, <1>7, <3>1, AcceptsWhen
  <2>4. Supported(o)
    BY <1>7
  <2>5. Supported(n)
    BY <1>7, <2>2, <2>3, <2>4 DEF Supported, Diagnosing
  <2>6. AbortsPending(n) /\ Guarded(n)
    BY <2>2 DEF Loose, AbortsPending, Guarded
  <2> QED BY <2>5, <2>6 DEF Moving, n
<1>8. CASE o.state \in {"confirming", "softConfirmed"} /\ tn = "confirmed"
  <2>1. Sights(r, n) /\ n.successfulSubmit = r.successfulSubmit
    BY <1>3, <1>4, <1>8 DEF Outcome, ConfirmOutcome
  <2>2. r.pending = "submitting" => Unacknowledged(n)
    BY <1>5, <2>1 DEF Sights
  <2> QED BY <1>4, <2>1, <2>2, SightsMoving DEF n
<1>9. CASE o.state = "failed" /\ tn = "failed"
  <2>1. Fails(r, n) /\ SameMarks(r, n)
    BY <1>3, <1>4, <1>9 DEF Outcome
  <2>2. r.pending = "submitting" => Unacknowledged(n)
    BY <1>5, <2>1 DEF Fails, SameMarks
  <2> QED BY <1>4, <2>1, <2>2, FailsMoving DEF n
<1> QED BY <1>1, <1>2, <1>6, <1>7, <1>8, <1>9 DEF Rowed, Answers, MgrStates, States

\* ... and one that is not accepted leaves it as it was.
LEMMA AnswerMoving ==
    ASSUME NEW o, Loose(o), NEW tn \in Answers,
           Guarded(o) \/ (o.state = "submitting" /\ ~Deferring(o)),
           Supported(o) \/ o.state = "submitting" \/ (tn = "confirmed" /\ o.state = "confirming"),
           tn = "submitted" => o.pending # "submitting",
           tn = "txExpired" /\ o.state = "confirming" /\ Deferring(o) =>
               o.deferred.to = "submitting" \/ Diagnosing(o)
    PROVE  Moving(transition(o, tn))
<1>1. tn \in Performed /\ o \in MgrStates /\ ~o.destroyed
  BY DEF Performed, Answers, Loose
<1>2. CASE ~Accepts(o, tn)
  <2>1. transition(o, tn) = o
    BY <1>1, <1>2, TransitionEffect
  <2>2. o.state = "submitting" \/ (tn = "confirmed" /\ o.state = "confirming") => Deferring(o)
    <3>1. o.state = "submitting" \/ (tn = "confirmed" /\ o.state = "confirming") => tn \in Rowed(o.state)
      BY DEF Rowed, Answers
    <3> QED BY <1>1, <1>2, <3>1, AcceptsWhen
  <2>3. Supported(o)
    BY <2>2 DEF Supported
  <2>4. Guarded(o)
    BY <2>2
  <2> QED BY <2>1, <2>3, <2>4 DEF Moving, Loose
<1>3. CASE Accepts(o, tn)
  BY <1>3, AnswerTaken
<1> QED BY <1>2, <1>3

-----------------------------------------------------------------------------
(* Handlers *)

\* A live manager that is on the move
\* a live manager that something will move on
Underway(m) == m \in MgrStates /\ Live(m) /\ Tidy(m) /\ Moving(m)

\* a manager under way, for the lemmas on transitions
LEMMA UnderwayLoose == ASSUME NEW m, Underway(m) PROVE Loose(m)
BY DEF Underway, Live, Moving, Loose, Guarded

\* What moves on is still live, and tidy.
LEMMA EditedTidy ==
    ASSUME NEW m, Underway(m), NEW o, NEW pending, NEW todo, NEW diagnosing, NEW issue, NEW bad,
           Edited(m, o, pending, todo, diagnosing, issue, bad)
    PROVE  o \in MgrStates /\ ~o.destroyed /\ Tidy(o)
BY DEF Edited, Underway, Live, Tidy, Deferring

\* an edit that stops no activity but with its task, and takes back no verdict
LEMMA EditedLoose ==
    ASSUME NEW m, Underway(m), NEW o, NEW pending, NEW todo, NEW diagnosing, NEW issue, NEW bad,
           Edited(m, o, pending, todo, diagnosing, issue, bad),
           pending \in {m.pending, "none"}, m.isBadTx => bad, AbortsPending(o)
    PROVE  Loose(o)
<1>1. /\ o \in MgrStates /\ ~o.destroyed /\ Tidy(o)
      /\ o.state = m.state /\ o.deferred = m.deferred /\ o.pending \in {m.pending, "none"}
  BY EditedTidy DEF Edited
<1>2. Unacknowledged(m) => Unacknowledged(o)
  BY DEF Edited, SameMarks, Unacknowledged
<1> QED BY <1>1, <1>2 DEF Loose, Underway, Moving, Guarded, Deferring

\* The activity is over: what remains is as before, and so is what moves it on,
\* unless it was that activity.
LEMMA DoneLeaves ==
    ASSUME NEW m, Underway(m), m.todo = <<>>, m.pending # "none", NEW o, NEW issue, NEW bad,
           Edited(m, o, "none", <<>>, m.diagnosing, issue, bad), m.isBadTx => bad
    PROVE  /\ Loose(o) /\ Guarded(o)
           /\ o.state # m.pending => Supported(o)
<1>1. /\ o.state = m.state /\ o.deferred = m.deferred /\ o.pending = "none" /\ o.todo = <<>>
      /\ o.diagnosing = m.diagnosing /\ o.rescueAttempts = m.rescueAttempts /\ o.isBadTx = bad
  BY DEF Edited
<1>2. ~Holds(o.todo, {"submitAborted"}) /\ ~Holds(o.todo, {"confirmAborted"}) /\ OneEnd(o.todo)
      /\ ~Holds(o.todo, Misses) /\ \A tasks : ~Holds(m.todo, tasks)
  BY <1>1, HoldsNone DEF OneEnd
<1>3. Loose(o)
  BY <1>2, EditedLoose DEF AbortsPending
<1>4. Guarded(o)
  BY <1>1, <1>2, <1>3 DEF Guarded, Loose
<1>5. ASSUME o.state # m.pending PROVE Supported(o)
  <2>1. Supported(m) /\ m.state \in States
    BY DEF Underway, Moving, MgrStates
  <2>2. Deferring(o) <=> Deferring(m)
    BY <1>1 DEF Deferring
  <2>3. Diagnosing(o) <=> Diagnosing(m)
    BY <1>1 DEF Diagnosing
  <2> QED BY <1>1, <1>2, <1>5, <2>1, <2>2, <2>3 DEF Supported, States
<1> QED BY <1>3, <1>4, <1>5

\* a diagnosis goes on, whatever else there is
LEMMA DiagnosingMoving ==
    ASSUME NEW m \in MgrStates, AbortsPending(m), Guarded(m), m.state \in Activities \/ Supported(m),
           NEW o, NEW issue, Edited(m, o, m.pending, m.todo, o.diagnosing, issue, m.isBadTx), issue = m.submitIssue,
           Diagnosing(o)
    PROVE  Moving(o)
<1>1. /\ o.state = m.state /\ o.deferred = m.deferred /\ o.pending = m.pending /\ o.todo = m.todo
      /\ o.rescueAttempts = m.rescueAttempts /\ o.isBadTx = m.isBadTx /\ o.submitIssue = m.submitIssue
      /\ (Unacknowledged(m) => Unacknowledged(o))
  BY DEF Edited, SameMarks, Unacknowledged
<1>2. AbortsPending(o) /\ Guarded(o)
  BY <1>1 DEF AbortsPending, Guarded, Deferring
<1>3. Supported(o)
  BY <1>1 DEF Supported, Deferring, MgrStates, States, Activities
<1> QED BY <1>2, <1>3 DEF Moving

\* Every answer to a submission, unknown utxo included, moves it on.
LEMMA SubmitAnsweredMoving ==
    ASSUME NEW m, Underway(m), m.todo = <<>>, m.pending = "submitting", NEW outcome \in SubmitOutcomes
    PROVE  Moving(SubmitAnswered(m, outcome))
<1> DEFINE n == done(m)
<1>0. m \in MgrStates /\ Guarded(m)
  BY DEF Underway, Moving
<1>1. Edited(m, n, "none", <<>>, m.diagnosing, m.submitIssue, m.isBadTx)
  BY <1>0, doneEdits
<1>2. n \in MgrStates /\ n.state = m.state /\ n.deferred = m.deferred /\ n.pending = "none" /\ n.todo = <<>>
      /\ n.diagnosing = m.diagnosing
  BY <1>1 DEF Edited
<1> HIDE DEF n
<1>3. Loose(n) /\ Guarded(n) /\ (n.state # "submitting" => Supported(n))
  BY <1>0, <1>1, DoneLeaves
<1>4. CASE outcome \in {"accepted", "alreadySpent"}
  <2>1. Moving(transition(n, "submitted"))
    BY <1>2, <1>3, AnswerMoving DEF Answers
  <2> QED BY <1>4, <2>1 DEF SubmitAnswered, n
<1>5. CASE outcome = "tooLate"
  <2>1. n.state = "confirming" /\ Deferring(n) => n.deferred.to = "submitting"
    BY <1>0, <1>2, HoldsNone DEF Guarded, Deferring
  <2>2. Moving(transition(n, "txExpired"))
    BY <1>2, <1>3, <2>1, AnswerMoving DEF Answers
  <2> QED BY <1>5, <2>2 DEF SubmitAnswered, n
<1>6. CASE outcome \in {"tooEarly", "rateLimited"}
  <2> DEFINE o == [n EXCEPT !.submitIssue = TRUE]
  <2>1. Edited(n, o, n.pending, n.todo, n.diagnosing, TRUE, n.isBadTx)
    BY <1>2, MarkEdits
  <2>2. Edited(m, o, "none", <<>>, m.diagnosing, TRUE, m.isBadTx)
    BY <1>1, <1>2, <2>1 DEF Edited, SameMarks
  <2>3. o.pending = "none" /\ o.submitIssue = TRUE
    BY <2>2 DEF Edited
  <2> HIDE DEF o
  <2>4. Loose(o) /\ (o.state # "submitting" => Supported(o))
    BY <1>0, <2>2, DoneLeaves
  <2>5. Moving(transition(o, "notOk"))
    BY <2>3, <2>4, NotOkMoving DEF Activities
  <2> QED BY <1>6, <2>5 DEF SubmitAnswered, n, o
<1>7. CASE outcome = "unknownUtxo"
  <2> DEFINE d == [n.diagnosing EXCEPT !["confirmTx"] = @ + 1]
             o == [n EXCEPT !.diagnosing = d]
  <2>1. n.diagnosing \in [DiagnosisStages -> Nat]
    BY <1>2 DEF MgrStates
  <2>2. d \in [DiagnosisStages -> Nat] /\ d["confirmTx"] > 0 /\ "confirmTx" \in DiagnosisStages
    BY <2>1 DEF DiagnosisStages
  <2>3. SubmitAnswered(m, outcome) = o
    <3>1. SubmitAnswered(m, outcome) = [n EXCEPT !.diagnosing["confirmTx"] = @ + 1]
      BY <1>7 DEF SubmitAnswered, n
    <3> QED BY <3>1, <1>2 DEF MgrStates
  <2> HIDE DEF d
  <2>4. Edited(n, o, n.pending, n.todo, d, n.submitIssue, n.isBadTx)
    BY <1>2, <2>2, DiagnosingEdits
  <2> HIDE DEF o
  <2>5. o.diagnosing = d
    BY <2>4 DEF Edited
  <2>6. Diagnosing(o)
    BY <2>2, <2>5 DEF Diagnosing
  <2>7. Moving(o)
    BY <1>2, <1>3, <2>4, <2>5, <2>6, DiagnosingMoving DEF Loose, Activities
  <2> QED BY <2>3, <2>7
<1>8. CASE outcome = "otherError"
  <2> DEFINE o == [n EXCEPT !.isBadTx = TRUE]
  <2>1. Edited(n, o, n.pending, n.todo, n.diagnosing, n.submitIssue, TRUE)
    BY <1>2, MarkEdits
  <2>2. Edited(m, o, "none", <<>>, m.diagnosing, m.submitIssue, TRUE)
    BY <1>1, <1>2, <2>1 DEF Edited, SameMarks
  <2> HIDE DEF o
  <2>4. Loose(o) /\ Guarded(o) /\ (o.state # "submitting" => Supported(o))
    BY <1>0, <2>2, DoneLeaves
  <2>5. Moving(transition(o, "failed"))
    BY <2>4, AnswerMoving DEF Answers
  <2> QED BY <1>8, <2>5 DEF SubmitAnswered, n, o
<1> QED BY <1>4, <1>5, <1>6, <1>7, <1>8 DEF SubmitOutcomes

\* ... and every answer to a look for confirmations.
LEMMA ConfirmAnsweredMoving ==
    ASSUME NEW m, Underway(m), m.todo = <<>>, m.pending = "confirming", NEW outcome \in {"found", "missing"}
    PROVE  Moving(ConfirmAnswered(m, outcome))
<1> DEFINE n == done(m)
<1>0. m \in MgrStates /\ Guarded(m)
  BY DEF Underway, Moving
<1>1. Edited(m, n, "none", <<>>, m.diagnosing, m.submitIssue, m.isBadTx)
  BY <1>0, doneEdits
<1>2. n.state = m.state /\ n.pending = "none"
  BY <1>1 DEF Edited
<1> HIDE DEF n
<1>3. Loose(n) /\ Guarded(n) /\ (n.state # "confirming" => Supported(n))
  BY <1>0, <1>1, DoneLeaves
<1>4. n.state # "submitting"
  BY <1>0, <1>2, HoldsNone DEF Guarded
<1>5. Moving(transition(n, "confirmed"))
  BY <1>3, AnswerMoving DEF Answers
<1>6. Moving(transition(n, "notOk"))
  BY <1>3, <1>4, NotOkMoving DEF Activities
<1> QED BY <1>5, <1>6 DEF ConfirmAnswered, n

\* One diagnosis less, and its verdict: only "submitting" and "confirming" could
\* have lived on it.
LEMMA DiagnosisLeaves ==
    ASSUME NEW m, Underway(m), m.todo = <<>>, NEW o, NEW d, NEW issue, NEW bad,
           Edited(m, o, m.pending, m.todo, d, issue, bad), m.isBadTx => bad
    PROVE  /\ Loose(o) /\ Guarded(o)
           /\ o.state \notin Activities => Supported(o)
           /\ o.state = "submitting" => o.pending # "confirming"
<1>1. /\ o.state = m.state /\ o.deferred = m.deferred /\ o.pending = m.pending /\ o.todo = m.todo
      /\ o.rescueAttempts = m.rescueAttempts /\ o.isBadTx = bad
  BY DEF Edited
<1>2. AbortsPending(o)
  BY <1>1 DEF Underway, Moving, AbortsPending
<1>3. Loose(o)
  BY <1>2, EditedLoose
<1>4. Guarded(m) /\ Supported(m) /\ m.state \in States
  BY DEF Underway, Moving, MgrStates
<1>5. o.state = "submitting" => o.pending # "confirming"
  BY <1>1, <1>4, HoldsNone DEF Guarded
<1>6. Guarded(o)
  BY <1>1, <1>3, <1>4, <1>5, HoldsNone DEF Guarded, Loose, Deferring
<1>7. o.state \notin Activities => Supported(o)
  BY <1>1, <1>4 DEF Supported, States, Activities, Deferring
<1> QED BY <1>3, <1>5, <1>6, <1>7

\* Each end of a diagnosis, and each step to its next stage, moves it on.
LEMMA DiagnosedMoving ==
    ASSUME NEW m, Underway(m), m.todo = <<>>, NEW stage \in DiagnosisStages, m.diagnosing[stage] > 0
    PROVE  /\ \A bad \in BOOLEAN : Moving(Diagnosed(m, stage, bad))
           /\ \A next \in DiagnosisStages : next # stage => Moving(DiagnosisMoves(m, stage, next))
           /\ Moving(transition(DiagnosisEnds(m, stage), "confirmed"))
<1> DEFINE e == DiagnosisEnds(m, stage)
           d == [m.diagnosing EXCEPT ![stage] = @ - 1]
<1>0. m \in MgrStates /\ m.diagnosing \in [DiagnosisStages -> Nat]
  BY DEF Underway, MgrStates
<1>1. d \in [DiagnosisStages -> Nat] /\ e = [m EXCEPT !.diagnosing = d]
  BY <1>0 DEF DiagnosisEnds, MgrStates
<1>2. Edited(m, e, m.pending, m.todo, d, m.submitIssue, m.isBadTx)
  BY <1>0, <1>1, DiagnosingEdits
<1> HIDE DEF e, d
<1>3. ASSUME NEW bad \in BOOLEAN PROVE Moving(Diagnosed(m, stage, bad))
  <2> DEFINE verdict == e.isBadTx \/ bad
             o == [e EXCEPT !.submitIssue = TRUE, !.isBadTx = verdict]
  <2>1. Diagnosed(m, stage, bad) = transition(o, "notOk")
    <3>1. o = [e EXCEPT !.submitIssue = TRUE, !.isBadTx = @ \/ bad]
      BY <1>2 DEF Edited, MgrStates
    <3> QED BY <3>1 DEF Diagnosed, e
  <2>2. verdict \in BOOLEAN /\ (m.isBadTx => verdict)
    BY <1>2 DEF Edited
  <2> HIDE DEF verdict
  <2>3. Edited(e, o, e.pending, e.todo, e.diagnosing, TRUE, verdict)
    <3>1. e \in MgrStates
      BY <1>2 DEF Edited
    <3> QED BY <2>2, <3>1, MarkEdits
  <2> HIDE DEF o
  <2>4. Edited(m, o, m.pending, m.todo, d, TRUE, verdict) /\ o.submitIssue = TRUE
    BY <1>2, <2>3 DEF Edited, SameMarks
  <2>5. /\ Loose(o) /\ (o.state \notin Activities => Supported(o))
        /\ o.state = "submitting" => o.pending # "confirming"
    BY <2>2, <2>4, DiagnosisLeaves
  <2>6. Moving(transition(o, "notOk"))
    BY <2>4, <2>5, NotOkMoving
  <2> QED BY <2>1, <2>6
<1>4. ASSUME NEW next \in DiagnosisStages, next # stage PROVE Moving(DiagnosisMoves(m, stage, next))
  <2> DEFINE f == [m.diagnosing EXCEPT ![stage] = @ - 1, ![next] = @ + 1]
             o == [m EXCEPT !.diagnosing = f]
  <2>1. f \in [DiagnosisStages -> Nat] /\ f[next] > 0
    BY <1>0, <1>4
  <2> HIDE DEF f
  <2>2. Edited(m, o, m.pending, m.todo, f, m.submitIssue, m.isBadTx)
    BY <1>0, <2>1, DiagnosingEdits
  <2>3. DiagnosisMoves(m, stage, next) = o
    BY DEF DiagnosisMoves, f
  <2> HIDE DEF o
  <2>4. o.diagnosing = f
    BY <2>2 DEF Edited
  <2>5. Diagnosing(o)
    BY <2>1, <2>4 DEF Diagnosing
  <2>6. AbortsPending(m) /\ Guarded(m) /\ Supported(m)
    BY DEF Underway, Moving
  <2>7. Moving(o)
    BY <1>0, <2>2, <2>4, <2>5, <2>6, DiagnosingMoving
  <2> QED BY <2>3, <2>7
<1>5. Moving(transition(e, "confirmed"))
  <2>1. Loose(e) /\ Guarded(e) /\ (e.state \notin Activities => Supported(e))
    BY <1>2, DiagnosisLeaves
  <2> QED BY <2>1, AnswerMoving DEF Answers, Activities
<1> QED BY <1>3, <1>4, <1>5 DEF e

\* another miss, reported twice
LEMMA QueueMiss ==
    ASSUME NEW n \in MgrStates, Moving(n), ~Exposed(n)
    PROVE  Moving(Queue(n, "notConfirmed"))
<1> DEFINE q == Queue(n, "notConfirmed")
<1>1. "notConfirmed" \in Tasks /\ "notConfirmed" \notin Ends /\ n.todo \in Seq(Tasks)
  BY DEF Tasks, Ends, MgrStates
<1>2. Edited(n, q, n.pending, Append(n.todo, "notConfirmed"), n.diagnosing, n.submitIssue, n.isBadTx)
  BY <1>1, QueueEdits
<1> HIDE DEF q
<1>3. /\ q.state = n.state /\ q.deferred = n.deferred /\ q.pending = n.pending /\ q.diagnosing = n.diagnosing
      /\ q.rescueAttempts = n.rescueAttempts /\ q.isBadTx = n.isBadTx /\ q.submitIssue = n.submitIssue
      /\ q.todo = Append(n.todo, "notConfirmed") /\ (Unacknowledged(n) => Unacknowledged(q))
  BY <1>2 DEF Edited, SameMarks, Unacknowledged
<1>4. /\ \A tasks : Holds(q.todo, tasks) <=> Holds(n.todo, tasks) \/ "notConfirmed" \in tasks
      /\ OneEnd(q.todo)
  BY <1>1, <1>3, HoldsAppend DEF Moving, AbortsPending
<1>5. AbortsPending(q)
  BY <1>3, <1>4 DEF Moving, AbortsPending
<1>6. Guarded(q)
  BY <1>3, <1>4 DEF Moving, Guarded, Exposed, Deferring
<1>7. Supported(q)
  <2>1. n.state \in States
    BY DEF MgrStates
  <2> QED BY <1>3, <1>4, <2>1 DEF Moving, Supported, Deferring, Diagnosing, States
<1> QED BY <1>5, <1>6, <1>7 DEF Moving, q

\* the first callback taken
LEMMA PopLeaves ==
    ASSUME NEW m, Underway(m), m.todo # <<>>, NEW o, NEW pending, NEW bad,
           Edited(m, o, pending, Tail(m.todo), m.diagnosing, m.submitIssue, bad),
           \/ pending = m.pending
           \/ pending = "none" /\ Head(m.todo) \in Ends,
           m.isBadTx => bad
    PROVE  /\ Loose(o)
           /\ \A tasks : Holds(m.todo, tasks) <=> Holds(o.todo, tasks) \/ Head(m.todo) \in tasks
           /\ Head(m.todo) \in Tasks
<1>1. o.todo = Tail(m.todo) /\ o.pending = pending
  BY DEF Edited
<1>2. /\ \A tasks : Holds(m.todo, tasks) <=> Holds(o.todo, tasks) \/ Head(m.todo) \in tasks
      /\ OneEnd(m.todo) => OneEnd(o.todo) /\ (Head(m.todo) \in Ends => ~Holds(o.todo, Ends))
      /\ Head(m.todo) \in Tasks
  BY <1>1, HoldsTail DEF Underway, MgrStates
<1>3. Holds(o.todo, {"submitAborted"}) \/ Holds(o.todo, {"confirmAborted"}) => Holds(o.todo, Ends)
  BY DEF Holds, Ends
<1>4. AbortsPending(o)
  BY <1>1, <1>2, <1>3 DEF Underway, Moving, AbortsPending
<1>5. Loose(o)
  BY <1>1, <1>4, EditedLoose
<1> QED BY <1>2, <1>5

\* The callback of a submission that clashed fails the tx.
LEMMA ClashRuns ==
    ASSUME NEW m, Underway(m), m.todo # <<>>, Head(m.todo) = "submitClash"
    PROVE  Moving(RunTask(m))
<1> DEFINE p == [m EXCEPT !.todo = Tail(@)]
           o == [p EXCEPT !.isBadTx = TRUE]
<1>0. m \in MgrStates
  BY DEF Underway
<1>1. Edited(m, p, m.pending, Tail(m.todo), m.diagnosing, m.submitIssue, m.isBadTx)
  BY <1>0, PopEdits
<1>2. RunTask(m) = transition(o, "failed")
  BY DEF RunTask
<1> HIDE DEF p
<1>3. p \in MgrStates
  BY <1>1 DEF Edited
<1>4. Edited(p, o, p.pending, p.todo, p.diagnosing, p.submitIssue, TRUE)
  BY <1>3, MarkEdits
<1> HIDE DEF o
<1>5. Edited(m, o, m.pending, Tail(m.todo), m.diagnosing, m.submitIssue, TRUE)
  BY <1>1, <1>4 DEF Edited, SameMarks
<1>6. /\ Loose(o)
      /\ \A tasks : Holds(m.todo, tasks) <=> Holds(o.todo, tasks) \/ "submitClash" \in tasks
  BY <1>5, PopLeaves
<1>7. /\ o.state = m.state /\ o.deferred = m.deferred /\ o.pending = m.pending /\ o.diagnosing = m.diagnosing
      /\ o.rescueAttempts = m.rescueAttempts /\ o.isBadTx /\ o.submitIssue = m.submitIssue
  BY <1>5 DEF Edited
<1>8. Guarded(m) /\ Supported(m) /\ m.state \in States
  BY DEF Underway, Moving, MgrStates
<1>9. Guarded(o) \/ (o.state = "submitting" /\ ~Deferring(o))
  BY <1>6, <1>7, <1>8 DEF Guarded, Deferring, Unacknowledged
<1>10. Supported(o) \/ o.state = "submitting"
  <2>1. "submitClash" \notin Misses
    BY DEF Misses
  <2> QED BY <1>6, <1>7, <1>8, <2>1 DEF Supported, Deferring, Diagnosing, States
<1>11. Moving(transition(o, "failed"))
  BY <1>6, <1>9, <1>10, AnswerMoving DEF Answers
<1> QED BY <1>2, <1>11

\* The callback of a look that clashed, or of a miss, runs notOk.
LEMMA MissRuns ==
    ASSUME NEW m, Underway(m), m.todo # <<>>, Head(m.todo) \in {"confirmClash", "notConfirmed"}
    PROVE  Moving(RunTask(m))
<1> DEFINE p == [m EXCEPT !.todo = Tail(@)]
           n == transition(p, "notOk")
<1>0. m \in MgrStates /\ Guarded(m) /\ Supported(m) /\ m.state \in States
  BY DEF Underway, Moving, MgrStates
<1>1. Edited(m, p, m.pending, Tail(m.todo), m.diagnosing, m.submitIssue, m.isBadTx)
  BY <1>0, PopEdits
<1>2. RunTask(m) \in {n, p, Queue(n, "notConfirmed")} /\ (RunTask(m) = p => Throws(p, "notOk") \/ p = n \/ p = Queue(n, "notConfirmed"))
  BY DEF RunTask
<1>2a. Throws(p, "notOk") => n = p
  BY DEF Throws, transition
<1> HIDE DEF p
<1>3. p \in MgrStates
  BY <1>1 DEF Edited
<1>4. n \in MgrStates
  BY <1>3, transitionLawful DEF Lawful, Transitions
<1> HIDE DEF n
<1>5. /\ Loose(p)
      /\ \A tasks : Holds(m.todo, tasks) <=> Holds(p.todo, tasks) \/ Head(m.todo) \in tasks
  BY <1>1, PopLeaves
<1>6. /\ p.state = m.state /\ p.deferred = m.deferred /\ p.pending = m.pending /\ p.diagnosing = m.diagnosing
      /\ p.rescueAttempts = m.rescueAttempts /\ p.isBadTx = m.isBadTx /\ p.submitIssue = m.submitIssue
  BY <1>1 DEF Edited
<1>7. /\ Holds(m.todo, Misses)
      /\ Holds(m.todo, {"submitClash"}) <=> Holds(p.todo, {"submitClash"})
      /\ Holds(m.todo, {"submitAborted"}) <=> Holds(p.todo, {"submitAborted"})
  <2>1. Head(m.todo) \in Misses /\ Head(m.todo) \notin {"submitClash"} /\ Head(m.todo) \notin {"submitAborted"}
    BY DEF Misses
  <2> QED BY <1>5, <2>1
<1>8. p.state = "submitting" =>
          /\ p.submitIssue => p.pending # "confirming"
          /\ ~p.submitIssue => /\ ~Deferring(p) /\ Supported(p)
                               /\ p.pending = "confirming" => Holds(p.todo, {"submitClash"})
  BY <1>0, <1>6, <1>7 DEF Guarded, Supported, Deferring, Diagnosing
<1>9. p.state \notin Activities => Supported(p)
  BY <1>0, <1>6 DEF Supported, Deferring, States, Activities
<1>10. Moving(n) /\ ~Exposed(n)
  BY <1>5, <1>8, <1>9, NotOkMoving DEF n
<1>11. Moving(Queue(n, "notConfirmed"))
  BY <1>4, <1>10, QueueMiss
<1> QED BY <1>2, <1>2a, <1>10, <1>11

\* The callback of an aborted activity ends it, and reports a miss of a look.
LEMMA AbortRuns ==
    ASSUME NEW m, Underway(m), m.todo # <<>>, Head(m.todo) \in Ends
    PROVE  Moving(RunTask(m))
<1> DEFINE p == [m EXCEPT !.todo = Tail(@)]
           o == done(p)
<1>0. m \in MgrStates /\ Guarded(m) /\ Supported(m) /\ AbortsPending(m) /\ m.state \in States
  BY DEF Underway, Moving, MgrStates
<1>1. Edited(m, p, m.pending, Tail(m.todo), m.diagnosing, m.submitIssue, m.isBadTx)
  BY <1>0, PopEdits
<1>2. /\ Head(m.todo) = "submitAborted" => RunTask(m) = o
      /\ Head(m.todo) = "confirmAborted" => RunTask(m) = Queue(o, "notConfirmed")
  BY DEF RunTask
<1> HIDE DEF p
<1>3. p \in MgrStates
  BY <1>1 DEF Edited
<1>4. Edited(p, o, "none", p.todo, p.diagnosing, p.submitIssue, p.isBadTx)
  BY <1>3, doneEdits
<1> HIDE DEF o
<1>5. Edited(m, o, "none", Tail(m.todo), m.diagnosing, m.submitIssue, m.isBadTx)
  BY <1>1, <1>4 DEF Edited, SameMarks
<1>6. /\ Loose(o) /\ o \in MgrStates
      /\ \A tasks : Holds(m.todo, tasks) <=> Holds(o.todo, tasks) \/ Head(m.todo) \in tasks
  BY <1>5, PopLeaves DEF Loose
<1>7. /\ o.state = m.state /\ o.deferred = m.deferred /\ o.pending = "none" /\ o.diagnosing = m.diagnosing
      /\ o.rescueAttempts = m.rescueAttempts /\ o.isBadTx = m.isBadTx /\ o.submitIssue = m.submitIssue
  BY <1>5 DEF Edited
<1>8. Guarded(o)
  BY <1>0, <1>6, <1>7 DEF Guarded, Loose, Deferring
<1>9. CASE Head(m.todo) = "submitAborted"
  <2>1. /\ m.pending = "submitting" /\ Holds(m.todo, {"submitAborted"})
        /\ Holds(m.todo, {"submitClash"}) <=> Holds(o.todo, {"submitClash"})
        /\ Holds(m.todo, Misses) <=> Holds(o.todo, Misses)
    <3>1. "submitAborted" \notin {"submitClash"} /\ "submitAborted" \notin Misses /\ "submitAborted" \in {"submitAborted"}
      BY DEF Misses
    <3> QED BY <1>0, <1>6, <1>9, <3>1 DEF AbortsPending
  <2>2. Supported(o)
    BY <1>0, <1>7, <2>1 DEF Supported, Deferring, Diagnosing, States
  <2> QED BY <1>2, <1>6, <1>8, <1>9, <2>2 DEF Moving, Loose
<1>10. CASE Head(m.todo) = "confirmAborted"
  <2> DEFINE q == Queue(o, "notConfirmed")
  <2>1. /\ m.pending = "confirming" /\ Holds(m.todo, {"confirmAborted"})
        /\ Holds(m.todo, {"submitClash"}) <=> Holds(o.todo, {"submitClash"})
    <3>1. "confirmAborted" \notin {"submitClash"} /\ "confirmAborted" \in {"confirmAborted"}
      OBVIOUS
    <3> QED BY <1>0, <1>6, <1>10, <3>1 DEF AbortsPending
  <2>2. "notConfirmed" \in Tasks /\ "notConfirmed" \notin Ends /\ "notConfirmed" \in Misses /\ o.todo \in Seq(Tasks)
    BY <1>6 DEF Tasks, Ends, Misses, MgrStates
  <2>3. Edited(o, q, o.pending, Append(o.todo, "notConfirmed"), o.diagnosing, o.submitIssue, o.isBadTx)
    BY <1>6, <2>2, QueueEdits
  <2> HIDE DEF q
  <2>4. /\ q.state = m.state /\ q.deferred = m.deferred /\ q.pending = "none" /\ q.diagnosing = m.diagnosing
        /\ q.rescueAttempts = m.rescueAttempts /\ q.isBadTx = m.isBadTx /\ q.submitIssue = m.submitIssue
        /\ q.todo = Append(o.todo, "notConfirmed") /\ (Unacknowledged(o) => Unacknowledged(q))
    BY <1>7, <2>3 DEF Edited, SameMarks, Unacknowledged
  <2>5. /\ \A tasks : Holds(q.todo, tasks) <=> Holds(o.todo, tasks) \/ "notConfirmed" \in tasks
        /\ OneEnd(q.todo)
    BY <1>6, <2>2, <2>4, HoldsAppend DEF Loose, AbortsPending
  <2>6. AbortsPending(q)
    BY <1>6, <1>7, <2>4, <2>5 DEF Loose, AbortsPending
  <2>7. Guarded(q)
    <3>1. m.state = "submitting" => ~Deferring(q)
      BY <1>0, <2>1, <2>4 DEF Guarded, Deferring
    <3> QED BY <1>7, <1>8, <2>4, <3>1 DEF Guarded, Deferring
  <2>8. Supported(q)
    <3>1. m.state = "submitting" => Holds(q.todo, {"submitClash"})
      BY <1>0, <2>1, <2>5 DEF Guarded
    <3>2. Holds(q.todo, Misses)
      BY <2>2, <2>5
    <3> QED BY <1>0, <2>4, <3>1, <3>2 DEF Supported, Deferring, States
  <2> QED BY <1>2, <1>10, <2>6, <2>7, <2>8 DEF Moving, q
<1> QED BY <1>9, <1>10 DEF Ends

\* every callback
LEMMA RunTaskMoving ==
    ASSUME NEW m, Underway(m), m.todo # <<>>
    PROVE  Moving(RunTask(m))
<1>1. Head(m.todo) \in Tasks
  BY HoldsTail DEF Underway, MgrStates
<1> QED BY <1>1, ClashRuns, MissRuns, AbortRuns DEF Tasks, Ends

-----------------------------------------------------------------------------
(* Timers                                                                     *)

\* the end of an aborted activity queued, behind what would have moved it on
LEMMA QueueEnd ==
    ASSUME NEW n \in MgrStates, Supported(n), OneEnd(n.todo), ~Holds(n.todo, Ends), n.pending # "none",
           n.state = "submitting" => /\ n.pending = "submitting" /\ Deferring(n)
                                     /\ ~Holds(n.todo, Misses),
           n.state = "submitting" \/ n.pending = "submitting" => Unacknowledged(n),
           Deferring(n) /\ n.deferred.to = "submitting" => Unacknowledged(n)
    PROVE  Moving(Abort(n))
<1> DEFINE tag == IF n.pending = "submitting" THEN "submitAborted" ELSE "confirmAborted"
           q == Queue(n, tag)
<1>1. Abort(n) = q
  BY DEF Abort
<1>2. tag \in Tasks /\ n.todo \in Seq(Tasks) /\ n.pending \in Activities /\ n.state \in States
  BY DEF Tasks, MgrStates
<1>3. /\ tag = "submitAborted" => n.pending = "submitting"
      /\ tag = "confirmAborted" => n.pending = "confirming"
      /\ tag \in {"submitAborted", "confirmAborted"}
  BY <1>2 DEF Activities
<1> HIDE DEF tag
<1>4. Edited(n, q, n.pending, Append(n.todo, tag), n.diagnosing, n.submitIssue, n.isBadTx)
  BY <1>2, QueueEdits
<1> HIDE DEF q
<1>5. /\ q.state = n.state /\ q.deferred = n.deferred /\ q.pending = n.pending /\ q.diagnosing = n.diagnosing
      /\ q.rescueAttempts = n.rescueAttempts /\ q.isBadTx = n.isBadTx /\ q.submitIssue = n.submitIssue
      /\ q.todo = Append(n.todo, tag) /\ (Unacknowledged(n) => Unacknowledged(q))
  BY <1>4 DEF Edited, SameMarks, Unacknowledged
<1>6. /\ \A tasks : Holds(q.todo, tasks) <=> Holds(n.todo, tasks) \/ tag \in tasks
      /\ OneEnd(q.todo)
  BY <1>2, <1>5, HoldsAppend
<1>7. ~Holds(n.todo, {"submitAborted"}) /\ ~Holds(n.todo, {"confirmAborted"})
  BY DEF Holds, Ends
<1>8. AbortsPending(q)
  BY <1>3, <1>5, <1>6, <1>7 DEF AbortsPending
<1>9. Supported(q)
  BY <1>2, <1>5, <1>6 DEF Supported, Deferring, Diagnosing, States
<1>10. n.pending = "submitting" => Holds(q.todo, {"submitAborted"}) /\ tag \notin Misses
  <2>1. "submitAborted" \notin Misses
    BY DEF Misses
  <2> QED BY <1>3, <1>6, <2>1
<1>11. Guarded(q)
  BY <1>5, <1>6, <1>10 DEF Guarded, Deferring
<1> QED BY <1>1, <1>8, <1>9, <1>11 DEF Moving

\* The timeout of an activity defers the next and queues the abort.
LEMMA TimeoutMoving ==
    ASSUME NEW m, Underway(m), m.todo = <<>>, m.pending # "none"
    PROVE  Moving(TimeoutTimer(m))
<1> DEFINE a == [m EXCEPT !.armed = FALSE]
           t == transition(a, "timeout")
<1>0. m \in MgrStates /\ ~m.destroyed /\ Guarded(m) /\ Supported(m) /\ AbortsPending(m) /\ m.state \in States
  BY DEF Underway, Live, Moving, MgrStates
<1>1. Edited(m, a, m.pending, m.todo, m.diagnosing, m.submitIssue, m.isBadTx)
  BY <1>0, ArmedEdits
<1>2. TimeoutTimer(m) = IF Throws(m, "timeout") THEN a ELSE Abort(t)
  BY <1>0 DEF TimeoutTimer
<1> HIDE DEF a
<1>3. /\ a \in MgrStates /\ ~a.destroyed /\ a.state = m.state /\ a.deferred = m.deferred /\ a.pending = m.pending
      /\ a.todo = m.todo /\ a.diagnosing = m.diagnosing /\ a.rescueAttempts = m.rescueAttempts
      /\ a.isBadTx = m.isBadTx /\ a.submitIssue = m.submitIssue /\ (Unacknowledged(m) => Unacknowledged(a))
  BY <1>0, <1>1 DEF Edited, SameMarks, Unacknowledged
<1>4. Moving(a)
  <2>1. AbortsPending(a) /\ Guarded(a)
    BY <1>0, <1>3 DEF AbortsPending, Guarded, Deferring
  <2>2. Supported(a)
    BY <1>0, <1>3 DEF Supported, Deferring, Diagnosing, States
  <2> QED BY <2>1, <2>2 DEF Moving
<1>5. Accepts(a, "timeout") <=> ~Throws(m, "timeout")
  BY <1>3 DEF Throws, Accepts
<1>6. ASSUME Accepts(a, "timeout") PROVE Moving(Abort(t))
  <2>1. PICK o : Taken(a, o) /\ Outcome(o, t, "timeout")
    BY <1>3, <1>6, TransitionEffect DEF Performed
  <2>2. "timeout" \in Rowed(a.state)
    BY <1>3, <1>6, TransitionEffect DEF Performed
  <2> HIDE DEF t
  <2>3. /\ o \in MgrStates /\ o.state = m.state /\ o.pending = m.pending /\ o.todo = <<>> /\ o.isBadTx = m.isBadTx
        /\ Unacknowledged(m) => Unacknowledged(o)
    BY <1>3, <2>1, TakenSame
  <2>4. m.state = "submitting" \/ m.pending = "submitting" => Unacknowledged(o)
    BY <1>0, <2>3 DEF Guarded
  <2>5. OneEnd(<<>>) /\ \A tasks : ~Holds(<<>>, tasks)
    BY HoldsNone DEF OneEnd
  <2>6. CASE m.state \in Activities
    <3>1. Waits(o, t, m.state) /\ SameMarks(o, t)
      BY <2>1, <2>3, <2>6 DEF Outcome, SubmitOutcome, ConfirmOutcome, Activities
    <3>2. /\ t \in MgrStates /\ t.state = m.state /\ t.pending = m.pending /\ t.todo = <<>> /\ Deferring(t)
          /\ t.deferred.to = m.state /\ (Unacknowledged(o) => Unacknowledged(t))
      BY <2>3, <3>1 DEF Waits, Kept, Stays, Later, Deferring, NoAction, SameMarks, Unacknowledged
    <3>3. Supported(t)
      BY <2>6, <3>2 DEF Supported, Activities
    <3>4. m.state = "submitting" => m.pending = "submitting"
      BY <1>0, <2>5 DEF Guarded, MgrStates, Activities
    <3> QED BY <2>4, <2>5, <3>2, <3>3, <3>4, QueueEnd
  <2>7. CASE m.state \notin Activities
    <3>1. m.state = "softConfirmed"
      BY <1>0, <1>3, <2>2, <2>7 DEF Rowed, Activities, States
    <3>2. Begins(o, t, "confirming") /\ SameMarks(o, t)
      BY <2>1, <2>3, <3>1 DEF Outcome
    <3>3. /\ t \in MgrStates /\ t.state = "confirming" /\ t.pending = m.pending /\ ~Deferring(t)
          /\ t.todo = Append(<<>>, "confirmClash") /\ (Unacknowledged(o) => Unacknowledged(t))
      BY <2>3, <3>2 DEF Begins, Kept, Deferring, SameMarks, Unacknowledged, ClashOf
    <3>4. /\ \A tasks : Holds(t.todo, tasks) <=> "confirmClash" \in tasks
          /\ OneEnd(t.todo)
      <4>1. "confirmClash" \in Tasks /\ "confirmClash" \notin Ends /\ <<>> \in Seq(Tasks)
        BY DEF Tasks, Ends
      <4>2. /\ \A tasks : Holds(Append(<<>>, "confirmClash"), tasks) <=> Holds(<<>>, tasks) \/ "confirmClash" \in tasks
            /\ OneEnd(Append(<<>>, "confirmClash"))
        BY <2>5, <4>1, HoldsAppend
      <4> QED BY <2>5, <3>3, <4>2
    <3>5. Holds(t.todo, Misses) /\ ~Holds(t.todo, Ends)
      BY <3>4 DEF Misses, Ends
    <3>6. Supported(t)
      BY <3>3, <3>5 DEF Supported
    <3> QED BY <2>4, <3>3, <3>4, <3>5, <3>6, QueueEnd
  <2> QED BY <2>6, <2>7
<1> QED BY <1>2, <1>4, <1>5, <1>6

\* The manager's own timer begins what was deferred.
LEMMA OwnTimerMoving ==
    ASSUME NEW m, Underway(m), Deferring(m)
    PROVE  Moving(OwnTimer(m)) /\ Kept(m, OwnTimer(m)) /\ Tidy(OwnTimer(m))
<1> DEFINE n == OwnTimer(m)
<1>0. m \in MgrStates /\ ~m.destroyed /\ Tidy(m) /\ Guarded(m) /\ AbortsPending(m)
  BY DEF Underway, Live, Moving
<1>1. PICK o : Taken(m, o) /\ o.released = m.released /\ Begins(o, n, m.deferred.to) /\ SameMarks(o, n)
  BY <1>0, OwnTimerEffect
<1> HIDE DEF n
<1>2. m.deferred.to \in {"submitting", "confirming"}
  BY <1>0, DeferredType
<1>3. /\ o \in MgrStates /\ o.pending = m.pending /\ AbortsPending(o)
      /\ Unacknowledged(m) => Unacknowledged(o)
  BY <1>0, <1>1, TakenSame
<1>4. Unacknowledged(o) => Unacknowledged(n)
  BY <1>1 DEF Begins, Kept, SameMarks, Unacknowledged
<1>5. m.pending = "submitting" \/ m.deferred.to = "submitting" => Unacknowledged(n)
  BY <1>0, <1>3, <1>4 DEF Guarded
<1>6. Moving(n)
  BY <1>1, <1>2, <1>3, <1>5, BeginsSubmitting, BeginsConfirming
<1>7. Kept(m, n) /\ Tidy(n)
  BY <1>1 DEF Taken, Begins, Kept, Tidy, Deferring
<1> QED BY <1>6, <1>7 DEF n

\* A released timer that finds nothing deferred is dropped.
LEMMA ReleasedMoving ==
    ASSUME NEW m, Underway(m), ~Deferring(m), NEW i \in DOMAIN m.released
    PROVE  LET n == ReleasedTimer(m, i)
           IN  /\ Moving(n) /\ Tidy(n)
               /\ n \in MgrStates /\ n.submitter = m.submitter
               /\ n.started = m.started /\ n.destroyed = m.destroyed
<1> DEFINE n == ReleasedTimer(m, i)
<1>0. m \in MgrStates /\ ~m.destroyed /\ Guarded(m) /\ AbortsPending(m) /\ Supported(m) /\ m.state \in States
  BY DEF Underway, Live, Moving, MgrStates
<1>1. Taken(m, n)
  BY <1>0, ReleasedEffect
<1> HIDE DEF n
<1>2. /\ n \in MgrStates /\ n.state = m.state /\ n.pending = m.pending /\ n.todo = m.todo
      /\ n.submitIssue = m.submitIssue /\ n.isBadTx = m.isBadTx /\ n.diagnosing = m.diagnosing
      /\ n.rescueAttempts = m.rescueAttempts /\ ~Deferring(n) /\ AbortsPending(n)
      /\ Unacknowledged(m) => Unacknowledged(n)
  BY <1>0, <1>1, TakenSame
<1>3. Guarded(n)
  BY <1>0, <1>2 DEF Guarded
<1>4. Supported(n)
  BY <1>0, <1>2 DEF Supported, Diagnosing, States
<1>5. Moving(n) /\ Tidy(n)
  BY <1>2, <1>3, <1>4 DEF Moving, Tidy
<1>6. n.submitter = m.submitter /\ n.started = m.started /\ n.destroyed = m.destroyed
  BY <1>1 DEF Taken
<1> QED BY <1>2, <1>5, <1>6 DEF n

-----------------------------------------------------------------------------
(* The owner, and the start                                                   *)

\* the user's "Resubmit"
LEMMA ResubmitMoving ==
    ASSUME NEW m, Underway(m)
    PROVE  Moving(transition(m, "resubmit"))
<1> DEFINE n == transition(m, "resubmit")
<1>0. m \in MgrStates /\ ~m.destroyed /\ Tidy(m) /\ Supported(m) /\ AbortsPending(m) /\ m.state \in States
  BY DEF Underway, Live, Moving, MgrStates
<1>1. CASE ~Accepts(m, "resubmit")
  BY <1>1 DEF transition, Underway
<1>2. CASE Accepts(m, "resubmit")
  <2>1. m.state = "failed"
    BY <1>2 DEF Accepts, To, NoState
  <2>2. ~Deferring(m)
    BY <1>0, <1>2, <2>1 DEF Accepts, Tidy, Deferring
  <2>3. m.isBadTx
    BY <1>0, <2>1, <2>2 DEF Supported
  <2>4. PICK o : Taken(m, o) /\ Outcome(o, n, "resubmit")
    BY <1>0, <1>2, TransitionEffect DEF Performed
  <2> HIDE DEF n
  <2>5. o \in MgrStates /\ o.state = "failed" /\ o.isBadTx = m.isBadTx /\ AbortsPending(o)
    BY <1>0, <2>1, <2>4, TakenSame
  <2>6. Begins(o, n, "submitting")
    BY <2>4, <2>5 DEF Outcome
  <2>7. Unacknowledged(n)
    BY <2>3, <2>5, <2>6 DEF Begins, Kept, Unacknowledged
  <2> QED BY <2>5, <2>6, <2>7, BeginsSubmitting DEF n
<1> QED BY <1>1, <1>2

\* a problem that another submitter reports
LEMMA ProblemMoving ==
    ASSUME NEW m, Underway(m)
    PROVE  Moving(otherSubmitterProblem(m))
<1> DEFINE tn == "otherSubmitterProblem"
           n == transition(m, tn)
<1>0. m \in MgrStates /\ ~m.destroyed /\ Guarded(m) /\ AbortsPending(m) /\ m.state \in States
  BY DEF Underway, Live, Moving, MgrStates
<1>1. CASE ~Accepts(m, tn)
  BY <1>1 DEF otherSubmitterProblem, transition, Underway
<1>2. CASE Accepts(m, tn)
  <2>1. PICK o : Taken(m, o) /\ Outcome(o, n, tn)
    BY <1>0, <1>2, TransitionEffect DEF Performed
  <2> HIDE DEF n
  <2>2. /\ o \in MgrStates /\ o.state = m.state /\ o.pending = m.pending /\ AbortsPending(o)
        /\ Unacknowledged(m) => Unacknowledged(o)
    BY <1>0, <2>1, TakenSame
  <2>3. m.state = "submitting" \/ m.pending = "submitting" => Unacknowledged(o)
    BY <1>0, <2>2 DEF Guarded
  <2>4. ASSUME Kept(o, n), n.successfulSubmit = o.successfulSubmit PROVE Unacknowledged(o) => Unacknowledged(n)
    BY <2>4 DEF Kept, Unacknowledged
  <2>5. CASE m.state = "submitting"
    <3>1. Begins(o, n, "submitting") /\ SameMarks(o, n)
      BY <2>1, <2>2, <2>5 DEF Outcome, SubmitOutcome
    <3>2. Unacknowledged(n)
      BY <2>3, <2>4, <2>5, <3>1 DEF Begins, SameMarks
    <3> QED BY <2>2, <3>1, <3>2, BeginsSubmitting DEF otherSubmitterProblem, n
  <2>6. CASE m.state \in {"confirming", "failed"}
    <3>1. Begins(o, n, "confirming") /\ SameMarks(o, n)
      BY <2>1, <2>2, <2>6 DEF Outcome, ConfirmOutcome
    <3>2. o.pending = "submitting" => Unacknowledged(n)
      BY <2>2, <2>3, <2>4, <3>1 DEF Begins, SameMarks
    <3> QED BY <2>2, <3>1, <3>2, BeginsConfirming DEF otherSubmitterProblem, n
  <2>7. CASE m.state \in {"softConfirmed", "confirmed"}
    <3>1. Waits(o, n, "confirming") /\ n.successfulSubmit = o.successfulSubmit
      BY <2>1, <2>2, <2>7 DEF Outcome
    <3>2. o.pending = "submitting" => Unacknowledged(n)
      BY <2>2, <2>3, <2>4, <3>1 DEF Waits
    <3>3. Moving(n)
      BY <2>2, <2>7, <3>1, <3>2, WaitsMoving
    <3> QED BY <3>3 DEF otherSubmitterProblem, n
  <2> QED BY <1>0, <2>5, <2>6, <2>7 DEF States
<1> QED BY <1>1, <1>2

\* startup() begins the first submission.
LEMMA StartMoving ==
    ASSUME NEW m \in MgrStates, Fresh(m)
    PROVE  LET n == startup(m)
           IN  /\ n \in MgrStates /\ n.started /\ n.destroyed = m.destroyed /\ n.submitter = m.submitter
               /\ Tidy(n) /\ Moving(n)
<1> DEFINE n == startup(m)
           o == [m EXCEPT !.started = TRUE]
<1>1. /\ o \in MgrStates /\ o.started /\ o.destroyed = m.destroyed /\ o.submitter = m.submitter /\ o.state = m.state
      /\ o.pending = m.pending /\ o.todo = m.todo /\ o.deferred = m.deferred /\ o.submitIssue = m.submitIssue
      /\ o.successfulSubmit = m.successfulSubmit
  BY DEF MgrStates
<1>2. n = StartActivity(o, "submitting", ClashOf("submitting"))
  BY DEF startup, trySubmit, ClashOf
<1> HIDE DEF o
<1>3. /\ Kept(o, n) /\ SameMarks(o, n)
      /\ n.state = o.state /\ n.deferred = o.deferred /\ n.submitIssue = o.submitIssue
      /\ o.pending = "none" => n.pending = "submitting" /\ n.todo = o.todo
  BY <1>1, <1>2, StartEffect DEF Activities
<1> HIDE DEF n
<1>4. /\ n \in MgrStates /\ n.started /\ n.destroyed = m.destroyed /\ n.submitter = m.submitter
      /\ n.state = "submitting" /\ n.pending = "submitting" /\ n.todo = <<>> /\ ~Deferring(n)
      /\ Unacknowledged(n)
  BY <1>1, <1>3 DEF Fresh, Kept, SameMarks, Deferring, Unacknowledged
<1>5. AbortsPending(n) /\ Supported(n) /\ Guarded(n) /\ Tidy(n)
  BY <1>4, HoldsNone DEF AbortsPending, Supported, Guarded, Tidy, OneEnd
<1> QED BY <1>4, <1>5 DEF Moving, n

-----------------------------------------------------------------------------
(* What every handler leaves of a live manager                                *)

\* same submitter, started or destroyed as before, and what is deferred is tidy
Steady(m, n) ==
    /\ n \in MgrStates /\ Tidy(n)
    /\ n.submitter = m.submitter /\ n.started = m.started /\ n.destroyed = m.destroyed

\* every kind of outcome
LEMMA OutcomeKept ==
    ASSUME NEW o, NEW n, NEW tn \in Performed, Outcome(o, n, tn), o.state \in States, tn \in Rowed(o.state)
    PROVE  Kept(o, n)
<1>1. \A s : Begins(o, n, s) => Kept(o, n)
  BY DEF Begins
<1>2. \A s : Waits(o, n, s) => Kept(o, n)
  BY DEF Waits
<1>3. (Drops(o, n) => Kept(o, n)) /\ (Sights(o, n) => Kept(o, n)) /\ (Fails(o, n) => Kept(o, n))
  BY DEF Drops, Sights, Fails
<1>4. CASE o.state = "submitting"
  BY <1>1, <1>2, <1>3, <1>4 DEF Outcome, SubmitOutcome, Rowed
<1>5. CASE o.state = "confirming"
  BY <1>1, <1>2, <1>3, <1>5 DEF Outcome, ConfirmOutcome, Rowed
<1>6. CASE o.state \in {"softConfirmed", "confirmed", "failed"}
  BY <1>1, <1>2, <1>3, <1>6 DEF Outcome
<1> QED BY <1>4, <1>5, <1>6 DEF States

\* transition() after an edit
LEMMA TransitionSteady ==
    ASSUME NEW m, ~m.destroyed, NEW o, Steady(m, o), NEW tn \in Performed
    PROVE  Steady(m, transition(o, tn))
<1> DEFINE n == transition(o, tn)
<1>0. o \in MgrStates /\ ~o.destroyed /\ Tidy(o)
  BY DEF Steady
<1>1. CASE ~Accepts(o, tn)
  BY <1>1 DEF transition
<1>2. CASE Accepts(o, tn)
  <2>1. PICK r : Taken(o, r) /\ Outcome(r, n, tn)
    BY <1>0, <1>2, TransitionEffect
  <2>2. tn \in Rowed(o.state) /\ Tidy(n)
    BY <1>0, <1>2, TransitionEffect, TransitionTidy
  <2> HIDE DEF n
  <2>3. r.state = o.state /\ o.state \in States
    BY <1>0, <2>1 DEF Taken, MgrStates
  <2>4. Kept(r, n)
    BY <2>1, <2>2, <2>3, OutcomeKept
  <2>5. Steady(m, n)
    BY <2>1, <2>2, <2>4 DEF Steady, Kept, Taken
  <2> QED BY <2>5 DEF n
<1> QED BY <1>1, <1>2

\* an edit
LEMMA EditSteady ==
    ASSUME NEW m, NEW o, Steady(m, o), NEW n, NEW pending, NEW todo, NEW diagnosing, NEW issue, NEW bad,
           Edited(o, n, pending, todo, diagnosing, issue, bad)
    PROVE  Steady(m, n)
BY DEF Steady, Edited, Tidy, Deferring

\* the answers of the service
LEMMA AnswersSteady ==
    ASSUME NEW m \in MgrStates, ~m.destroyed, Tidy(m)
    PROVE  /\ \A outcome \in SubmitOutcomes : Steady(m, SubmitAnswered(m, outcome))
           /\ \A outcome \in {"found", "missing"} : Steady(m, ConfirmAnswered(m, outcome))
<1> DEFINE n == done(m)
<1>1. Steady(m, n) /\ n \in MgrStates
  <2>1. Steady(m, m)
    BY DEF Steady
  <2> HIDE DEF n
  <2>2. Edited(m, n, "none", m.todo, m.diagnosing, m.submitIssue, m.isBadTx)
    BY doneEdits DEF n
  <2>3. Steady(m, n)
    BY <2>1, <2>2, EditSteady
  <2> QED BY <2>3 DEF Steady
<1> HIDE DEF n
<1>2. ASSUME NEW tn \in Performed PROVE Steady(m, transition(n, tn))
  BY <1>1, TransitionSteady
<1>3. ASSUME NEW outcome \in {"found", "missing"} PROVE Steady(m, ConfirmAnswered(m, outcome))
  BY <1>2 DEF ConfirmAnswered, Performed, n
<1>4. Steady(m, transition([n EXCEPT !.submitIssue = TRUE], "notOk"))
  <2> DEFINE o == [n EXCEPT !.submitIssue = TRUE]
  <2>1. Edited(n, o, n.pending, n.todo, n.diagnosing, TRUE, n.isBadTx)
    BY <1>1, MarkEdits
  <2> HIDE DEF o
  <2>2. Steady(m, o)
    BY <1>1, <2>1, EditSteady
  <2>3. Steady(m, transition(o, "notOk"))
    BY <2>2, TransitionSteady DEF Performed
  <2> QED BY <2>3 DEF o
<1>5. Steady(m, transition([n EXCEPT !.isBadTx = TRUE], "failed"))
  <2> DEFINE o == [n EXCEPT !.isBadTx = TRUE]
  <2>1. Edited(n, o, n.pending, n.todo, n.diagnosing, n.submitIssue, TRUE)
    BY <1>1, MarkEdits
  <2> HIDE DEF o
  <2>2. Steady(m, o)
    BY <1>1, <2>1, EditSteady
  <2>3. Steady(m, transition(o, "failed"))
    BY <2>2, TransitionSteady DEF Performed
  <2> QED BY <2>3 DEF o
<1>6. Steady(m, [n EXCEPT !.diagnosing["confirmTx"] = @ + 1])
  <2> DEFINE d == [n.diagnosing EXCEPT !["confirmTx"] = @ + 1]
             o == [n EXCEPT !.diagnosing = d]
  <2>1. d \in [DiagnosisStages -> Nat]
    <3>1. n.diagnosing \in [DiagnosisStages -> Nat]
      BY <1>1 DEF MgrStates
    <3>2. "confirmTx" \in DiagnosisStages
      BY DEF DiagnosisStages
    <3> QED BY <3>1, <3>2
  <2>2. [n EXCEPT !.diagnosing["confirmTx"] = @ + 1] = o
    OBVIOUS
  <2> HIDE DEF d
  <2>3. Edited(n, o, n.pending, n.todo, d, n.submitIssue, n.isBadTx)
    BY <1>1, <2>1, DiagnosingEdits
  <2> HIDE DEF o
  <2>4. Steady(m, o)
    BY <1>1, <2>3, EditSteady
  <2> QED BY <2>2, <2>4
<1>7. ASSUME NEW outcome \in SubmitOutcomes PROVE Steady(m, SubmitAnswered(m, outcome))
  <2>1. CASE outcome \in {"accepted", "alreadySpent"}
    BY <1>2, <2>1 DEF SubmitAnswered, Performed, n
  <2>2. CASE outcome = "tooLate"
    BY <1>2, <2>2 DEF SubmitAnswered, Performed, n
  <2>3. CASE outcome \in {"tooEarly", "rateLimited"}
    BY <1>4, <2>3 DEF SubmitAnswered, n
  <2>4. CASE outcome = "unknownUtxo"
    BY <1>6, <2>4 DEF SubmitAnswered, n
  <2>5. CASE outcome = "otherError"
    BY <1>5, <2>5 DEF SubmitAnswered, n
  <2> QED BY <2>1, <2>2, <2>3, <2>4, <2>5 DEF SubmitOutcomes
<1> QED BY <1>3, <1>7

\* a diagnosis
LEMMA DiagnosedSteady ==
    ASSUME NEW m \in MgrStates, ~m.destroyed, Tidy(m), NEW stage \in DiagnosisStages, m.diagnosing[stage] > 0
    PROVE  /\ \A bad \in BOOLEAN : Steady(m, Diagnosed(m, stage, bad))
           /\ \A next \in DiagnosisStages : next # stage => Steady(m, DiagnosisMoves(m, stage, next))
           /\ Steady(m, transition(DiagnosisEnds(m, stage), "confirmed"))
<1> DEFINE e == DiagnosisEnds(m, stage)
           d == [m.diagnosing EXCEPT ![stage] = @ - 1]
<1>0. m.diagnosing \in [DiagnosisStages -> Nat] /\ Steady(m, m)
  BY DEF Steady, MgrStates
<1>1. d \in [DiagnosisStages -> Nat] /\ e = [m EXCEPT !.diagnosing = d]
  BY <1>0 DEF DiagnosisEnds, MgrStates
<1>2. Edited(m, e, m.pending, m.todo, d, m.submitIssue, m.isBadTx)
  BY <1>1, DiagnosingEdits
<1> HIDE DEF e, d
<1>3. Steady(m, e) /\ e \in MgrStates
  <2>1. Steady(m, e)
    BY <1>0, <1>2, EditSteady
  <2> QED BY <2>1 DEF Steady
<1>4. Steady(m, transition(e, "confirmed"))
  BY <1>3, TransitionSteady DEF Performed
<1>5. ASSUME NEW bad \in BOOLEAN PROVE Steady(m, Diagnosed(m, stage, bad))
  <2> DEFINE verdict == e.isBadTx \/ bad
             o == [e EXCEPT !.submitIssue = TRUE, !.isBadTx = verdict]
  <2>1. Diagnosed(m, stage, bad) = transition(o, "notOk")
    <3>1. o = [e EXCEPT !.submitIssue = TRUE, !.isBadTx = @ \/ bad]
      BY <1>3 DEF MgrStates
    <3> QED BY <3>1 DEF Diagnosed, e
  <2>2. verdict \in BOOLEAN
    OBVIOUS
  <2> HIDE DEF verdict
  <2>3. Edited(e, o, e.pending, e.todo, e.diagnosing, TRUE, verdict)
    BY <1>3, <2>2, MarkEdits
  <2> HIDE DEF o
  <2>4. Steady(m, o)
    BY <1>3, <2>3, EditSteady
  <2> QED BY <2>1, <2>4, TransitionSteady DEF Performed
<1>6. ASSUME NEW next \in DiagnosisStages, next # stage PROVE Steady(m, DiagnosisMoves(m, stage, next))
  <2> DEFINE f == [m.diagnosing EXCEPT ![stage] = @ - 1, ![next] = @ + 1]
             o == [m EXCEPT !.diagnosing = f]
  <2>1. f \in [DiagnosisStages -> Nat]
    BY <1>0, <1>6
  <2> HIDE DEF f
  <2>2. Edited(m, o, m.pending, m.todo, f, m.submitIssue, m.isBadTx)
    BY <2>1, DiagnosingEdits
  <2>3. DiagnosisMoves(m, stage, next) = o
    BY DEF DiagnosisMoves, f
  <2> HIDE DEF o
  <2> QED BY <1>0, <2>2, <2>3, EditSteady
<1> QED BY <1>4, <1>5, <1>6 DEF e

\* a callback queued
LEMMA QueueSteady ==
    ASSUME NEW m, NEW o, Steady(m, o), NEW task \in Tasks
    PROVE  Steady(m, Queue(o, task))
<1> DEFINE q == Queue(o, task)
<1>1. o \in MgrStates
  BY DEF Steady
<1>2. Edited(o, q, o.pending, Append(o.todo, task), o.diagnosing, o.submitIssue, o.isBadTx)
  BY <1>1, QueueEdits
<1> HIDE DEF q
<1>3. Steady(m, q)
  BY <1>2, EditSteady
<1> QED BY <1>3 DEF q

\* a callback run
LEMMA RunTaskSteady ==
    ASSUME NEW m \in MgrStates, ~m.destroyed, Tidy(m), m.todo # <<>>
    PROVE  Steady(m, RunTask(m))
<1> DEFINE p == [m EXCEPT !.todo = Tail(@)]
           b == [p EXCEPT !.isBadTx = TRUE]
           e == done(p)
           n == transition(p, "notOk")
<1>1. Steady(m, m)
  BY DEF Steady
<1>2. Edited(m, p, m.pending, Tail(m.todo), m.diagnosing, m.submitIssue, m.isBadTx)
  BY PopEdits
<1>3. /\ Head(m.todo) = "submitClash" => RunTask(m) = transition(b, "failed")
      /\ Head(m.todo) = "confirmClash" => RunTask(m) = IF Throws(p, "notOk") THEN p ELSE Queue(n, "notConfirmed")
      /\ Head(m.todo) = "notConfirmed" => RunTask(m) = n
      /\ Head(m.todo) = "submitAborted" => RunTask(m) = e
      /\ Head(m.todo) = "confirmAborted" => RunTask(m) = Queue(e, "notConfirmed")
  BY DEF RunTask
<1> HIDE DEF p
<1>4. Steady(m, p) /\ p \in MgrStates
  <2>1. Steady(m, p)
    BY <1>1, <1>2, EditSteady
  <2> QED BY <2>1 DEF Steady
<1>5. Edited(p, b, p.pending, p.todo, p.diagnosing, p.submitIssue, TRUE)
  BY <1>4, MarkEdits
<1>6. Edited(p, e, "none", p.todo, p.diagnosing, p.submitIssue, p.isBadTx)
  BY <1>4, doneEdits
<1> HIDE DEF b, e
<1>7. Steady(m, b) /\ Steady(m, e)
  BY <1>4, <1>5, <1>6, EditSteady
<1>8. Steady(m, transition(b, "failed")) /\ Steady(m, n)
  BY <1>4, <1>7, TransitionSteady DEF Performed
<1> HIDE DEF n
<1>9. "notConfirmed" \in Tasks
  BY DEF Tasks
<1>10. Steady(m, Queue(n, "notConfirmed")) /\ Steady(m, Queue(e, "notConfirmed"))
  BY <1>7, <1>8, <1>9, QueueSteady
<1>11. Head(m.todo) \in Tasks
  BY HoldsTail DEF MgrStates
<1> QED BY <1>3, <1>4, <1>7, <1>8, <1>10, <1>11 DEF Tasks

\* the timeout of an activity
LEMMA TimeoutSteady ==
    ASSUME NEW m \in MgrStates, ~m.destroyed, Tidy(m)
    PROVE  Steady(m, TimeoutTimer(m))
<1> DEFINE a == [m EXCEPT !.armed = FALSE]
           t == transition(a, "timeout")
           tag == IF t.pending = "submitting" THEN "submitAborted" ELSE "confirmAborted"
<1>1. TimeoutTimer(m) \in {a, Queue(t, tag)}
  BY DEF TimeoutTimer, Abort
<1>2. Edited(m, a, m.pending, m.todo, m.diagnosing, m.submitIssue, m.isBadTx)
  BY ArmedEdits
<1>3. tag \in Tasks
  BY DEF Tasks
<1> HIDE DEF tag, a
<1>4. Steady(m, a)
  <2>1. Steady(m, m)
    BY DEF Steady
  <2> QED BY <1>2, <2>1, EditSteady
<1>5. Steady(m, t)
  BY <1>4, TransitionSteady DEF Performed
<1> HIDE DEF t
<1>6. Steady(m, Queue(t, tag))
  BY <1>3, <1>5, QueueSteady
<1> QED BY <1>1, <1>4, <1>6

-----------------------------------------------------------------------------
(* The system                                                                 *)

\* A manager that can diagnose, of which nothing was stolen
Sound == mgr.submitter = "getTx" /\ Live(mgr) /\ ~stolen

\* The inductive invariant: something will move a manager that has started.
MovesInv ==
    /\ ~mgr.started => Fresh(mgr)
    /\ Sound => Underway(mgr)

\* at first nothing has started
LEMMA InitMoves == Init => MovesInv
<1> SUFFICES ASSUME Init PROVE MovesInv
  OBVIOUS
<1>1. PICK submitter \in Submitters : mgr = NewMgr(submitter)
  BY DEF Init
<1>2. /\ mgr.state = "submitting" /\ mgr.pending = "none" /\ mgr.todo = <<>>
      /\ mgr.deferred = NoAction /\ mgr.released = <<>> /\ mgr.diagnosing = NoDiagnosis
      /\ ~mgr.submitIssue /\ ~mgr.isBadTx /\ ~mgr.successfulSubmit /\ mgr.confirmations = 0
      /\ ~mgr.started
  BY <1>1 DEF NewMgr, NoDiagnosis
<1> QED BY <1>2 DEF MovesInv, Fresh, Deferring, Sound, Live

\* What a handler does to a manager that is on the move keeps it there.
LEMMA MovesOn ==
    ASSUME mgr.started, Moving(mgr'), Steady(mgr, mgr')
    PROVE  MovesInv'
BY DEF Steady, MovesInv, Underway, Live, Sound

\* Before the start nothing happens to it, but the start.
LEMMA FreshStep ==
    ASSUME TypeOK, MovesInv, ~mgr.started, Next
    PROVE  MovesInv'
<1>0. mgr \in MgrStates /\ Fresh(mgr)
  BY DEF TypeOK, MovesInv
<1>1. Land \/ Rollback \/ Startup \/ Destroy
  BY <1>0, StartsFirst
<1>2. CASE Land \/ Rollback
  <2>1. mgr' = mgr /\ stolen' = stolen
    BY <1>2 DEF Land, Rollback, history
  <2> QED BY <2>1 DEF MovesInv, Sound
<1>3. CASE Startup
  <2>1. mgr' = startup(mgr)
    BY <1>3 DEF Startup
  <2>2. mgr' \in MgrStates /\ mgr'.started /\ Tidy(mgr') /\ Moving(mgr')
    BY <1>0, <2>1, StartMoving
  <2> QED BY <2>2 DEF MovesInv, Underway, Sound
<1>4. CASE Destroy
  <2>1. mgr' = destroy(mgr)
    BY <1>4 DEF Destroy
  <2>2. NoClash(mgr)
    BY <1>0 DEF Fresh, NoClash
  <2>3. mgr'.destroyed /\ Fresh(mgr')
    BY <1>0, <2>1, <2>2, destroyQuiets
  <2> QED BY <2>3 DEF MovesInv, Sound, Live
<1> QED BY <1>1, <1>2, <1>3, <1>4

\* the answers to a diagnosis, as a step of the system
LEMMA DiagnosisAnswerMoves ==
    ASSUME Underway(mgr), mgr.submitter = "getTx", DiagnosisAnswer
    PROVE  Moving(mgr') /\ Steady(mgr, mgr')
<1>0. mgr \in MgrStates /\ ~mgr.destroyed /\ Tidy(mgr) /\ mgr.todo = <<>>
  BY DEF Underway, Live, DiagnosisAnswer, Idle
<1> DEFINE Ways(stage) ==
       /\ \A bad \in BOOLEAN : /\ Moving(Diagnosed(mgr, stage, bad))
                               /\ Steady(mgr, Diagnosed(mgr, stage, bad))
       /\ \A next \in DiagnosisStages : next # stage => /\ Moving(DiagnosisMoves(mgr, stage, next))
                                                        /\ Steady(mgr, DiagnosisMoves(mgr, stage, next))
       /\ Moving(transition(DiagnosisEnds(mgr, stage), "confirmed"))
       /\ Steady(mgr, transition(DiagnosisEnds(mgr, stage), "confirmed"))
<1>1. \A stage \in DiagnosisStages : mgr.diagnosing[stage] > 0 => Ways(stage)
  BY <1>0, DiagnosedMoving, DiagnosedSteady
<1>2. ASSUME mgr.diagnosing["confirmTx"] > 0, NEW outcome \in LookupAnswers,
             mgr' = ConfirmTxAnswered(mgr, outcome)
      PROVE  Moving(mgr') /\ Steady(mgr, mgr')
  <2>1. outcome \in {"found", "missing"}
    BY DEF LookupAnswers
  <2>2. mgr' \in {transition(DiagnosisEnds(mgr, "confirmTx"), "confirmed"),
                  DiagnosisMoves(mgr, "confirmTx", "inputUtxosAreResolvable")}
    BY <1>2, <2>1 DEF ConfirmTxAnswered
  <2>3. Ways("confirmTx")
    BY <1>1, <1>2 DEF DiagnosisStages
  <2> QED BY <2>2, <2>3 DEF DiagnosisStages
<1>3. ASSUME mgr.diagnosing["inputUtxosAreResolvable"] > 0, NEW resolvable \in BOOLEAN,
             mgr' = ResolvableAnswered(mgr, resolvable)
      PROVE  Moving(mgr') /\ Steady(mgr, mgr')
  <2> DEFINE bad == mgr.failedSubmissions >= BadUtxoAttempts
  <2>1. mgr' \in {Diagnosed(mgr, "inputUtxosAreResolvable", bad),
                  DiagnosisMoves(mgr, "inputUtxosAreResolvable", "checkTxInputStatus")}
        /\ bad \in BOOLEAN
    BY <1>3 DEF ResolvableAnswered
  <2> HIDE DEF bad
  <2>2. Ways("inputUtxosAreResolvable")
    BY <1>1, <1>3 DEF DiagnosisStages
  <2> QED BY <2>1, <2>2 DEF DiagnosisStages
<1>4. ASSUME mgr.diagnosing["checkTxInputStatus"] > 0, NEW status \in InputStatuses,
             mgr' = InputStatusAnswered(mgr, status)
      PROVE  Moving(mgr') /\ Steady(mgr, mgr')
  <2> DEFINE bad == status \in {"bad", "expired"}
  <2>1. mgr' = Diagnosed(mgr, "checkTxInputStatus", bad) /\ bad \in BOOLEAN
    BY <1>4 DEF InputStatusAnswered
  <2> HIDE DEF bad
  <2>2. Ways("checkTxInputStatus")
    BY <1>1, <1>4 DEF DiagnosisStages
  <2> QED BY <2>1, <2>2
<1> QED BY <1>2, <1>3, <1>4 DEF DiagnosisAnswer

\* ... and each step of one that is on the move keeps it there, unless it ends it
\* or steals from it.
LEMMA MovingStep ==
    ASSUME TypeOK, Sound, Underway(mgr), Next, ~Destroy, ~stolen'
    PROVE  Moving(mgr') /\ Steady(mgr, mgr')
<1>0. mgr \in MgrStates /\ mgr.started /\ ~mgr.destroyed /\ Tidy(mgr) /\ mgr.submitter = "getTx"
      /\ Moving(mgr) /\ Steady(mgr, mgr)
  BY DEF Underway, Live, Sound, Steady
<1>1. CASE Land \/ Rollback
  BY <1>0, <1>1 DEF Land, Rollback
<1>2. CASE Startup
  BY <1>0, <1>2 DEF Startup
<1>3. CASE DeferredFires
  <2>1. mgr' = OwnTimer(mgr) /\ Deferring(mgr)
    BY <1>3 DEF DeferredFires, Deferring, NoAction
  <2>2. Moving(mgr') /\ Kept(mgr, mgr') /\ Tidy(mgr')
    BY <2>1, OwnTimerMoving
  <2> QED BY <2>2 DEF Steady, Kept
<1>4. CASE ReleasedFires
  <2>1. PICK i \in DOMAIN mgr.released : mgr' = ReleasedTimer(mgr, i)
    BY <1>4 DEF ReleasedFires
  <2>2. ~Deferring(mgr)
    BY <1>4 DEF ReleasedFires, Deferring
  <2>3. /\ Moving(mgr') /\ Tidy(mgr')
        /\ mgr' \in MgrStates /\ mgr'.submitter = mgr.submitter
        /\ mgr'.started = mgr.started /\ mgr'.destroyed = mgr.destroyed
    BY <2>1, <2>2, ReleasedMoving
  <2> QED BY <2>3 DEF Steady
<1>5. CASE Timeout
  <2>1. mgr' = TimeoutTimer(mgr) /\ mgr.todo = <<>> /\ mgr.pending # "none"
    BY <1>5 DEF Timeout, Idle
  <2> QED BY <1>0, <2>1, TimeoutMoving, TimeoutSteady
<1>6. CASE RunQueued
  <2>1. mgr' = RunTask(mgr) /\ mgr.todo # <<>>
    BY <1>6 DEF RunQueued, Idle
  <2> QED BY <1>0, <2>1, RunTaskMoving, RunTaskSteady
<1>7. ASSUME NEW outcome \in SubmitOutcomes, SubmitAnswer(outcome)
      PROVE  Moving(mgr') /\ Steady(mgr, mgr')
  <2>1. mgr' = SubmitAnswered(mgr, outcome) /\ mgr.todo = <<>> /\ mgr.pending = "submitting"
    BY <1>7 DEF SubmitAnswer, Idle
  <2> QED BY <1>0, <2>1, SubmitAnsweredMoving, AnswersSteady
<1>8. CASE ConfirmAnswer
  <2>1. PICK outcome \in LookupAnswers : mgr' = ConfirmAnswered(mgr, outcome)
    BY <1>8 DEF ConfirmAnswer
  <2>2. outcome \in {"found", "missing"} /\ mgr.todo = <<>> /\ mgr.pending = "confirming"
    BY <1>0, <1>8 DEF ConfirmAnswer, LookupAnswers, Idle
  <2> QED BY <1>0, <2>1, <2>2, ConfirmAnsweredMoving, AnswersSteady
<1>9. CASE DiagnosisAnswer
  BY <1>0, <1>9, DiagnosisAnswerMoves
<1>10. CASE OtherSubmitterProblem
  <2>1. mgr' = otherSubmitterProblem(mgr)
    BY <1>10 DEF OtherSubmitterProblem
  <2>2. Steady(mgr, mgr')
    BY <1>0, <2>1, TransitionSteady DEF otherSubmitterProblem, Performed
  <2> QED BY <2>1, <2>2, ProblemMoving
<1>11. CASE UserResubmits
  <2>1. mgr' = transition(mgr, "resubmit")
    BY <1>11 DEF UserResubmits
  <2>2. Steady(mgr, mgr')
    BY <1>0, <2>1, TransitionSteady DEF Performed
  <2> QED BY <2>1, <2>2, ResubmitMoving
<1> QED BY <1>1, <1>2, <1>3, <1>4, <1>5, <1>6, <1>7, <1>8, <1>9, <1>10, <1>11 DEF Next

\* a submitter keeps its kind, and what is destroyed or stolen stays so
LEMMA UnsoundStays ==
    ASSUME TypeOK, mgr.started, Next, Sound'
    PROVE  Sound /\ ~Destroy
<1>1. Lawful(mgr, mgr')
  BY StepLawful
<1>2. mgr.submitter = "getTx" /\ Live(mgr)
  BY <1>1 DEF Lawful, Sound, Live
<1>3. ~stolen
  BY DEF Sound, Next, Land, Rollback, Startup, DeferredFires, ReleasedFires, Timeout, RunQueued,
         SubmitAnswer, ConfirmAnswer, DiagnosisAnswer, OtherSubmitterProblem, UserResubmits, Destroy, history
<1>4. ~Destroy
  BY DEF Destroy, destroy, Abort, Queue, Sound, Live, TypeOK, MgrStates
<1> QED BY <1>2, <1>3, <1>4 DEF Sound

\* MovesInv is inductive, with the types.
LEMMA NextMoves == ASSUME TypeOK, MovesInv, [Next]_vars PROVE MovesInv'
<1>1. CASE UNCHANGED vars
  BY <1>1 DEF vars, MovesInv, Sound
<1>2. CASE Next /\ ~mgr.started
  BY <1>2, FreshStep
<1>3. CASE Next /\ mgr.started
  <2>1. mgr'.started
    <3>1. Lawful(mgr, mgr')
      BY <1>3, StepLawful
    <3> QED BY <1>3, <3>1 DEF Lawful
  <2>2. ASSUME Sound' PROVE Underway(mgr')
    <3>1. Sound /\ ~Destroy /\ Underway(mgr) /\ ~stolen'
      BY <1>3, <2>2, UnsoundStays DEF MovesInv, Sound
    <3>2. Moving(mgr') /\ Steady(mgr, mgr')
      BY <1>3, <3>1, MovingStep
    <3> QED BY <2>2, <3>2 DEF Underway, Steady, Sound
  <2> QED BY <2>1, <2>2 DEF MovesInv
<1> QED BY <1>1, <1>2, <1>3

\* ... so it holds of every behaviour.
LEMMA SpecMoves == Spec => [](TypeOK /\ MovesInv)
<1>1. Init => TypeOK /\ MovesInv
  BY InitType, InitMoves
<1>2. (TypeOK /\ MovesInv) /\ [Next]_vars => (TypeOK /\ MovesInv)'
  BY NextType, NextMoves
<1> QED BY <1>1, <1>2, PTL DEF Spec

\* When nothing is under way, nothing moves the manager.
LEMMA MovesStranded == TypeOK /\ MovesInv => StrandedOnlyByTheft
<1> SUFFICES ASSUME TypeOK, MovesInv, mgr.submitter = "getTx", Quiet(mgr), ~stolen
             PROVE  Settled(mgr)
  BY DEF StrandedOnlyByTheft
<1>1. CASE mgr.destroyed
  BY <1>1 DEF Settled
<1>2. CASE ~mgr.destroyed
  <2>1. Supported(mgr) /\ mgr \in MgrStates
    BY <1>2 DEF MovesInv, Sound, Live, Quiet, Underway, Moving
  <2>2. /\ \A tasks : ~Holds(mgr.todo, tasks)
        /\ mgr.pending = "none" /\ ~Deferring(mgr)
    BY HoldsNone DEF Quiet, Deferring
  <2>3. ~Diagnosing(mgr)
    BY DEF Quiet, Diagnosing
  <2> QED BY <2>1, <2>2, <2>3 DEF Supported, Settled, RescueExhausted, MgrStates, States
<1> QED BY <1>1, <1>2

\* A manager whose submitter can diagnose an unknown utxo never comes to a stop
\* before it is settled, however often the service times out, the user asks for a
\* resubmission and other submitters report problems, unless a released timer has
\* taken the action that would have moved it.
THEOREM StrandedByTheft == Spec => []StrandedOnlyByTheft
BY MovesStranded, SpecMoves, PTL

-----------------------------------------------------------------------------
(* A service that answers within the timeout, and no other submitter          *)

\* No callback is queued, no released timer runs.
Clean(m) == m.todo = <<>> /\ m.released = <<>>

\* ... and nothing else is under way
Plain(m) == m \in MgrStates /\ ~m.destroyed /\ m.pending = "none" /\ ~Deferring(m) /\ Clean(m)

\* A transition with nothing pending queues and releases nothing: it meets no clash.
LEMMA PlainTransition ==
    ASSUME NEW o, Plain(o), NEW tn \in Performed
    PROVE  Clean(transition(o, tn))
<1> DEFINE n == transition(o, tn)
<1>1. CASE n = o
  BY <1>1 DEF Plain
<1>2. CASE n # o
  <2>1. PICK r : Taken(o, r) /\ Outcome(r, n, tn) /\ r.released = o.released
    BY <1>2, TransitionEffect DEF Plain
  <2>2. tn \in Rowed(r.state) /\ r.state \in States
    BY <1>2, <2>1, TransitionEffect DEF Plain, Taken, MgrStates
  <2> HIDE DEF n
  <2>3. Kept(r, n) /\ r.pending = "none" /\ r.todo = <<>> /\ r.released = <<>>
    BY <2>1, <2>2, OutcomeKept DEF Taken, Plain, Clean
  <2>4. \A s : Begins(r, n, s) => n.todo = <<>>
    BY <2>3 DEF Begins
  <2>5. \A to : Waits(r, n, to) => n.todo = <<>>
    BY <2>3 DEF Waits, Stays
  <2>6. (Drops(r, n) => n.todo = <<>>) /\ (Sights(r, n) => n.todo = <<>>) /\ (Fails(r, n) => n.todo = <<>>)
    BY <2>3 DEF Drops, Stays, Sights, Fails
  <2>7. n.todo = <<>>
    <3>1. CASE r.state = "submitting"
      BY <2>1, <2>2, <2>4, <2>5, <2>6, <3>1 DEF Outcome, SubmitOutcome, Rowed
    <3>2. CASE r.state = "confirming"
      BY <2>1, <2>2, <2>4, <2>5, <2>6, <3>2 DEF Outcome, ConfirmOutcome, Rowed
    <3>3. CASE r.state \in {"softConfirmed", "confirmed", "failed"}
      BY <2>1, <2>4, <2>5, <2>6, <3>3 DEF Outcome
    <3> QED BY <2>2, <3>1, <3>2, <3>3 DEF States
  <2> QED BY <2>3, <2>7 DEF Kept, Clean, n
<1> QED BY <1>1, <1>2

\* the end of what was pending
LEMMA PlainEdits ==
    ASSUME NEW m \in MgrStates, ~m.destroyed, ~Deferring(m), m.released = <<>>, NEW o, NEW d, NEW issue, NEW bad,
           Edited(m, o, "none", <<>>, d, issue, bad)
    PROVE  Plain(o)
BY DEF Edited, Plain, Clean, Deferring

\* the answers of a service that is in time
LEMMA AnswersClean ==
    ASSUME NEW m \in MgrStates, ~m.destroyed, ~Deferring(m), Clean(m)
    PROVE  /\ \A outcome \in SubmitOutcomes : Clean(SubmitAnswered(m, outcome))
           /\ \A outcome \in {"found", "missing"} : Clean(ConfirmAnswered(m, outcome))
<1> DEFINE n == done(m)
<1>1. Plain(n)
  <2>1. Edited(m, n, "none", m.todo, m.diagnosing, m.submitIssue, m.isBadTx)
    BY doneEdits
  <2> HIDE DEF n
  <2> QED BY <2>1, PlainEdits DEF Clean
<1> HIDE DEF n
<1>2. n \in MgrStates /\ ~n.destroyed /\ ~Deferring(n) /\ n.released = <<>> /\ n.pending = "none" /\ n.todo = <<>>
  BY <1>1 DEF Plain, Clean
<1>3. ASSUME NEW tn \in Performed PROVE Clean(transition(n, tn))
  BY <1>1, PlainTransition
<1>4. ASSUME NEW outcome \in {"found", "missing"} PROVE Clean(ConfirmAnswered(m, outcome))
  BY <1>3 DEF ConfirmAnswered, Performed, n
<1>5. Clean(transition([n EXCEPT !.submitIssue = TRUE], "notOk"))
  <2> DEFINE o == [n EXCEPT !.submitIssue = TRUE]
  <2>1. Edited(n, o, "none", <<>>, n.diagnosing, TRUE, n.isBadTx)
    BY <1>2, MarkEdits
  <2> HIDE DEF o
  <2>2. Clean(transition(o, "notOk"))
    BY <1>2, <2>1, PlainEdits, PlainTransition DEF Performed
  <2> QED BY <2>2 DEF o
<1>6. Clean(transition([n EXCEPT !.isBadTx = TRUE], "failed"))
  <2> DEFINE o == [n EXCEPT !.isBadTx = TRUE]
  <2>1. Edited(n, o, "none", <<>>, n.diagnosing, n.submitIssue, TRUE)
    BY <1>2, MarkEdits
  <2> HIDE DEF o
  <2>2. Clean(transition(o, "failed"))
    BY <1>2, <2>1, PlainEdits, PlainTransition DEF Performed
  <2> QED BY <2>2 DEF o
<1>7. Clean([n EXCEPT !.diagnosing["confirmTx"] = @ + 1])
  BY <1>2 DEF Clean, MgrStates
<1>8. ASSUME NEW outcome \in SubmitOutcomes PROVE Clean(SubmitAnswered(m, outcome))
  <2>1. CASE outcome \in {"accepted", "alreadySpent"}
    BY <1>3, <2>1 DEF SubmitAnswered, Performed, n
  <2>2. CASE outcome = "tooLate"
    BY <1>3, <2>2 DEF SubmitAnswered, Performed, n
  <2>3. CASE outcome \in {"tooEarly", "rateLimited"}
    BY <1>5, <2>3 DEF SubmitAnswered, n
  <2>4. CASE outcome = "unknownUtxo"
    BY <1>7, <2>4 DEF SubmitAnswered, n
  <2>5. CASE outcome = "otherError"
    BY <1>6, <2>5 DEF SubmitAnswered, n
  <2> QED BY <2>1, <2>2, <2>3, <2>4, <2>5 DEF SubmitOutcomes
<1> QED BY <1>4, <1>8

\* a diagnosis, at whose verdict nothing is pending
LEMMA DiagnosedClean ==
    ASSUME NEW m, Calm(m), Clean(m), NEW stage \in DiagnosisStages, m.diagnosing[stage] > 0
    PROVE  /\ \A bad \in BOOLEAN : Clean(Diagnosed(m, stage, bad))
           /\ \A next \in DiagnosisStages : next # stage => Clean(DiagnosisMoves(m, stage, next))
           /\ Clean(transition(DiagnosisEnds(m, stage), "confirmed"))
<1> DEFINE e == DiagnosisEnds(m, stage)
<1>0. m \in MgrStates /\ ~m.destroyed /\ ~Deferring(m) /\ m.released = <<>>
  BY DiagnosisEdited DEF Calm, Live, Clean
<1>1. Edited(m, e, "none", <<>>, NoDiagnosis, m.submitIssue, m.isBadTx)
  BY DiagnosisEdited
<1> HIDE DEF e
<1>2. Plain(e) /\ e \in MgrStates
  <2>1. Plain(e)
    BY <1>0, <1>1, PlainEdits
  <2> QED BY <2>1 DEF Plain
<1>3. Clean(transition(e, "confirmed"))
  BY <1>2, PlainTransition DEF Performed
<1>4. ASSUME NEW bad \in BOOLEAN PROVE Clean(Diagnosed(m, stage, bad))
  <2> DEFINE verdict == e.isBadTx \/ bad
             o == [e EXCEPT !.submitIssue = TRUE, !.isBadTx = verdict]
  <2>1. Diagnosed(m, stage, bad) = transition(o, "notOk")
    <3>1. o = [e EXCEPT !.submitIssue = TRUE, !.isBadTx = @ \/ bad]
      BY <1>2 DEF MgrStates
    <3> QED BY <3>1 DEF Diagnosed, e
  <2>2. verdict \in BOOLEAN /\ e.pending = "none" /\ e.todo = <<>> /\ ~e.destroyed /\ ~Deferring(e) /\ e.released = <<>>
    BY <1>2 DEF Plain, Clean
  <2> HIDE DEF verdict
  <2>3. Edited(e, o, e.pending, e.todo, e.diagnosing, TRUE, verdict)
    BY <1>2, <2>2, MarkEdits
  <2> HIDE DEF o
  <2>4. Plain(o)
    BY <1>2, <2>2, <2>3, PlainEdits
  <2> QED BY <2>1, <2>4, PlainTransition DEF Performed
<1>5. ASSUME NEW next \in DiagnosisStages, next # stage PROVE Clean(DiagnosisMoves(m, stage, next))
  BY <1>0 DEF DiagnosisMoves, Clean, MgrStates
<1> QED BY <1>3, <1>4, <1>5 DEF e

\* the own timer, when nothing else is pending
LEMMA OwnTimerClean ==
    ASSUME NEW m, Calm(m), Clean(m), Deferring(m)
    PROVE  Clean(OwnTimer(m))
<1> DEFINE n == OwnTimer(m)
<1>1. PICK o : Taken(m, o) /\ o.released = m.released /\ Begins(o, n, m.deferred.to)
  BY OwnTimerEffect DEF Calm, Live
<1>2. m.pending = "none"
  BY DEF Calm, OneThread, Aborted, Clean
<1> HIDE DEF n
<1>3. Clean(n)
  BY <1>1, <1>2 DEF Taken, Begins, Kept, Clean
<1> QED BY <1>3 DEF n

\* a resubmission: accepted from "failed" only, when nothing is deferred
LEMMA ResubmitClean ==
    ASSUME NEW m, Calm(m), Clean(m)
    PROVE  Clean(transition(m, "resubmit"))
<1>1. CASE ~Accepts(m, "resubmit")
  BY <1>1 DEF transition
<1>2. CASE Accepts(m, "resubmit")
  <2>1. m.state = "failed"
    BY <1>2 DEF Accepts, To, NoState
  <2>2. ~Deferring(m)
    BY <1>2, <2>1 DEF Accepts, Calm, Tidy, Deferring
  <2>3. m.pending = "none"
    BY <2>1 DEF Calm, OneThread, MgrStates, Activities
  <2> QED BY <2>2, <2>3, PlainTransition DEF Plain, Calm, Live, Performed
<1> QED BY <1>1, <1>2

\* the start
LEMMA StartClean ==
    ASSUME NEW m \in MgrStates, Fresh(m)
    PROVE  Clean(startup(m))
<1> DEFINE o == [m EXCEPT !.started = TRUE]
           n == startup(m)
<1>1. o \in MgrStates /\ o.pending = "none" /\ o.todo = <<>> /\ o.released = <<>>
  BY DEF MgrStates, Fresh
<1>2. n = StartActivity(o, "submitting", ClashOf("submitting"))
  BY DEF startup, trySubmit, ClashOf
<1> HIDE DEF o
<1>3. Kept(o, n) /\ n.todo = o.todo
  BY <1>1, <1>2, StartEffect DEF Activities
<1> HIDE DEF n
<1>4. Clean(n)
  BY <1>1, <1>3 DEF Kept, Clean
<1> QED BY <1>4 DEF n

\* A service that answers every request before its timeout, with getTx(), and no
\* other submitter to report a problem
Prompt == ~ServiceTimeouts /\ OtherProblems = 0 /\ Submitters = {"getTx"}

\* ... leaves nothing queued, released or stolen.
CleanInv == ~mgr.destroyed => ~stolen /\ Clean(mgr)

\* CleanInv is kept.
LEMMA NextClean ==
    ASSUME Prompt, TypeOK, ThreadNow, MovesInv, CleanInv, [Next]_vars, ~mgr'.destroyed
    PROVE  ~stolen' /\ Clean(mgr')
<1>0. mgr \in MgrStates /\ mgr.submitter = "getTx"
  BY DEF TypeOK, MgrStates, Prompt
<1>1. ~mgr.destroyed
  <2>1. CASE Startup
    <3>1. mgr' = startup(mgr) /\ Fresh(mgr)
      BY <2>1 DEF Startup, MovesInv
    <3> QED BY <1>0, <3>1, startupCalm, <2>1 DEF Startup
  <2>2. CASE Next /\ ~Startup
    <3>1. mgr.started \/ Land \/ Rollback \/ Destroy
      BY <2>2, <1>0, StartsFirst DEF MovesInv
    <3>2. mgr.started => Lawful(mgr, mgr')
      BY <2>2, StepLawful
    <3> QED BY <3>1, <3>2 DEF Lawful, Land, Rollback, Destroy
  <2>3. CASE UNCHANGED vars
    BY <2>3 DEF vars
  <2> QED BY <2>1, <2>2, <2>3
<1>2. ~stolen /\ Clean(mgr)
  BY <1>1 DEF CleanInv
<1>3. CASE UNCHANGED vars \/ Land \/ Rollback
  BY <1>2, <1>3 DEF vars, Land, Rollback, history
<1>4. CASE Startup
  BY <1>0, <1>2, <1>4, StartClean DEF Startup, MovesInv, history
<1>5. CASE Destroy
  BY <1>5 DEF Destroy, destroy, Abort, Queue, TypeOK, MgrStates
<1>6. CASE Next /\ ~mgr.started /\ ~Startup /\ ~Destroy
  BY <1>0, <1>3, <1>6, StartsFirst DEF MovesInv
<1>7. ASSUME mgr.started PROVE Calm(mgr)
  BY <1>1, <1>7 DEF ThreadNow, Thread, Live
<1>8. CASE DeferredFires /\ mgr.started
  <2>1. mgr' = OwnTimer(mgr) /\ Deferring(mgr) /\ stolen' = stolen
    BY <1>8 DEF DeferredFires, Deferring, NoAction, history
  <2> QED BY <1>2, <1>7, <1>8, <2>1, OwnTimerClean
<1>9. ~ReleasedFires /\ ~RunQueued /\ ~Timeout /\ ~OtherSubmitterProblem
  <2>1. DOMAIN mgr.released = {}
    BY <1>2 DEF Clean
  <2>2. ~(reports < OtherProblems)
    BY DEF Prompt, TypeOK
  <2> QED BY <1>2, <2>1, <2>2 DEF ReleasedFires, RunQueued, Idle, Clean, Timeout, Prompt, OtherSubmitterProblem
<1>10. ASSUME mgr.started, mgr.pending # "none" PROVE ~Deferring(mgr)
  BY <1>2, <1>7, <1>10 DEF Calm, OneThread, Aborted, Clean
<1>11. ASSUME mgr.started, NEW outcome \in SubmitOutcomes, SubmitAnswer(outcome)
       PROVE  ~stolen' /\ Clean(mgr')
  <2>1. mgr' = SubmitAnswered(mgr, outcome) /\ mgr.pending = "submitting" /\ stolen' = stolen
    BY <1>11 DEF SubmitAnswer
  <2> QED BY <1>0, <1>1, <1>2, <1>10, <1>11, <2>1, AnswersClean
<1>12. CASE ConfirmAnswer /\ mgr.started
  <2>1. PICK outcome \in LookupAnswers : mgr' = ConfirmAnswered(mgr, outcome)
    BY <1>12 DEF ConfirmAnswer
  <2>2. outcome \in {"found", "missing"} /\ mgr.pending = "confirming" /\ stolen' = stolen
    BY <1>0, <1>12 DEF ConfirmAnswer, LookupAnswers
  <2> QED BY <1>0, <1>1, <1>2, <1>10, <1>12, <2>1, <2>2, AnswersClean
<1>13. CASE DiagnosisAnswer /\ mgr.started
  <2>1. stolen' = stolen
    BY <1>13 DEF DiagnosisAnswer
  <2> DEFINE Ways(stage) ==
       /\ \A bad \in BOOLEAN : Clean(Diagnosed(mgr, stage, bad))
       /\ \A next \in DiagnosisStages : next # stage => Clean(DiagnosisMoves(mgr, stage, next))
       /\ Clean(transition(DiagnosisEnds(mgr, stage), "confirmed"))
  <2>2. \A stage \in DiagnosisStages : mgr.diagnosing[stage] > 0 => Ways(stage)
    BY <1>2, <1>7, <1>13, DiagnosedClean
  <2>3. ASSUME mgr.diagnosing["confirmTx"] > 0, NEW outcome \in LookupAnswers,
               mgr' = ConfirmTxAnswered(mgr, outcome)
        PROVE  Clean(mgr')
    <3>1. outcome \in {"found", "missing"}
      BY <1>0 DEF LookupAnswers
    <3>2. mgr' \in {transition(DiagnosisEnds(mgr, "confirmTx"), "confirmed"),
                    DiagnosisMoves(mgr, "confirmTx", "inputUtxosAreResolvable")}
      BY <1>0, <2>3, <3>1 DEF ConfirmTxAnswered
    <3>3. Ways("confirmTx")
      BY <2>2, <2>3 DEF DiagnosisStages
    <3> QED BY <3>2, <3>3 DEF DiagnosisStages
  <2>4. ASSUME mgr.diagnosing["inputUtxosAreResolvable"] > 0, NEW resolvable \in BOOLEAN,
               mgr' = ResolvableAnswered(mgr, resolvable)
        PROVE  Clean(mgr')
    <3> DEFINE bad == mgr.failedSubmissions >= BadUtxoAttempts
    <3>1. mgr' \in {Diagnosed(mgr, "inputUtxosAreResolvable", bad),
                    DiagnosisMoves(mgr, "inputUtxosAreResolvable", "checkTxInputStatus")}
          /\ bad \in BOOLEAN
      BY <2>4 DEF ResolvableAnswered
    <3> HIDE DEF bad
    <3>2. Ways("inputUtxosAreResolvable")
      BY <2>2, <2>4 DEF DiagnosisStages
    <3> QED BY <3>1, <3>2 DEF DiagnosisStages
  <2>5. ASSUME mgr.diagnosing["checkTxInputStatus"] > 0, NEW status \in InputStatuses,
               mgr' = InputStatusAnswered(mgr, status)
        PROVE  Clean(mgr')
    <3> DEFINE bad == status \in {"bad", "expired"}
    <3>1. mgr' = Diagnosed(mgr, "checkTxInputStatus", bad) /\ bad \in BOOLEAN
      BY <2>5 DEF InputStatusAnswered
    <3> HIDE DEF bad
    <3>2. Ways("checkTxInputStatus")
      BY <2>2, <2>5 DEF DiagnosisStages
    <3> QED BY <3>1, <3>2
  <2> QED BY <1>2, <1>13, <2>1, <2>3, <2>4, <2>5 DEF DiagnosisAnswer
<1>14. CASE UserResubmits /\ mgr.started
  <2>1. mgr' = transition(mgr, "resubmit") /\ stolen' = stolen
    BY <1>14 DEF UserResubmits, history
  <2> QED BY <1>2, <1>7, <1>14, <2>1, ResubmitClean
<1> QED BY <1>3, <1>4, <1>5, <1>6, <1>8, <1>9, <1>11, <1>12, <1>13, <1>14 DEF Next

\* With such a service a manager never comes to a stop before it is settled, not
\* even when the user asks for resubmissions.
THEOREM PromptNeverStranded == ASSUME Prompt PROVE Spec => []NeverStranded
<1> DEFINE Inv == TypeOK /\ ThreadInv /\ MovesInv /\ CleanInv
<1>1. Init => Inv
  <2>1. Init => CleanInv
    BY DEF Init, NewMgr, CleanInv, Clean
  <2> QED BY <2>1, InitType, InitThread, InitMoves
<1>2. Inv /\ [Next]_vars => Inv'
  <2> SUFFICES ASSUME Inv, [Next]_vars PROVE Inv'
    OBVIOUS
  <2>1. TypeOK' /\ ThreadInv' /\ MovesInv'
    BY NextType, NextThread, NextMoves
  <2>2. ThreadNow
    BY DEF TypeOK, Prompt, ThreadInv, ThreadNow
  <2>3. CleanInv'
    BY <2>2, NextClean DEF CleanInv
  <2> QED BY <2>1, <2>3
<1>3. Inv => NeverStranded
  <2> SUFFICES ASSUME Inv, Quiet(mgr) PROVE Settled(mgr)
    BY DEF NeverStranded
  <2>1. mgr.submitter = "getTx"
    BY DEF TypeOK, MgrStates, Prompt
  <2>2. CASE mgr.destroyed
    BY <2>2 DEF Settled
  <2>3. CASE ~mgr.destroyed
    <3>1. StrandedOnlyByTheft /\ ~stolen
      BY <2>3, MovesStranded DEF CleanInv
    <3> QED BY <2>1, <3>1 DEF StrandedOnlyByTheft
  <2> QED BY <2>2, <2>3
<1> QED BY <1>1, <1>2, <1>3, PTL DEF Spec

================================================================================
