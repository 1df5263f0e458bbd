---------------------------- MODULE LoneSubmitMgr ----------------------------
(***************************************************************************)
(* One TxSubmitMgr with the network it talks to, its timers, and its owner *)
(* (a TxSubmissionTracker, which may report the problem of another         *)
(* submitter, and may destroy it; its user may ask for a resubmission).    *)
(*                                                                         *)
(* A step is one turn of the JavaScript event loop or one queued promise   *)
(* callback.  Queued callbacks run before the next turn, so a timer or an  *)
(* answer waits until "todo" is empty; the owner's calls come from another *)
(* machine's stack and may fall between two callbacks.                     *)
(***************************************************************************)
EXTENDS TxSubmitMgr

CONSTANTS
    ServiceTimeouts,  \* the service may take longer than the 3 s timeout
    OtherProblems,    \* bound: problems of other submitters the tracker reports
    Resubmits,        \* bound: resubmissions the user asks for
    MaxReleased,      \* bound: released timers that run when a request fails
    MaxDiagnoses      \* bound: concurrent unknown-utxo diagnoses

ASSUME LoneAssumption ==
    /\ ServiceTimeouts \in BOOLEAN
    /\ OtherProblems \in Nat /\ Resubmits \in Nat
    /\ MaxReleased \in Nat /\ MaxDiagnoses \in Nat

VARIABLES
    mgr,        \* the TxSubmitMgr
    onChain,    \* the tx is on the chain the service follows
    reports,    \* otherSubmitterProblem() calls so far
    resubmits,  \* resubmissions asked for so far
    sightings,  \* history: "found" answers since a submission was acknowledged
    rejected,   \* history: the service has rejected a submission of the tx
    stolen      \* history: a released timer has taken another's deferred action

history == <<sightings, rejected, stolen>>
calls == <<reports, resubmits>>
vars == <<mgr, onChain, reports, resubmits, sightings, rejected, stolen>>

Init ==
    /\ \E submitter \in Submitters : mgr = NewMgr(submitter)
    /\ onChain = FALSE
    /\ reports = 0
    /\ resubmits = 0
    /\ sightings = 0
    /\ rejected = FALSE
    /\ stolen = FALSE

-----------------------------------------------------------------------------
(* The chain: the tx may arrive through any submitter, and a rollback may   *)
(* take it away.                                                            *)

Land ==
    /\ ~onChain
    /\ onChain' = TRUE
    /\ UNCHANGED <<mgr, calls, history>>

Rollback ==
    /\ onChain
    /\ onChain' = FALSE
    /\ UNCHANGED <<mgr, calls, history>>

-----------------------------------------------------------------------------
(* The event loop *)

Idle == mgr.todo = <<>>

Startup ==
    /\ Idle
    /\ ~mgr.started
    /\ mgr' = startup(mgr)
    /\ UNCHANGED <<onChain, calls, history>>

DeferredFires ==
    /\ Idle
    /\ mgr.deferred.via \in {"state", "name"}
    /\ mgr' = OwnTimer(mgr)
    /\ UNCHANGED <<onChain, calls, history>>

ReleasedFires ==
    /\ Idle
    /\ \E i \in DOMAIN mgr.released : mgr' = ReleasedTimer(mgr, i)
    /\ stolen' = (stolen \/ mgr.deferred # NoAction)
    /\ UNCHANGED <<onChain, calls, sightings, rejected>>

Timeout ==
    /\ ServiceTimeouts
    /\ Idle
    /\ mgr.pending # "none" /\ mgr.armed
    /\ Len(mgr.released) < MaxReleased
    /\ mgr' = TimeoutTimer(mgr)
    /\ UNCHANGED <<onChain, calls, history>>

RunQueued ==
    /\ ~Idle
    /\ mgr' = RunTask(mgr)
    /\ UNCHANGED <<onChain, calls, history>>

-----------------------------------------------------------------------------
(* Answers of the service *)

Diagnoses(m) == m.diagnosing["confirmTx"] + m.diagnosing["inputUtxosAreResolvable"]
                  + m.diagnosing["checkTxInputStatus"]

Acknowledged == {"accepted", "alreadySpent"}
Sighted(outcome) ==
    sightings' = IF outcome = "found" THEN Bump(sightings, SoftConfirmations + 1)
                                      ELSE sightings

SubmitAnswer(outcome) ==
    /\ Idle
    /\ mgr.pending = "submitting"
    /\ outcome = "unknownUtxo" => Diagnoses(mgr) < MaxDiagnoses
    /\ mgr' = SubmitAnswered(mgr, outcome)
    /\ sightings' = IF outcome \in Acknowledged THEN 0 ELSE sightings
    /\ rejected' = (rejected \/ outcome \in {"unknownUtxo", "otherError"})
    /\ UNCHANGED <<onChain, calls, stolen>>

\* getTx() answers what the chain holds, and a failing getTx() counts as
\* missing; a failing hasUtxo() is an error
LookupAnswers == (IF onChain THEN {"found"} ELSE {"missing"})
                   \cup (IF mgr.submitter = "getTx" THEN {} ELSE {"error"})

ConfirmAnswer ==
    /\ Idle
    /\ mgr.pending = "confirming"
    /\ \E outcome \in LookupAnswers :
         /\ outcome = "error" => Len(mgr.released) < MaxReleased
         /\ mgr' = ConfirmAnswered(mgr, outcome)
         /\ Sighted(outcome)
    /\ UNCHANGED <<onChain, calls, rejected, stolen>>

DiagnosisAnswer ==
    /\ Idle
    /\ \/ /\ mgr.diagnosing["confirmTx"] > 0
          /\ \E outcome \in LookupAnswers :
               mgr' = ConfirmTxAnswered(mgr, outcome) /\ Sighted(outcome)
       \/ /\ mgr.diagnosing["inputUtxosAreResolvable"] > 0
          /\ \E resolvable \in BOOLEAN : mgr' = ResolvableAnswered(mgr, resolvable)
          /\ UNCHANGED sightings
       \/ /\ mgr.diagnosing["checkTxInputStatus"] > 0
          /\ \E status \in InputStatuses : mgr' = InputStatusAnswered(mgr, status)
          /\ UNCHANGED sightings
    /\ UNCHANGED <<onChain, calls, rejected, stolen>>

-----------------------------------------------------------------------------
(* The owner *)

\* The tracker starts its managers together, with no startup delay, so that
\* all have started when the first of them has a problem to report.
OtherSubmitterProblem ==
    /\ reports < OtherProblems
    /\ mgr.started /\ ~mgr.destroyed
    /\ mgr' = otherSubmitterProblem(mgr)
    /\ reports' = reports + 1
    /\ UNCHANGED <<onChain, resubmits, history>>

\* The button beside a failed tx; the manager may be in any state by now.
UserResubmits ==
    /\ resubmits < Resubmits
    /\ mgr.started /\ ~mgr.destroyed
    /\ mgr' = transition(mgr, "resubmit")
    /\ resubmits' = resubmits + 1
    /\ UNCHANGED <<onChain, reports, history>>

Destroy ==
    /\ ~mgr.destroyed
    /\ mgr' = destroy(mgr)
    /\ UNCHANGED <<onChain, calls, history>>

Next ==
    \/ Land \/ Rollback
    \/ Startup \/ DeferredFires \/ ReleasedFires \/ Timeout \/ RunQueued
    \/ \E outcome \in SubmitOutcomes : SubmitAnswer(outcome)
    \/ ConfirmAnswer \/ DiagnosisAnswer
    \/ OtherSubmitterProblem \/ UserResubmits \/ Destroy

Spec == Init /\ [][Next]_vars

(***************************************************************************)
(* The event loop runs what is due, and a request settles (by its answer   *)
(* or by the 3 s timeout; the lookups of a diagnosis have no timeout and   *)
(* rely on the service).  A service does not answer every submission with  *)
(* "rate limited" or "too early" for ever.  Chain and owner are free.      *)
(***************************************************************************)
Informative == SubmitOutcomes \ {"rateLimited", "tooEarly"}

Fairness ==
    /\ WF_vars(Startup)
    /\ WF_vars(DeferredFires)
    /\ WF_vars(ReleasedFires)
    /\ WF_vars(RunQueued)
    /\ WF_vars(ConfirmAnswer \/ Timeout \/ \E outcome \in SubmitOutcomes : SubmitAnswer(outcome))
    /\ WF_vars(DiagnosisAnswer)
    /\ SF_vars(\E outcome \in Informative : SubmitAnswer(outcome))

FairSpec == Spec /\ Fairness

-----------------------------------------------------------------------------
(* Properties *)

TypeOK ==
    /\ mgr \in MgrStates
    /\ onChain \in BOOLEAN
    /\ reports \in 0 .. OtherProblems
    /\ resubmits \in 0 .. Resubmits
    /\ sightings \in 0 .. SoftConfirmations + 1
    /\ rejected \in BOOLEAN
    /\ stolen \in BOOLEAN

\* Nothing is running, queued or scheduled any more.
Quiet(m) ==
    /\ m.started /\ m.pending = "none" /\ m.todo = <<>>
    /\ \A d \in DiagnosisStages : m.diagnosing[d] = 0
    /\ m.deferred = NoAction

RescueExhausted(m) ==
    Quiet(m) /\ m.state = "failed" /\ m.isBadTx /\ m.rescueAttempts > MaxRescueAttempts
Settled(m) == m.destroyed \/ m.state = "confirmed" \/ RescueExhausted(m)

\* A manager never comes to a stop before the tx is confirmed, or is bad and
\* out of rescue attempts: some timer, request or callback will move it.
NeverStranded == Quiet(mgr) => Settled(mgr)

\* Where it does stop, a released timer has taken the action that would have
\* moved it, or the submitter has no getTx() to diagnose an unknown utxo with:
\* there is no other way to lose the thread.
StrandedOnlyByTheft ==
    mgr.submitter = "getTx" /\ Quiet(mgr) /\ ~Settled(mgr) => stolen

\* No other submitter has reported a problem of its own.  A report during a
\* submission starts a second one (see BadByVerdict), after which little holds.
Undisturbed == reports = 0

\* A tx counts as bad only after the service has rejected it.
BadByVerdict == mgr.isBadTx => rejected

\* It does, undisturbed.
BadByVerdictOrReport == Undisturbed => BadByVerdict

\* A manager is in "confirmed" because the network showed the tx more than
\* SoftConfirmations times since it last acknowledged a submission.
HardConfirmEarned ==
    Undisturbed /\ mgr.state = "confirmed" => sightings > SoftConfirmations

\* Submission and confirmation never overlap: no activity is refused because
\* another one is pending, as long as no other submitter reports a problem.
ActivitiesNeverClash ==
    Undisturbed => \A i \in DOMAIN mgr.todo : mgr.todo[i] \notin {"submitClash", "confirmClash"}

\* "failed" always has a cause: the tx is bad or its validity has ended.
FailedForCause == mgr.state = "failed" => mgr.isBadTx \/ mgr.expirationDetected

\* A tx that was found to be bad is looked for, and never submitted again, as
\* long as no other submitter reports a problem and the user does not ask for it.
NewSubmission == mgr.pending # "submitting" /\ mgr'.pending = "submitting"
BadTxNotResubmitted ==
    [][mgr.isBadTx /\ Undisturbed /\ resubmits' = 0 => ~NewSubmission]_vars

\* After destroy() no step changes the state, and none but the startup delay
\* sends a request.
DestroyedIsInert ==
    [][mgr.destroyed =>
         /\ mgr'.state = mgr.state
         /\ mgr.started => mgr'.pending \in {mgr.pending, "none"}]_vars

\* A bad tx comes to rest for good: its rescue is bounded, or finds it on the
\* chain.
BadTxComesToRest == mgr.isBadTx ~> []Settled(mgr)

\* A tx that stays on the chain ends in "confirmed", or in an exhausted rescue.
LandedTxSettles == (<>[]onChain) => <>Settled(mgr)
=============================================================================
