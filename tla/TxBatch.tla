------------------------------- MODULE TxBatch -------------------------------
(***************************************************************************)
(* TxBatcher and its BatchSubmitControllers, with the TxSubmissionTrackers *)
(* of their transactions and, per tracker, one TxSubmitMgr per submitter.  *)
(*                                                                         *)
(* A manager is what TxSubmitMgr looks like from its tracker: a state, and *)
(* a notification each time it enters one.  A step is one manager's, or    *)
(* one click or call of the dapp, with all the listeners it runs; an error *)
(* thrown in a listener is swallowed, and what it skipped is skipped.      *)
(***************************************************************************)
EXTENDS Naturals, FiniteSets, Sequences

CONSTANTS
    BatchTxs,      \* transactions the dapp makes
    SubmitterSeq,  \* names of the submitters, in the order they are told
    MaxBatches     \* bound: batches made

TxMgrs == {SubmitterSeq[i] : i \in DOMAIN SubmitterSeq}

ASSUME BatchAssumption ==
    /\ MaxBatches \in Nat
    /\ SubmitterSeq \in Seq(TxMgrs) /\ SubmitterSeq # <<>>

NoBatch == 0
Batches == 1..MaxBatches

VARIABLES
    tracker,      \* $state of each tx's tracker
    batchOf,      \* the batch it was added to
    ownedBy,      \* _ownedBy
    destroyed,    \* trackers destroyed with their batch
    prompting,    \* txs the wallet is asked to sign
    mgrState,     \* $state of each tx's managers
    recheck,      \* confirmed managers that will look at the chain again
    made,         \* batches made so far
    current, previous,
    gone,         \* batches destroyed
    complete,     \* batches with isConfirmationComplete
    chainBuilder, \* setup.chainBuilder, named by the batch it was made for
    early         \* history: a batch was rotated out before it was confirmed

txVars == <<tracker, batchOf, ownedBy, destroyed, prompting>>
mgrVars == <<mgrState, recheck>>
batchVars == <<made, current, previous, gone, complete, chainBuilder, early>>
submitVars == <<txVars, mgrVars, batchVars>>

TrackerStates ==
    {"none", "registered", "building", "not needed", "nested batch", "built",
     "submitting", "confirming", "mostly confirmed", "confirmed", "failed"}
MgrStates == {"none", "submitting", "confirming", "softConfirmed", "confirmed", "failed"}

BatchTypeOK ==
    /\ tracker \in [BatchTxs -> TrackerStates]
    /\ batchOf \in [BatchTxs -> Batches \cup {NoBatch}]
    /\ ownedBy \in [BatchTxs -> {"batch", "globalTracker"}]
    /\ destroyed \subseteq BatchTxs /\ prompting \subseteq BatchTxs
    /\ mgrState \in [BatchTxs -> [TxMgrs -> MgrStates]]
    /\ recheck \in [BatchTxs -> SUBSET TxMgrs]
    /\ {made, current, previous, chainBuilder} \subseteq Batches \cup {NoBatch}
    /\ gone \subseteq Batches /\ complete \subseteq Batches
    /\ early \in BOOLEAN

BatchInit ==
    /\ tracker = [x \in BatchTxs |-> "none"]
    /\ batchOf = [x \in BatchTxs |-> NoBatch]
    /\ ownedBy = [x \in BatchTxs |-> "batch"]
    /\ destroyed = {} /\ prompting = {}
    /\ mgrState = [x \in BatchTxs |-> [m \in TxMgrs |-> "none"]]
    /\ recheck = [x \in BatchTxs |-> {}]
    /\ made = 0 /\ current = NoBatch /\ previous = NoBatch
    /\ gone = {} /\ complete = {}
    /\ chainBuilder = NoBatch
    /\ early = FALSE

-----------------------------------------------------------------------------
(* One tracker and its managers.  "s" holds a tx's tracker, mgrs and recheck. *)

InFlight == {"submitting", "confirming", "mostly confirmed", "confirmed", "failed"}

\* mutant: the table lacks a row
RowsLacking(t) ==
    CASE t = "submitting" -> {"submitting", "confirming", "failed"}
      [] t = "confirming" -> {"confirming", "mostly confirmed", "failed"}
      [] t = "mostly confirmed" -> {"confirming", "mostly confirmed", "failed"}
      [] OTHER -> {"failed", "confirming", "submitting"}

\* transitionTable, from the states in which managers report
Rows(t) ==
    CASE t = "submitting" -> {"submitting", "confirming", "failed"}
      [] t \in {"confirming", "mostly confirmed"}
           -> {"confirming", "mostly confirmed", "confirmed", "failed"}
      [] t = "failed" -> {"failed", "confirming", "submitting"}
      [] OTHER -> {}

Counted(a) ==
    CASE a = "submitting" -> {"submitting"}
      [] a = "confirming" -> {"confirming"}
      [] a = "mostly confirmed" -> {"softConfirmed", "confirmed"}

Count(ms, a) == Cardinality({m \in TxMgrs : ms[m] \in Counted(a)})

\* mutant: soft confirmations count as confirmed
AggregateSoft(ms) ==
    IF \A m \in TxMgrs : ms[m] \in {"softConfirmed", "confirmed"} THEN "confirmed"
    ELSE LET n(a) == Count(ms, a) IN
         CASE n("submitting") > n("confirming") -> "submitting"
           [] n("submitting") < n("confirming") -> "confirming"
           [] OTHER -> "tie"

\* What the managers amount to: all agree, or one kind outnumbers the others.
Aggregate(ms) ==
    LET kinds == {"submitting", "confirming", "mostly confirmed"}
        ahead == {a \in kinds : \A b \in kinds \ {a} : Count(ms, a) > Count(ms, b)}
    IN  IF \E r \in {"confirmed", "failed"} : \A m \in TxMgrs : ms[m] = r
        THEN ms[SubmitterSeq[1]]
        ELSE IF ahead = {} THEN "tie" ELSE CHOOSE a \in ahead : TRUE

\* updateSubmitterState() up to its transition, and whether that throws.
NoTransition(s) == Aggregate(s.mgrs) \notin Rows(s.tracker)
Update(s) == IF NoTransition(s) THEN s ELSE [s EXCEPT !.tracker = Aggregate(s.mgrs)]

\* otherSubmitterProblem(), where the manager takes it: it enters a state, and
\* notifies the tracker, or it looks again later.
Tell(s, m) ==
    CASE s.mgrs[m] \in {"submitting", "confirming"} -> Update(s)
      [] s.mgrs[m] = "failed" -> Update([s EXCEPT !.mgrs[m] = "confirming"])
      [] s.mgrs[m] = "confirmed" -> [s EXCEPT !.recheck = @ \cup {m}]
      [] OTHER -> s

\* The other managers are told of a failed one in order: what the first k make of it.
Told(s, m) ==
    LET told[k \in 0..Len(SubmitterSeq)] ==
          IF k = 0 THEN Update(s)
          ELSE IF SubmitterSeq[k] = m THEN told[k - 1]
          ELSE Tell(told[k - 1], SubmitterSeq[k])
    IN  told

\* What a failed manager's notification may lead to: all are told, or those before
\* one that throws.
Reports(s, m) ==
    LET stops == {k \in 0..Len(SubmitterSeq) :
                    k < Len(SubmitterSeq) => /\ SubmitterSeq[k + 1] # m
                                             /\ s.mgrs[SubmitterSeq[k + 1]] # "confirmed"}
    IN  IF NoTransition(s) THEN {s} ELSE {Told(s, m)[k] : k \in stops}

-----------------------------------------------------------------------------
(* The batches *)

Members(b) == {x \in BatchTxs : batchOf[x] = b}
AllDone(b) ==
    /\ Members(b) # {}
    /\ \A x \in Members(b) : tracker[x] \in {"confirmed", "not needed"}
Only(b, states) == \A x \in Members(b) : tracker[x] \in states

\* $stateShortSummary, where it tells anything
Failed(b) == ~AllDone(b) /\ \E x \in Members(b) : tracker[x] = "failed"
MostlyConfirmed(b) ==
    /\ Members(b) # {} /\ ~AllDone(b)
    /\ Only(b, {"confirmed", "mostly confirmed"})

\* mutant: a destroyed batch still takes part
AggregatedGone(b) ==
    IF AllDone(b)' /\ tracker' # tracker
    THEN complete' = complete \cup {b} /\ chainBuilder' = NoBatch
    ELSE UNCHANGED <<complete, chainBuilder>>

\* updateAggregateState(), after a tracker of b has changed: whatever chain
\* builder there is goes when the batch is confirmed.
updateAggregateState(b) ==
    IF b \notin gone /\ AllDone(b)' /\ tracker' # tracker
    THEN complete' = complete \cup {b} /\ chainBuilder' = NoBatch
    ELSE UNCHANGED <<complete, chainBuilder>>

\* The getter "current" makes a batch, and a chain builder for it.
MakesBatch ==
    /\ made < MaxBatches
    /\ made' = made + 1 /\ current' = made + 1 /\ chainBuilder' = made + 1

\* mutants: destroys every tracker; forgets mostly confirmed batches
destroyAll(bs) ==
    /\ gone' = gone \cup (bs \ {NoBatch})
    /\ destroyed' = destroyed \cup {x \in BatchTxs : batchOf[x] \in bs \ {NoBatch}}
canRotateSettled ==
    LET b == IF previous # NoBatch THEN previous ELSE current IN
    b = NoBatch \/ AllDone(b) \/ Failed(b)

\* destroy() of batches: their trackers too, but those that are submitting.
destroy(bs) ==
    /\ gone' = gone \cup (bs \ {NoBatch})
    /\ destroyed' = destroyed \cup
         {x \in BatchTxs : batchOf[x] \in bs \ {NoBatch} /\ ownedBy[x] = "batch"}

canRotate ==
    LET b == IF previous # NoBatch THEN previous ELSE current IN
    b = NoBatch \/ AllDone(b) \/ Failed(b) \/ MostlyConfirmed(b)

rotate ==
    /\ canRotate
    /\ destroy({previous})
    /\ previous' = current
    /\ early' = (early \/ (current # NoBatch /\ ~AllDone(current)))
    /\ UNCHANGED <<tracker, batchOf, ownedBy, prompting, mgrVars, complete>>

GetCurrent ==
    /\ current = NoBatch /\ chainBuilder = NoBatch
    /\ MakesBatch
    /\ UNCHANGED <<txVars, mgrVars, previous, gone, complete, early>>

\* new StellarTxnContext(), where the current batch is complete
NewTxnContext ==
    /\ current \in complete
    /\ rotate
    /\ MakesBatch

\* The "close" button of a batch, and its "cancel" button
CanClose ==
    /\ current # NoBatch /\ Members(current) # {}
    /\ \/ \E x \in Members(current) : tracker[x] = "failed"
       \/ Only(current, {"confirmed", "mostly confirmed", "not needed", "nested batch"})
Close ==
    /\ CanClose
    /\ rotate
    /\ current' = NoBatch /\ chainBuilder' = NoBatch
    /\ UNCHANGED made

cancel ==
    /\ current # NoBatch /\ ~CanClose
    /\ destroy({previous, current})
    /\ current' = NoBatch /\ previous' = NoBatch /\ chainBuilder' = NoBatch
    /\ UNCHANGED <<tracker, batchOf, ownedBy, prompting, mgrVars, made, complete, early>>

-----------------------------------------------------------------------------
(* Building and signing *)

TrackerBecomes(x, state) ==
    /\ tracker' = [tracker EXCEPT ![x] = state]
    /\ UNCHANGED <<made, current, previous, gone, early>>

\* A tx is added when it is built, or registered to be built later.
addTxDescr(x) ==
    /\ tracker[x] = "none" /\ current # NoBatch
    /\ \E state \in {"registered", "built"} : TrackerBecomes(x, state)
    /\ batchOf' = [batchOf EXCEPT ![x] = current]
    /\ updateAggregateState(current)
    /\ UNCHANGED <<ownedBy, destroyed, prompting, mgrVars>>

\* A registered tx is built in its turn, found not to be needed, or found to be
\* a mere heading for others; its chain stops with an error when its batch is no
\* longer the current one.
Resolve(x) ==
    /\ batchOf[x] = current /\ x \notin destroyed
    /\ \/ tracker[x] = "registered" /\ TrackerBecomes(x, "building")
       \/ /\ tracker[x] = "building"
          /\ \E state \in {"built", "not needed", "nested batch"} : TrackerBecomes(x, state)
    /\ UNCHANGED <<batchOf, ownedBy, destroyed, prompting, mgrVars>>
    /\ updateAggregateState(current)

\* $signAndSubmit() asks the wallet, from the list of the current batch.
signAndSubmit(x) ==
    /\ tracker[x] = "built" /\ batchOf[x] = current /\ x \notin destroyed
    /\ prompting' = prompting \cup {x}
    /\ UNCHANGED <<tracker, batchOf, ownedBy, destroyed, mgrVars, batchVars>>

Refused(x) ==
    /\ x \in prompting
    /\ prompting' = prompting \ {x}
    /\ UNCHANGED <<tracker, batchOf, ownedBy, destroyed, mgrVars, batchVars>>

\* The tracker enters "submitting": it makes its managers, and is registered
\* with the batcher.  A destroyed one stays as it is.
didSignTx(x) ==
    /\ x \in prompting
    /\ prompting' = prompting \ {x}
    /\ UNCHANGED <<batchOf, destroyed, recheck>>
    /\ IF x \in destroyed
       THEN UNCHANGED <<tracker, ownedBy, mgrState, batchVars>>
       ELSE /\ TrackerBecomes(x, "submitting")
            /\ ownedBy' = [ownedBy EXCEPT ![x] = "globalTracker"]
            /\ mgrState' = [mgrState EXCEPT ![x] = [m \in TxMgrs |-> "submitting"]]
            /\ updateAggregateState(batchOf[x])

-----------------------------------------------------------------------------
(* The managers *)

Working(x) == tracker[x] \in InFlight /\ x \notin destroyed
Together(x) == [tracker |-> tracker[x], mgrs |-> mgrState[x], recheck |-> recheck[x]]
Gets(x, s) ==
    /\ TrackerBecomes(x, s.tracker)
    /\ mgrState' = [mgrState EXCEPT ![x] = s.mgrs]
    /\ recheck' = [recheck EXCEPT ![x] = s.recheck]
    /\ UNCHANGED <<batchOf, ownedBy, destroyed, prompting>>
    /\ updateAggregateState(batchOf[x])

Moves(state) ==
    CASE state = "submitting" -> {"confirming"}
      [] state = "confirming" -> {"submitting", "softConfirmed"}
      [] state = "softConfirmed" -> {"confirming", "confirmed"}
      [] state = "failed" -> {"confirming", "submitting"}
      [] OTHER -> {}

\* One that was told of a failure looks again after 7 s.  The failed one confirms later
\* than that: at its rescue, 10 s later, or when it is submitted anew and then seen as
\* often as it takes, 10 s apart.  (Only these intervals keep the order.)
MgrEnters(x, m) ==
    /\ Working(x)
    /\ \E state \in Moves(mgrState[x][m]) :
         /\ state = "confirmed" => recheck[x] = {}
         /\ Gets(x, Update([Together(x) EXCEPT !.mgrs[m] = state]))

MgrLooksAgain(x, m) ==
    /\ Working(x) /\ m \in recheck[x]
    /\ Gets(x, Update([Together(x) EXCEPT !.mgrs[m] = "confirming", !.recheck = @ \ {m}]))

\* A manager fails, and notifies twice: when it enters the state, and when it
\* defers what it will do next.
MgrFails(x, m) ==
    /\ Working(x) /\ mgrState[x][m] \in {"submitting", "confirming", "failed"}
    /\ \E s \in Reports([Together(x) EXCEPT !.mgrs[m] = "failed"], m) :
         \E t \in Reports(s, m) : Gets(x, t)

BatchNext ==
    \/ GetCurrent \/ NewTxnContext \/ Close \/ cancel
    \/ \E x \in BatchTxs :
         \/ addTxDescr(x) \/ Resolve(x) \/ signAndSubmit(x) \/ Refused(x) \/ didSignTx(x)
         \/ \E m \in TxMgrs : MgrEnters(x, m) \/ MgrLooksAgain(x, m) \/ MgrFails(x, m)

BatchSpec == BatchInit /\ [][BatchNext]_submitVars

-----------------------------------------------------------------------------
(* Properties *)

\* A tx that is being submitted keeps its tracker and its managers, whatever
\* happens to its batch, and the batcher knows the tracker.
LiveTrackersSurvive ==
    \A x \in BatchTxs : tracker[x] \in InFlight =>
        /\ x \notin destroyed
        /\ ownedBy[x] = "globalTracker"
        /\ \A m \in TxMgrs : mgrState[x][m] # "none"

\* The batch being built chains its txs with a chain builder of its own, as long
\* as no batch was rotated out before it was confirmed.
ChainBuilderKept ==
    current # NoBatch /\ current \notin complete /\ ~early => chainBuilder = current

\* A tx is shown as confirmed when all its managers are done, and stays so.
ConfirmedMeansConfirmed ==
    \A x \in BatchTxs : tracker[x] = "confirmed" =>
        \A m \in TxMgrs : mgrState[x][m] = "confirmed"

\* When all its managers have confirmed it, a tx is shown as confirmed, unless
\* their ties have kept it in "submitting".
TrackerFollows ==
    \A x \in BatchTxs : (\A m \in TxMgrs : mgrState[x][m] = "confirmed") =>
        tracker[x] \in {"confirmed", "submitting"}

\* A batch that shows a "close" button can be closed, as long as no batch before
\* it is kept, and it has no tx that is a heading or not needed.
CloseButtonWorks ==
    (/\ CanClose /\ previous = NoBatch
     /\ \A x \in Members(current) : tracker[x] \notin {"nested batch", "not needed"})
    => canRotate

=============================================================================
