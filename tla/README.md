# A verification project for stellar-contracts

stellar-contracts is an off-chain (TypeScript) and on-chain (Helios) framework
for Cardano dApps.  Its concurrent core is the machinery that carries signed
transactions to the network and keeps a local index of the chain.  This
directory models that core in TLA+, checks it with TLC on small instances, and
proves its main safety properties with TLAPS for every value of the constants.

Paths below are relative to the repository (`src/` in `PROJECT.json`).

## 1. Inventory

### 1.1 Submission (`src/networkClients`, `src/StateMachine.ts`)

| component | state | operations | interacts with |
| --- | --- | --- | --- |
| `StateMachine` | `$state`, one deferred action, `destroyed` | `transition`, `finishTransition`, `$deferredState`, `$deferredTransition`, `destroy` | timers; listeners of "transition", "changed", "state:entered", called synchronously |
| `TxSubmitMgr` (one per tx and submitter) | `$mgrState` (counters, verdicts), `pending` activity, `submitIssue` | `trySubmit`, `tryConfirm`, `notSubmitted`, `notConfirmed`, `otherSubmitterProblem`, `destroy` | a submitter (`submitTx`, `getTx`, `hasUtxo`), its tracker |
| `mkCancellablePromise` | status, timeout | resolve, reject, cancel, time out | pendingActivity |
| `TxSubmissionTracker` (one per tx) | state machine from registered to confirmed or failed, one manager per submitter | `$signAndSubmit`, `$didSignTx`, `$startSubmitting`, `updateSubmitterState`, `update`, `destroy` | its managers ("changed"), the batch |
| `BatchSubmitController` | trackers, aggregate state | `$addTxns`, `$txChanges`, `$txError`, `updateAggregateState`, signing | trackers, signing strategy, UI |
| `TxBatcher` | current batch, previous batches | `rotate`, `current` | batches, `Capo` |
| `WalletSigningStrategy` | none | `signTxBatch`, `signSingleTx` | wallet, trackers |
| `OgmiosTxSubmitter` | the socket | `submitTx`, `hasUtxo` | Ogmios service |

Hard: 3 s timeouts racing late answers, timers of actions that were given up,
callbacks that run after the state has moved, several managers that report into
one tracker, which reports back to them from inside their own transition.
Correct: a manager never strands, `failed` and `confirmed` are earned, a bad tx
is not resubmitted, activities do not overlap, a destroyed manager is inert;
the tracker's state agrees with its managers'.

### 1.2 The UTxO index (`src/networkClients/UtxoIndex`)

| component | state | operations | interacts with |
| --- | --- | --- | --- |
| `CachedUtxoIndex` | sync state, followed tip, in-memory caches | initial, incremental and catch-up sync, reconcile, `registerPendingTx`, confirm, deadlines, rollback, resubmit, block rollback | store, fetcher, emitters |
| `DexieUtxoStore` | IndexedDB tables: utxos, blocks, pending txs, wallets, a sync lock | lock: acquire, freshen, release, `withWriteLock`; queries | every tab of the browser |
| `RateLimitedFetch` | token bucket, rate, recovery timer, metrics | `fetch`, back off on 429, recovery | the Blockfrost service |

The index is one `CachedUtxoIndex` object per browser tab over one IndexedDB
database.  Inside a tab four activities interleave at every `await`: the
constructor's `syncNow()`, the 5 s poll of the chain tip, the sync cycle a poll
starts, and the 10 s check of pending transactions' deadlines (which runs in
every tab, not only in the one that syncs).  Submission reaches the index
through `registerPendingTx()`, the submission log and the events
`txConfirmed`, `txRolledBack`.

Hard: two tabs that sync at once, a lock that expires under its holder, a write
that arrives after the lock is lost, a tx that is pending, confirmed, rolled
back and confirmed again, deadlines that race the confirmation.
Correct: at most one tab writes a sync at a time; a spent UTxO is not offered
while its tx is pending; a rollback restores exactly what the tx had taken.

### 1.3 The rest

| component | state | what is modelled |
| --- | --- | --- |
| compile cache (`helios/CachedHeliosProgram*.ts`) | a file and a lock per program, shared by processes | `CompileCache` |
| `Capo`, data policies (`DelegatedDataContract`), `CharterStatus` | the charter UTxO on the chain: manifest and pending changes; the page's upgrade | the upgrade of a charter by several operators, in `Charter` |
| on-chain Helios policies (`*.hl`) | none: predicates of one transaction | what they check of a charter's changes, in `Charter` |
| `StellarTxnContext` | one transaction under construction | its part in batches (rotation in the constructor, resolution of added transactions), in `TxBatch`; the order of nested transactions, in `Charter` |
| the rest of `Capo`, `StellarContract`, `UtxoHelper`, delegates, minting | none that outlives a call | not modelled, see section 9 |
| `helios/*` (bundling, data bridge, rollup plugins) | none at run time | not modelled |
| `testing/*` | an in-process ledger, a file cache of snapshots, helpers | not modelled |
| `ui/*`, loggers, configuration, utilities | presentation | what the UI does to an index is part of `SyncMutex`, what its buttons do to a batch part of `TxBatch` |

Hard: an upgrade is up to a dozen transactions, each made from what was read
before the one it follows had landed, left at any point by a closed page or a lack
of funds, and crossed by another operator's.
Correct: no transaction loses a policy; the next upgrade completes what an earlier one left.

`PROJECT.json` lists all of them under "components", and under "hazards" what
in this code is hard to test, each at its line, with the properties that would
catch it going wrong.

## 2. Modules

| modules | what they state | proved |
| --- | --- | --- |
| `TxSubmitMgr`, `LoneSubmitMgr` | one manager, its activities, timers and network | `LoneSubmitMgrProofs`, `LoneThreadProofs`, `LoneMovesProofs`, each extending the one before |
| `Lease`, `SyncMutex` | the tabs' election of the one that syncs; refinement of a lease | `SyncMutexProofs` |
| `Blockchain`, `ChainIndex`, `PendingTxs`, `UtxoIndex` | the followed chain with its forks, the table of blocks, the pending transactions of several tabs; each extends the one before | `UtxoIndexProofs` |
| `TxBatch` | batcher, batches, trackers, and managers as their trackers see them | `TxBatchProofs` |
| `WriteLock`, `RateLimitedFetch`, `CompileCache` | a lock in a row, a token bucket, a lock on a file | `ServicesProofs` |
| `Charter` | a charter, the transactions of its upgrades, the scripts that validate them | `CharterProofs` |

`SyncMutex` and `UtxoIndex` meet at the question who syncs: the first shows under
which conditions one tab at a time does, the second takes one syncing tab for
granted.  `LoneSubmitMgr` and `TxBatch` meet at the manager: the first has
everything a manager does, the second its states and its notifications.

What would come next: the other theorems about the index after a fork, a refinement that
shows the manager of `TxBatch` to be one of `LoneSubmitMgr`, and the index's
resubmissions.

## 3. Submission: `TxSubmitMgr` and `LoneSubmitMgr`

**State.**  `TxSubmitMgr` is constant-level.  A manager is a record: the state
of `StateMachine` (`state`, `destroyed`, the one `deferred` action, and
`released`, the actions given up whose timers still run), the pending activity
and whether its 3 s timeout can still fire (`pending`, `armed`), the queued
promise callbacks (`todo`), the running diagnoses of an unknown UTxO
(`diagnosing`, by the lookup they await), and the counters and verdicts of
`$mgrState`.  Each handler of the class is a function from the record to the
next one, with everything it calls: `transition` includes `finishTransition`,
the release of the deferred action, the state's entry hook and what the hook
starts.

**Steps.**  `LoneSubmitMgr` makes one step of each turn of the event loop and of
each queued callback.  A timer or an answer waits until the callbacks are done;
the owner's calls come from another machine's stack and may fall between two.

| action | code |
| --- | --- |
| `Startup`, `DeferredFires`, `ReleasedFires` | the startup delay; timers of `$deferredState` and `$deferredTransition` (`StateMachine.ts:440-490`), own and released |
| `Timeout` | `mkCancellablePromise`'s timer, wrapped by `pendingActivity` |
| `SubmitAnswer`, `ConfirmAnswer`, `DiagnosisAnswer` | the service's answers, sorted by `trySubmit`, `tryConfirm`, `notSubmitted` and the lookups it awaits |
| `RunQueued` | a `.then`, `.catch` or `await` continuation |
| `OtherSubmitterProblem`, `Destroy` | the tracker |
| `UserResubmits` | the button beside a failed tx (`ui/TxDetailPanel.tsx:176`), which asks every manager to resubmit, whatever its state |
| `Land`, `Rollback` | the chain |

**Bounds.**  `SoftConfirmations`, `MaxConfirmationFailures`, `BadUtxoAttempts`,
`MaxRescueAttempts` are the code's thresholds, parameters here: the code only
compares counters with them, and each counter stops (`Bump`) just above its
threshold, where values are no longer told apart.  Thresholds of 1 and 2 let
every comparison go both ways.  `OtherProblems`, `Resubmits`, `MaxReleased`
and `MaxDiagnoses` bound calls, live timers and overlapping diagnoses; one or two of
each suffice for two activities to overlap, which is what the properties are
about.  Durations are left out: a timer may fire at any moment, which allows
orders the real clock would not.

**Runs.**

| run | properties | shows |
| --- | --- | --- |
| `lone_live` | `TypeOK`, `NeverStranded`, `BadTxComesToRest`, `LandedTxSettles` | When requests are answered within their 3 s and the submitter has `getTx()`, a manager always has something scheduled until it is settled; a bad tx's rescue ends; a tx that stays on the chain settles |
| `lone_safety` | `StrandedOnlyByTheft`, `BadByVerdictOrReport`, `ActivitiesNeverClash`, `BadTxNotResubmitted`, `HardConfirmEarned`, `FailedForCause`, `DestroyedIsInert` | The same with timeouts, failing lookups, both kinds of submitters and problems reported by others, and a user who asks for a resubmission: 3.2 million states.  `BadTxNotResubmitted` holds until the user asks |
| `lone_persist` (violation) | `NeverStranded` | With timeouts a manager can be left with nothing scheduled, see below |
| `lone_otherProblem` (violation) | `BadByVerdict` | Another submitter's problem can mark a good tx as bad |

`CHECK_DEADLOCK FALSE`: a settled or destroyed manager really stops.

**Fairness** (`FairSpec`).  Weak for timers and queued callbacks (the event loop
runs what is due) and for the answer of a pending request (it settles by its
answer or by the timeout).  The lookups of a diagnosis have no timeout in the
code; they rely on the service, and so does the model.  Strong for informative
answers to submissions: a service that says "rate limited" or "too early" for
ever keeps the code retrying for ever, by design.  Nothing is assumed of the
chain, of the owner, or of other submitters.

**What the two violations say.**  *Stolen actions.*  `transition()` drops the
deferred action but leaves its timer; the timer's callback asks only whether
*some* action is deferred and takes whichever it finds (`StateMachine.ts:465`).
After a confirmation timeout, the released reconfirmation timer (7 s) takes the
rescue of a failed tx (10 s) and discards it.  `StrandedOnlyByTheft` shows that,
for a submitter with `getTx()`, this is the only way to strand.  *A false
verdict.*  `submitting.otherSubmitterProblem` returns `false` to cancel the
transition, but `transition()` computes `onTransition?.() || targetState`
(`StateMachine.ts:408`); the second submission is refused, and the refusal is
taken for the service's.  Most properties of `lone_safety` are therefore stated
for a manager that no other submitter has disturbed (`Undisturbed`).

**Observed, without a run of its own.**  A submitter without `getTx()`
(`OgmiosTxSubmitter`) strands when its tx spends an unknown UTxO: the diagnosis
throws after the submission was given up (`TxSubmitMgr.ts:531`; its rejection is
nobody's).  The rescue stops after 20 attempts (`TxSubmitMgr.ts:72`), where
`tests/02c-TxSubmitMgr.test.ts:400` expects at most 11 and a comment speaks of
about ten.

## 4. Sync ownership: `Lease` and `SyncMutex`

**State.**  The `syncMutex` row (whose, and how old), the metadata
`initialSyncDone`, whether the store has blocks, and for each tab the place of
its `syncNow()` (`pc`), `_isSyncOwner`, its polls (`refresh`, `poll`, `polled`,
`tips`), its running cycle (`_syncInProgress`) and a `stopPeriodicRefresh()` that
awaits its release.  A Dexie transaction and the code up to the next `await` are
one step, so that a tab's activities interleave with each other and with other
tabs' at exactly the points where the code gives up control.

| action | code |
| --- | --- |
| `Open`, `FirstTry`, `ChooseSync`, `FullSyncDone`, `MarkDone`, `InitialSyncFails` | constructor and `syncNow()` |
| `WaitTurn`, `StartOver` | `waitForInitialSyncDone()` and its recursive call |
| `StartRefresh`, `Poll`, `PollFreshens`, `PollAcquires`, `TipAnswered`, `CycleEnds` | `startPeriodicRefresh()`, `runSyncCycle()` |
| `StopRefresh`, `StopReleases` | `stopPeriodicRefresh()` |
| `Tick`, `Crash` | clock; a closed tab |

`Faults` says what may go wrong in a run: timers of a tab that stall, tabs that
crash, polls that start later than `syncNow()` (as when the index is made from
the bundle's configuration), polls that are stopped, and an initial sync that
throws.  A tab whose polls were stopped never starts them again: nothing in the
source does.

**Bounds.**  Time counts poll intervals (5 s).  `Staleness` stands for the 15 s
of `mutexStalenessMs`, `MaxWait` for the 120 s of the wait; what matters is that
a row can be fresh, older, and stale, and that the wait outlasts staleness, which
1 or 2 and 2 or 3 allow.  `MaxTips` bounds polls of one tab that await the chain
tip at the same time (2 is an overlap).  Three tabs where a third party matters,
two where the search is large (2.0 million states in `sync_faults`).  A tab opens
once: a reload is a new tab with a new random pid.

**Runs.**

| run | properties | shows |
| --- | --- | --- |
| `sync_prompt` | `OneSyncer` | Three tabs on a fresh store with timely timers: two never sync at once |
| `sync_faults` | `TypeOK`, `ImplementsLease` | Under every fault, the row is a lease: nobody takes it fresh from another |
| `sync_live` | `InitialSyncEnds`, `MistakenOwnerFindsOut`, `SomeoneSyncs` | Every initial sync ends, a tab that wrongly takes itself for the owner finds out, a dead tab's mutex comes back |
| `sync_late` (violation) | `OneSyncer` | A long initial sync in a tab whose polls have not started is joined by another tab's |
| `sync_takeover` (violation) | `OneSyncer` | After a crash a waiting tab releases the mutex that its own poll has taken, under the poll's running cycle |

`Lease` is the abstract specification: one holder at a time, a lease that has
not expired ends only by a release, an expired one may be taken.  `SyncMutex`
implements it with `holder <- mutex.pid` and `expired <- Stale`.  That is what
the row promises whatever the tabs do; *one syncer at a time* is more, as a tab
may sync without the mutex, and needs the owner to freshen it in time.

**Fairness.**  Time passes; a live tab's event loop runs what is due; requests
are answered, if with an error.  Who opens, stops or crashes is free.  `sync_live`
has crashes and late polls, and no endless stall: a tab that is throttled for
ever makes no progress, and says nothing about the code.  Nor does it have
`stop`: with it, and with three tabs of which one crashes before the first sync
is over, two waiting tabs can take the mutex from each other turn by turn without
either reaching its sync (`StartOver` releases what `WaitTurn` took), until the
120 s are over.

**Observed, without a run of its own.**  A tab that is not the owner starts a
cycle when its poll's tip answers after it has lost the mutex
(`CachedUtxoIndex.ts:1024-1027`).  A stop, or an initial sync that fails,
releases the mutex while the cycle that a poll started goes on.

## 5. The index: `Blockchain`, `ChainIndex`, `PendingTxs`, `UtxoIndex`

**State.**  `Blockchain` is the chain as the block service shows it: blocks, each
with its predecessor and its transactions, the current chain among them, and forks
that replace its last blocks.  `ChainIndex` has the table of blocks
(unprocessed, processed, rolled back), each tab's followed tip, and the one sync
cycle with the stage it is in.  `PendingTxs` has the entries of pending and
found transactions, the UTxOs with what spends them, `pendingTxHashes` of each
tab, and what is in flight: entries that `confirmPendingTx()` or a deadline check
has read and will save as it read them (`confirming`, `held`), and entries that a
rollback has read, with how far it has undone them (`unwinding`).  `UtxoIndex` has the
list of pending entries that step 4 of a cycle works through (`asked`) and
composes them: one action of the chain, of the cycle or of a tab at a time, cut
where the code awaits the network or begins another transaction of the store.

| action | code (`CachedUtxoIndex.ts`) |
| --- | --- |
| `ChainGrows`, `ChainForks` | the chain |
| `FirstSync` | `syncNow()`: the snapshot of the UTxOs, the tip, the tip marked as processed |
| `FollowsChain` | `discoverChainTip()`, mode selection, `fetchAndStoreNewBlocks()`, `syncIncremental()`, `syncCatchup()` |
| `ForkSeen`, `MarkOrphans` (in `FollowsChain`) | `detectRolledBackBlocks()`, `executeBlockRollback()` |
| `ProcessesTx`, `ConfirmsTx` | `processTransactionForNewUtxos()`, `confirmPendingTx()` |
| `VerificationReads`, `VerifiesTx` | `tryConfirmPendingTxs()`: its one read (1716), then a request for each entry; what lands or is registered later waits for the next cycle |
| `Reconciles`, `CycleSettles` | `reconcileUtxos()`, `updateConfirmationDepths()` |
| `Registers` | `registerPendingTx()` |
| `ChecksDeadlines` | `checkPendingDeadlines()` of any tab: `DeadlineReads` reads all pending entries (1877); `DeadlineSaves` looks at the block and at the tip the tab has by then (1894-1903), and saves what it read (1911) |
| `RollsBack` | `executeSettledRollbacks()` of any tab: `RollbackReads` (1944), `RollbackClears` (the second gate, and the claims, 2005), `RollbackDeletes` (the output, 2012), `RollbackEnds` (the entry, 2048) |
| `RequestFails`, `TabReloads` | a failed request, a tab closed or reloaded, `loadPendingFromStore()` |

**Abstractions.**  One tab syncs (`owner`); another may become the one after a
reload.  No transaction bears the name of a state of an output (`PendingAssumption`).  A block's slot is its height.  A block has at most one transaction of
interest, and a transaction one input and one output.  A fork never returns to a
block it abandoned.  Only outputs the index offers are spent by `registerPendingTx()`.
The slow path of one transaction (its UTxOs, then its entry) is one step.
Confirmation depths are two: provisional or settled.

**Assumptions**, each a constant or a guard, each needed by some property:

- `MaxLag + MaxRise <= Grace + ProvisionalDepth` (`Paced` in the proofs).  Between two
  cycles that nothing disturbs the chain grows by at most `MaxLag`, and the tip that a
  tab has seen rises by at most `MaxRise` while a deadline check of that tab holds what
  it has read (`InTime`); together that is no more than the grace period of deadlines
  and the depth at which a rollback may begin.  The code enforces neither: beyond it
  a check gives up what has landed (`LandedNotRolledBack`, and see below).
- `SlowFirstSync = FALSE`: the chain stands still between the snapshot of the UTxOs and
  the tip the initial sync marks as processed.  Otherwise blocks are missed
  (`NoSilentGap`, `SpentNotOffered`).
- `MaxForks = 1`, `ForkDepth = 1`: one fork, of one block.  A fork of two blocks can be deeper
  than the hole that a catch-up leaves in the table of blocks (`NoSilentGap`); a
  second fork leaves a confirmation in a block nobody looks at again
  (`NoOrphanedConfirmation`).

**Bounds.**  Five heights with catch-up beyond a distance of 1 (the code's
`DEFAULT_CATCHUP_THRESHOLD` is 20 blocks) give each kind of cycle; one fork of one block;
two tabs, symmetric; two transactions out of three, of which `p` spends the initial
output `u`, `q` spends `p`'s output, and `c`, from elsewhere, contends with `p` for `u`;
one mishap, a failed request or a reload.  A grace of 2 and a provisional depth of 1, so
that each of the two gates of a rollback is passed and refused, with a lag of 2 and a rise
of 1, the largest that `Paced` allows: a check reads an entry that cannot pass yet, the tx
lands, the tip rises, and the check is then put to the test.  `MaxTrouble = 2` bounds what
happens together of forks, mishaps and entries in the hands of checks and rollbacks: a
fork or a reload while an entry is held, or two checks or rollbacks at once, of one
tab or of two.

| run | properties | shows |
| --- | --- | --- |
| `index_safety` | `TypeOK`, `NoSilentGap`, `SpentNotOffered`, `LandedNotRolledBack`, `RollbackComplete`, `NoOrphanedConfirmation`, `OnlyForksUnconfirm` | Within the assumptions nothing on the chain below the cursor is missed, no spent output is offered, nothing that landed is given up, and a rollback leaves nothing behind: 1.8 million states |
| `index_cursor` (violation) | `CursorKept` | After the initial sync there may be no processed block, and then no cycle gets further (`npc01`, line 757): the only processed block was the tip, and it was orphaned |

There is no liveness here: that an index catches up depends on the chain's pace and on a
service that answers, of which the code promises nothing.

**Observed, without a run of its own** (each falls outside the assumptions, or is
a guard of the property named):

- *A late deadline check.*  `checkPendingDeadlines()` reads the pending entries first
  (1877), compares deadlines with a tip it looks at after awaits (1903), and saves the
  entries as it read them (1911), although `UtxoIndex.reqts.md:413` has it query "pending
  entries whose deadline slot is at least `confirmationThresholds.provisionalDepth` blocks
  behind `lastBlockHeight`".  A check that a cycle overtakes marks a confirmed
  transaction as `rollback-pending`, and the rollback that follows offers its inputs again.
  It takes a tip that rises by more than `MaxRise` meanwhile: a tab that takes over from
  another and jumps to the present tip with a check under way, or one whose timers were
  throttled.  (With `Grace = 1` in `MCIndex_safety.cfg` TLC shows it in eight steps.)
- The initial sync reads the UTxOs before it fetches the tip that it marks as
  processed (565-610): blocks in between are never looked at.  One that is
  interrupted after its snapshot and repeated keeps UTxOs spent meanwhile.
- A tab closed between lines 609 and 610 leaves an unprocessed tip and no processed
  block: `npc01` for ever.
- A fork deeper than the catch-up's hole in the block table leaves blocks that are
  neither reverted nor processed.
- `SpentNotOffered` leaves out forks with two contenders: a contender `c` is
  confirmed, forked out (pending again, still holding its claim) and `p` lands by
  the fast path, which does not take its inputs; the later rollback of `c` offers a
  spent UTxO.
- The catch-up's reconciliation hides pending outputs of other tabs (953).
- Another tab's transaction stays pending until step 4 of a cycle; a deadline check
  while the index lags rolls back a transaction that has landed.
- A transaction confirmed by step 4 in a block that is not stored, and then
  orphaned, stays confirmed (`NoOrphanedConfirmation` speaks of stored blocks).
- `executeBlockRollback()` throws if the service no longer knows an orphaned
  block's transactions (404); its list of canonical blocks excludes the tip, so
  that a transaction included again in the tip is reverted to pending.
- A deadline check suspended across a fork that reaches back before the deadline, and the
  cycle after it, overwrites a confirmation.
- An orphan stored unprocessed below a catch-up's tip is processed later: two
  processed blocks of one height.

## 6. Batches and services: `TxBatch`, `WriteLock`, `RateLimitedFetch`, `CompileCache`

These share no state and never call one another, nor does `Charter`.  `MCServices` puts
them into one run, each behaviour of which is one of the component that `subject` names; the others
stay as they began, and their fair actions are not enabled.

**`TxBatch`.**  State: of each transaction, its tracker's state, its batch, who owns
the tracker, whether it is destroyed, whether the wallet is being asked; of each of
its managers, the state; of the batcher, the current and previous batch, those
destroyed, those confirmed, and for which batch `setup.chainBuilder` was made.  A
batch's summary is a function of its trackers' states, because every change of a
tracker recomputes it; what latches (`isConfirmationComplete`, the chain
builder) is state.

| action | code |
| --- | --- |
| `GetCurrent`, `NewTxnContext` | `TxBatcher.current`; the constructor of `StellarTxnContext`, which rotates a confirmed batch |
| `Close`, `cancel` | the buttons of `ui/TxBatchUI.tsx`: `rotate()`, `cancel()` |
| `addTxDescr`, `Resolve` | `BatchSubmitController.addTxDescr()`, `resolveMultipleTxns()` |
| `signAndSubmit`, `Refused`, `didSignTx` | the button of `ui/TxBatchViewer.tsx`, the wallet's answer, `$startSubmitting()` |
| `MgrEnters`, `MgrLooksAgain`, `MgrFails` | a manager's notification, with `updateSubmitterState()`, what it tells the other managers, and their own notifications inside it |

A manager may enter what its transition table lets it enter.  A failed manager
notifies twice, and each time the others are told in order, up to one whose own
notification throws (none does that when it is told while confirmed).  A confirmed
manager that was told looks again after 7 s, before a failed one can have
confirmed: its rescue comes after 10 s, and one that is submitted anew is seen again
several times, 10 s apart.  Nothing but these intervals keeps the order
(`MgrEnters`, `TxSubmitMgr.ts:853-898`): with others, or where a third submitter's failure
sends a failed manager with earlier sightings back to confirming at once, a tx shown as confirmed
could have a manager that is not.  A transaction whose batch was rotated away while it was being
built gets a second tracker in the code; the model lets such a build stop.
Errors of building, the emulator and `signingSingle`, which nothing enters, are
left out.  Two batches are enough for a rotation to destroy one (`Close` twice) and
a cancellation to destroy both.

**`WriteLock`.**  The `writeLock` row, its age, and how far each call of
`withWriteLock()` is.  The transaction of the store around the callback covers the
metadata table, so that no other call touches the row meanwhile (`MetadataFree`).
A tab may be closed at any point, and the row stays.  Three calls, two of one tab.

**`RateLimitedFetch`.**  The bucket and the rate in tenths, the hold, whether the
recovery runs, and how far each request is.  Three requests and three answers with
status 429, so that a second rejection falls into the first one's back-off and
into its recovery; a base rate (2/s) that one reduction brings to 1.2 and two to
0.8, the minimum here.

**`CompileCache`.**  The file (absent, partial, good), the lock with its holder and
age, and how far each process is.  `compile()` is synchronous, so that its lock is not
refreshed meanwhile; a process may end or be killed at any step.  The lock is
that of the package proper-lockfile, and external.  Three processes.

| run | properties | shows |
| --- | --- | --- |
| `components` | `LiveTrackersSurvive`, `ChainBuilderKept`, `ConfirmedMeansConfirmed`, `TrackerFollows`, `CloseButtonWorks` | A transaction under submission keeps its tracker whatever happens to its batch; what is shown as confirmed is, and what is confirmed is shown, but for ties; the next batch keeps its chain builder; a batch with a close button can be closed |
| | `RowExclusive`, `WriterGetsIn` | The row excludes other tabs but for stale takeovers and overlaps; every call gets in |
| | `HoldHasOwner`, `RateComesBack`, `RequestsAnswered` | Overlapping rejections leave no hold that nobody releases, and the rate comes back (that it stays in its bounds is proved) |
| | `OneCompiles`, `NoLockLeft`, `EveryCompileEnds` | One process compiles but for a stale takeover; no way to end leaves the lock; nobody waits for ever for a killed process |
| | `ServicesTypeOK` | The types of all |

**Fairness.**  Timers fire, a transaction of the store ends, the block service
answers in the end, a process that runs goes on, one that waits for a lock tries
again.  None for the dapp's user, the wallet, new requests, or deaths.

**Observed, without a run of its own.**

- *Ties.*  With one manager confirming and one submitting `updateSubmitterState()`
  throws (488); a tracker that ties keep in `submitting` has no row for
  `confirmed`, so that it stays there when all its managers have confirmed, and its
  batch with it (`TrackerFollows` leaves it out).
- *Buttons* (`CloseButtonWorks` leaves these out).  The close button counts neither
  headings ("nested batch") nor unneeded transactions, the batch's summary does:
  a batch with a heading, or with an unneeded and a mostly confirmed one, is pending
  for ever, shows "close" instead of "cancel", and `rotate()` throws.
  `canRotate()` looks at the previous batch rather than the current one.  It
  counts "mostly confirmed", where `dapp-ui.architecture.md:178` says "only
  rotates when current batch is `confirmed` or `failed`".
- *Chain builder.*  A batch rotated out before it was confirmed clears, once it
  is, the chain builder of the batch that followed it (`BatchSubmitController.ts:591`;
  `ChainBuilderKept` leaves it out).  A batch confirmed while a second
  transaction is being added stays `isConfirmationComplete`, and the next
  `new StellarTxnContext` calls a `rotate()` that throws.
- *After destruction* the trackers that survive call `updateAggregateState()`
  first, which throws, so that listeners after it are not told.
- *Wallet.*  A batch cancelled during a prompt: the tracker is destroyed, the
  transaction is signed, registered and submitted through the wallet all the same.
- *Rate.*  Requests that already wait for a token do not look at the hold; the first
  to wake releases it for those still backing off.
- *Write lock.*  The row alone does not exclude (overlapping calls of one tab, a
  write longer than a second): the transaction over the metadata table does.
- *Compile cache.*  A process that gives up waiting throws "we should have a lock"
  (497-502) where the documentation (427-437) promises a compilation in-process;
  after ten tries (15 to 29 s), not after the timeout of 30 s.  A lock released by
  `waitForCaching()` stays in `locks`.  A late creation of the empty file may
  truncate an entry just stored.  A holder that lost its lock as stale removes, when
  it ends, the lock of the process that took it.

## 7. The charter: `Charter`

A Capo's charter is one UTxO.  Its manifest names each data policy with its script;
a policy is installed or replaced in two steps, a change queued in
`pendingChanges` and a commit.  `mkTxnUpgradeIfNeeded()` strings the transactions
together that a release needs.  State: the charter (manifest, `currentSettings` entry,
pending changes, and as identity its depth and who made it), the policies'
tokens, the stored scripts, present (`refScripts`) and older (`oldScripts`), the settings
record; per operator the page, the delegates it has connected (`cached`) and those of them
it found to have an older script on chain (`outdated`), the transactions still to be made,
the charter data read for the first of them, those made, and those left afloat.

Whether a policy has an older script is found out only where its delegate is first
connected, and only if that is to make a transaction (`onchain: true`,
`Capo.ts:1898-1966`): then the older script must be stored, or the connection throws.
The delegate is cached with what was found, and a later connection does not look again
(1800-1813).  `mkTxnUpgradeIfNeeded()`, `setupCapoPolicy()` and
`mkTxnQueuingDelegateChange()` connect with `onchain: false` (`ConnectsPlainly`); commits
that burn a token and `createSettingsRecord` with `onchain: true` (`ConnectsForTx`); what
else the page did before is a choice of `OpensPage`.

| action | code |
| --- | --- |
| `mkTxnUpgradeIfNeeded`, `loadUpgradeTxns` | the check when `ui/CharterStatus.tsx` has charter data; "Review & Submit" |
| `InstallsPolicy` | an application's `mkTxnInstallPolicyDelegate()`, with charter data it has |
| `checkForUpdates` | the facade of that name: the commit of what is pending, each policy's setup, a commit |
| `ReadsCharter` | `findCharterData()`, an `await` before the transaction is made |
| `mkTxnInstallPolicyDelegate` | `setupCapoPolicy()`, `mkTxnInstallPolicyDelegate()`, `mkTxnQueuingDelegateChange()` |
| `mkRefScriptTxn`, `mkTxnCommittingPendingChanges`, `createSettingsRecord`, `mkTxnAddManifestEntry` | the functions and additional transactions of those names |
| `Lands`, `AfloatLands`, `Rejects`, `RunEnds`, `PageCloses` | the ledger, the browser |

Transactions are made depth-first (`resolveMultipleTxns()`), on the UTxOs that the
batch's chain builder shows (`CharterSeen`); what a script refuses is refused when
the transaction is built (`Updates`).  `ValidQueue`, `ValidCommit` and `ValidEntry` are
what `delegation/BasicDelegate.hl` checks of the datum.  An operator may be another
browser or an application without a page; then "page" is its run.

| run | properties | shows |
| --- | --- | --- |
| `components` | `PoliciesKept` | No commit and no new entry loses a policy or takes it back to an older script; a queued change does so only if it was written from an older manifest |
| | `RunsRecover` | Wherever earlier runs were left, an upgrade that nobody crosses fails only for lack of funds or in one of the cases of `Blocked`; when it ends, a policy that was missing, or that the page had found outdated, has its present script and one token, any other is as it was, nothing is pending, and every present script is stored (`Deployed`) |

Bounds: two operators, one of whom upgrades, two policies of which one is
"settings", two runs; charters as minted, or as an earlier release may have left
them.  Two runs are what it takes for one to be left and completed by the next,
or crossed by another.  A batch is signed once it is made; of a
batch whose page is closed one submitted transaction at most stays afloat.  (The page does
offer to sign a transaction as soon as it is built, `ui/TxBatchViewer.tsx:343`; the model
has operators who wait until all are.)  In 0.39 million
states each action happens, and each exemption of the properties is reached.

**Observed, without a run of its own.**

- *A policy lost.*  `mkTxnInstallPolicyDelegate()` is handed charter data by its caller,
  and the queued charter is that data with one more pending change
  (`Capo.ts:4480`), put into the charter that is found then (828).  `queuePendingChange`
  is validated by the mint delegate alone, which does not compare the manifests.  Where
  another operator's policy was committed in between, the queued charter
  drops it from the manifest (`PoliciesKept` leaves it out, `damaged`).
- *A blocked upgrade.*  A change queued before there is a settings policy, and left,
  blocks every later upgrade: `addTxnBootstrappingSettings()` queues the settings policy
  before the commit of what is pending (`Capo.ts:2803`, `2820`), and only one change
  may be pending (`BasicDelegate.hl:910`).  `Capo.reqts.md:93` says "Before
  any delegate setup runs, orphaned pending changes from a prior failed run are
  committed".  `RunsRecover` names it (`Blocked`, its first case).
- *An upgrade that does nothing.*  A policy with an older script on chain is replaced only
  if the page had first connected its delegate with `onchain: true`: as
  `mkTxnQueuingDelegateChange()` connects it with `onchain: false` (4297), the bundle has
  no `previousOnchainScript`, the change is taken not to be needed (4349-4357), and
  `setupCapoPolicy()` merely stores the present script (`DelegatedDataContract.ts:795-817`).
  The upgrade ends without an error and with the old policy in the manifest
  (`Deployed` allows "old" where the policy is not in `outdated`).  A later connection with
  `onchain: true` does not mend it (1801-1813).  The test
  `05e-DataPolicyDelegates.test.ts:187-194` empties the cache and connects with
  `onchain: true` before it upgrades.
- *A replacement that was left queued* is committed by the next upgrade only if that page
  detects the older script: `mkTxnCommittingPendingChanges()` must find the old token, and a
  delegate connected before with `onchain: false` looks for it at the address of the present
  script.  Where the older script is not stored the detection throws (1929-1931).  The
  same holds of a settings policy with an older script that has no record yet
  (`Blocked`, its second and third cases).
- *A new entry* (`updatingManifest.addingEntry`) "doesn't allow updating anything except
  the manifest" (`BasicDelegate.hl:1144`), but the pending changes are not compared.

Left out: the gov authority and the presence of the delegates (every transaction here has
them), feature flags (all are on), `mkAdditionalTxnsForCharter()` (the application's),
a second click on "Review & Submit" without loading the page again, the second read of the
charter inside a commit, changes that the code refuses (`Remove`,
`otherManifestChange`).

## 8. What is proved

TLAPS proves, for all values of the constants that satisfy the named
assumptions, without bounds on tabs, transactions, blocks, thresholds, reports or overlaps:

| theorem | statement |
| --- | --- |
| `LoneSubmitMgrProofs!TypeCorrect`, `FailureHasCause`, `DestroyedStaysInert` | `Spec => []TypeOK`, `[]FailedForCause`, `DestroyedIsInert` |
| `LoneThreadProofs!ActivitiesStaySeparate`, `BadNeedsVerdict`, `ConfirmationEarned`, `BadStaysUnsubmitted` | `Spec => []ActivitiesNeverClash`, `[]BadByVerdictOrReport`, `[]HardConfirmEarned`, `BadTxNotResubmitted` |
| `LoneMovesProofs!StrandedByTheft` | `Spec => []StrandedOnlyByTheft` |
| `LoneMovesProofs!PromptNeverStranded` | `Prompt => (Spec => []NeverStranded)` |
| `SyncMutexProofs!TypeCorrect`, `MutexIsLease` | `Spec => []TypeOK`, `ImplementsLease` |
| `SyncMutexProofs!OneSyncerAtATime` | `Prompt => (Spec => []OneSyncer)` |
| `UtxoIndexProofs!IndexTyped` | `Spec => []TypeOK` |
| `UtxoIndexProofs!LandedNeverGivenUp`, `RolledBackIsGone` | `Paced => (Spec => [](forks = 0 => LandedNotRolledBack))`, the same of `RollbackComplete` |
| `UtxoIndexProofs!ConfirmedStays` | `Paced /\ MaxForks = 0 => (Spec => OnlyForksUnconfirm)` |
| `UtxoIndexProofs!NoGapUnforked`, `SpentStaysSpent` | `Paced /\ ~SlowFirstSync => (Spec => [](forks = 0 => NoSilentGap))`, the same of `SpentNotOffered` |
| `UtxoIndexProofs!FirstForkResolved` | `Spec => [](forks <= 1 => NoOrphanedConfirmation)` |
| `TxBatchProofs!BatchTypeCorrect`, `TrackersSurvive`, `ChainBuilderStays`, `ConfirmedIsConfirmed`, `TrackerFollowsManagers`, `CloseWorks` | `BatchSpec => []BatchTypeOK`, `[]LiveTrackersSurvive`, `[]ChainBuilderKept`, `[]ConfirmedMeansConfirmed`, `[]TrackerFollows`, `[]CloseButtonWorks` |
| `ServicesProofs!RowExclusion` | `LockSpec => []RowExclusive` |
| `ServicesProofs!RateBounded`, `HoldOwned` | `RateSpec => []RateBounds`, `[]HoldHasOwner` |
| `ServicesProofs!OneCompiler`, `NoLockLeftBehind` | `CompileSpec => []OneCompiles`, `[]NoLockLeft` |
| `ServicesProofs!ServicesTyped` | `Spec => []ServicesTypeOK`, of `MCServices`: the types of all that the run `components` puts side by side |
| `CharterProofs!CharterTypeCorrect`, `NoPolicyLost`, `UpgradesRecover` | `CharterSpec => []CharterTypeOK`, `PoliciesKept`, `[]RunsRecover` |

The arguments, component by component:

**A manager.**  A handler is a chain of small edits of one record, so the proofs are
about relations between a record and what an edit makes of it, which compose.
`Lawful(m, n)` is the weakest of them: `failed` is entered only with a bad tx or an
expired one, neither verdict is taken back, a destroyed manager changes nothing.

None of the other properties is inductive, because none says why an answer that
arrives finds the manager in a state that wants it.  `ThreadInv` does: a manager that
no other submitter has disturbed has *one thread* of work, which is the activity under
way, what is queued of it, a diagnosis, or the deferred action that
starts the next.  What a transition makes of a manager is one of five kinds (it begins
an activity, waits, sights the tx, fails, drops the deferred action); one lemma
per kind shows that it keeps the thread, and one per handler shows of which kind it is.

Being stranded is the absence of everything that could act.  `Supported` says of each
state what will move the manager on.  It is broken by a miss, which drops the
deferred action, and by an abort, which ends an activity without a report; `Guarded`
says where a miss may be queued, and `AbortsPending` which activity an abort ends.
The three together (`Moving`) are kept unless a released timer takes another state's
action: `StrandedByTheft`.  `CleanInv` excludes that if the service answers before the
timeouts, the submitter has `getTx()` and no other submitter reports a problem
(`Prompt`): without a timeout no timer is released.

**The mutex.**  `Prompt` is there the assumption that no fault other than `crash` occurs,
and `crash` only if an earlier session has completed the first sync: the cases
`sync_late` and `sync_takeover` show are the ones it leaves out.  `OneSyncer` is
not inductive: nothing in it says why a syncing tab still has the mutex.
`SyncInv` adds, for each tab: whatever makes it sync, or leads to it
(`_isSyncOwner`, a tip awaited, a cycle, a stage of the initial sync), is done
while the mutex is its own (`Granted`); a tab that is not open does nothing
(`Quiet`); a live tab's polls are on and nothing releases the mutex early
(`KeepsOn`); the row of a live owner is never older than one poll interval
(`Fresh`), so that it does not go stale under it; and on a fresh store the holder
is alive, and a tab that waits does so for another's mutex (`Attended`).

**The index**, with any number of tabs, failed requests and reloads.  Until the chain
first forks, three invariants, each resting on the one before:

1. `LandingInv`, under `Paced`: the index sees no block that is not on the chain
   (`Solid`); after a clean cycle nothing that has landed is pending (`Settled`); what is
   given up has not landed and no longer can (`Deaths`); what a rollback has done so far
   stays done (`Burials`).  The hard part is the entries in the checks' hands.  They may be
   of a tx that has landed and is confirmed since, so that nothing can be said of the
   entry itself; what is said is when it was read (`seen`, the height of the tab's tip
   then).  If the deadline lay within `MaxLag` below the tip already, no block in
   which the tx could be was left to look at, and it is dead (`Doomed`, by `Settled` and
   `Pace`).  If not, `InTime` and `Paced` keep the tip that the check looks at below
   the gate (`Punctual`), and the stale copy is dropped.
2. `GapInv`, unless the first sync is slow: which blocks are in the table, and what of
   them is taken or about to be, in each stage of a cycle and between any two of
   its stages, where a tab may be closed (`Gapless`: from the cursor up no stored block
   has a hole below it, and the transactions of a block are taken in their order); and a
   tx that is not given up has its output in the index (`Outputs`).
3. `SpentInv`: a tx that is alive has its input, unless what it spends was given up or
   another tx of the chain has spent it (`Claimed`, `Excused`).  The hard part is what a
   rollback frees: the output may be wanted by a contender that a processed block
   holds, and what says that the contender has it by then is the order of the ledger
   (`Ledger`) with the two invariants before.

`FirstForkResolved` goes past the first fork and needs none of these, nor `Paced`.  Its
invariant, `ForkInv`, follows a block from where the index learns of it to where it is
marked: whatever it knows of a block (stored, to do, a tab's tip), the block is on
the chain or older than a fork (`KnownOnce`), and only orphans of the first fork are
marked (`Orphaned`, `MarksNone`).  It follows a confirmation from the request that
finds the tx, by height, to the entry that is saved two awaits later: the tx is in the
block it will be confirmed in, if that is one of the old fork, or has come onto the new
one (`Anchored`).  What has come onto the new fork stays there until the second,
and the end of the argument is there too: a fork between `detectRolledBackBlocks()`
and `MarkOrphans` takes away again the block to which the orphan's tx was just moved.
TLC finds that with `MaxForks = 2`.

That a set of heights has a greatest needs an argument of its own (`GreatestHeight`): the
library's induction takes a parameter, that finite sets are well-founded under inclusion
does not.

**Batches.**  `BatchInv` has a part for each tx (its tracker and its managers agree, but for
ties) and one for the batches (which batch is current, previous, destroyed, whose the
chain builder is).  The hard step is a manager's failure: a fold over the other
managers, each of which may notify the tracker, which may throw and end the fold.
`Troubled(m)` is what every stage of the fold keeps.  The library's induction theorems
cannot be instantiated (they take an operator), so that the induction is spelt out: the
stages of which it does not hold are a set of naturals, and that set has no least
element.  The same argument unfolds the fold's steps.

**The services.**  `RowOfHolder`: without takeovers and overlaps, the row is that of
whoever holds.  `RateInvariant`: the bounds, the two facts about holds, and the
types.  `LockOfBusy`: without a takeover a busy process is the lock's holder, and a
lock's holder is busy or dead.

**The charter.**  `PoliciesKept` is an action property, and not inductive by itself: a
transaction lands long after it was checked.  `CharterInv` carries what was checked
along: every transaction made and not yet on the chain is one for which `Keeps` holds,
so that landing, which needs the charter it spends to be the present one, relates the
old manifest with the new.

`RunsRecover` is about where a sequence of transactions leads, most of which are
not made yet.  Its inductive invariant, `SoundInv`, has three parts.

1. `RunSound`, of every run, whoever crosses it: a transaction made, whether it is still
   of the batch or left afloat, was valid on the charter it was made for.  It can only
   land on that one; when the charter has moved on, it is `Lost`, since a charter's
   depth only grows.  The one that needs this most is the settings entry, which
   does not compare the pending changes: it comes right after its record, which
   cannot land either when what it was made for is gone (`EntriesFit`).
2. `ChainSound`, until a stale change lands: at most one change is pending, and who has
   an old or a new token is what manifest and pending change say (`TokensFit`).
3. `RunRecovers`, of an upgrade that nobody has crossed: there is a path of charters
   from the one on chain, through those its transactions leave, to the one its
   chain builder shows (`Links`), so that none of them is refused; and the additional
   txns it has still to make do all that the last one lacks, each when it can be done
   (`Plan`), where what an older policy lacks depends on what the page has found
   (`Settled`).  Making one keeps the plan for the charter it leaves (`PlanMoves`);
   with nothing left to make and nothing on its way, everything is deployed
   (`PlanDone`).  One that has failed is blocked, and stays so.

**Only model-checked.**

- *Liveness*: fairness and ENABLED are out of the prover's reach.
- *The index after a fork*: but for `FirstForkResolved` the theorems stop at the
  first.  The run lets the chain fork, and shows there what they say before it, and the
  second half of `OnlyForksUnconfirm`, which speaks of nothing else.
- The runs that expect a violation.

No proof module reaches a recursive operator.

## 9. Not modelled

- *Transaction building* but for the charter's (`Capo`, `StellarContract`, delegates,
  minting, `UtxoHelper`): sequential code over ledger values, one transaction at a time,
  which keeps nothing and is validated on chain.  Minting a charter is one of these: it is
  the initial state of `Charter`.
- *On-chain policies* but for the charter's: predicates of one transaction, whose
  correctness is about ledger rules and the Helios language.
- *Generated bridges, bundling, rollup plugins*: code generation at build time, conversion of
  data, no state that outlives a call.
- *Wallets and records of the index*: copies of what the service says, one address or
  record at a time; *purging, logs and resubmission counters*.
- *Batch signing* (`WalletSigningStrategy`, `$signAndSubmitAll()`): nothing in `src/`
  calls it.
- *Emulator, snapshots, test helpers, presentation, loggers.*

## 10. Files

`<Component>.tla` is a component; `MC<Component>.tla` and `MC*.cfg` its
instances for TLC; `<Component>Proofs.tla` its theorems.  `LoneSubmitMgr` has three such
modules, each extending the one before (`LoneSubmitMgrProofs`, `LoneThreadProofs`,
`LoneMovesProofs`); `ServicesProofs` has those of the three services, and of
`MCServices`.  An operator with the
comment "mutant" next to the definition it alters is a plausible mistake in that
code; `PROJECT.json` ("mutants") names the property that notices it.  To check:
`tlc -config MCSync_live.cfg MCSyncMutex`, `tlapm SyncMutexProofs.tla`.
