----------------------------- MODULE UtxoIndex ------------------------------
(***************************************************************************)
(* CachedUtxoIndex as a whole: the chain, the tab that follows it, and the *)
(* transactions pending in several tabs.                                   *)
(***************************************************************************)
EXTENDS PendingTxs

CONSTANTS
    MaxLag,     \* the chain grows by at most this between two clean cycles
    MaxRise,    \* a tab's tip rises by at most this while a deadline check of
                \* its own holds the entries it has read
    MaxTxs,     \* bound: transactions made
    MaxMishaps, \* bound: requests that fail, and tabs closed or reloaded
    MaxTrouble  \* bound: mishaps, forks, and entries the tabs' checks and
                \* rollbacks hold, together

ASSUME UtxoIndexAssumption == {MaxLag, MaxRise, MaxTxs, MaxMishaps, MaxTrouble} \subseteq Nat

VARIABLES
    asked,   \* pending entries tryConfirmPendingTxs() has read and not asked for
    done,    \* history: the tip's height in the last cycle that no failure disturbed
    mishaps  \* requests that failed and tabs reloaded so far

vars == <<chainVars, indexVars, pendingVars, asked, done, mishaps>>
counters == <<asked, done, mishaps>>

Init ==
    /\ ChainInit /\ IndexInit /\ PendingInit
    /\ asked = {}
    /\ done = Start
    /\ mishaps = 0

TypeOK ==
    /\ ChainTypeOK /\ IndexTypeOK /\ PendingTypeOK
    /\ asked \subseteq Txs /\ done \in Heights /\ mishaps \in 0..MaxMishaps

-----------------------------------------------------------------------------
(* The chain *)

InHand == UNION {{t} \X (held[t] \cup unwinding[t]) : t \in Tabs}
InBounds == forks' + mishaps' + Cardinality(InHand') <= MaxTrouble

Made == {T \in Txs : entries[T].status # "none" \/ \E b \in BlockIds : T \in mined[b]}
MayMake(S) == Cardinality(Made \cup S) <= MaxTxs

\* What was on the chain before the initial sync is Genesis.
Registered(S) == \A T \in S \cap Own : entries[T].status # "none"

ChainGrows ==
    /\ base # NoBlock
    /\ Len(chain) < done + MaxLag
    /\ \E S \in SUBSET Txs : Mine(S) /\ Registered(S) /\ MayMake(S)
    /\ UNCHANGED <<indexVars, pendingVars, counters>>

ChainForks ==
    /\ \E k \in 1..ForkDepth : Fork(k)
    /\ done' = IF done > Len(chain') THEN Len(chain') ELSE done
    /\ UNCHANGED <<indexVars, pendingVars, asked, mishaps>>
    /\ InBounds

-----------------------------------------------------------------------------
(* The tab that syncs *)

\* The timing assumed of the deadline checks.
InTime == \A r \in held[owner] : Height(tip'[owner]) <= r.seen + MaxRise

FirstSync ==
    /\ \/ FirstSnapshot /\ IndexSnapshot
       \/ (fetchAndStoreLatestBlock \/ FirstSyncEnds) /\ UNCHANGED pendingVars
    /\ InTime
    /\ UNCHANGED <<chainVars, counters>>

FollowsChain ==
    /\ \/ discoverChainTip \/ NoForkSeen \/ Unknown404 \/ MarkOrphans \/ NothingProcessed
       \/ UpToDate \/ fetchAndStoreNewBlocks \/ WalkEnds \/ syncCatchup \/ CursorToTip
       \/ \E b \in BlockIds : syncIncremental(b)
       \/ confirming = {} /\ (HeightGone \/ \E b \in BlockIds : BlockProcessed(b))
    /\ InTime
    /\ UNCHANGED <<chainVars, pendingVars, counters>>

ForkSeen ==
    /\ \E S \in SUBSET Stored : detectRolledBackBlocks(S) /\ ResolveOrphanTxs(S)
    /\ UNCHANGED <<chainVars, counters>>

ProcessesTx ==
    /\ confirming = {}
    /\ cycle.stage \in {"block", "catchup"}
    /\ \E x \in cycle.txs :
         /\ TakeTx(x)
         /\ IF x.tx \in hashes[owner] THEN ConfirmReads(x.tx, x.at, FALSE)
            ELSE Discover(x.tx, x.at)
    /\ UNCHANGED <<chainVars, counters>>

Reconciles ==
    /\ confirming = {}
    /\ reconcileUtxos /\ Reconcile
    /\ UNCHANGED <<chainVars, counters>>

\* tryConfirmPendingTxs() reads the pending entries once, and asks for each.
\* What is not on the chain by then is left alone.
VerificationReads ==
    /\ VerificationStarts
    /\ asked' = WithStatus({"pending"})
    /\ UNCHANGED <<chainVars, pendingVars, done, mishaps>>

VerifiesTx ==
    /\ cycle.stage = "asking" /\ confirming = {}
    /\ \E T \in asked :
         /\ asked' = asked \ {T}
         /\ IF OnChain(T) THEN ConfirmReads(T, HeightOf(T), TRUE) ELSE UNCHANGED pendingVars
    /\ UNCHANGED <<chainVars, indexVars, done, mishaps>>

ConfirmsTx ==
    /\ \E c \in confirming : ConfirmSaves(c)
    /\ UNCHANGED <<chainVars, indexVars, counters>>

CycleSettles ==
    /\ confirming = {} /\ asked = {}
    /\ CycleEnds /\ UpdateDepths
    /\ done' = IF cycle.clean /\ Canonical(tip[owner]) THEN TipHeight(owner) ELSE done
    /\ UNCHANGED <<chainVars, asked, mishaps>>

\* Any request may fail: a cycle is abandoned, or goes on without the answer.
RequestFails ==
    /\ confirming = {}
    /\ mishaps < MaxMishaps
    /\ mishaps' = mishaps + 1
    /\ \/ (DetectionFails \/ FetchFails \/ CycleFails) /\ UNCHANGED asked
       \/ AskFails /\ \E T \in asked : asked' = asked \ {T}
    /\ UNCHANGED <<chainVars, pendingVars, done>>
    /\ InBounds

-----------------------------------------------------------------------------
(* All tabs *)

Registers ==
    /\ cycle.stage \notin {"start", "snapshot", "stored"}
    /\ \E t \in Tabs, T \in Own : registerPendingTx(t, T) /\ MayMake({T})
    /\ UNCHANGED <<chainVars, indexVars, counters>>

ChecksDeadlines ==
    /\ \E t \in Tabs : DeadlineReads(t) \/ DeadlineSaves(t)
    /\ UNCHANGED <<chainVars, indexVars, counters>>
    /\ InBounds

RollsBack ==
    /\ \E t \in Tabs :
         RollbackReads(t) \/ RollbackClears(t) \/ RollbackDeletes(t) \/ RollbackEnds(t)
    /\ UNCHANGED <<chainVars, indexVars, counters>>
    /\ InBounds

TabReloads ==
    /\ mishaps < MaxMishaps
    /\ mishaps' = mishaps + 1
    /\ \E t, next \in Tabs :
         /\ Reload(t, next) /\ loadPendingFromStore(t)
         /\ asked' = IF t = owner THEN {} ELSE asked
    /\ UNCHANGED <<chainVars, done>>
    /\ InBounds

Next ==
    \/ ChainGrows \/ ChainForks
    \/ FirstSync \/ FollowsChain \/ ForkSeen \/ ProcessesTx \/ Reconciles
    \/ VerificationReads \/ VerifiesTx \/ ConfirmsTx \/ CycleSettles \/ RequestFails
    \/ Registers \/ ChecksDeadlines \/ RollsBack \/ TabReloads

Spec == Init /\ [][Next]_vars

-----------------------------------------------------------------------------
(* Properties *)

\* Every transaction on the chain, up to the cursor, has been taken into the
\* index, unless a block of its height is still to be processed or the orphan
\* processed there is still to be found.
Indexed(T) == entries[T].status \in {"pending", "confirmed"} /\ utxos[T] # "absent"
ToBeDone(h) == \E b \in Stored : Height(b) = h /\ (blocks[b] = "unprocessed" \/ ~Canonical(b))
NoSilentGap ==
    \A h \in (Height(base) + 1)..Cursor : \A T \in At(h) : Indexed(T) \/ ToBeDone(h)

\* A UTxO that a processed block of the chain spends is not offered, unless
\* there was a fork and the UTxO has two contenders.
Contended(u) == \E S, T \in Made : S # T /\ Input[S] = u /\ Input[T] = u
SpentNotOffered ==
    \A b \in BlockIds : \A T \in mined[b] :
        /\ Canonical(b) /\ blocks[b] = "processed"
        /\ forks = 0 \/ ~Contended(Input[T])
        => utxos[Input[T]] # "unspent"

\* A transaction on the chain is not given up.
LandedNotRolledBack ==
    \A T \in Txs : OnChain(T) => entries[T].status \notin {"rollback-pending", "rolled-back"}

\* Of a transaction that was rolled back nothing is left.
RollbackComplete ==
    \A T \in WithStatus({"rolled-back"}) :
        /\ utxos[T] = "absent"
        /\ \A u \in Utxos : utxos[u] # T

\* A transaction confirmed in a block that the index has stored is on the chain,
\* unless that block is an orphan that the index has still to find.
NoOrphanedConfirmation ==
    \A T \in WithStatus({"confirmed"}) :
        LET b == entries[T].blk IN
        b # NoBlock /\ blocks[b] = "rolled back" => OnChain(T)

\* After the initial sync some stored block is processed: without one no cycle
\* gets any further.
CursorKept ==
    cycle.stage \notin {"start", "snapshot", "stored"} => getLastProcessedBlock # {}

\* Only an orphaned block takes a confirmation back, and then the transaction is
\* pending again: no deadline check or rollback of any tab overwrites it.
OnlyForksUnconfirm ==
    [][\A T \in WithStatus({"confirmed"}) :
         entries'[T].status # "confirmed" =>
            /\ entries'[T].status = "pending"
            /\ \E b \in Stored : ~Canonical(b) /\ T \in mined[b]]_vars

=============================================================================
