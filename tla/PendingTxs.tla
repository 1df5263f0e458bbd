----------------------------- MODULE PendingTxs -----------------------------
(***************************************************************************)
(* What CachedUtxoIndex keeps of transactions: an entry for each           *)
(* (PendingTxEntry, also made for those found on the chain), the UTxOs with *)
(* the transaction that spends them, and in each tab's memory the           *)
(* pendingTxHashes.  The store is shared by the tabs; the deadline checks   *)
(* and rollbacks run in all of them.                                        *)
(*                                                                         *)
(* An entry read before an await is saved as it was read: that is the       *)
(* state "confirming", "held" and "unwinding" stand for.                    *)
(***************************************************************************)
EXTENDS ChainIndex

CONSTANTS
    Own,               \* transactions the tabs submit; others come from elsewhere
    Grace,             \* graceBufferSlots
    ProvisionalDepth   \* depth at which an entry is no longer provisional

ASSUME PendingAssumption ==
    /\ Own \subseteq Txs
    /\ Txs \cap {"absent", "unspent", "reconciled"} = {}  \* utxos[u] tells them apart
    /\ Grace \in Nat /\ ProvisionalDepth \in Nat

VARIABLES
    entries,     \* the table of pending transactions
    utxos,       \* of each output: not indexed, unspent, or what spends it
    hashes,      \* pendingTxHashes of each tab
    confirming,  \* entries confirmPendingTx() has read and will save
    held,        \* entries each tab's deadline checks have read and may save
    unwinding    \* entries each tab's rollbacks have read, and how far they are

pendingVars == <<entries, utxos, hashes, confirming, held, unwinding>>

Statuses == {"none", "pending", "confirmed", "rollback-pending", "rolled-back"}
Entries == [status : Statuses, at : 0..MaxHeight, blk : BlockIds \cup {NoBlock},
            provisional : BOOLEAN, contested : SUBSET Heights]
NoEntry == [status |-> "none", at |-> 0, blk |-> NoBlock,
            provisional |-> FALSE, contested |-> {}]
\* "seen" is history: the height of the tab's tip when the entry was read.
Held == [tx : Txs, entry : Entries, seen : 0..MaxHeight]
Unwound == [tx : Txs, entry : Entries, stage : {"read", "cleared", "deleted"}]
UtxoStates == {"absent", "unspent", "reconciled"} \cup Txs

PendingTypeOK ==
    /\ entries \in [Txs -> Entries]
    /\ utxos \in [Utxos -> UtxoStates]
    /\ hashes \in [Tabs -> SUBSET Txs]
    /\ confirming \subseteq [tx : Txs, entry : Entries, at : Heights,
                             blk : BlockIds \cup {NoBlock}]
    /\ held \in [Tabs -> SUBSET Held]
    /\ unwinding \in [Tabs -> SUBSET Unwound]

PendingInit ==
    /\ entries = [T \in Txs |-> NoEntry]
    /\ utxos = [u \in Utxos |-> "absent"]
    /\ hashes = [t \in Tabs |-> {}]
    /\ confirming = {}
    /\ held = [t \in Tabs |-> {}]
    /\ unwinding = [t \in Tabs |-> {}]

-----------------------------------------------------------------------------
WithStatus(S) == {T \in Txs : entries[T].status \in S}
Provisional(h) == TipHeight(owner) - h < ProvisionalDepth

\* mutant: no slots of grace
DeadlineUngraced(T) == LastValid[T]

Deadline(T) == LastValid[T] + Grace
Confirmed(e, h, b) == [e EXCEPT !.status = "confirmed", !.at = h, !.blk = b,
                                !.provisional = Provisional(h)]
InStore == WithStatus({"pending"})
           \cup {T \in WithStatus({"confirmed"}) : entries[T].provisional}

\* The confirming block, from the store or else from the service.
BlockAt(h) == IF findBlockByHeight(h) # {} THEN findBlockByHeight(h)
              ELSE IF h <= Len(chain) THEN {chain[h]} ELSE {NoBlock}

-----------------------------------------------------------------------------
(* Operations *)

\* The outputs found by the initial sync.
IndexSnapshot ==
    /\ utxos' = [u \in Utxos |->
                   IF (u \in Genesis \/ OnChain(u)) /\ ~Spent(u) THEN "unspent" ELSE utxos[u]]
    /\ UNCHANGED <<entries, hashes, confirming, held, unwinding>>

\* A transaction is built from UTxOs the index offers, and signed.
registerPendingTx(t, T) ==
    /\ T \in Own
    /\ entries[T].status = "none"
    /\ utxos[Input[T]] = "unspent"
    /\ entries' = [entries EXCEPT ![T].status = "pending"]
    /\ utxos' = [utxos EXCEPT ![Input[T]] = T, ![T] = "unspent"]
    /\ hashes' = [hashes EXCEPT ![t] = @ \cup {T}]
    /\ UNCHANGED <<confirming, held, unwinding>>

\* mutant: the confirmed transaction's input is offered again
ConfirmReadsFreeing(T, h, known) ==
    /\ utxos' = [u \in Utxos |-> IF u = Input[T] \/ (u = T /\ utxos[T] = "absent")
                                 THEN "unspent" ELSE utxos[u]]
    /\ \E b \in IF known THEN {chain[h]} ELSE BlockAt(h) :
         confirming' = {[tx |-> T, entry |-> entries[T], at |-> h, blk |-> b]}
    /\ UNCHANGED <<entries, hashes, held, unwinding>>

\* confirmPendingTx() up to its last await, and the save after it.  A known
\* block is the one the verification was told of.
ConfirmReads(T, h, known) ==
    /\ IF entries[T].status # "pending" THEN UNCHANGED <<utxos, confirming>>
       ELSE /\ utxos' = IF utxos[T] = "absent" THEN [utxos EXCEPT ![T] = "unspent"] ELSE utxos
            /\ \E b \in IF known THEN {chain[h]} ELSE BlockAt(h) :
                 confirming' = {[tx |-> T, entry |-> entries[T], at |-> h, blk |-> b]}
    /\ UNCHANGED <<entries, hashes, held, unwinding>>

ConfirmSaves(c) ==
    /\ c \in confirming
    /\ entries' = [entries EXCEPT ![c.tx] = Confirmed(c.entry, c.at, c.blk)]
    /\ hashes' = IF Provisional(c.at) THEN hashes
                 ELSE [hashes EXCEPT ![owner] = @ \ {c.tx}]
    /\ confirming' = confirming \ {c}
    /\ UNCHANGED <<utxos, held, unwinding>>

\* processTransactionForNewUtxos() for a transaction not in pendingTxHashes:
\* its output is indexed, its input taken from whoever had it.
Discover(T, h) ==
    LET spender == utxos[Input[T]] IN
    /\ utxos' = [u \in Utxos |->
                   CASE u = T /\ utxos[u] = "absent" -> "unspent"
                     [] u = Input[T] /\ utxos[u] # "absent" -> T
                     [] OTHER -> utxos[u]]
    /\ \E b \in BlockAt(h) :
         entries' = [S \in Txs |->
           CASE S = T /\ entries[T].status = "none" -> Confirmed(NoEntry, h, b)
             [] S = spender /\ S # T /\ entries[S].status = "pending" ->
                  [entries[S] EXCEPT !.contested = @ \cup {h}]
             [] OTHER -> entries[S]]
    /\ UNCHANGED <<hashes, confirming, held, unwinding>>

\* mutant: a transaction that is not on the new fork keeps its confirmation
ResolveOrphanTxsKeeping(orphans) ==
    /\ hashes' = [hashes EXCEPT ![owner] = @ \cup UNION {mined[b] : b \in orphans}]
    /\ UNCHANGED <<entries, utxos, confirming, held, unwinding>>

\* Entries in orphaned blocks: those also on the new fork are anchored there,
\* the others become pending again, whatever they were.
ResolveOrphanTxs(orphans) ==
    LET moved == {T \in UNION {mined[b] : b \in orphans} : entries[T].status # "none"}
        found == {T \in moved : \E h \in ForkHeight(orphans)..(TipHeight(owner) - 1) :
                                  T \in At(h)}
    IN /\ entries' = [T \in Txs |->
            CASE T \in found ->
                   [entries[T] EXCEPT !.at = HeightOf(T), !.blk = chain[HeightOf(T)],
                                      !.provisional = Provisional(HeightOf(T))]
              [] T \in moved \ found ->
                   [entries[T] EXCEPT !.status = "pending", !.at = 0, !.blk = NoBlock,
                                      !.provisional = FALSE]
              [] OTHER -> entries[T]]
       /\ hashes' = [hashes EXCEPT ![owner] = @ \cup (moved \ found)]
       /\ UNCHANGED <<utxos, confirming, held, unwinding>>

\* After a catch-up, UTxOs that are not on the chain count as spent, unless
\* they are outputs of this tab's pending transactions.
Reconcile ==
    /\ utxos' = [u \in Utxos |->
                   IF /\ utxos[u] = "unspent" /\ u \notin hashes[owner]
                      /\ ~((u \in Genesis \/ OnChain(u)) /\ ~Spent(u))
                   THEN "reconciled" ELSE utxos[u]]
    /\ UNCHANGED <<entries, hashes, confirming, held, unwinding>>

\* resubmitStalePendingTxs() refreshes pendingTxHashes; then
\* updateConfirmationDepths() lets the settled ones go.
UpdateDepths ==
    LET settled == {T \in WithStatus({"confirmed"}) :
                      entries[T].provisional /\ ~Provisional(entries[T].at)}
    IN /\ entries' = [T \in Txs |-> IF T \in settled
                        THEN [entries[T] EXCEPT !.provisional = FALSE] ELSE entries[T]]
       /\ hashes' = [hashes EXCEPT ![owner] = (@ \cup InStore) \ settled]
       /\ UNCHANGED <<utxos, confirming, held, unwinding>>

\* mutant: provisional entries are checked too
DeadlineReadsProvisional(t) ==
    LET read == {T \in Txs : entries[T].status = "pending" \/ entries[T].provisional}
    IN /\ read # {}
       /\ held' = [held EXCEPT ![t] = @ \cup
                     {[tx |-> T, entry |-> entries[T], seen |-> TipHeight(t)] : T \in read}]
       /\ UNCHANGED <<entries, utxos, hashes, confirming, unwinding>>

\* checkPendingDeadlines() reads all that are pending.
DeadlineReads(t) ==
    /\ WithStatus({"pending"}) # {}
    /\ held' = [held EXCEPT ![t] = @ \cup
                  {[tx |-> T, entry |-> entries[T], seen |-> TipHeight(t)] :
                     T \in WithStatus({"pending"})}]
    /\ UNCHANGED <<entries, utxos, hashes, confirming, unwinding>>

\* Gate 1: a processed block at or after the deadline is deep enough below the
\* tip this tab sees by now.
DeadlineDeep(t, T) ==
    \E b \in BlockIds :
        /\ blocks[b] = "processed" /\ Height(b) >= Deadline(T)
        /\ TipHeight(t) - Height(b) >= ProvisionalDepth

\* What passes is saved as it was read.
DeadlineSaves(t) ==
    \E r \in held[t] :
        /\ entries' = IF DeadlineDeep(t, r.tx)
                      THEN [entries EXCEPT ![r.tx] = [r.entry EXCEPT !.status = "rollback-pending"]]
                      ELSE entries
        /\ held' = [held EXCEPT ![t] = @ \ {r}]
        /\ UNCHANGED <<utxos, hashes, confirming, unwinding>>

\* executeSettledRollbacks(), at the end of every check and of every cycle.
RollbackReads(t) ==
    /\ WithStatus({"rollback-pending"}) # {}
    /\ unwinding' = [unwinding EXCEPT ![t] = @ \cup
                       {[tx |-> T, entry |-> entries[T], stage |-> "read"] :
                          T \in WithStatus({"rollback-pending"})}]
    /\ UNCHANGED <<entries, utxos, hashes, confirming, held>>

Unwinds(t, r, stage) ==
    unwinding' = [unwinding EXCEPT ![t] = (@ \ {r}) \cup {[r EXCEPT !.stage = stage]}]

\* mutants: the claims stay with the transaction; they get no state
RollbackClearsNothing(t) ==
    \E r \in unwinding[t] :
        /\ r.stage = "read"
        /\ Unwinds(t, r, "cleared")
        /\ UNCHANGED <<entries, utxos, hashes, confirming, held>>
RollbackClearsUntyped(t) ==
    \E r \in unwinding[t] :
        /\ r.stage = "read"
        /\ utxos' = [u \in Utxos |-> IF utxos[u] = r.tx THEN "none" ELSE utxos[u]]
        /\ Unwinds(t, r, "cleared")
        /\ UNCHANGED <<entries, hashes, confirming, held>>

\* Gate 2: those that took its inputs are deep enough.  Then rollbackPendingTx():
\* the claims go, then the output, then the entry is saved as it was read.
RollbackClears(t) ==
    \E r \in unwinding[t] :
        /\ r.stage = "read"
        /\ IF \A h \in r.entry.contested : TipHeight(t) - h >= ProvisionalDepth
           THEN /\ utxos' = [u \in Utxos |-> IF utxos[u] = r.tx THEN "unspent" ELSE utxos[u]]
                /\ Unwinds(t, r, "cleared")
           ELSE /\ unwinding' = [unwinding EXCEPT ![t] = @ \ {r}]
                /\ UNCHANGED utxos
        /\ UNCHANGED <<entries, hashes, confirming, held>>

RollbackDeletes(t) ==
    \E r \in unwinding[t] :
        /\ r.stage = "cleared"
        /\ utxos' = [utxos EXCEPT ![r.tx] = "absent"]
        /\ Unwinds(t, r, "deleted")
        /\ UNCHANGED <<entries, hashes, confirming, held>>

RollbackEnds(t) ==
    \E r \in unwinding[t] :
        /\ r.stage = "deleted"
        /\ entries' = [entries EXCEPT ![r.tx] = [r.entry EXCEPT !.status = "rolled-back"]]
        /\ hashes' = [hashes EXCEPT ![t] = @ \ {r.tx}]
        /\ unwinding' = [unwinding EXCEPT ![t] = @ \ {r}]
        /\ UNCHANGED <<utxos, confirming, held>>

\* loadPendingFromStore(), in a tab that has lost its memory.
loadPendingFromStore(t) ==
    /\ hashes' = [hashes EXCEPT ![t] = InStore]
    /\ confirming' = IF t = owner THEN {} ELSE confirming
    /\ held' = [held EXCEPT ![t] = {}]
    /\ unwinding' = [unwinding EXCEPT ![t] = {}]
    /\ UNCHANGED <<entries, utxos>>

=============================================================================
