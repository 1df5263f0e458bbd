----------------------------- MODULE ChainIndex -----------------------------
(***************************************************************************)
(* How CachedUtxoIndex follows the chain: its table of blocks, the tip a   *)
(* tab has seen, the initial sync, and the steps of one sync cycle.        *)
(*                                                                         *)
(* One tab syncs at a time (SyncMutex is about that).  What a cycle does to *)
(* transactions is left to UtxoIndex: here they are only taken from "txs". *)
(***************************************************************************)
EXTENDS Blockchain

CONSTANTS
    Tabs,              \* tabs that share the store
    CatchupThreshold,  \* a longer gap is not walked block by block
    SlowFirstSync      \* the chain may move, or the tab be closed, while the
                       \* initial sync reads the UTxOs

ASSUME ChainIndexAssumption ==
    /\ CatchupThreshold \in Nat
    /\ SlowFirstSync \in BOOLEAN

Stages == {"start", "snapshot", "stored", "idle", "detect", "mark", "sync",
           "walk", "block", "catchup", "reconciled", "verify", "asking"}
BlockStates == {"absent", "unprocessed", "processed", "rolled back"}

VARIABLES
    blocks,  \* the table of blocks
    tip,     \* lastBlockId of each tab, in memory
    owner,   \* the tab that syncs
    cycle,   \* the progress of its syncNow() or runSyncCycle()
    base     \* history: the tip when the initial sync has read the UTxOs

indexVars == <<blocks, tip, owner, cycle, base>>

Idle == [stage |-> "idle", todo |-> {}, fresh |-> {}, txs |-> {}, clean |-> TRUE]
Landed == [tx : Txs, at : Heights]

IndexTypeOK ==
    /\ blocks \in [BlockIds -> BlockStates]
    /\ tip \in [Tabs -> BlockIds \cup {NoBlock}]
    /\ owner \in Tabs
    /\ cycle \in [stage : Stages, todo : SUBSET BlockIds,
                  fresh : SUBSET BlockIds, txs : SUBSET Landed, clean : BOOLEAN]
    /\ base \in BlockIds \cup {NoBlock}

IndexInit ==
    /\ blocks = [b \in BlockIds |-> "absent"]
    /\ tip = [t \in Tabs |-> NoBlock]
    /\ owner \in Tabs
    /\ cycle = [Idle EXCEPT !.stage = "start"]
    /\ base = NoBlock

-----------------------------------------------------------------------------
(* DexieUtxoStore: the queries of the table of blocks *)

Stored == {b \in BlockIds : blocks[b] \in {"unprocessed", "processed"}}
Highest(S) ==
    LET heights == {Height(b) : b \in S}
    IN {b \in S : \A h \in heights : h <= Height(b)}

findBlockByHeight(h) ==
    LET processed == {b \in Stored : Height(b) = h /\ blocks[b] = "processed"}
    IN IF processed # {} THEN processed ELSE {b \in Stored : Height(b) = h}

getLatestBlock ==
    LET highest == Highest(Stored)
        processed == {b \in highest : blocks[b] = "processed"}
    IN IF processed # {} THEN processed ELSE highest

Processed == {b \in BlockIds : blocks[b] = "processed"}
getLastProcessedBlock == Highest(Processed)
getUnprocessedBlocks == {b \in BlockIds : blocks[b] = "unprocessed"}

\* The height of that block, 0 without one.
Cursor ==
    LET heights == {0} \cup {Height(b) : b \in Processed}
    IN CHOOSE h \in heights : \A k \in heights : k <= h

Save(S, state) == [b \in BlockIds |-> IF b \in S THEN state ELSE blocks[b]]

-----------------------------------------------------------------------------
(* Steps of the tab that syncs *)

TipHeight(t) == Height(tip[t])
Top == chain[Len(chain)]
HigherTip(b) == IF Len(chain) > Height(b) THEN Top ELSE b
Cycling == cycle.stage \notin {"start", "snapshot", "stored", "idle"}

To(stage) == cycle' = [Idle EXCEPT !.stage = stage, !.clean = cycle.clean]
Begin(stage) == cycle' = [Idle EXCEPT !.stage = stage]
Disturbed(stage) == cycle' = [Idle EXCEPT !.stage = stage, !.clean = FALSE]

\* No block in the store: the UTxOs at the Capo's address are read first.
FirstSnapshot ==
    /\ cycle.stage = "start"
    /\ getLatestBlock = {}
    /\ To("snapshot")
    /\ base' = Top
    /\ UNCHANGED <<blocks, tip, owner>>

fetchAndStoreLatestBlock ==
    /\ cycle.stage = "snapshot"
    /\ SlowFirstSync \/ Top = base
    /\ tip' = [tip EXCEPT ![owner] = HigherTip(@)]
    /\ blocks' = IF blocks[Top] = "absent" THEN Save({Top}, "unprocessed") ELSE blocks
    /\ cycle' = [Idle EXCEPT !.stage = "stored", !.todo = {Top}]
    /\ UNCHANGED <<owner, base>>

FirstSyncEnds ==
    /\ cycle.stage = "stored"
    /\ blocks' = Save(cycle.todo, "processed")
    /\ To("idle")
    /\ UNCHANGED <<tip, owner, base>>

\* A poll finds a higher block, or the tab has started with a filled store.
discoverChainTip ==
    /\ \/ /\ cycle.stage = "idle"
          /\ Len(chain) > TipHeight(owner)
          /\ tip' = [tip EXCEPT ![owner] = HigherTip(@)]
       \/ /\ cycle.stage = "start"
          /\ \E b \in getLatestBlock : tip' = [tip EXCEPT ![owner] = HigherTip(b)]
    /\ Begin("detect")
    /\ UNCHANGED <<blocks, owner, base>>

\* The blocks before the tip are compared with the stored ones.  S are those
\* found to differ: one of each height, since the first of several is taken.
Differing(S) ==
    LET below == {b \in Stored : /\ Height(b) < TipHeight(owner)
                                 /\ b \in findBlockByHeight(Height(b))}
        orphans == {b \in below : ~Canonical(b)}
        others == {Height(b) : b \in below \ orphans}
    IN /\ S \subseteq orphans
       /\ \A b, c \in S : Height(b) = Height(c) => b = c
       /\ {Height(b) : b \in orphans} \subseteq others \cup {Height(b) : b \in S}

\* The height after the last one shared below all of S, of those stored.
ForkHeight(S) ==
    LET shared == {Height(b) : b \in {c \in Stored : /\ Canonical(c)
                                                     /\ c \in findBlockByHeight(Height(c))
                                                     /\ \A o \in S : Height(c) < Height(o)}}
    IN 1 + (IF shared = {} THEN 0 ELSE CHOOSE x \in shared : \A y \in shared : y <= x)

NoForkSeen ==
    /\ cycle.stage = "detect"
    /\ Canonical(tip[owner])
    /\ Differing({})
    /\ To("sync")
    /\ UNCHANGED <<blocks, tip, owner, base>>

DetectionFails ==
    /\ cycle.stage = "detect"
    /\ Disturbed("sync")
    /\ UNCHANGED <<blocks, tip, owner, base>>

detectRolledBackBlocks(S) ==
    /\ cycle.stage = "detect"
    /\ Canonical(tip[owner])
    /\ Differing(S) /\ S # {}
    /\ cycle' = [cycle EXCEPT !.stage = "mark", !.todo = S,
                             !.fresh = {chain[Height(b)] : b \in S}]
    /\ UNCHANGED <<blocks, tip, owner, base>>

MarkOrphans ==
    /\ cycle.stage = "mark"
    /\ blocks' = [b \in BlockIds |->
                    CASE b \in cycle.fresh -> "unprocessed"
                      [] b \in cycle.todo -> "rolled back"
                      [] OTHER -> blocks[b]]
    /\ To("sync")
    /\ UNCHANGED <<tip, owner, base>>

\* npc01: nothing is processed, and the cycle is over.
NothingProcessed ==
    /\ cycle.stage = "sync"
    /\ Processed = {}
    /\ To("idle")
    /\ UNCHANGED <<blocks, tip, owner, base>>

Gap == TipHeight(owner) - Cursor
InStep == cycle.stage = "sync" /\ Processed # {}

UpToDate ==
    /\ InStep /\ Gap <= 0
    /\ To("verify")
    /\ UNCHANGED <<blocks, tip, owner, base>>

Walk == [cycle EXCEPT !.stage = "walk",
                      !.todo = {b \in BlockIds : blocks'[b] = "unprocessed"}]

\* The blocks after the latest stored one become unprocessed.
fetchAndStoreNewBlocks ==
    /\ InStep /\ Gap \in 1..CatchupThreshold
    /\ \E latest \in getLatestBlock :
         /\ Canonical(latest)
         /\ blocks' = Save({b \in BlockIds : /\ Canonical(b) /\ blocks[b] = "absent"
                                             /\ Height(b) > Height(latest)}, "unprocessed")
    /\ tip' = [tip EXCEPT ![owner] = HigherTip(@)]
    /\ cycle' = Walk
    /\ UNCHANGED <<owner, base>>

\* A failure is caught, and the blocks already stored are walked.
FetchFails ==
    /\ InStep /\ Gap \in 1..CatchupThreshold
    /\ UNCHANGED <<blocks, tip, owner, base>>
    /\ cycle' = [Walk EXCEPT !.clean = FALSE]

\* The service does not know a block that has left the chain.
Unknown404 ==
    \/ DetectionFails /\ ~Canonical(tip[owner])
    \/ FetchFails /\ \E latest \in getLatestBlock : ~Canonical(latest)

LowestTodo == {b \in cycle.todo : \A c \in cycle.todo : Height(b) <= Height(c)}

\* A block is asked for by its height, whichever block is there now.
syncIncremental(b) ==
    /\ cycle.stage = "walk"
    /\ b \in LowestTodo
    /\ Height(b) <= Len(chain)
    /\ cycle' = [cycle EXCEPT !.stage = "block",
                   !.txs = {[tx |-> T, at |-> Height(b)] : T \in At(Height(b))}]
    /\ UNCHANGED <<blocks, tip, owner, base>>

BlockProcessed(b) ==
    /\ cycle.stage = "block" /\ cycle.txs = {}
    /\ b \in LowestTodo
    /\ blocks' = Save({b}, "processed")
    /\ cycle' = [cycle EXCEPT !.stage = "walk", !.todo = @ \ {b}]
    /\ UNCHANGED <<tip, owner, base>>

WalkEnds ==
    /\ cycle.stage = "walk" /\ cycle.todo = {}
    /\ To("verify")
    /\ UNCHANGED <<blocks, tip, owner, base>>

\* mutant: the block after the cursor is left out
syncCatchupLate ==
    /\ InStep /\ Gap > CatchupThreshold
    /\ cycle' = [cycle EXCEPT !.stage = "catchup",
                   !.txs = {x \in Landed : x.at > Cursor + 1 /\ x.tx \in At(x.at)}]
    /\ UNCHANGED <<blocks, tip, owner, base>>

syncCatchup ==
    /\ InStep /\ Gap > CatchupThreshold
    /\ cycle' = [cycle EXCEPT !.stage = "catchup",
                   !.txs = {x \in Landed : x.at > Cursor /\ x.tx \in At(x.at)}]
    /\ UNCHANGED <<blocks, tip, owner, base>>

reconcileUtxos ==
    /\ cycle.stage = "catchup" /\ cycle.txs = {}
    /\ To("reconciled")
    /\ UNCHANGED <<blocks, tip, owner, base>>

CursorToTip ==
    /\ cycle.stage = "reconciled"
    /\ blocks' = Save({tip[owner]}, "processed")
    /\ To("verify")
    /\ UNCHANGED <<tip, owner, base>>

\* The next transaction of a block, or of the address.
TakeTx(x) ==
    /\ cycle.stage \in {"block", "catchup"}
    /\ x \in cycle.txs
    /\ \A y \in cycle.txs : x.at <= y.at
    /\ cycle' = [cycle EXCEPT !.txs = @ \ {x}]
    /\ UNCHANGED <<blocks, tip, owner, base>>

\* The verification has its list; each request of it is then made.
VerificationStarts ==
    /\ cycle.stage = "verify"
    /\ To("asking")
    /\ UNCHANGED <<blocks, tip, owner, base>>

AskFails ==
    /\ cycle.stage = "asking"
    /\ Disturbed("asking")
    /\ UNCHANGED <<blocks, tip, owner, base>>

CycleEnds ==
    /\ cycle.stage = "asking"
    /\ To("idle")
    /\ UNCHANGED <<blocks, tip, owner, base>>

\* A request fails outside the steps that catch it, and the cycle is over.
CycleFails ==
    /\ cycle.stage \in {"walk", "block", "catchup"}
    /\ To("idle")
    /\ UNCHANGED <<blocks, tip, owner, base>>

HeightGone ==
    /\ cycle.stage = "walk"
    /\ \E b \in LowestTodo : Height(b) > Len(chain)
    /\ CycleFails

\* A tab is closed or reloaded.  Its memory is filled from the store; another
\* tab, or itself from the start, is then the one that syncs.
Reload(t, next) ==
    /\ cycle.stage = "snapshot" => SlowFirstSync
    /\ \/ Stored = {} /\ tip' = [tip EXCEPT ![t] = NoBlock]
       \/ \E b \in getLatestBlock : tip' = [tip EXCEPT ![t] = b]
    /\ IF t # owner THEN next = owner /\ UNCHANGED <<owner, cycle>>
       ELSE /\ owner' = next
            /\ To(IF next = t \/ Cursor = 0 THEN "start" ELSE "idle")
    /\ UNCHANGED <<blocks, base>>

=============================================================================
