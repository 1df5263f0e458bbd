---------------------------- MODULE UtxoIndexProofs ----------------------------
(***************************************************************************)
(* What UtxoIndex promises of the index until the chain first forks, and,  *)
(* at the end, across the first fork.                                      *)
(*                                                                         *)
(* LandingInv: what is given up has not landed and no longer can.  GapInv: *)
(* the index has everything of the chain up to the cursor.  SpentInv:      *)
(* whatever is alive has its input.  Each rests on the one before, and     *)
(* each is proved the same way: one relation says what a step may do to    *)
(* the entries and the UTxOs (LawfulStep, OutputsLawful, ClaimsLawful),    *)
(* every action is shown to be such a step, and such a step keeps the      *)
(* invariant.  ForkInv, of the same form, needs none of them: what is      *)
(* confirmed in a block is in it, or has come onto the new fork.           *)
(***************************************************************************)
EXTENDS UtxoIndex, FiniteSetTheorems, WellFoundedInduction, TLAPS

-----------------------------------------------------------------------------
(* Heights                                                                    *)

\* A set of heights has a greatest: there is no infinite descent among the
\* intervals from its members to the bound.
LEMMA GreatestHeight ==
    ASSUME NEW n \in Nat, NEW T \in SUBSET (0..n), T # {}
    PROVE  \E x \in T : \A y \in T : y <= x
<1> DEFINE U == {x..n : x \in T}
<1>1. U \subseteq FiniteSubsetsOf(Nat)
  <2> SUFFICES ASSUME NEW x \in T PROVE x..n \in FiniteSubsetsOf(Nat)
    OBVIOUS
  <2>1. IsFiniteSet(x..n)
    BY FS_Interval
  <2> QED BY <2>1 DEF FiniteSubsetsOf
<1>2. PICK s \in U : \A r \in U : <<r, s>> \notin StrictSubsetOrdering(Nat)
  <2>1. U # {}
    OBVIOUS
  <2>2. IsWellFoundedOn(StrictSubsetOrdering(Nat), FiniteSubsetsOf(Nat))
    BY FS_StrictSubsetOrderingWellFounded
  <2> HIDE DEF U
  <2> QED BY <1>1, <2>1, <2>2, WFMin
<1>3. PICK x \in T : s = x..n
  OBVIOUS
<1>4. ASSUME NEW y \in T, ~(y <= x) PROVE FALSE
  <2>1. x < y /\ x \in Nat /\ y \in Nat /\ x <= n /\ y <= n
    BY <1>4
  <2>2. x \in x..n /\ x \notin y..n /\ y..n \subseteq x..n
    BY <2>1
  <2>3. <<y..n, x..n>> \in StrictSubsetOrdering(Nat)
    BY <2>1, <2>2 DEF StrictSubsetOrdering
  <2> QED BY <1>2, <1>3, <2>3
<1> QED BY <1>4

Blk == BlockIds \cup {NoBlock}

LEMMA BlockType ==
    /\ \A b \in BlockIds : Height(b) \in Heights /\ b[2] \in 0..MaxForks /\ b = <<Height(b), b[2]>>
    /\ \A h \in Heights, f \in 0..MaxForks : <<h, f>> \in BlockIds /\ Height(<<h, f>>) = h
    /\ \A b \in Blk : Height(b) \in 0..MaxHeight
    /\ NoBlock \notin BlockIds
BY BlockchainAssumption DEF BlockIds, Heights, Height, NoBlock, Blk

\* the blocks of the chain
LEMMA OfChain ==
    ASSUME ChainTypeOK
    PROVE  /\ Len(chain) \in Heights /\ DOMAIN chain = 1..Len(chain)
           /\ \A h \in 1..Len(chain) : h \in Heights /\ chain[h] \in BlockIds
           /\ Top \in BlockIds
           /\ \A h \in Nat \ {0} : At(h) \subseteq Txs
BY BlockchainAssumption DEF ChainTypeOK, Heights, Top, At

\* the height of a transaction on the chain
LEMMA HeightOfType ==
    ASSUME ChainTypeOK, NEW T, OnChain(T)
    PROVE  HeightOf(T) \in 1..Len(chain) /\ T \in mined[chain[HeightOf(T)]]
BY DEF OnChain, HeightOf

\* The fork starts above the start of the chain.
LEMMA ForkHeightType ==
    ASSUME IndexTypeOK, NEW S
    PROVE  ForkHeight(S) \in Nat \ {0}
<1> DEFINE shared == {Height(b) : b \in {c \in Stored : /\ Canonical(c)
                                                     /\ c \in findBlockByHeight(Height(c))
                                                     /\ \A o \in S : Height(c) < Height(o)}}
<1>1. shared \in SUBSET (0..MaxHeight)
  BY BlockType, BlockchainAssumption DEF Stored, Heights
<1>2. ForkHeight(S) = 1 + (IF shared = {} THEN 0 ELSE CHOOSE x \in shared : \A y \in shared : y <= x)
  BY DEF ForkHeight
<1> HIDE DEF shared
<1>3. shared # {} => (CHOOSE x \in shared : \A y \in shared : y <= x) \in 0..MaxHeight
  BY <1>1, GreatestHeight, BlockchainAssumption
<1> QED BY <1>2, <1>3

-----------------------------------------------------------------------------
(* Types: the chain                                                           *)

LEMMA UtxosType == Txs \subseteq Utxos /\ \A T \in Txs : Input[T] \in Utxos
BY BlockchainAssumption DEF Utxos

LEMMA MineType ==
    ASSUME ChainTypeOK, NEW S \in SUBSET Txs, Mine(S)
    PROVE  ChainTypeOK' /\ Len(chain') = Len(chain) + 1
<1> DEFINE b == <<Len(chain) + 1, forks>>
<1>1. b \in BlockIds /\ Len(chain) + 1 \in Heights
  BY BlockType, BlockchainAssumption DEF Mine, ChainTypeOK, Heights
<1>2. chain' = Append(chain, b) /\ mined' = [mined EXCEPT ![b] = S] /\ forks' = forks
  BY DEF Mine
<1> HIDE DEF b
<1> QED BY <1>1, <1>2 DEF ChainTypeOK

LEMMA ForkType ==
    ASSUME ChainTypeOK, NEW k, Fork(k)
    PROVE  /\ ChainTypeOK' /\ Len(chain') = Len(chain) - k /\ k \in 1..ForkDepth
           /\ \A h \in 1..Len(chain') : chain'[h] = chain[h]
<1>1. k \in 1..ForkDepth /\ k < Len(chain) /\ Len(chain) \in Heights /\ ForkDepth \in Nat
      /\ chain' = SubSeq(chain, 1, Len(chain) - k) /\ chain \in Seq(BlockIds)
  BY BlockchainAssumption DEF Fork, ChainTypeOK
<1>2. Len(chain) - k \in Heights /\ Len(chain) - k \in 1..Len(chain)
  BY <1>1, BlockchainAssumption DEF Heights
<1>3. chain' \in Seq(BlockIds) /\ Len(chain') = Len(chain) - k
      /\ \A h \in 1..Len(chain') : chain'[h] = chain[h]
  BY <1>1, <1>2
<1>4. forks' \in 0..MaxForks /\ mined' = mined
  BY BlockchainAssumption DEF Fork, ChainTypeOK
<1> QED BY <1>1, <1>2, <1>3, <1>4 DEF ChainTypeOK

-----------------------------------------------------------------------------
(* Types: how the chain is followed                                           *)

Cycles == [stage : Stages, todo : SUBSET BlockIds,
           fresh : SUBSET BlockIds, txs : SUBSET Landed, clean : BOOLEAN]

LEMMA CycleTypes ==
    ASSUME NEW c \in Cycles
    PROVE  /\ \A stage \in Stages : /\ [Idle EXCEPT !.stage = stage, !.clean = c.clean] \in Cycles
                                    /\ [Idle EXCEPT !.stage = stage] \in Cycles
                                    /\ [Idle EXCEPT !.stage = stage, !.clean = FALSE] \in Cycles
           /\ \A stage \in Stages, todo \in SUBSET BlockIds :
                 /\ [Idle EXCEPT !.stage = stage, !.todo = todo] \in Cycles
                 /\ [c EXCEPT !.stage = stage, !.todo = todo] \in Cycles
                 /\ \A fresh \in SUBSET BlockIds : [c EXCEPT !.stage = stage, !.todo = todo, !.fresh = fresh] \in Cycles
           /\ \A stage \in Stages, txs \in SUBSET Landed : [c EXCEPT !.stage = stage, !.txs = txs] \in Cycles
           /\ \A txs \in SUBSET Landed : [c EXCEPT !.txs = txs] \in Cycles
           /\ [c EXCEPT !.clean = FALSE] \in Cycles
<1>1. Idle \in Cycles /\ c.clean \in BOOLEAN
  BY DEF Cycles, Idle, Stages
<1>2. ASSUME NEW d \in Cycles
      PROVE  /\ \A stage \in Stages : [d EXCEPT !.stage = stage] \in Cycles
             /\ \A todo \in SUBSET BlockIds : [d EXCEPT !.todo = todo] \in Cycles
             /\ \A fresh \in SUBSET BlockIds : [d EXCEPT !.fresh = fresh] \in Cycles
             /\ \A txs \in SUBSET Landed : [d EXCEPT !.txs = txs] \in Cycles
             /\ \A clean \in BOOLEAN : [d EXCEPT !.clean = clean] \in Cycles
  BY DEF Cycles
<1>3. \A clean \in BOOLEAN, stage \in Stages : [Idle EXCEPT !.stage = stage, !.clean = clean] \in Cycles
  BY <1>1, <1>2
<1>4. \A d \in {Idle, c}, stage \in Stages, todo \in SUBSET BlockIds :
        [d EXCEPT !.stage = stage, !.todo = todo] \in Cycles
  BY <1>1, <1>2
<1>5. \A stage \in Stages, todo \in SUBSET BlockIds, fresh \in SUBSET BlockIds :
        [c EXCEPT !.stage = stage, !.todo = todo, !.fresh = fresh] \in Cycles
  BY <1>2
<1>6. \A stage \in Stages, txs \in SUBSET Landed : [c EXCEPT !.stage = stage, !.txs = txs] \in Cycles
  BY <1>2
<1> QED BY <1>1, <1>2, <1>3, <1>4, <1>5, <1>6

LEMMA SaveType ==
    ASSUME IndexTypeOK, NEW S, NEW state \in BlockStates
    PROVE  Save(S, state) \in [BlockIds -> BlockStates]
BY DEF Save, IndexTypeOK

CursorIs ==
    /\ Cursor \in 0..MaxHeight
    /\ \A b \in Processed : Height(b) <= Cursor
    /\ Processed = {} => Cursor = 0
    /\ Processed # {} => \E b \in Processed : Height(b) = Cursor

LEMMA CursorType == IndexTypeOK => CursorIs
<1> DEFINE heights == {0} \cup {Height(b) : b \in Processed}
<1>1. heights \in SUBSET (0..MaxHeight) /\ heights # {} /\ MaxHeight \in Nat
  BY BlockType, BlockchainAssumption DEF Heights, Processed
<1>2. \E n \in heights : \A y \in heights : y <= n
  <2> HIDE DEF heights
  <2> QED BY <1>1, GreatestHeight
<1>3. Cursor \in heights /\ \A y \in heights : y <= Cursor
  BY <1>2 DEF Cursor
<1>4. Processed # {} => \E b \in Processed : Height(b) = Cursor
  BY <1>1, <1>3
<1> QED BY <1>1, <1>3, <1>4 DEF CursorIs

LEMMA LatestType ==
    ASSUME IndexTypeOK
    PROVE  /\ getLatestBlock \subseteq Stored /\ getLastProcessedBlock \subseteq Stored
           /\ Stored \subseteq BlockIds
           /\ Cursor \in 0..MaxHeight
           /\ TipHeight(owner) \in 0..MaxHeight
           /\ \A t \in Tabs : TipHeight(t) \in 0..MaxHeight
<1>1. /\ getLatestBlock \subseteq Stored /\ getLastProcessedBlock \subseteq Stored
      /\ Stored \subseteq BlockIds
  BY DEF getLatestBlock, getLastProcessedBlock, Highest, Processed, Stored
<1>2. Cursor \in 0..MaxHeight
  BY CursorType DEF CursorIs
<1>3. \A t \in Tabs : TipHeight(t) \in 0..MaxHeight
  BY BlockType DEF TipHeight, Blk, IndexTypeOK
<1>4. owner \in Tabs
  BY DEF IndexTypeOK
<1> QED BY <1>1, <1>2, <1>3, <1>4

\* Each step of the tab that syncs.
LEMMA FirstSyncType ==
    ASSUME ChainTypeOK, IndexTypeOK, FirstSnapshot \/ fetchAndStoreLatestBlock \/ FirstSyncEnds
    PROVE  IndexTypeOK'
<1> USE DEF Cycles
<1>0. Top \in BlockIds /\ cycle \in Cycles
  BY OfChain DEF IndexTypeOK
<1> HIDE DEF Cycles
<1>1. CASE FirstSnapshot
  <2>1. cycle' \in Cycles
    BY <1>0, <1>1, CycleTypes DEF FirstSnapshot, To, Stages
  <2> QED BY <1>0, <1>1, <2>1 DEF FirstSnapshot, IndexTypeOK, Cycles
<1>2. CASE fetchAndStoreLatestBlock
  <2>1. cycle' \in Cycles
    BY <1>0, <1>2, CycleTypes DEF fetchAndStoreLatestBlock, Stages
  <2>2. blocks' \in [BlockIds -> BlockStates]
    BY <1>2, SaveType DEF fetchAndStoreLatestBlock, BlockStates, IndexTypeOK
  <2>3. tip' \in [Tabs -> BlockIds \cup {NoBlock}]
    BY <1>0, <1>2 DEF fetchAndStoreLatestBlock, HigherTip, IndexTypeOK
  <2> QED BY <1>2, <2>1, <2>2, <2>3 DEF fetchAndStoreLatestBlock, IndexTypeOK, Cycles
<1>3. CASE FirstSyncEnds
  <2>1. cycle' \in Cycles
    BY <1>0, <1>3, CycleTypes DEF FirstSyncEnds, To, Stages
  <2>2. blocks' \in [BlockIds -> BlockStates]
    BY <1>3, SaveType DEF FirstSyncEnds, BlockStates
  <2> QED BY <1>3, <2>1, <2>2 DEF FirstSyncEnds, IndexTypeOK, Cycles
<1> QED BY <1>1, <1>2, <1>3

\* the steps that only go on to another stage
LEMMA StageType ==
    ASSUME IndexTypeOK, NEW stage \in Stages, To(stage) \/ Begin(stage) \/ Disturbed(stage)
    PROVE  cycle' \in Cycles
<1>1. cycle \in Cycles
  BY DEF IndexTypeOK, Cycles
<1>2. \/ cycle' = [Idle EXCEPT !.stage = stage, !.clean = cycle.clean]
      \/ cycle' = [Idle EXCEPT !.stage = stage]
      \/ cycle' = [Idle EXCEPT !.stage = stage, !.clean = FALSE]
  BY DEF To, Begin, Disturbed
<1> QED BY <1>1, <1>2, CycleTypes

LEMMA DetectType ==
    ASSUME ChainTypeOK, IndexTypeOK,
           \/ discoverChainTip \/ NoForkSeen \/ DetectionFails \/ MarkOrphans
           \/ \E S \in SUBSET Stored : detectRolledBackBlocks(S)
    PROVE  IndexTypeOK'
<1>1. CASE discoverChainTip
  <2>1. cycle' \in Cycles
    BY <1>1, StageType DEF discoverChainTip, Stages
  <2>2. tip' \in [Tabs -> BlockIds \cup {NoBlock}]
    BY <1>1, OfChain, LatestType DEF discoverChainTip, HigherTip, IndexTypeOK
  <2> QED BY <1>1, <2>1, <2>2 DEF discoverChainTip, IndexTypeOK, Cycles
<1>2. CASE NoForkSeen \/ DetectionFails
  <2>1. cycle' \in Cycles
    BY <1>2, StageType DEF NoForkSeen, DetectionFails, Stages
  <2> QED BY <1>2, <2>1 DEF NoForkSeen, DetectionFails, IndexTypeOK, Cycles
<1>3. CASE MarkOrphans
  <2>1. cycle' \in Cycles
    BY <1>3, StageType DEF MarkOrphans, Stages
  <2>2. blocks' \in [BlockIds -> BlockStates]
    BY <1>3 DEF MarkOrphans, IndexTypeOK, BlockStates
  <2> QED BY <1>3, <2>1, <2>2 DEF MarkOrphans, IndexTypeOK, Cycles
<1>4. ASSUME NEW S \in SUBSET Stored, detectRolledBackBlocks(S) PROVE IndexTypeOK'
  <2>1. \A b \in S : Height(b) \in 1..Len(chain)
    <3>1. Canonical(tip[owner]) /\ \A b \in S : Height(b) < TipHeight(owner)
      BY <1>4 DEF detectRolledBackBlocks, Differing
    <3>2. TipHeight(owner) \in 1..Len(chain) /\ Len(chain) \in Nat
      BY <3>1, OfChain DEF Canonical, TipHeight, Heights
    <3>3. \A b \in S : Height(b) \in Heights
      BY BlockType, LatestType
    <3> QED BY <3>1, <3>2, <3>3, BlockchainAssumption DEF Heights
  <2>2. {chain[Height(b)] : b \in S} \in SUBSET BlockIds /\ S \in SUBSET BlockIds
    BY <2>1, OfChain, LatestType
  <2>3. cycle \in Cycles /\ "mark" \in Stages
    BY DEF IndexTypeOK, Cycles, Stages
  <2>4. cycle' \in Cycles
    BY <1>4, <2>2, <2>3, CycleTypes DEF detectRolledBackBlocks
  <2> QED BY <1>4, <2>4 DEF detectRolledBackBlocks, IndexTypeOK, Cycles
<1> QED BY <1>1, <1>2, <1>3, <1>4

LEMMA SyncType ==
    ASSUME ChainTypeOK, IndexTypeOK,
           \/ NothingProcessed \/ UpToDate \/ fetchAndStoreNewBlocks \/ FetchFails
           \/ syncCatchup \/ reconcileUtxos \/ CursorToTip
    PROVE  IndexTypeOK'
<1>0. cycle \in Cycles
  BY DEF IndexTypeOK, Cycles
<1>1. CASE NothingProcessed \/ UpToDate \/ reconcileUtxos
  <2>1. cycle' \in Cycles
    BY <1>1, StageType DEF NothingProcessed, UpToDate, reconcileUtxos, Stages
  <2> QED BY <1>1, <2>1 DEF NothingProcessed, UpToDate, reconcileUtxos, IndexTypeOK, Cycles
<1>2. Walk \in Cycles /\ [Walk EXCEPT !.clean = FALSE] \in Cycles
  BY <1>0, CycleTypes DEF Walk, Stages
<1>3. CASE fetchAndStoreNewBlocks
  <2>1. blocks' \in [BlockIds -> BlockStates]
    BY <1>3, SaveType DEF fetchAndStoreNewBlocks, BlockStates
  <2>2. tip' \in [Tabs -> BlockIds \cup {NoBlock}]
    BY <1>3, OfChain DEF fetchAndStoreNewBlocks, HigherTip, IndexTypeOK
  <2> QED BY <1>2, <1>3, <2>1, <2>2 DEF fetchAndStoreNewBlocks, IndexTypeOK, Cycles
<1>4. CASE FetchFails
  BY <1>2, <1>4 DEF FetchFails, IndexTypeOK, Cycles
<1>5. CASE syncCatchup
  <2>1. cycle' \in Cycles
    BY <1>0, <1>5, CycleTypes DEF syncCatchup, Stages
  <2> QED BY <1>5, <2>1 DEF syncCatchup, IndexTypeOK, Cycles
<1>6. CASE CursorToTip
  <2>1. cycle' \in Cycles
    BY <1>6, StageType DEF CursorToTip, Stages
  <2>2. blocks' \in [BlockIds -> BlockStates]
    BY <1>6, SaveType DEF CursorToTip, BlockStates
  <2> QED BY <1>6, <2>1, <2>2 DEF CursorToTip, IndexTypeOK, Cycles
<1> QED BY <1>1, <1>3, <1>4, <1>5, <1>6

LEMMA WalkType ==
    ASSUME ChainTypeOK, IndexTypeOK,
           \/ WalkEnds \/ VerificationStarts \/ AskFails \/ CycleEnds \/ CycleFails
           \/ \E b \in BlockIds : syncIncremental(b) \/ BlockProcessed(b)
           \/ \E x : TakeTx(x)
    PROVE  IndexTypeOK'
<1>0. cycle \in Cycles
  BY DEF IndexTypeOK, Cycles
<1>1. CASE WalkEnds \/ VerificationStarts \/ AskFails \/ CycleEnds \/ CycleFails
  <2>1. cycle' \in Cycles
    BY <1>1, StageType DEF WalkEnds, VerificationStarts, AskFails, CycleEnds, CycleFails, Stages
  <2> QED BY <1>1, <2>1 DEF WalkEnds, VerificationStarts, AskFails, CycleEnds, CycleFails, IndexTypeOK, Cycles
<1>2. ASSUME NEW b \in BlockIds, syncIncremental(b) PROVE IndexTypeOK'
  <2>1. At(Height(b)) \subseteq Txs /\ Height(b) \in Heights
    BY BlockType, OfChain DEF Heights
  <2>2. cycle' = [cycle EXCEPT !.stage = "block",
                   !.txs = {[tx |-> T, at |-> Height(b)] : T \in At(Height(b))}]
    BY <1>2 DEF syncIncremental
  <2>3. {[tx |-> T, at |-> Height(b)] : T \in At(Height(b))} \in SUBSET Landed /\ "block" \in Stages
    BY <2>1 DEF Landed, Stages
  <2>4. cycle' \in Cycles
    BY <1>0, <2>2, <2>3, CycleTypes
  <2> QED BY <1>2, <2>4 DEF syncIncremental, IndexTypeOK, Cycles
<1>3. ASSUME NEW b \in BlockIds, BlockProcessed(b) PROVE IndexTypeOK'
  <2>1. cycle.todo \ {b} \in SUBSET BlockIds /\ "walk" \in Stages
    BY <1>0 DEF Cycles, Stages
  <2>2. cycle' \in Cycles
    BY <1>0, <1>3, <2>1, CycleTypes DEF BlockProcessed
  <2>3. blocks' \in [BlockIds -> BlockStates]
    BY <1>3, SaveType DEF BlockProcessed, BlockStates
  <2> QED BY <1>3, <2>2, <2>3 DEF BlockProcessed, IndexTypeOK, Cycles
<1>4. ASSUME NEW x, TakeTx(x) PROVE IndexTypeOK'
  <2>1. cycle.txs \ {x} \in SUBSET Landed
    BY <1>0 DEF Cycles
  <2>2. cycle' \in Cycles
    BY <1>0, <1>4, <2>1, CycleTypes DEF TakeTx
  <2> QED BY <1>4, <2>2 DEF TakeTx, IndexTypeOK, Cycles
<1> QED BY <1>1, <1>2, <1>3, <1>4

LEMMA ReloadType ==
    ASSUME ChainTypeOK, IndexTypeOK, NEW t \in Tabs, NEW next \in Tabs, Reload(t, next)
    PROVE  IndexTypeOK'
<1>1. tip' \in [Tabs -> BlockIds \cup {NoBlock}]
  BY LatestType DEF Reload, IndexTypeOK
<1>2. cycle' \in Cycles /\ owner' \in Tabs
  <2>1. CASE t # owner
    BY <2>1 DEF Reload, IndexTypeOK, Cycles
  <2>2. CASE t = owner
    BY <2>2, StageType DEF Reload, Stages
  <2> QED BY <2>1, <2>2
<1> QED BY <1>1, <1>2 DEF Reload, IndexTypeOK, Cycles

-----------------------------------------------------------------------------
(* Types: the pending transactions                                            *)

\* an entry confirmed, or made pending again
LEMMA EntryTypes ==
    ASSUME NEW e \in Entries
    PROVE  /\ NoEntry \in Entries
           /\ \A h \in Heights, b \in Blk : Confirmed(e, h, b) \in Entries
           /\ \A status \in Statuses : [e EXCEPT !.status = status] \in Entries
           /\ \A h \in Heights, b \in Blk, provisional \in BOOLEAN :
                 [e EXCEPT !.at = h, !.blk = b, !.provisional = provisional] \in Entries
           /\ [e EXCEPT !.status = "pending", !.at = 0, !.blk = NoBlock, !.provisional = FALSE] \in Entries
           /\ [e EXCEPT !.provisional = FALSE] \in Entries
           /\ \A h \in Heights : [e EXCEPT !.contested = @ \cup {h}] \in Entries
<1>1. Heights \subseteq 0..MaxHeight /\ 0 \in 0..MaxHeight
  BY BlockchainAssumption DEF Heights
<1>2. \A h : Provisional(h) \in BOOLEAN
  BY DEF Provisional
<1> QED BY <1>1, <1>2 DEF Entries, NoEntry, Statuses, Confirmed, Blk

LEMMA BlockAtType ==
    ASSUME ChainTypeOK, IndexTypeOK, NEW h \in Nat \ {0}
    PROVE  BlockAt(h) \subseteq Blk /\ BlockAt(h) # {}
<1>1. findBlockByHeight(h) \subseteq BlockIds
  BY DEF findBlockByHeight, Stored
<1>2. h <= Len(chain) => chain[h] \in BlockIds
  BY OfChain DEF Heights
<1> QED BY <1>1, <1>2 DEF BlockAt, Blk

LEMMA SnapshotType == ASSUME PendingTypeOK, IndexSnapshot PROVE PendingTypeOK'
BY DEF PendingTypeOK, IndexSnapshot, UtxoStates

LEMMA RegisterType ==
    ASSUME PendingTypeOK, NEW t \in Tabs, NEW T, registerPendingTx(t, T)
    PROVE  PendingTypeOK'
<1>1. T \in Txs
  BY PendingAssumption DEF registerPendingTx
<1>2. entries' \in [Txs -> Entries]
  <2>1. [entries[T] EXCEPT !.status = "pending"] \in Entries
    BY <1>1, EntryTypes DEF PendingTypeOK, Statuses
  <2> QED BY <1>1, <2>1 DEF PendingTypeOK, registerPendingTx
<1>3. utxos' \in [Utxos -> UtxoStates]
  BY <1>1 DEF PendingTypeOK, registerPendingTx, UtxoStates
<1>4. hashes' \in [Tabs -> SUBSET Txs]
  BY <1>1 DEF PendingTypeOK, registerPendingTx
<1> QED BY <1>2, <1>3, <1>4 DEF PendingTypeOK, registerPendingTx

LEMMA ConfirmType ==
    ASSUME ChainTypeOK, IndexTypeOK, PendingTypeOK
    PROVE  /\ \A x \in Landed : ConfirmReads(x.tx, x.at, FALSE) => PendingTypeOK'
           /\ \A T \in Txs : OnChain(T) /\ ConfirmReads(T, HeightOf(T), TRUE) => PendingTypeOK'
           /\ \A c \in confirming : ConfirmSaves(c) => PendingTypeOK'
<1>1. ASSUME NEW T \in Txs, NEW h \in Heights, NEW known \in BOOLEAN, ConfirmReads(T, h, known),
             known => h <= Len(chain)
      PROVE  PendingTypeOK'
  <2>1. utxos' \in [Utxos -> UtxoStates]
    BY <1>1 DEF ConfirmReads, PendingTypeOK, UtxoStates
  <2>2. (IF known THEN {chain[h]} ELSE BlockAt(h)) \subseteq Blk
    <3>1. BlockAt(h) \subseteq Blk
      BY <1>1, BlockAtType DEF Heights
    <3>2. known => chain[h] \in Blk
      BY <1>1, OfChain, BlockchainAssumption DEF Heights, Blk
    <3> QED BY <3>1, <3>2
  <2>3. confirming' \subseteq [tx : Txs, entry : Entries, at : Heights, blk : BlockIds \cup {NoBlock}]
    <3>1. CASE confirming' = confirming
      BY <3>1 DEF PendingTypeOK
    <3>2. ASSUME NEW b \in Blk, confirming' = {[tx |-> T, entry |-> entries[T], at |-> h, blk |-> b]}
          PROVE  confirming' \subseteq [tx : Txs, entry : Entries, at : Heights, blk : BlockIds \cup {NoBlock}]
      BY <1>1, <3>2 DEF PendingTypeOK, Blk
    <3>3. confirming' = confirming \/ \E b \in IF known THEN {chain[h]} ELSE BlockAt(h) :
             confirming' = {[tx |-> T, entry |-> entries[T], at |-> h, blk |-> b]}
      BY <1>1 DEF ConfirmReads
    <3> QED BY <2>2, <3>1, <3>2, <3>3
  <2> QED BY <1>1, <2>1, <2>3 DEF ConfirmReads, PendingTypeOK
<1>2. ASSUME NEW x \in Landed, ConfirmReads(x.tx, x.at, FALSE) PROVE PendingTypeOK'
  <2>1. x.tx \in Txs /\ x.at \in Heights
    BY <1>2 DEF Landed
  <2> QED BY <1>1, <1>2, <2>1
<1>3. ASSUME NEW T \in Txs, OnChain(T), ConfirmReads(T, HeightOf(T), TRUE) PROVE PendingTypeOK'
  <2>1. HeightOf(T) \in Heights /\ HeightOf(T) <= Len(chain)
    BY <1>3, HeightOfType, OfChain DEF Heights
  <2> QED BY <1>1, <1>3, <2>1
<1>4. ASSUME NEW c \in confirming, ConfirmSaves(c) PROVE PendingTypeOK'
  <2>1. c.tx \in Txs /\ Confirmed(c.entry, c.at, c.blk) \in Entries
    BY <1>4, EntryTypes DEF PendingTypeOK, Blk
  <2>2. entries' \in [Txs -> Entries]
    BY <1>4, <2>1 DEF ConfirmSaves, PendingTypeOK
  <2>3. hashes' \in [Tabs -> SUBSET Txs]
    BY <1>4 DEF ConfirmSaves, PendingTypeOK
  <2> QED BY <1>4, <2>2, <2>3 DEF ConfirmSaves, PendingTypeOK
<1> QED BY <1>2, <1>3, <1>4

LEMMA DiscoverType ==
    ASSUME ChainTypeOK, IndexTypeOK, PendingTypeOK, NEW T \in Txs, NEW h \in Heights, Discover(T, h)
    PROVE  PendingTypeOK'
<1>1. utxos' \in [Utxos -> UtxoStates]
  BY DEF Discover, PendingTypeOK, UtxoStates
<1>2. BlockAt(h) \subseteq Blk
  BY BlockAtType DEF Heights
<1>3. \A S \in Txs : entries[S] \in Entries
  BY DEF PendingTypeOK
<1>4. entries' \in [Txs -> Entries]
  <2> DEFINE spender == utxos[Input[T]]
  <2>1. PICK b \in BlockAt(h) :
          entries' = [S \in Txs |->
           CASE S = T /\ entries[T].status = "none" -> Confirmed(NoEntry, h, b)
             [] S = spender /\ S # T /\ entries[S].status = "pending" ->
                  [entries[S] EXCEPT !.contested = @ \cup {h}]
             [] OTHER -> entries[S]]
    BY DEF Discover
  <2>2. Confirmed(NoEntry, h, b) \in Entries
    BY <1>2, <1>3, EntryTypes
  <2>3. \A S \in Txs : [entries[S] EXCEPT !.contested = @ \cup {h}] \in Entries
    BY <1>3, EntryTypes
  <2> HIDE DEF Confirmed, spender
  <2> QED BY <1>3, <2>1, <2>2, <2>3
<1> QED BY <1>1, <1>4 DEF Discover, PendingTypeOK

LEMMA ResolveType ==
    ASSUME ChainTypeOK, IndexTypeOK, PendingTypeOK, NEW S \in SUBSET Stored, ResolveOrphanTxs(S)
    PROVE  PendingTypeOK'
<1> DEFINE moved == {T \in UNION {mined[b] : b \in S} : entries[T].status # "none"}
           found == {T \in moved : \E h \in ForkHeight(S)..(TipHeight(owner) - 1) : T \in At(h)}
<1>1. moved \subseteq Txs /\ found \subseteq moved
  BY LatestType DEF ChainTypeOK
<1>2. \A T \in Txs : entries[T] \in Entries
  BY DEF PendingTypeOK
<1>3. ASSUME NEW T \in found
      PROVE  HeightOf(T) \in Heights /\ chain[HeightOf(T)] \in Blk /\ Provisional(HeightOf(T)) \in BOOLEAN
  <2>1. PICK h \in ForkHeight(S)..(TipHeight(owner) - 1) : T \in At(h)
    BY <1>3
  <2>2. ForkHeight(S) \in Nat \ {0} /\ TipHeight(owner) \in Nat
    BY ForkHeightType, LatestType, BlockchainAssumption
  <2>3. h \in 1..Len(chain) /\ T \in mined[chain[h]]
    BY <2>1, <2>2, OfChain DEF At, Heights
  <2>4. HeightOf(T) \in 1..Len(chain)
    BY <2>3, HeightOfType DEF OnChain
  <2> QED BY <2>4, OfChain DEF Provisional, Blk
<1>4. entries' = [T \in Txs |->
            CASE T \in found ->
                   [entries[T] EXCEPT !.at = HeightOf(T), !.blk = chain[HeightOf(T)],
                                      !.provisional = Provisional(HeightOf(T))]
              [] T \in moved \ found ->
                   [entries[T] EXCEPT !.status = "pending", !.at = 0, !.blk = NoBlock,
                                      !.provisional = FALSE]
              [] OTHER -> entries[T]]
      /\ hashes' = [hashes EXCEPT ![owner] = @ \cup (moved \ found)]
      /\ UNCHANGED <<utxos, confirming, held, unwinding>>
  BY DEF ResolveOrphanTxs
<1> HIDE DEF moved, found
<1>5. \A T \in found : [entries[T] EXCEPT !.at = HeightOf(T), !.blk = chain[HeightOf(T)],
                                      !.provisional = Provisional(HeightOf(T))] \in Entries
  BY <1>1, <1>2, <1>3, EntryTypes
<1>6. \A T \in moved : [entries[T] EXCEPT !.status = "pending", !.at = 0, !.blk = NoBlock,
                                      !.provisional = FALSE] \in Entries
  BY <1>1, <1>2, EntryTypes
<1>7. entries' \in [Txs -> Entries]
  BY <1>2, <1>4, <1>5, <1>6
<1>8. hashes' \in [Tabs -> SUBSET Txs]
  BY <1>1, <1>4 DEF PendingTypeOK
<1> QED BY <1>4, <1>7, <1>8 DEF PendingTypeOK

LEMMA ReconcileType == ASSUME PendingTypeOK, Reconcile PROVE PendingTypeOK'
BY DEF PendingTypeOK, Reconcile, UtxoStates

LEMMA DepthsType == ASSUME PendingTypeOK, UpdateDepths PROVE PendingTypeOK'
<1>1. \A T \in Txs : entries[T] \in Entries /\ [entries[T] EXCEPT !.provisional = FALSE] \in Entries
  BY EntryTypes DEF PendingTypeOK
<1>2. entries' \in [Txs -> Entries]
  BY <1>1 DEF UpdateDepths
<1>3. hashes' \in [Tabs -> SUBSET Txs]
  BY DEF PendingTypeOK, UpdateDepths, InStore, WithStatus
<1> QED BY <1>2, <1>3 DEF PendingTypeOK, UpdateDepths

\* what a tab holds of an entry it has read
LEMMA HeldTypes ==
    ASSUME PendingTypeOK, NEW t \in Tabs
    PROVE  /\ \A r \in held[t] : r.tx \in Txs /\ r.entry \in Entries /\ r.seen \in 0..MaxHeight
           /\ \A r \in unwinding[t] : /\ r.tx \in Txs /\ r.entry \in Entries
                                     /\ \A stage \in {"cleared", "deleted"} : [r EXCEPT !.stage = stage] \in Unwound
<1>1. held[t] \subseteq Held /\ unwinding[t] \subseteq Unwound
  BY DEF PendingTypeOK
<1>2. \A r \in Held : r.tx \in Txs /\ r.entry \in Entries /\ r.seen \in 0..MaxHeight
  BY DEF Held
<1>3. \A r \in Unwound : /\ r.tx \in Txs /\ r.entry \in Entries
                         /\ \A stage \in {"cleared", "deleted"} : [r EXCEPT !.stage = stage] \in Unwound
  BY DEF Unwound
<1> QED BY <1>1, <1>2, <1>3

LEMMA DeadlineType ==
    ASSUME IndexTypeOK, PendingTypeOK, NEW t \in Tabs, DeadlineReads(t) \/ DeadlineSaves(t)
    PROVE  PendingTypeOK'
<1>1. CASE DeadlineSaves(t)
  <2>1. PICK r \in held[t] :
         /\ entries' = IF DeadlineDeep(t, r.tx)
                       THEN [entries EXCEPT ![r.tx] = [r.entry EXCEPT !.status = "rollback-pending"]]
                       ELSE entries
         /\ held' = [held EXCEPT ![t] = @ \ {r}]
    BY <1>1 DEF DeadlineSaves
  <2> DEFINE e == [r.entry EXCEPT !.status = "rollback-pending"]
  <2>2. r.tx \in Txs /\ r.entry \in Entries
    BY HeldTypes
  <2>3. e \in Entries
    BY <2>2, EntryTypes DEF Statuses
  <2>4. entries' = IF DeadlineDeep(t, r.tx) THEN [entries EXCEPT ![r.tx] = e] ELSE entries
    BY <2>1
  <2> HIDE DEF e
  <2>5. entries' \in [Txs -> Entries]
    BY <2>2, <2>3, <2>4 DEF PendingTypeOK
  <2>6. held' \in [Tabs -> SUBSET Held]
    BY <2>1 DEF PendingTypeOK
  <2> QED BY <1>1, <2>5, <2>6 DEF DeadlineSaves, PendingTypeOK
<1>2. CASE DeadlineReads(t)
  <2> DEFINE new == {[tx |-> T, entry |-> entries[T], seen |-> TipHeight(t)] : T \in WithStatus({"pending"})}
  <2>1. TipHeight(t) \in 0..MaxHeight
    BY LatestType
  <2>2. \A T \in Txs : [tx |-> T, entry |-> entries[T], seen |-> TipHeight(t)] \in Held
    BY <2>1 DEF PendingTypeOK, Held
  <2>3. new \subseteq Held
    BY <2>2 DEF WithStatus
  <2>4. held' = [held EXCEPT ![t] = @ \cup new]
    BY <1>2 DEF DeadlineReads
  <2> HIDE DEF new
  <2>5. held' \in [Tabs -> SUBSET Held]
    BY <2>3, <2>4 DEF PendingTypeOK
  <2> QED BY <1>2, <2>5 DEF DeadlineReads, PendingTypeOK
<1> QED BY <1>1, <1>2

LEMMA RollbackType ==
    ASSUME PendingTypeOK, NEW t \in Tabs,
           RollbackReads(t) \/ RollbackClears(t) \/ RollbackDeletes(t) \/ RollbackEnds(t)
    PROVE  PendingTypeOK'
<1>0. unwinding \in [Tabs -> SUBSET Unwound] /\ unwinding[t] \subseteq Unwound
  BY DEF PendingTypeOK
<1>1. ASSUME NEW S \in SUBSET Unwound, unwinding' = [unwinding EXCEPT ![t] = S]
      PROVE  unwinding' \in [Tabs -> SUBSET Unwound]
  BY <1>0, <1>1
<1>2. ASSUME NEW r \in unwinding[t], NEW stage \in {"cleared", "deleted"}, Unwinds(t, r, stage)
      PROVE  unwinding' \in [Tabs -> SUBSET Unwound]
  <2>1. [r EXCEPT !.stage = stage] \in Unwound
    BY HeldTypes
  <2>2. (unwinding[t] \ {r}) \cup {[r EXCEPT !.stage = stage]} \in SUBSET Unwound
    BY <1>0, <2>1
  <2>3. unwinding' = [unwinding EXCEPT ![t] = (unwinding[t] \ {r}) \cup {[r EXCEPT !.stage = stage]}]
    BY <1>0, <1>2 DEF Unwinds
  <2> QED BY <1>1, <2>2, <2>3
<1>3. CASE RollbackReads(t)
  <2> DEFINE new == {[tx |-> T, entry |-> entries[T], stage |-> "read"] : T \in WithStatus({"rollback-pending"})}
  <2>1. new \subseteq Unwound
    BY DEF PendingTypeOK, Unwound, WithStatus
  <2>2. unwinding' = [unwinding EXCEPT ![t] = unwinding[t] \cup new]
    BY <1>3, <1>0 DEF RollbackReads
  <2> HIDE DEF new
  <2>3. unwinding' \in [Tabs -> SUBSET Unwound]
    BY <1>0, <1>1, <2>1, <2>2
  <2> QED BY <1>3, <2>3 DEF RollbackReads, PendingTypeOK
<1>4. CASE RollbackClears(t)
  <2>1. PICK r \in unwinding[t] :
          \/ /\ utxos' = [u \in Utxos |-> IF utxos[u] = r.tx THEN "unspent" ELSE utxos[u]]
             /\ Unwinds(t, r, "cleared")
          \/ /\ unwinding' = [unwinding EXCEPT ![t] = @ \ {r}]
             /\ UNCHANGED utxos
    BY <1>4 DEF RollbackClears
  <2>2. unwinding' \in [Tabs -> SUBSET Unwound]
    BY <1>0, <1>2, <2>1
  <2>3. utxos' \in [Utxos -> UtxoStates]
    BY <2>1 DEF PendingTypeOK, UtxoStates
  <2> QED BY <1>4, <2>2, <2>3 DEF RollbackClears, PendingTypeOK
<1>5. CASE RollbackDeletes(t)
  <2>1. PICK r \in unwinding[t] : /\ utxos' = [utxos EXCEPT ![r.tx] = "absent"]
                                 /\ Unwinds(t, r, "deleted")
    BY <1>5 DEF RollbackDeletes
  <2>2. unwinding' \in [Tabs -> SUBSET Unwound]
    BY <1>2, <2>1
  <2>3. utxos' \in [Utxos -> UtxoStates]
    BY <2>1 DEF PendingTypeOK, UtxoStates
  <2> QED BY <1>5, <2>2, <2>3 DEF RollbackDeletes, PendingTypeOK
<1>6. CASE RollbackEnds(t)
  <2>1. PICK r \in unwinding[t] :
          /\ entries' = [entries EXCEPT ![r.tx] = [r.entry EXCEPT !.status = "rolled-back"]]
          /\ hashes' = [hashes EXCEPT ![t] = @ \ {r.tx}]
          /\ unwinding' = [unwinding EXCEPT ![t] = @ \ {r}]
    BY <1>6 DEF RollbackEnds
  <2>2. r.tx \in Txs /\ [r.entry EXCEPT !.status = "rolled-back"] \in Entries
    BY HeldTypes, EntryTypes DEF Statuses
  <2> DEFINE e == [r.entry EXCEPT !.status = "rolled-back"]
  <2>3. entries' = [entries EXCEPT ![r.tx] = e] /\ e \in Entries
    BY <2>1, <2>2
  <2> HIDE DEF e
  <2>4. entries' \in [Txs -> Entries]
    BY <2>2, <2>3 DEF PendingTypeOK
  <2>5. hashes' \in [Tabs -> SUBSET Txs]
    BY <2>1 DEF PendingTypeOK
  <2>6. unwinding' \in [Tabs -> SUBSET Unwound]
    BY <1>0, <2>1
  <2> QED BY <1>6, <2>4, <2>5, <2>6 DEF RollbackEnds, PendingTypeOK
<1> QED BY <1>3, <1>4, <1>5, <1>6

LEMMA LoadType == ASSUME PendingTypeOK, NEW t \in Tabs, loadPendingFromStore(t) PROVE PendingTypeOK'
BY DEF loadPendingFromStore, PendingTypeOK, InStore, WithStatus

-----------------------------------------------------------------------------
(* Types: the index                                                           *)

LEMMA InitType == Init => TypeOK
<1> SUFFICES ASSUME Init PROVE TypeOK
  OBVIOUS
<1>1. ChainTypeOK
  <2>1. chain = [h \in 1..Start |-> <<h, 0>>] /\ Start \in Nat /\ Start \in Heights /\ MaxForks \in Nat
    BY BlockchainAssumption DEF Init, ChainInit, Heights
  <2>2. \A h \in 1..Start : <<h, 0>> \in BlockIds
    BY <2>1, BlockchainAssumption DEF BlockIds, Heights
  <2>3. chain \in Seq(BlockIds) /\ Len(chain) = Start
    BY <2>1, <2>2
  <2> QED BY <2>1, <2>3 DEF Init, ChainInit, ChainTypeOK
<1>2. IndexTypeOK
  <2>1. cycle \in Cycles
    BY DEF Init, IndexInit, Idle, Cycles, Stages
  <2> QED BY <2>1 DEF Init, IndexInit, IndexTypeOK, Cycles, BlockStates
<1>3. PendingTypeOK
  BY BlockchainAssumption DEF Init, PendingInit, PendingTypeOK, NoEntry, Entries, Statuses, UtxoStates
<1>4. asked \subseteq Txs /\ done \in Heights /\ mishaps \in 0..MaxMishaps
  BY BlockchainAssumption, UtxoIndexAssumption DEF Init
<1> QED BY <1>1, <1>2, <1>3, <1>4 DEF TypeOK

LEMMA NextType == TypeOK /\ [Next]_vars => TypeOK'
<1> SUFFICES ASSUME TypeOK, [Next]_vars PROVE TypeOK'
  OBVIOUS
<1> USE DEF TypeOK
<1>0. CASE UNCHANGED vars
  BY <1>0 DEF vars, chainVars, indexVars, pendingVars, ChainTypeOK, IndexTypeOK, PendingTypeOK
<1>a. UNCHANGED chainVars => ChainTypeOK'
  BY DEF chainVars, ChainTypeOK
<1>b. UNCHANGED indexVars => IndexTypeOK'
  BY DEF indexVars, IndexTypeOK
<1>c. UNCHANGED pendingVars => PendingTypeOK'
  BY DEF pendingVars, PendingTypeOK
<1>d. mishaps < MaxMishaps => mishaps + 1 \in 0..MaxMishaps
  BY UtxoIndexAssumption
<1>e. UNCHANGED counters => (asked \subseteq Txs /\ done \in Heights /\ mishaps \in 0..MaxMishaps)'
  BY DEF counters
<1> HIDE DEF TypeOK
<1>1. CASE ChainGrows
  BY <1>1, <1>b, <1>c, <1>e, MineType DEF TypeOK, ChainGrows
<1>2. CASE ChainForks
  <2>1. PICK k \in 1..ForkDepth : Fork(k)
    BY <1>2 DEF ChainForks
  <2>2. ChainTypeOK'
    BY <2>1, ForkType DEF TypeOK
  <2>3. done' \in Heights
    BY <1>2, <2>2 DEF ChainForks, TypeOK, ChainTypeOK
  <2> QED BY <1>2, <1>b, <1>c, <2>2, <2>3 DEF ChainForks, TypeOK
<1>3. CASE FirstSync
  BY <1>3, <1>a, <1>c, <1>e, FirstSyncType, SnapshotType DEF FirstSync, TypeOK
<1>4. CASE FollowsChain
  <2>1. IndexTypeOK'
    BY <1>4, DetectType, SyncType, WalkType DEF FollowsChain, Unknown404, HeightGone, TypeOK
  <2> QED BY <1>4, <1>a, <1>c, <1>e, <2>1 DEF FollowsChain, TypeOK
<1>5. CASE ForkSeen
  BY <1>5, <1>a, <1>e, DetectType, ResolveType DEF ForkSeen, TypeOK
<1>6. CASE ProcessesTx
  <2>1. PICK x \in cycle.txs : TakeTx(x) /\ IF x.tx \in hashes[owner] THEN ConfirmReads(x.tx, x.at, FALSE)
                                            ELSE Discover(x.tx, x.at)
    BY <1>6 DEF ProcessesTx
  <2>2. x \in Landed /\ x.tx \in Txs /\ x.at \in Heights
    BY DEF TypeOK, IndexTypeOK, Landed
  <2>3. PendingTypeOK'
    BY <2>1, <2>2, ConfirmType, DiscoverType DEF TypeOK
  <2> QED BY <1>6, <1>a, <1>e, <2>1, <2>3, WalkType DEF ProcessesTx, TypeOK
<1>7. CASE Reconciles
  BY <1>7, <1>a, <1>e, SyncType, ReconcileType DEF Reconciles, TypeOK
<1>8. CASE VerificationReads \/ VerifiesTx
  <2>1. CASE VerificationReads
    BY <2>1, <1>a, <1>c, WalkType DEF VerificationReads, WithStatus, TypeOK
  <2>2. CASE VerifiesTx
    <3>1. PICK T \in asked : /\ asked' = asked \ {T}
                            /\ IF OnChain(T) THEN ConfirmReads(T, HeightOf(T), TRUE) ELSE UNCHANGED pendingVars
      BY <2>2 DEF VerifiesTx
    <3>2. PendingTypeOK'
      BY <3>1, <1>c, ConfirmType DEF TypeOK
    <3> QED BY <2>2, <1>a, <1>b, <3>1, <3>2 DEF VerifiesTx, TypeOK
  <2> QED BY <1>8, <2>1, <2>2
<1>9. CASE ConfirmsTx
  BY <1>9, <1>a, <1>b, <1>e, ConfirmType DEF ConfirmsTx, TypeOK
<1>10. CASE CycleSettles
  <2>1. done' \in Heights
    BY <1>10, OfChain DEF CycleSettles, Canonical, TipHeight, TypeOK
  <2> QED BY <1>10, <1>a, <2>1, WalkType, DepthsType DEF CycleSettles, TypeOK
<1>11. CASE RequestFails
  <2>1. IndexTypeOK'
    BY <1>11, DetectType, SyncType, WalkType DEF RequestFails, TypeOK
  <2>2. (asked \subseteq Txs)'
    BY <1>11 DEF RequestFails, TypeOK
  <2> QED BY <1>11, <1>a, <1>c, <1>d, <2>1, <2>2 DEF RequestFails, TypeOK
<1>12. CASE Registers
  BY <1>12, <1>a, <1>b, <1>e, RegisterType DEF Registers, TypeOK
<1>13. CASE ChecksDeadlines
  BY <1>13, <1>a, <1>b, <1>e, DeadlineType DEF ChecksDeadlines, TypeOK
<1>14. CASE RollsBack
  BY <1>14, <1>a, <1>b, <1>e, RollbackType DEF RollsBack, TypeOK
<1>15. CASE TabReloads
  <2>1. IndexTypeOK' /\ PendingTypeOK' /\ (asked \subseteq Txs)'
    BY <1>15, ReloadType, LoadType DEF TabReloads, TypeOK
  <2> QED BY <1>15, <1>a, <1>d, <2>1 DEF TabReloads, TypeOK
<1> QED BY <1>0, <1>1, <1>2, <1>3, <1>4, <1>5, <1>6, <1>7, <1>8, <1>9, <1>10, <1>11, <1>12, <1>13,
           <1>14, <1>15 DEF Next

\* Every block, entry, UTxO and step of the sync has its type, whatever chain,
\* transactions and tabs there are.
THEOREM IndexTyped == Spec => []TypeOK
BY InitType, NextType, PTL DEF Spec

-----------------------------------------------------------------------------
(* Until the chain forks: the invariant                                       *)

Status(T) == entries[T].status
GivenUp == {"rollback-pending", "rolled-back"}

\* A block is known by its height, and holds transactions in their time.
Linear ==
    /\ \A h \in 1..Len(chain) : chain[h] = <<h, 0>>
    /\ \A h \in 1..Len(chain) : \A T \in At(h) : h <= LastValid[T]

\* What the index has of blocks is on the chain.
SolidBlocks == \A b \in BlockIds : blocks[b] # "absent" => Canonical(b)
SolidTips == \A t \in Tabs : tip[t] = NoBlock \/ Canonical(tip[t])
SolidCycle ==
    /\ \A b \in cycle.todo : Canonical(b)
    /\ \A x \in cycle.txs : x.tx \in At(x.at)
    /\ cycle.stage # "mark"
Solid == SolidBlocks /\ SolidTips /\ SolidCycle

\* No cycle sees less of the chain than the last clean one, and no more than
\* may grow between two of them.
Pace == done <= Len(chain) /\ Len(chain) <= done + MaxLag
Abreast == Cycling => TipHeight(owner) >= done

\* Own transactions have an entry before they land.
Recorded ==
    /\ \A T \in Own : OnChain(T) => Status(T) # "none"
    /\ \A t \in Tabs : \A T \in hashes[t] : Status(T) # "none"

\* After a cycle nothing that had landed is pending.
Settled == \A h \in 1..done : \A T \in At(h) : Status(T) # "pending"

\* What is confirmed, or is about to be, is on the chain.
Sighted ==
    /\ \A k \in confirming : OnChain(k.tx)
    /\ \A T \in Txs : Status(T) = "confirmed" => OnChain(T)

\* What is given up has not landed and no longer can; nor can what a deadline
\* check has read late enough.
Dead(T) == ~OnChain(T) /\ LastValid[T] <= Len(chain)
Doomed(r) == r.seen >= LastValid[r.tx] + MaxLag => Dead(r.tx)
Deaths ==
    /\ \A T \in Txs : Status(T) \in GivenUp => Dead(T)
    /\ \A t \in Tabs : \A r \in held[t] : Doomed(r)
    /\ \A t \in Tabs : \A r \in unwinding[t] : Status(r.tx) \in GivenUp

\* Nothing is left of what was rolled back, and what a rollback has removed so
\* far stays away.
Unclaimed(T) == \A u \in Utxos : utxos[u] # T
Gone(T) == utxos[T] = "absent" /\ Unclaimed(T)
Buried(r) == (r.stage # "read" => Unclaimed(r.tx)) /\ (r.stage = "deleted" => Gone(r.tx))
Burials ==
    /\ \A T \in Txs : Status(T) = "rolled-back" => Gone(T)
    /\ \A t \in Tabs : \A r \in unwinding[t] : Buried(r)

\* A tab's tip has not risen too far over what its checks have read.
Punctual == \A t \in Tabs : \A r \in held[t] : TipHeight(t) <= r.seen + MaxRise

\* What an undisturbed verification has still to find among the transactions
\* up to its tip, it has still to ask for, or is about to confirm.
Asking ==
    cycle.stage = "asking" /\ cycle.clean =>
        \A h \in 1..TipHeight(owner) : \A T \in At(h) :
            Status(T) = "pending" => T \in asked \/ \E k \in confirming : k.tx = T

Landing == Recorded /\ Settled /\ Sighted /\ Deaths /\ Burials
LandingInv == forks = 0 => Linear /\ Solid /\ Pace /\ Abreast /\ Punctual /\ Asking /\ Landing

\* Between two clean cycles the chain grows, and while a deadline check holds an
\* entry its tab's tip rises, by no more in all than a deadline is late.
Paced == MaxLag + MaxRise <= Grace + ProvisionalDepth

-----------------------------------------------------------------------------
(* Until the chain forks: the chain                                           *)

\* the blocks of a chain that has not forked
LEMMA LinearBlocks ==
    ASSUME ChainTypeOK, Linear
    PROVE  /\ \A b \in Blk : Canonical(b) <=> b[2] = 0 /\ Height(b) \in 1..Len(chain)
           /\ Canonical(Top) /\ Height(Top) = Len(chain)
           /\ \A h \in 1..Len(chain) : Canonical(chain[h]) /\ Height(chain[h]) = h
<1>1. Len(chain) \in Nat /\ Len(chain) \in 1..Len(chain)
  BY OfChain, BlockchainAssumption DEF Heights
<1>2. ASSUME NEW b \in Blk PROVE Canonical(b) <=> b[2] = 0 /\ Height(b) \in 1..Len(chain)
  <2>1. b = <<Height(b), b[2]>>
    BY BlockType DEF Blk, NoBlock, Height
  <2>2. Height(b) \in 1..Len(chain) => chain[Height(b)] = <<Height(b), 0>>
    BY DEF Linear
  <2> QED BY <2>1, <2>2 DEF Canonical
<1>3. ASSUME NEW h \in 1..Len(chain) PROVE Canonical(chain[h]) /\ Height(chain[h]) = h
  BY DEF Linear, Canonical, Height
<1> QED BY <1>1, <1>2, <1>3 DEF Top

\* Nothing is said of the chain when it stays.
LEMMA ChainKept ==
    ASSUME UNCHANGED chainVars
    PROVE  /\ Linear' <=> Linear
           /\ \A T : (OnChain(T)' <=> OnChain(T)) /\ (Dead(T)' <=> Dead(T))
           /\ \A x : Doomed(x)' <=> Doomed(x)
           /\ \A b : Canonical(b)' <=> Canonical(b)
           /\ \A h : At(h)' = At(h)
           /\ Len(chain)' = Len(chain) /\ forks' = forks
BY DEF chainVars, Linear, OnChain, Dead, Doomed, Canonical, At

\* A new block adds to what is on the chain, and nothing that is dead.
LEMMA ChainGrown ==
    ASSUME ChainTypeOK, Linear, forks = 0, NEW S \in SUBSET Txs, Mine(S)
    PROVE  /\ Linear'
           /\ \A T \in Txs : OnChain(T)' <=> OnChain(T) \/ T \in S
           /\ \A T \in Txs : Dead(T) => Dead(T)'
           /\ \A b : Canonical(b) => Canonical(b)'
           /\ \A h \in 1..Len(chain) : At(h)' = At(h)
           /\ \A h : h = Len(chain) + 1 => At(h)' = S
           /\ Len(chain)' = Len(chain) + 1 /\ forks' = 0
<1>0. PICK n \in Nat : n = Len(chain) + 1
  BY OfChain, BlockchainAssumption DEF Heights
<1> DEFINE b == <<n, 0>>
<1>1. /\ Len(chain) \in Nat /\ chain \in Seq(BlockIds) /\ b \in BlockIds
      /\ chain' = Append(chain, b) /\ mined' = [mined EXCEPT ![b] = S] /\ forks' = 0
      /\ mined \in [BlockIds -> SUBSET Txs] /\ \A T \in S : Len(chain) < LastValid[T]
      /\ n = Len(chain) + 1
  <2>1. Len(chain) + 1 \in Heights
    BY BlockchainAssumption DEF Mine, ChainTypeOK, Heights
  <2> QED BY <1>0, <2>1, BlockchainAssumption DEF Mine, ChainTypeOK, Heights, BlockIds, Includable
<1> HIDE DEF b
<1>2. /\ Len(chain') = n /\ chain'[n] = b
      /\ \A h \in 1..Len(chain) : chain'[h] = chain[h] /\ h \in 1..n /\ h # n
      /\ \A h \in 1..n : h = n \/ h \in 1..Len(chain)
  BY <1>1
<1>3. /\ mined'[b] = S
      /\ \A h \in 1..Len(chain) : mined'[chain[h]] = mined[chain[h]]
  <2>1. \A h \in 1..Len(chain) : chain[h] \in BlockIds /\ chain[h] # b
    BY <1>1, <1>2, OfChain DEF Linear, b
  <2> QED BY <1>1, <2>1
<1>4. /\ \A h \in 1..Len(chain) : At(h)' = At(h)
      /\ At(n)' = S
  <2>1. \A h \in 1..Len(chain) : At(h) = mined[chain[h]]
    BY DEF At
  <2>2. \A h \in 1..n : At(h)' = mined'[chain'[h]]
    <3>1. \A h \in 1..n : h <= Len(chain')
      BY <1>2, <1>1
    <3> QED BY <3>1 DEF At
  <2>3. n \in 1..n
    BY <1>1
  <2> QED BY <1>2, <1>3, <2>1, <2>2, <2>3
<1>5. ASSUME NEW T \in Txs PROVE OnChain(T)' <=> OnChain(T) \/ T \in S
  BY <1>1, <1>2, <1>3 DEF OnChain
<1>6. ASSUME NEW T \in Txs, Dead(T) PROVE Dead(T)'
  <2>1. T \notin S /\ LastValid[T] \in Nat
    BY <1>1, <1>6, BlockchainAssumption DEF Dead
  <2> QED BY <1>1, <1>2, <1>5, <1>6, <2>1 DEF Dead
<1>7. ASSUME NEW d, Canonical(d) PROVE Canonical(d)'
  BY <1>2, <1>7 DEF Canonical
<1>8. Linear'
  <2>1. \A h \in 1..n : chain'[h] = <<h, 0>>
    BY <1>2 DEF Linear, b
  <2>2. ASSUME NEW h \in 1..n, NEW T \in At(h)' PROVE h <= LastValid[T]
    <3>1. CASE h = n
      <4>1. T \in S
        BY <1>4, <2>2, <3>1
      <4>2. LastValid[T] \in Nat /\ Len(chain) < LastValid[T]
        BY <1>1, <4>1, BlockchainAssumption
      <4> QED BY <1>1, <3>1, <4>2
    <3>2. CASE h \in 1..Len(chain)
      BY <1>4, <2>2, <3>2 DEF Linear
    <3> QED BY <1>2, <3>1, <3>2
  <2> QED BY <1>2, <2>1, <2>2 DEF Linear
<1> QED BY <1>1, <1>2, <1>4, <1>5, <1>6, <1>7, <1>8

-----------------------------------------------------------------------------
(* Until the chain forks: what is stored                                      *)

\* a tip that is brought up to date
LEMMA HigherTips ==
    ASSUME ChainTypeOK, Linear, NEW b \in Blk, b = NoBlock \/ Canonical(b)
    PROVE  Canonical(HigherTip(b)) /\ Height(HigherTip(b)) = Len(chain)
<1>1. Len(chain) \in Nat \ {0}
  BY OfChain, BlockchainAssumption DEF Heights
<1>2. b = NoBlock => Height(b) = 0
  BY DEF NoBlock, Height
<1>3. Canonical(b) => Height(b) \in 1..Len(chain)
  BY DEF Canonical
<1>4. Canonical(Top) /\ Height(Top) = Len(chain)
  BY LinearBlocks
<1> QED BY <1>1, <1>2, <1>3, <1>4 DEF HigherTip

LEMMA SolidTip ==
    ASSUME ChainTypeOK, IndexTypeOK, Linear, SolidTips, NEW t \in Tabs
    PROVE  /\ Canonical(HigherTip(tip[t])) /\ Height(HigherTip(tip[t])) = Len(chain)
           /\ TipHeight(t) \in 0..Len(chain)
           /\ owner \in Tabs
<1>1. tip[t] \in Blk /\ owner \in Tabs
  BY DEF IndexTypeOK, Blk
<1>2. tip[t] = NoBlock \/ Canonical(tip[t])
  BY DEF SolidTips
<1>3. Height(NoBlock) = 0 /\ Len(chain) \in Nat
  BY OfChain, BlockchainAssumption DEF NoBlock, Height, Heights
<1> QED BY <1>1, <1>2, <1>3, HigherTips DEF TipHeight, Canonical

\* where a cycle ends, or goes on to another stage
LEMMA Rested ==
    ASSUME NEW stage, To(stage) \/ Begin(stage) \/ Disturbed(stage)
    PROVE  /\ cycle'.stage = stage /\ cycle'.todo = {} /\ cycle'.fresh = {} /\ cycle'.txs = {}
           /\ stage # "mark" => SolidCycle'
BY DEF To, Begin, Disturbed, Idle, SolidCycle

LEMMA BlocksKept == ASSUME UNCHANGED <<chain, blocks>>, SolidBlocks PROVE SolidBlocks'
BY DEF SolidBlocks, Canonical
LEMMA TipsKept == ASSUME UNCHANGED <<chain, tip>>, SolidTips PROVE SolidTips'
BY DEF SolidTips, Canonical

\* blocks of the chain are saved, a tab's tip is brought up to date
LEMMA BlocksSaved ==
    ASSUME UNCHANGED chain, SolidBlocks, NEW S, NEW state, \A b \in S \cap BlockIds : Canonical(b),
           blocks' = Save(S, state)
    PROVE  SolidBlocks'
BY DEF SolidBlocks, Canonical, Save
LEMMA TipRaised ==
    ASSUME IndexTypeOK, UNCHANGED chain, SolidTips, NEW t \in Tabs, NEW b, b = NoBlock \/ Canonical(b),
           tip' = [tip EXCEPT ![t] = b]
    PROVE  SolidTips' /\ tip'[t] = b
BY DEF SolidTips, Canonical, IndexTypeOK

LEMMA FirstSyncSolid ==
    ASSUME ChainTypeOK, IndexTypeOK, Linear, Solid, UNCHANGED chainVars,
           FirstSnapshot \/ fetchAndStoreLatestBlock \/ FirstSyncEnds
    PROVE  Solid' /\ ~Cycling'
<1>1. CASE FirstSnapshot
  BY <1>1, Rested, BlocksKept, TipsKept DEF FirstSnapshot, Solid, chainVars, Cycling
<1>2. CASE fetchAndStoreLatestBlock
  <2>1. Canonical(Top) /\ chain' = chain
    BY LinearBlocks DEF chainVars
  <2>2. SolidBlocks'
    BY <1>2, <2>1, BlocksKept, BlocksSaved DEF fetchAndStoreLatestBlock, Solid
  <2>3. SolidTips'
    BY <1>2, <2>1, SolidTip, TipRaised DEF fetchAndStoreLatestBlock, Solid, IndexTypeOK
  <2>4. cycle'.todo = {Top} /\ cycle'.txs = {} /\ cycle'.stage = "stored"
    BY <1>2 DEF fetchAndStoreLatestBlock, Idle
  <2>5. SolidCycle'
    BY <2>1, <2>4 DEF SolidCycle, Canonical
  <2> QED BY <2>2, <2>3, <2>4, <2>5 DEF Solid, Cycling
<1>3. CASE FirstSyncEnds
  <2>1. SolidBlocks'
    BY <1>3, BlocksSaved DEF FirstSyncEnds, Solid, SolidCycle, chainVars
  <2> QED BY <1>3, <2>1, Rested, TipsKept DEF FirstSyncEnds, Solid, chainVars, Cycling
<1> QED BY <1>1, <1>2, <1>3

\* No stored block differs from the chain's.
LEMMA NoneDiffer ==
    ASSUME Solid, NEW S \in SUBSET Stored
    PROVE  ~detectRolledBackBlocks(S) /\ ~MarkOrphans
<1>1. \A b \in Stored : Canonical(b)
  BY DEF Solid, SolidBlocks, Stored
<1> QED BY <1>1 DEF detectRolledBackBlocks, Differing, MarkOrphans, Solid, SolidCycle

LEMMA DetectSolid ==
    ASSUME ChainTypeOK, IndexTypeOK, Linear, Solid, Pace, Abreast, UNCHANGED <<chainVars, done>>,
           discoverChainTip \/ NoForkSeen \/ DetectionFails
    PROVE  Solid' /\ Abreast'
<1>0. chain' = chain /\ done' = done /\ done <= Len(chain)
  BY DEF chainVars, Pace
<1>1. CASE discoverChainTip
  <2>1. PICK b \in Blk : /\ Canonical(HigherTip(b)) /\ Height(HigherTip(b)) = Len(chain)
                         /\ tip' = [tip EXCEPT ![owner] = HigherTip(b)]
    <3>1. \A b \in getLatestBlock : b \in Blk /\ Canonical(b)
      BY LatestType DEF Solid, SolidBlocks, Stored, Blk
    <3>2. tip[owner] \in Blk
      BY DEF IndexTypeOK, Blk
    <3>3. owner \in Tabs
      BY DEF IndexTypeOK
    <3>4. \A b \in getLatestBlock : Canonical(HigherTip(b)) /\ Height(HigherTip(b)) = Len(chain)
      BY <3>1, HigherTips
    <3>5. Canonical(HigherTip(tip[owner])) /\ Height(HigherTip(tip[owner])) = Len(chain)
      BY <3>3, SolidTip DEF Solid
    <3> QED BY <1>1, <3>1, <3>2, <3>4, <3>5 DEF discoverChainTip
  <2>2. SolidTips' /\ tip'[owner] = HigherTip(b)
    BY <1>0, <2>1, SolidTip, TipRaised DEF Solid, IndexTypeOK
  <2>3. Abreast'
    BY <1>0, <1>1, <2>1, <2>2 DEF Abreast, TipHeight, discoverChainTip
  <2> QED BY <1>0, <1>1, <2>2, <2>3, Rested, BlocksKept DEF discoverChainTip, Solid
<1>2. CASE NoForkSeen \/ DetectionFails
  <2>1. Solid'
    BY <1>0, <1>2, Rested, BlocksKept, TipsKept DEF NoForkSeen, DetectionFails, Solid
  <2>2. Cycling /\ UNCHANGED <<tip, owner>>
    BY <1>2 DEF NoForkSeen, DetectionFails, Cycling
  <2> QED BY <1>0, <2>1, <2>2 DEF Abreast, TipHeight
<1> QED BY <1>1, <1>2

\* a step of a cycle that does not look for the tip
LEMMA StillAbreast ==
    ASSUME Abreast, Cycling, UNCHANGED <<tip, owner, done>>
    PROVE  Abreast'
BY DEF Abreast, TipHeight

LEMMA SyncSolid ==
    ASSUME ChainTypeOK, IndexTypeOK, Linear, Solid, Pace, Abreast, UNCHANGED <<chainVars, done>>,
           \/ NothingProcessed \/ UpToDate \/ fetchAndStoreNewBlocks \/ FetchFails
           \/ syncCatchup \/ reconcileUtxos \/ CursorToTip
    PROVE  Solid' /\ Abreast'
<1>0. chain' = chain /\ mined' = mined /\ done' = done /\ done <= Len(chain) /\ cycle \in Cycles
  BY DEF chainVars, Pace, IndexTypeOK, Cycles
<1>1. CASE NothingProcessed \/ UpToDate \/ reconcileUtxos
  <2>1. Solid'
    BY <1>0, <1>1, Rested, BlocksKept, TipsKept DEF NothingProcessed, UpToDate, reconcileUtxos, Solid
  <2>2. Cycling /\ UNCHANGED <<tip, owner>>
    BY <1>1 DEF NothingProcessed, UpToDate, reconcileUtxos, InStep, Cycling
  <2> QED BY <1>0, <2>1, <2>2, StillAbreast
<1>2. ASSUME SolidBlocks', cycle' = Walk \/ cycle' = [Walk EXCEPT !.clean = FALSE]
      PROVE  SolidCycle'
  <2>1. /\ cycle'.stage = "walk" /\ cycle'.txs = cycle.txs
        /\ cycle'.todo = {b \in BlockIds : blocks'[b] = "unprocessed"}
    BY <1>0, <1>2 DEF Walk, Cycles
  <2>2. \A b \in cycle'.todo : Canonical(b)'
    BY <1>2, <2>1 DEF SolidBlocks
  <2>3. \A x \in cycle.txs : x.tx \in At(x.at)'
    BY <1>0 DEF Solid, SolidCycle, At
  <2> QED BY <2>1, <2>2, <2>3 DEF SolidCycle
<1>3. CASE fetchAndStoreNewBlocks
  <2>1. SolidBlocks'
    BY <1>0, <1>3, BlocksSaved DEF fetchAndStoreNewBlocks, Solid
  <2>2. /\ tip' = [tip EXCEPT ![owner] = HigherTip(tip[owner])] /\ owner \in Tabs /\ owner' = owner
        /\ Canonical(HigherTip(tip[owner])) /\ Height(HigherTip(tip[owner])) = Len(chain)
    BY <1>3, SolidTip DEF fetchAndStoreNewBlocks, Solid, IndexTypeOK
  <2>3. SolidTips' /\ tip'[owner] = HigherTip(tip[owner])
    BY <1>0, <2>2, TipRaised DEF Solid
  <2>4. Abreast'
    BY <1>0, <2>2, <2>3 DEF Abreast, TipHeight
  <2> QED BY <1>2, <1>3, <2>1, <2>3, <2>4 DEF fetchAndStoreNewBlocks, Solid
<1>4. CASE FetchFails
  <2>1. SolidBlocks' /\ SolidTips'
    BY <1>0, <1>4, BlocksKept, TipsKept DEF FetchFails, Solid
  <2>2. Cycling /\ UNCHANGED <<tip, owner>>
    BY <1>4 DEF FetchFails, InStep, Cycling
  <2> QED BY <1>0, <1>2, <1>4, <2>1, <2>2, StillAbreast DEF FetchFails, Solid
<1>5. CASE syncCatchup
  <2>1. SolidBlocks' /\ SolidTips'
    BY <1>0, <1>5, BlocksKept, TipsKept DEF syncCatchup, Solid
  <2>2. /\ Cycling /\ UNCHANGED <<tip, owner>> /\ cycle'.stage = "catchup" /\ cycle'.todo = cycle.todo
        /\ cycle'.txs = {x \in Landed : x.at > Cursor /\ x.tx \in At(x.at)}
    BY <1>0, <1>5 DEF syncCatchup, InStep, Cycling, Cycles
  <2>3. \A b \in cycle.todo : Canonical(b)'
    BY <1>0 DEF Solid, SolidCycle, Canonical
  <2>4. \A x \in cycle'.txs : x.tx \in At(x.at)'
    BY <1>0, <2>2 DEF At
  <2> QED BY <1>0, <2>1, <2>2, <2>3, <2>4, StillAbreast DEF Solid, SolidCycle
<1>6. CASE CursorToTip
  <2>1. SolidBlocks'
    <3>1. owner \in Tabs /\ NoBlock \notin BlockIds
      BY BlockType DEF IndexTypeOK
    <3>2. \A b \in {tip[owner]} \cap BlockIds : Canonical(b)
      BY <3>1 DEF Solid, SolidTips
    <3>3. blocks' = Save({tip[owner]}, "processed")
      BY <1>6 DEF CursorToTip
    <3> QED BY <1>0, <3>2, <3>3, BlocksSaved DEF Solid
  <2>2. Cycling /\ UNCHANGED <<tip, owner>>
    BY <1>6 DEF CursorToTip, Cycling
  <2> QED BY <1>0, <1>6, <2>1, <2>2, Rested, TipsKept, StillAbreast DEF CursorToTip, Solid
<1> QED BY <1>1, <1>3, <1>4, <1>5, <1>6

LEMMA WalkSolid ==
    ASSUME ChainTypeOK, IndexTypeOK, Linear, Solid, Abreast, UNCHANGED chainVars,
           UNCHANGED done \/ CycleEnds,
           \/ WalkEnds \/ VerificationStarts \/ AskFails \/ CycleEnds \/ CycleFails
           \/ \E b \in BlockIds : syncIncremental(b) \/ BlockProcessed(b)
           \/ \E x : TakeTx(x)
    PROVE  Solid' /\ Abreast'
<1>0. chain' = chain /\ mined' = mined /\ cycle \in Cycles
  BY DEF chainVars, IndexTypeOK, Cycles
<1>1. CASE WalkEnds \/ VerificationStarts \/ AskFails \/ CycleEnds \/ CycleFails
  <2>1. Solid'
    BY <1>0, <1>1, Rested, BlocksKept, TipsKept
       DEF WalkEnds, VerificationStarts, AskFails, CycleEnds, CycleFails, Solid
  <2>2. CASE (WalkEnds \/ VerificationStarts \/ AskFails) /\ UNCHANGED done
    BY <2>1, <2>2, StillAbreast DEF WalkEnds, VerificationStarts, AskFails, Cycling
  <2>3. CASE CycleEnds \/ CycleFails
    BY <2>1, <2>3, Rested DEF CycleEnds, CycleFails, Abreast, Cycling
  <2> QED BY <1>1, <2>2, <2>3
<1>2. \A b \in cycle.todo : Canonical(b)'
  BY <1>0 DEF Solid, SolidCycle, Canonical
<1>3. \A x \in cycle.txs : x.tx \in At(x.at)'
  BY <1>0 DEF Solid, SolidCycle, At
<1>4. ASSUME UNCHANGED done, NEW b \in BlockIds, syncIncremental(b) PROVE Solid' /\ Abreast'
  <2>1. /\ cycle'.stage = "block" /\ cycle'.todo = cycle.todo /\ Cycling /\ UNCHANGED <<blocks, tip, owner>>
        /\ cycle'.txs = {[tx |-> T, at |-> Height(b)] : T \in At(Height(b))}
    BY <1>0, <1>4 DEF syncIncremental, Cycles, Cycling
  <2>2. \A x \in cycle'.txs : x.tx \in At(x.at)'
    BY <1>0, <2>1 DEF At
  <2>3. SolidCycle'
    BY <1>2, <2>1, <2>2 DEF SolidCycle
  <2> QED BY <1>0, <1>4, <2>1, <2>3, BlocksKept, TipsKept, StillAbreast DEF Solid
<1>5. ASSUME UNCHANGED done, NEW b \in BlockIds, BlockProcessed(b) PROVE Solid' /\ Abreast'
  <2>1. /\ cycle'.stage = "walk" /\ cycle'.todo = cycle.todo \ {b} /\ cycle'.txs = cycle.txs /\ Cycling
        /\ UNCHANGED <<tip, owner>> /\ b \in cycle.todo /\ blocks' = Save({b}, "processed")
    BY <1>0, <1>5 DEF BlockProcessed, Cycles, Cycling, LowestTodo
  <2>2. SolidBlocks'
    BY <1>0, <2>1, BlocksSaved DEF Solid, SolidCycle
  <2>3. SolidCycle'
    BY <1>2, <1>3, <2>1 DEF SolidCycle
  <2> QED BY <1>0, <1>5, <2>1, <2>2, <2>3, TipsKept, StillAbreast DEF Solid
<1>6. ASSUME UNCHANGED done, NEW x, TakeTx(x) PROVE Solid' /\ Abreast'
  <2>1. /\ cycle'.stage = cycle.stage /\ cycle'.todo = cycle.todo /\ cycle'.txs = cycle.txs \ {x} /\ Cycling
        /\ UNCHANGED <<blocks, tip, owner>>
    BY <1>0, <1>6 DEF TakeTx, Cycles, Cycling
  <2>2. SolidCycle'
    BY <1>2, <1>3, <2>1 DEF SolidCycle, Solid
  <2> QED BY <1>0, <1>6, <2>1, <2>2, BlocksKept, TipsKept, StillAbreast DEF Solid
<1>7. CycleEnds => cycle.stage = "asking"
  BY DEF CycleEnds
<1>9. \A x : TakeTx(x) => cycle.stage # "asking"
  BY DEF TakeTx
<1>8. \A b \in BlockIds : syncIncremental(b) \/ BlockProcessed(b) => cycle.stage # "asking"
  BY DEF syncIncremental, BlockProcessed
<1> QED BY <1>1, <1>4, <1>5, <1>6, <1>7, <1>8, <1>9

LEMMA ReloadSolid ==
    ASSUME ChainTypeOK, IndexTypeOK, Linear, Solid, Abreast, UNCHANGED <<chainVars, done>>,
           NEW t \in Tabs, NEW next \in Tabs, Reload(t, next)
    PROVE  Solid' /\ Abreast'
<1>0. chain' = chain /\ mined' = mined /\ done' = done
  BY DEF chainVars
<1>1. PICK b : (b = NoBlock \/ Canonical(b)) /\ tip' = [tip EXCEPT ![t] = b]
  <2>1. \A b \in getLatestBlock : Canonical(b)
    BY LatestType DEF Solid, SolidBlocks, Stored
  <2> QED BY <2>1 DEF Reload
<1>2. SolidTips' /\ SolidBlocks'
  BY <1>0, <1>1, TipRaised, BlocksKept DEF Solid, Reload
<1>3. CASE t # owner
  <2>1. UNCHANGED <<owner, cycle>> /\ tip'[owner] = tip[owner]
    BY <1>1, <1>3 DEF Reload, IndexTypeOK
  <2>2. SolidCycle'
    BY <1>0, <2>1 DEF Solid, SolidCycle, Canonical, At
  <2>3. Abreast'
    BY <1>0, <2>1 DEF Abreast, TipHeight, Cycling
  <2> QED BY <1>2, <2>2, <2>3 DEF Solid
<1>4. CASE t = owner
  <2>1. PICK stage \in {"start", "idle"} : To(stage)
    BY <1>4 DEF Reload
  <2>2. SolidCycle' /\ ~Cycling'
    BY <2>1, Rested DEF Cycling
  <2> QED BY <1>2, <2>2 DEF Solid, Abreast
<1> QED BY <1>3, <1>4

-----------------------------------------------------------------------------
(* Until the chain forks: the transactions                                    *)

\* What an entry's status may become.
Lawful(T) ==
    \/ Status(T)' = Status(T)
    \/ Status(T)' = "confirmed" /\ OnChain(T)
    \/ Status(T)' \in GivenUp /\ Dead(T)
    \/ Status(T)' = "pending" /\ Status(T) = "none" /\ ~OnChain(T)

\* What may be added to what the tabs hold in memory.
HashesLawful == \A t \in Tabs : \A T \in hashes'[t] : Status(T) # "none" \/ Status(T)' # "none"
ConfirmingLawful == \A k \in confirming' : k \in confirming \/ OnChain(k.tx)
HeldLawful == \A t \in Tabs : \A r \in held'[t] : r \in held[t] \/ Doomed(r)
UnwindingLawful ==
    \A t \in Tabs : \A r \in unwinding'[t] :
        r \in unwinding[t] \/ (Status(r.tx) \in GivenUp /\ Buried(r)')

\* What is gone stays gone, and nothing else is rolled back.
GoneLawful ==
    /\ \A T \in Txs : Status(T) \in GivenUp /\ ~OnChain(T) =>
          (Unclaimed(T) => Unclaimed(T)') /\ (Gone(T) => Gone(T)')
    /\ \A T \in Txs : Status(T)' = "rolled-back" => Status(T) = "rolled-back" \/ Gone(T)'

LawfulStep ==
    /\ \A T \in Txs : Lawful(T)
    /\ HashesLawful /\ ConfirmingLawful /\ HeldLawful /\ UnwindingLawful /\ GoneLawful

LEMMA LawfulMoves ==
    ASSUME Landing, UNCHANGED chainVars, \A T \in Txs : Lawful(T)
    PROVE  /\ \A T \in Txs : Status(T) # "none" => Status(T)' # "none"
           /\ \A T \in Txs : Status(T) = "confirmed" => Status(T)' = "confirmed"
           /\ \A T \in Txs : Status(T) \in GivenUp => Status(T)' \in GivenUp
           /\ \A T \in Txs : Status(T)' = "confirmed" => OnChain(T)
           /\ \A T \in Txs : Status(T)' \in GivenUp => Dead(T)
           /\ \A T \in Txs : Status(T)' = "pending" => Status(T) = "pending" \/ ~OnChain(T)
<1>1. ASSUME NEW T \in Txs
      PROVE  /\ Status(T) = "confirmed" => OnChain(T)
             /\ Status(T) \in GivenUp => Dead(T)
             /\ Dead(T) => ~OnChain(T)
             /\ Lawful(T)
  BY DEF Landing, Sighted, Deaths, Dead
<1>2. "none" \notin GivenUp /\ "confirmed" \notin GivenUp /\ "pending" \notin GivenUp
  BY DEF GivenUp
<1> QED BY <1>1, <1>2 DEF Lawful

LEMMA LandingStep ==
    ASSUME ChainTypeOK, PendingTypeOK, PendingTypeOK', Landing, UNCHANGED chainVars,
           UNCHANGED done \/ \A h \in 1..done' : \A T \in At(h) : Status(T)' # "pending",
           LawfulStep
    PROVE  Landing'
<1> USE DEF LawfulStep
<1>1. /\ \A T : (OnChain(T)' <=> OnChain(T)) /\ (Dead(T)' <=> Dead(T))
      /\ \A x : Doomed(x)' <=> Doomed(x)
      /\ \A h : At(h)' = At(h)
  BY ChainKept
<1>2. /\ \A t \in Tabs : hashes'[t] \subseteq Txs /\ \A x \in unwinding'[t] : x.tx \in Txs
      /\ \A t \in Tabs : hashes[t] \subseteq Txs /\ \A x \in unwinding[t] : x.tx \in Txs
      /\ Own \subseteq Txs
  BY PendingAssumption DEF PendingTypeOK, Unwound
<1>3. Recorded'
  <2>1. ASSUME NEW T \in Own, OnChain(T)' PROVE Status(T)' # "none"
    BY <1>1, <1>2, <2>1, LawfulMoves DEF Landing, Recorded
  <2>2. ASSUME NEW t \in Tabs, NEW T \in hashes'[t] PROVE Status(T)' # "none"
    BY <1>2, <2>2, LawfulMoves DEF HashesLawful
  <2> QED BY <2>1, <2>2 DEF Recorded
<1>4. Settled'
  <2>1. \A h \in Nat \ {0} : \A T \in At(h) : T \in Txs /\ OnChain(T)
    BY OfChain, BlockchainAssumption DEF At, OnChain, Heights
  <2>2. CASE UNCHANGED done
    <3>1. ASSUME NEW h \in 1..done, NEW T \in At(h) PROVE Status(T)' # "pending"
      <4>1. Status(T) # "pending" /\ T \in Txs /\ OnChain(T)
        BY <2>1, <3>1 DEF Landing, Settled
      <4> QED BY <4>1, LawfulMoves
    <3> QED BY <1>1, <2>2, <3>1 DEF Settled
  <2>3. CASE \A h \in 1..done' : \A T \in At(h) : Status(T)' # "pending"
    BY <1>1, <2>3 DEF Settled
  <2> QED BY <2>2, <2>3
<1>5. Sighted'
  <2>1. \A k \in confirming' : OnChain(k.tx)'
    BY <1>1 DEF ConfirmingLawful, Landing, Sighted
  <2>2. \A T \in Txs : Status(T)' = "confirmed" => OnChain(T)'
    BY <1>1, LawfulMoves
  <2> QED BY <2>1, <2>2 DEF Sighted
<1>6. Deaths'
  <2>1. \A T \in Txs : Status(T)' \in GivenUp => Dead(T)'
    BY <1>1, LawfulMoves
  <2>2. \A t \in Tabs : \A r \in held'[t] : Doomed(r)'
    BY <1>1 DEF HeldLawful, Landing, Deaths
  <2>3. ASSUME NEW t \in Tabs, NEW r \in unwinding'[t] PROVE Status(r.tx)' \in GivenUp
    <3>1. r.tx \in Txs /\ Status(r.tx) \in GivenUp
      BY <1>2, <2>3 DEF UnwindingLawful, Landing, Deaths
    <3> QED BY <3>1, LawfulMoves
  <2> QED BY <2>1, <2>2, <2>3 DEF Deaths, GivenUp
<1>7. Burials'
  <2>1. ASSUME NEW T \in Txs, Status(T) \in GivenUp
        PROVE  (Gone(T) => Gone(T)') /\ (Unclaimed(T) => Unclaimed(T)')
    BY <2>1 DEF GoneLawful, Landing, Deaths, Dead
  <2>2. ASSUME NEW T \in Txs, Status(T)' = "rolled-back" PROVE Gone(T)'
    <3>1. CASE Status(T) = "rolled-back"
      BY <2>1, <3>1 DEF Landing, Burials, GivenUp
    <3> QED BY <2>2, <3>1 DEF GoneLawful
  <2>3. ASSUME NEW t \in Tabs, NEW r \in unwinding'[t] PROVE Buried(r)'
    <3>1. CASE r \in unwinding[t]
      <4>1. r.tx \in Txs /\ Status(r.tx) \in GivenUp /\ Buried(r)
        BY <1>2, <3>1 DEF Landing, Burials, Deaths
      <4> QED BY <2>1, <4>1 DEF Buried
    <3> QED BY <2>3, <3>1 DEF UnwindingLawful
  <2> QED BY <2>2, <2>3 DEF Burials
<1> QED BY <1>3, <1>4, <1>5, <1>6, <1>7 DEF Landing

\* the transactions' names are not states of UTxOs
LEMMA Names ==
    /\ \A T \in Txs : T \notin {"absent", "unspent", "reconciled"} /\ T \notin Genesis /\ T \in Utxos
    /\ Own \subseteq Txs
BY PendingAssumption, BlockchainAssumption DEF Utxos

\* what a step leaves alone is lawful
LEMMA KeptLawful ==
    /\ UNCHANGED entries => \A T \in Txs : Lawful(T)
    /\ UNCHANGED confirming => ConfirmingLawful
    /\ UNCHANGED held => HeldLawful
    /\ UNCHANGED unwinding => UnwindingLawful
    /\ UNCHANGED <<entries, utxos>> => GoneLawful
    /\ Recorded /\ UNCHANGED hashes => HashesLawful
BY DEF Lawful, Status, ConfirmingLawful, HeldLawful, UnwindingLawful, GoneLawful, Gone, Unclaimed,
       Recorded, HashesLawful

LEMMA StillLawful == ASSUME Landing, UNCHANGED pendingVars PROVE LawfulStep
BY KeptLawful DEF pendingVars, LawfulStep, Landing

\* UTxOs that are read from the service, or no longer there
LEMMA SnapshotLawful ==
    ASSUME PendingTypeOK, Landing, IndexSnapshot \/ Reconcile
    PROVE  LawfulStep
<1>1. UNCHANGED <<entries, hashes, confirming, held, unwinding>>
  BY DEF IndexSnapshot, Reconcile
<1>2. ASSUME NEW T \in Txs, ~OnChain(T) PROVE (Unclaimed(T) => Unclaimed(T)') /\ (Gone(T) => Gone(T)')
  <2>1. T \in Utxos /\ T \notin Genesis /\ "unspent" # T /\ "reconciled" # T
    BY Names
  <2>2. \A u \in Utxos : utxos'[u] \in {utxos[u], "unspent", "reconciled"}
    BY DEF IndexSnapshot, Reconcile
  <2>3. utxos[T] = "absent" => utxos'[T] = "absent"
    BY <1>2, <2>1 DEF IndexSnapshot, Reconcile
  <2> QED BY <2>1, <2>2, <2>3 DEF Gone, Unclaimed
<1>3. GoneLawful
  BY <1>1, <1>2 DEF GoneLawful, Status
<1> QED BY <1>1, <1>3, KeptLawful DEF LawfulStep, Landing

LEMMA RegisterLawful ==
    ASSUME PendingTypeOK, Landing, NEW t \in Tabs, NEW T, registerPendingTx(t, T)
    PROVE  LawfulStep
<1>1. /\ T \in Own /\ T \in Txs /\ T \in Utxos /\ Input[T] \in Utxos
      /\ Status(T) = "none" /\ utxos[Input[T]] = "unspent"
      /\ UNCHANGED <<confirming, held, unwinding>>
  BY Names, UtxosType DEF registerPendingTx, Status
<1>2. ~OnChain(T)
  BY <1>1 DEF Landing, Recorded
<1>3. Status(T)' = "pending" /\ \A S \in Txs \ {T} : Status(S)' = Status(S)
  <2>1. entries' = [entries EXCEPT ![T] = [entries[T] EXCEPT !.status = "pending"]]
    BY DEF registerPendingTx
  <2>2. entries[T] \in Entries
    BY <1>1 DEF PendingTypeOK
  <2>3. [entries[T] EXCEPT !.status = "pending"].status = "pending"
    BY <2>2 DEF Entries
  <2> QED BY <1>1, <2>1, <2>3 DEF PendingTypeOK, Status
<1>4. \A S \in Txs : Lawful(S)
  BY <1>1, <1>2, <1>3 DEF Lawful
<1>5. HashesLawful
  <2>1. \A s \in Tabs : hashes'[s] \subseteq hashes[s] \cup {T}
    BY DEF registerPendingTx, PendingTypeOK
  <2> QED BY <1>3, <2>1 DEF HashesLawful, Landing, Recorded
<1>6. GoneLawful
  <2>1. ASSUME NEW S \in Txs, S # T PROVE (Unclaimed(S) => Unclaimed(S)') /\ (Gone(S) => Gone(S)')
    <3>1. S \in Utxos /\ S # "unspent" /\ "absent" # "unspent"
      BY Names
    <3>2. \A u \in Utxos : utxos'[u] \in {utxos[u], T, "unspent"}
      BY <1>1 DEF registerPendingTx, PendingTypeOK
    <3>3. utxos[S] = "absent" => utxos'[S] = "absent"
      BY <1>1, <2>1, <3>1 DEF registerPendingTx, PendingTypeOK
    <3> QED BY <2>1, <3>1, <3>2, <3>3 DEF Gone, Unclaimed
  <2> QED BY <1>1, <1>3, <2>1 DEF GoneLawful, GivenUp
<1> QED BY <1>1, <1>4, <1>5, <1>6, KeptLawful DEF LawfulStep

\* A transaction on the chain is confirmed: the reading and the save.
LEMMA ConfirmLawful ==
    ASSUME PendingTypeOK, Landing
    PROVE  /\ \A T \in Txs : \A h, known : OnChain(T) /\ ConfirmReads(T, h, known) => LawfulStep
           /\ \A k \in confirming : ConfirmSaves(k) => LawfulStep
<1>1. ASSUME NEW T \in Txs, NEW h, NEW known, OnChain(T), ConfirmReads(T, h, known) PROVE LawfulStep
  <2>1. UNCHANGED <<entries, hashes, held, unwinding>>
    BY <1>1 DEF ConfirmReads
  <2>2. ConfirmingLawful
    <3>1. confirming' = confirming \/ \E b : confirming' = {[tx |-> T, entry |-> entries[T], at |-> h, blk |-> b]}
      BY <1>1 DEF ConfirmReads
    <3> QED BY <1>1, <3>1 DEF ConfirmingLawful
  <2>3. GoneLawful
    <3>1. utxos' = utxos \/ utxos' = [utxos EXCEPT ![T] = "unspent"]
      BY <1>1 DEF ConfirmReads
    <3>2. ASSUME NEW S \in Txs, ~OnChain(S) PROVE (Unclaimed(S) => Unclaimed(S)') /\ (Gone(S) => Gone(S)')
      <4>1. S # T /\ S \in Utxos /\ S # "unspent"
        BY <1>1, <3>2, Names
      <4>2. \A u \in Utxos : utxos'[u] \in {utxos[u], "unspent"} /\ (u # T => utxos'[u] = utxos[u])
        BY <3>1 DEF PendingTypeOK
      <4> QED BY <4>1, <4>2 DEF Gone, Unclaimed
    <3> QED BY <2>1, <3>2 DEF GoneLawful, Status
  <2> QED BY <2>1, <2>2, <2>3, KeptLawful DEF LawfulStep, Landing
<1>2. ASSUME NEW k \in confirming, ConfirmSaves(k) PROVE LawfulStep
  <2>1. /\ confirming' \subseteq confirming /\ UNCHANGED <<utxos, held, unwinding>>
        /\ entries' = [entries EXCEPT ![k.tx] = Confirmed(k.entry, k.at, k.blk)]
    BY <1>2 DEF ConfirmSaves
  <2>2. k.tx \in Txs /\ OnChain(k.tx) /\ k.entry \in Entries
    BY DEF PendingTypeOK, Landing, Sighted
  <2>3. Confirmed(k.entry, k.at, k.blk).status = "confirmed"
    BY <2>2 DEF Confirmed, Entries
  <2>4. \A S \in Txs : Status(S)' = Status(S) \/ (Status(S)' = "confirmed" /\ OnChain(S))
    BY <2>1, <2>2, <2>3 DEF PendingTypeOK, Status
  <2>5. HashesLawful
    <3>1. \A t \in Tabs : hashes'[t] \subseteq hashes[t]
      BY <1>2 DEF ConfirmSaves, PendingTypeOK
    <3> QED BY <3>1 DEF HashesLawful, Landing, Recorded
  <2>6. GoneLawful
    BY <2>1, <2>4 DEF GoneLawful, Gone, Unclaimed
  <2>7. ConfirmingLawful
    BY <2>1 DEF ConfirmingLawful
  <2>8. \A T \in Txs : Lawful(T)
    BY <2>4 DEF Lawful
  <2> QED BY <2>1, <2>5, <2>6, <2>7, <2>8, KeptLawful DEF LawfulStep
<1> QED BY <1>1, <1>2

\* what taking in a transaction does to the entries' states
LEMMA DiscoverStatus ==
    ASSUME PendingTypeOK, NEW T \in Txs, NEW h, Discover(T, h)
    PROVE  /\ \A S \in Txs : Status(S)' = Status(S) \/ (Status(S)' = "confirmed" /\ S = T)
           /\ Status(T)' # "none"
<1> DEFINE spender == utxos[Input[T]]
<1>1. PICK b : entries' = [R \in Txs |->
         CASE R = T /\ entries[T].status = "none" -> Confirmed(NoEntry, h, b)
           [] R = spender /\ R # T /\ entries[R].status = "pending" ->
                [entries[R] EXCEPT !.contested = @ \cup {h}]
           [] OTHER -> entries[R]]
  BY DEF Discover
<1> HIDE DEF spender
<1>2. Confirmed(NoEntry, h, b).status = "confirmed"
  BY DEF Confirmed, NoEntry
<1>3. ASSUME NEW S \in Txs PROVE Status(S)' = Status(S) \/ (Status(S)' = "confirmed" /\ S = T)
  <2>1. \/ entries'[S] = Confirmed(NoEntry, h, b) /\ S = T
        \/ entries'[S] = [entries[S] EXCEPT !.contested = @ \cup {h}]
        \/ entries'[S] = entries[S]
    BY <1>1
  <2>2. entries[S] \in Entries
    BY DEF PendingTypeOK
  <2>3. [entries[S] EXCEPT !.contested = @ \cup {h}].status = entries[S].status
    BY <2>2 DEF Entries
  <2> QED BY <1>2, <2>1, <2>3 DEF Status
<1>4. Status(T)' # "none"
  <2>1. entries[T].status = "none" => entries'[T] = Confirmed(NoEntry, h, b)
    BY <1>1
  <2> QED BY <1>2, <1>3, <2>1 DEF Status
<1> QED BY <1>3, <1>4

LEMMA DiscoverLawful ==
    ASSUME PendingTypeOK, Landing, NEW T \in Txs, NEW h, OnChain(T), Discover(T, h)
    PROVE  LawfulStep
<1>1. UNCHANGED <<hashes, confirming, held, unwinding>>
  BY DEF Discover
<1>2. \A S \in Txs : Status(S)' = Status(S) \/ (Status(S)' = "confirmed" /\ S = T)
  BY DiscoverStatus
<1>3. \A S \in Txs : Lawful(S)
  BY <1>2 DEF Lawful
<1>4. GoneLawful
  <2>1. ASSUME NEW S \in Txs, ~OnChain(S) PROVE (Unclaimed(S) => Unclaimed(S)') /\ (Gone(S) => Gone(S)')
    <3>1. S # T /\ S \in Utxos /\ S # "unspent"
      BY <2>1, Names
    <3>2. \A u \in Utxos : utxos'[u] \in {utxos[u], T, "unspent"}
      BY DEF Discover
    <3>3. utxos[S] = "absent" => utxos'[S] = "absent"
      BY <3>1 DEF Discover
    <3> QED BY <3>1, <3>2, <3>3 DEF Gone, Unclaimed
  <2> QED BY <1>2, <2>1 DEF GoneLawful
<1> QED BY <1>1, <1>3, <1>4, KeptLawful DEF LawfulStep, Landing

LEMMA DepthsLawful ==
    ASSUME PendingTypeOK, Landing, UpdateDepths
    PROVE  LawfulStep /\ \A T \in Txs : Status(T)' = Status(T)
<1>1. UNCHANGED <<utxos, confirming, held, unwinding>>
  BY DEF UpdateDepths
<1>2. ASSUME NEW T \in Txs PROVE Status(T)' = Status(T)
  <2>1. entries'[T] = entries[T] \/ entries'[T] = [entries[T] EXCEPT !.provisional = FALSE]
    BY DEF UpdateDepths
  <2>2. [entries[T] EXCEPT !.provisional = FALSE].status = entries[T].status
    BY DEF PendingTypeOK, Entries
  <2> QED BY <2>1, <2>2 DEF Status
<1>3. HashesLawful
  <2>1. \A t \in Tabs : hashes'[t] \subseteq hashes[t] \cup InStore
    BY DEF UpdateDepths, PendingTypeOK
  <2>2. \A T \in InStore : Status(T) # "none"
    BY DEF InStore, WithStatus, Status
  <2> QED BY <2>1, <2>2 DEF HashesLawful, Landing, Recorded
<1>4. GoneLawful /\ \A T \in Txs : Lawful(T)
  BY <1>1, <1>2 DEF GoneLawful, Gone, Unclaimed, Lawful
<1> QED BY <1>1, <1>2, <1>3, <1>4, KeptLawful DEF LawfulStep

LEMMA LoadLawful ==
    ASSUME PendingTypeOK, Landing, NEW t \in Tabs, loadPendingFromStore(t)
    PROVE  LawfulStep
<1>1. UNCHANGED <<entries, utxos>>
  BY DEF loadPendingFromStore
<1>2. HashesLawful
  <2>1. \A s \in Tabs : hashes'[s] \subseteq hashes[s] \cup InStore
    BY DEF loadPendingFromStore, PendingTypeOK
  <2>2. \A T \in InStore : Status(T) # "none"
    BY DEF InStore, WithStatus, Status
  <2> QED BY <2>1, <2>2 DEF HashesLawful, Landing, Recorded
<1>3. ConfirmingLawful
  BY DEF loadPendingFromStore, ConfirmingLawful
<1>4. HeldLawful /\ UnwindingLawful
  BY DEF loadPendingFromStore, PendingTypeOK, HeldLawful, UnwindingLawful
<1> QED BY <1>1, <1>2, <1>3, <1>4, KeptLawful DEF LawfulStep

\* what the stages of a rollback do to the outputs
LEMMA ClearsLawful ==
    ASSUME PendingTypeOK, NEW T \in Txs,
           utxos' = [u \in Utxos |-> IF utxos[u] = T THEN "unspent" ELSE utxos[u]]
    PROVE  /\ \A S \in Txs : (Unclaimed(S) => Unclaimed(S)') /\ (Gone(S) => Gone(S)')
           /\ Unclaimed(T)'
<1>1. \A S \in Txs : S \in Utxos /\ S # "unspent" /\ S # "absent"
  BY Names
<1>2. \A u \in Utxos : utxos'[u] = IF utxos[u] = T THEN "unspent" ELSE utxos[u]
  OBVIOUS
<1>3. \A u \in Utxos : utxos[u] = "absent" => utxos'[u] = "absent"
  BY <1>1, <1>2
<1> QED BY <1>1, <1>2, <1>3 DEF Gone, Unclaimed

LEMMA DeletesLawful ==
    ASSUME PendingTypeOK, NEW T \in Txs, utxos' = [utxos EXCEPT ![T] = "absent"]
    PROVE  /\ \A S \in Txs : (Unclaimed(S) => Unclaimed(S)') /\ (Gone(S) => Gone(S)')
           /\ Unclaimed(T) => Gone(T)'
<1>1. \A S \in Txs : S \in Utxos /\ S # "absent"
  BY Names
<1>2. \A u \in Utxos : utxos'[u] = IF u = T THEN "absent" ELSE utxos[u]
  BY DEF PendingTypeOK
<1> QED BY <1>1, <1>2 DEF Gone, Unclaimed

\* what a rollback holds from one of its stages to the next
LEMMA UnwindsLawful ==
    ASSUME PendingTypeOK, Landing, NEW t \in Tabs, NEW r \in unwinding[t], NEW stage \in {"cleared", "deleted"},
           Unwinds(t, r, stage), Unclaimed(r.tx)', stage = "deleted" => Gone(r.tx)'
    PROVE  UnwindingLawful
<1>1. /\ [r EXCEPT !.stage = stage].tx = r.tx /\ [r EXCEPT !.stage = stage].stage = stage
      /\ Status(r.tx) \in GivenUp
  <2>1. r \in Unwound
    BY DEF PendingTypeOK
  <2> QED BY <2>1 DEF Unwound, Landing, Deaths
<1>2. \A s \in Tabs : unwinding'[s] \subseteq unwinding[s] \cup {[r EXCEPT !.stage = stage]}
  BY DEF Unwinds, PendingTypeOK
<1>3. Buried([r EXCEPT !.stage = stage])'
  BY <1>1 DEF Buried
<1> QED BY <1>1, <1>2, <1>3 DEF UnwindingLawful

LEMMA RollbackLawful ==
    ASSUME PendingTypeOK, Landing, NEW t \in Tabs,
           RollbackReads(t) \/ RollbackClears(t) \/ RollbackDeletes(t) \/ RollbackEnds(t)
    PROVE  LawfulStep
<1>1. CASE RollbackReads(t)
  <2>1. UNCHANGED <<entries, utxos, hashes, confirming, held>>
    BY <1>1 DEF RollbackReads
  <2>2. UnwindingLawful
    <3>1. \A s \in Tabs : unwinding'[s] \subseteq unwinding[s] \cup
             {[tx |-> T, entry |-> entries[T], stage |-> "read"] : T \in WithStatus({"rollback-pending"})}
      BY <1>1 DEF RollbackReads, PendingTypeOK
    <3>2. \A T \in WithStatus({"rollback-pending"}) : Status(T) \in GivenUp
      BY DEF WithStatus, Status, GivenUp
    <3> QED BY <3>1, <3>2 DEF UnwindingLawful, Buried
  <2> QED BY <2>1, <2>2, KeptLawful DEF LawfulStep, Landing
<1>2. CASE RollbackClears(t)
  <2>1. UNCHANGED <<entries, hashes, confirming, held>>
    BY <1>2 DEF RollbackClears
  <2>2. PICK r \in unwinding[t] :
          \/ /\ utxos' = [u \in Utxos |-> IF utxos[u] = r.tx THEN "unspent" ELSE utxos[u]]
             /\ Unwinds(t, r, "cleared")
          \/ /\ unwinding' = [unwinding EXCEPT ![t] = @ \ {r}]
             /\ UNCHANGED utxos
    BY <1>2 DEF RollbackClears
  <2>3. r.tx \in Txs
    BY HeldTypes
  <2>4. CASE /\ utxos' = [u \in Utxos |-> IF utxos[u] = r.tx THEN "unspent" ELSE utxos[u]]
             /\ Unwinds(t, r, "cleared")
    <3>1. /\ \A S \in Txs : (Unclaimed(S) => Unclaimed(S)') /\ (Gone(S) => Gone(S)')
          /\ Unclaimed(r.tx)'
      BY <2>3, <2>4, ClearsLawful
    <3>2. UnwindingLawful
      BY <2>4, <3>1, UnwindsLawful
    <3>3. GoneLawful
      BY <2>1, <3>1 DEF GoneLawful, Status
    <3> QED BY <2>1, <3>2, <3>3, KeptLawful DEF LawfulStep, Landing
  <2>5. CASE unwinding' = [unwinding EXCEPT ![t] = @ \ {r}] /\ UNCHANGED utxos
    <3>1. UnwindingLawful
      BY <2>5 DEF UnwindingLawful, PendingTypeOK
    <3> QED BY <2>1, <2>5, <3>1, KeptLawful DEF LawfulStep, Landing
  <2> QED BY <2>2, <2>4, <2>5
<1>3. CASE RollbackDeletes(t)
  <2>1. UNCHANGED <<entries, hashes, confirming, held>>
    BY <1>3 DEF RollbackDeletes
  <2>2. PICK r \in unwinding[t] : /\ r.stage = "cleared"
                                 /\ utxos' = [utxos EXCEPT ![r.tx] = "absent"]
                                 /\ Unwinds(t, r, "deleted")
    BY <1>3 DEF RollbackDeletes
  <2>3. r.tx \in Txs /\ Unclaimed(r.tx)
    BY <2>2, HeldTypes DEF Landing, Burials, Buried
  <2>4. /\ \A S \in Txs : (Unclaimed(S) => Unclaimed(S)') /\ (Gone(S) => Gone(S)')
        /\ Gone(r.tx)'
    BY <2>2, <2>3, DeletesLawful
  <2>5. UnwindingLawful
    BY <2>2, <2>3, <2>4, UnwindsLawful
  <2>6. GoneLawful
    BY <2>1, <2>4 DEF GoneLawful, Status
  <2> QED BY <2>1, <2>5, <2>6, KeptLawful DEF LawfulStep, Landing
<1>4. CASE RollbackEnds(t)
  <2>1. UNCHANGED <<utxos, confirming, held>>
    BY <1>4 DEF RollbackEnds
  <2>2. PICK r \in unwinding[t] :
          /\ r.stage = "deleted"
          /\ entries' = [entries EXCEPT ![r.tx] = [r.entry EXCEPT !.status = "rolled-back"]]
          /\ hashes' = [hashes EXCEPT ![t] = @ \ {r.tx}]
          /\ unwinding' = [unwinding EXCEPT ![t] = @ \ {r}]
    BY <1>4 DEF RollbackEnds
  <2>3. r.tx \in Txs /\ r.entry \in Entries
    BY HeldTypes
  <2>4. Status(r.tx) \in GivenUp /\ Dead(r.tx) /\ Gone(r.tx)
    BY <2>2, <2>3 DEF Landing, Deaths, Burials, Buried
  <2>5. Gone(r.tx)'
    BY <2>1, <2>4 DEF Gone, Unclaimed
  <2>6. Status(r.tx)' = "rolled-back" /\ \A S \in Txs \ {r.tx} : Status(S)' = Status(S)
    <3>1. [r.entry EXCEPT !.status = "rolled-back"].status = "rolled-back"
      BY <2>3 DEF Entries
    <3> QED BY <2>2, <2>3, <3>1 DEF PendingTypeOK, Status
  <2>7. \A S \in Txs : Lawful(S)
    BY <2>4, <2>6 DEF Lawful, GivenUp
  <2>8. GoneLawful
    BY <2>1, <2>5, <2>6 DEF GoneLawful, Gone, Unclaimed
  <2>9. HashesLawful
    <3>1. \A s \in Tabs : hashes'[s] \subseteq hashes[s]
      BY <2>2 DEF PendingTypeOK
    <3> QED BY <3>1 DEF HashesLawful, Landing, Recorded
  <2>10. UnwindingLawful
    BY <2>2 DEF UnwindingLawful, PendingTypeOK
  <2> QED BY <2>1, <2>7, <2>8, <2>9, <2>10, KeptLawful DEF LawfulStep
<1> QED BY <1>1, <1>2, <1>3, <1>4

\* what a deadline check reads after the deadline: had the transaction landed,
\* the last clean cycle would have found it
LEMMA DeadlineReadsLawful ==
    ASSUME ChainTypeOK, IndexTypeOK, PendingTypeOK, done \in Heights, Linear, Solid, Pace, Landing,
           NEW t \in Tabs, DeadlineReads(t)
    PROVE  LawfulStep
<1>1. UNCHANGED <<entries, utxos, hashes, confirming, unwinding>>
  BY DEF DeadlineReads
<1>2. \A s \in Tabs : held'[s] \subseteq held[s] \cup
        {[tx |-> T, entry |-> entries[T], seen |-> TipHeight(t)] : T \in WithStatus({"pending"})}
  BY DEF DeadlineReads, PendingTypeOK
<1>3. ASSUME NEW T \in WithStatus({"pending"}), TipHeight(t) >= LastValid[T] + MaxLag
      PROVE  Dead(T)
  <2>1. T \in Txs /\ Status(T) = "pending"
    BY DEF WithStatus, Status
  <2>2. LastValid[T] <= done /\ LastValid[T] <= Len(chain)
    <3>1. TipHeight(t) \in 0..Len(chain)
      BY SolidTip DEF Solid
    <3>2. LastValid[T] \in Nat /\ MaxLag \in Nat /\ Len(chain) \in Nat /\ done \in Nat
      BY <2>1, BlockchainAssumption, UtxoIndexAssumption, OfChain DEF Heights
    <3> QED BY <1>3, <3>1, <3>2 DEF Pace
  <2>3. ~OnChain(T)
    <3>1. SUFFICES ASSUME NEW h \in 1..Len(chain), T \in mined[chain[h]] PROVE FALSE
      BY DEF OnChain
    <3>2. T \in At(h) /\ h <= LastValid[T] /\ h \in Nat /\ LastValid[T] \in Nat
      BY <2>1, <3>1, OfChain, BlockchainAssumption DEF At, Linear, Heights
    <3>3. h \in 1..done
      BY <2>2, <3>1, <3>2, BlockchainAssumption DEF Heights
    <3> QED BY <2>1, <3>2, <3>3 DEF Landing, Settled
  <2> QED BY <2>2, <2>3 DEF Dead
<1>4. ASSUME NEW s \in Tabs, NEW r \in held'[s], r \notin held[s] PROVE Doomed(r)
  <2>1. PICK T \in WithStatus({"pending"}) : r = [tx |-> T, entry |-> entries[T], seen |-> TipHeight(t)]
    BY <1>2, <1>4
  <2>2. r.tx = T /\ r.seen = TipHeight(t)
    BY <2>1
  <2> QED BY <1>3, <2>2 DEF Doomed
<1>5. HeldLawful
  BY <1>4 DEF HeldLawful
<1> QED BY <1>1, <1>5, KeptLawful DEF LawfulStep, Landing

\* What passes the gate was read that late, whatever the tip was then.
LEMMA DeadlineSavesLawful ==
    ASSUME ChainTypeOK, IndexTypeOK, PendingTypeOK, Paced, Punctual, Landing,
           NEW t \in Tabs, DeadlineSaves(t)
    PROVE  LawfulStep
<1>1. PICK r \in held[t] :
        /\ entries' = IF DeadlineDeep(t, r.tx)
                      THEN [entries EXCEPT ![r.tx] = [r.entry EXCEPT !.status = "rollback-pending"]]
                      ELSE entries
        /\ held' = [held EXCEPT ![t] = @ \ {r}]
  BY DEF DeadlineSaves
<1>2. r.tx \in Txs /\ r.entry \in Entries /\ r.seen \in 0..MaxHeight
  BY HeldTypes
<1>3. ASSUME DeadlineDeep(t, r.tx) PROVE Dead(r.tx)
  <2>1. PICK b \in BlockIds : /\ Height(b) >= LastValid[r.tx] + Grace
                             /\ TipHeight(t) - Height(b) >= ProvisionalDepth
    BY <1>3 DEF DeadlineDeep, Deadline
  <2>2. /\ LastValid[r.tx] \in Nat /\ Grace \in Nat /\ ProvisionalDepth \in Nat /\ MaxLag \in Nat
        /\ MaxRise \in Nat /\ TipHeight(t) \in Nat /\ Height(b) \in Nat /\ r.seen \in Nat
    BY <1>2, BlockType, LatestType, BlockchainAssumption, PendingAssumption, UtxoIndexAssumption DEF Heights
  <2>3. TipHeight(t) <= r.seen + MaxRise
    BY DEF Punctual
  <2>4. r.seen >= LastValid[r.tx] + MaxLag
    BY <2>1, <2>2, <2>3 DEF Paced
  <2> QED BY <2>4 DEF Landing, Deaths, Doomed
<1>4. [r.entry EXCEPT !.status = "rollback-pending"].status = "rollback-pending"
  BY <1>2 DEF Entries
<1>5. \A S \in Txs : Status(S)' = Status(S) \/ (Status(S)' = "rollback-pending" /\ Dead(S))
  BY <1>1, <1>2, <1>3, <1>4 DEF PendingTypeOK, Status
<1>6. UNCHANGED <<utxos, hashes, confirming, unwinding>>
  BY DEF DeadlineSaves
<1>7. HeldLawful
  BY <1>1 DEF HeldLawful, PendingTypeOK
<1>8. \A S \in Txs : Lawful(S)
  BY <1>5 DEF Lawful, GivenUp
<1>9. GoneLawful
  BY <1>5, <1>6 DEF GoneLawful, Gone, Unclaimed
<1> QED BY <1>6, <1>7, <1>8, <1>9, KeptLawful DEF LawfulStep, Landing

-----------------------------------------------------------------------------
(* Until the chain forks: the tips and the verification                       *)

\* Only the tab that syncs, and one that is reloaded, gets another tip.
LEMMA TipsOfOthers ==
    ASSUME IndexTypeOK, FirstSync \/ FollowsChain
    PROVE  owner' = owner /\ \A t \in Tabs \ {owner} : tip'[t] = tip[t]
<1>1. \/ UNCHANGED <<tip, owner>>
      \/ owner' = owner /\ \E b : tip' = [tip EXCEPT ![owner] = b]
  BY DEF FirstSync, FirstSnapshot, fetchAndStoreLatestBlock, FirstSyncEnds, FollowsChain, discoverChainTip, NoForkSeen,
         Unknown404, DetectionFails, FetchFails, MarkOrphans, NothingProcessed, UpToDate, fetchAndStoreNewBlocks,
         WalkEnds, syncCatchup, CursorToTip, syncIncremental, HeightGone, CycleFails, BlockProcessed
<1> QED BY <1>1 DEF IndexTypeOK

LEMMA PunctualStep ==
    ASSUME TypeOK, TypeOK', Punctual, Next, ~ChainForks
    PROVE  Punctual'
<1>0. /\ IndexTypeOK /\ PendingTypeOK /\ MaxRise \in Nat /\ owner \in Tabs
      /\ \A t \in Tabs : TipHeight(t) \in Nat /\ TipHeight(t)' \in Nat
  <2>1. IndexTypeOK /\ IndexTypeOK' /\ PendingTypeOK
    BY DEF TypeOK
  <2>2. \A t \in Tabs : tip[t] \in Blk /\ tip'[t] \in Blk
    BY <2>1 DEF IndexTypeOK, Blk
  <2> QED BY <2>1, <2>2, BlockType, UtxoIndexAssumption DEF TipHeight, IndexTypeOK
<1>1. CASE UNCHANGED <<tip, held>>
  BY <1>1 DEF Punctual, TipHeight
<1>2. CASE FirstSync \/ FollowsChain
  <2>1. held' = held /\ \A r \in held[owner] : Height(tip'[owner]) <= r.seen + MaxRise
    BY <1>2 DEF FirstSync, FollowsChain, IndexSnapshot, pendingVars, InTime
  <2> QED BY <1>0, <1>2, <2>1, TipsOfOthers DEF Punctual, TipHeight
<1>3. CASE ChecksDeadlines
  <2>1. UNCHANGED tip
    BY <1>3 DEF ChecksDeadlines, indexVars
  <2>2. PICK t \in Tabs : DeadlineReads(t) \/ DeadlineSaves(t)
    BY <1>3 DEF ChecksDeadlines
  <2>3. ASSUME NEW s \in Tabs, NEW r \in held'[s] PROVE r \in held[s] \/ (s = t /\ r.seen = TipHeight(t))
    <3>1. CASE DeadlineReads(t)
      BY <1>0, <2>3, <3>1 DEF DeadlineReads, PendingTypeOK
    <3>2. CASE DeadlineSaves(t)
      BY <1>0, <2>3, <3>2 DEF DeadlineSaves, PendingTypeOK
    <3> QED BY <2>2, <3>1, <3>2
  <2> QED BY <1>0, <2>1, <2>3 DEF Punctual, TipHeight
<1>4. CASE TabReloads
  <2>1. PICK t \in Tabs, next \in Tabs : Reload(t, next) /\ loadPendingFromStore(t)
    BY <1>4 DEF TabReloads
  <2>2. \A s \in Tabs \ {t} : tip'[s] = tip[s] /\ held'[s] = held[s]
    BY <1>0, <2>1 DEF Reload, loadPendingFromStore, IndexTypeOK, PendingTypeOK
  <2>3. held'[t] = {}
    BY <1>0, <2>1 DEF loadPendingFromStore, PendingTypeOK
  <2> QED BY <2>2, <2>3 DEF Punctual, TipHeight
<1>5. ASSUME ~FirstSync, ~FollowsChain, ~ChecksDeadlines, ~TabReloads PROVE UNCHANGED <<tip, held>>
  <2>1. UNCHANGED tip
    BY <1>5 DEF Next, ChainGrows, ForkSeen, detectRolledBackBlocks, ProcessesTx, TakeTx, Reconciles, reconcileUtxos,
       VerificationReads, VerificationStarts, VerifiesTx, ConfirmsTx, CycleSettles, CycleEnds, RequestFails,
       DetectionFails, FetchFails, CycleFails, AskFails, Registers, RollsBack, indexVars
  <2>2. UNCHANGED held
    BY <1>5 DEF Next, ChainGrows, ForkSeen, ResolveOrphanTxs, ProcessesTx, ConfirmReads, Discover, Reconciles,
       Reconcile, VerificationReads, VerifiesTx, ConfirmsTx, ConfirmSaves, CycleSettles, UpdateDepths, RequestFails,
       Registers, registerPendingTx, RollsBack, RollbackReads, RollbackClears, RollbackDeletes, RollbackEnds,
       pendingVars
  <2> QED BY <2>1, <2>2
<1> QED BY <1>1, <1>2, <1>3, <1>4, <1>5

\* a step that leaves the verification as it is, or brings it on
LEMMA AskingKept ==
    ASSUME ChainTypeOK, IndexTypeOK, UNCHANGED chainVars, Landing, \A T \in Txs : Lawful(T), Asking,
           cycle' = cycle, TipHeight(owner)' = TipHeight(owner),
           \A T \in asked : \/ T \in asked' \/ ~OnChain(T) \/ Status(T) # "pending"
                            \/ \E k \in confirming' : k.tx = T,
           \A k \in confirming : k \in confirming' \/ Status(k.tx)' # "pending"
    PROVE  Asking'
<1> SUFFICES ASSUME cycle.stage = "asking", cycle.clean, NEW h \in 1..TipHeight(owner), NEW T \in At(h),
                    Status(T)' = "pending"
             PROVE  T \in asked' \/ \E k \in confirming' : k.tx = T
  BY ChainKept DEF Asking
<1>1. T \in Txs /\ OnChain(T)
  <2>1. h \in Nat \ {0} /\ Len(chain) \in Nat
    BY LatestType, OfChain, BlockchainAssumption DEF Heights
  <2> QED BY <2>1, OfChain DEF At, OnChain
<1>2. Status(T) = "pending"
  BY <1>1, LawfulMoves
<1>3. T \in asked \/ \E k \in confirming : k.tx = T
  BY <1>2 DEF Asking
<1> QED BY <1>1, <1>2, <1>3

LEMMA AskingStep ==
    ASSUME TypeOK, Solid, Landing, LawfulStep, Asking, UNCHANGED chainVars, Next, ~ChainGrows, ~ChainForks
    PROVE  Asking'
<1>0. /\ ChainTypeOK /\ IndexTypeOK /\ PendingTypeOK /\ \A T \in Txs : Lawful(T)
  BY DEF TypeOK, LawfulStep
<1>1. CASE cycle'.stage # "asking" \/ ~cycle'.clean
  BY <1>1 DEF Asking
<1>2. ASSUME cycle' = cycle, TipHeight(owner)' = TipHeight(owner), UNCHANGED <<asked, confirming>> PROVE Asking'
  BY <1>0, <1>2, AskingKept
<1>3. CASE VerificationReads
  <2>1. asked' = WithStatus({"pending"}) /\ entries' = entries
    BY <1>3 DEF VerificationReads, pendingVars
  <2>2. \A h \in Nat \ {0} : At(h)' \subseteq Txs
    BY <1>0, OfChain, ChainKept
  <2>3. TipHeight(owner)' \in Nat
    BY <1>0, <1>3, LatestType, BlockchainAssumption DEF VerificationReads, VerificationStarts, TipHeight
  <2> QED BY <2>1, <2>2, <2>3 DEF Asking, WithStatus, Status
<1>4. CASE VerifiesTx
  <2>1. PICK T \in asked : /\ asked' = asked \ {T}
                          /\ IF OnChain(T) THEN ConfirmReads(T, HeightOf(T), TRUE) ELSE UNCHANGED pendingVars
    BY <1>4 DEF VerifiesTx
  <2>2. confirming = {} /\ UNCHANGED indexVars
    BY <1>4 DEF VerifiesTx
  <2>3. cycle' = cycle /\ TipHeight(owner)' = TipHeight(owner)
    BY <2>2 DEF indexVars, TipHeight
  <2>4. OnChain(T) /\ Status(T) = "pending" => \E k \in confirming' : k.tx = T
    <3>1. SUFFICES ASSUME OnChain(T), Status(T) = "pending" PROVE \E k \in confirming' : k.tx = T
      OBVIOUS
    <3>2. PICK b : confirming' = {[tx |-> T, entry |-> entries[T], at |-> HeightOf(T), blk |-> b]}
      BY <2>1, <3>1 DEF ConfirmReads, Status
    <3> QED BY <3>2
  <2> QED BY <1>0, <2>1, <2>2, <2>3, <2>4, AskingKept
<1>5. CASE ConfirmsTx
  <2>1. PICK c \in confirming : ConfirmSaves(c)
    BY <1>5 DEF ConfirmsTx
  <2>2. cycle' = cycle /\ TipHeight(owner)' = TipHeight(owner) /\ asked' = asked
    BY <1>5 DEF ConfirmsTx, indexVars, counters, TipHeight
  <2>3. confirming' = confirming \ {c} /\ Status(c.tx)' = "confirmed"
    <3>1. c.tx \in Txs /\ c.entry \in Entries
      BY <1>0 DEF PendingTypeOK
    <3>2. Confirmed(c.entry, c.at, c.blk).status = "confirmed"
      BY <3>1 DEF Confirmed, Entries
    <3> QED BY <1>0, <2>1, <3>1, <3>2 DEF ConfirmSaves, PendingTypeOK, Status
  <2> QED BY <1>0, <2>2, <2>3, AskingKept
<1>6. CASE Registers \/ ChecksDeadlines \/ RollsBack
  <2>1. cycle' = cycle /\ TipHeight(owner)' = TipHeight(owner) /\ asked' = asked
    BY <1>6 DEF Registers, ChecksDeadlines, RollsBack, indexVars, counters, TipHeight
  <2>2. confirming' = confirming
    BY <1>6 DEF Registers, registerPendingTx, ChecksDeadlines, DeadlineReads, DeadlineSaves, RollsBack, RollbackReads,
       RollbackClears, RollbackDeletes, RollbackEnds
  <2> QED BY <1>2, <2>1, <2>2
<1>7. CASE TabReloads
  <2>1. PICK t \in Tabs, next \in Tabs : /\ Reload(t, next) /\ loadPendingFromStore(t)
                                        /\ asked' = IF t = owner THEN {} ELSE asked
    BY <1>7 DEF TabReloads
  <2>2. CASE t = owner
    <3>1. cycle'.stage \in {"start", "idle"}
      BY <2>1, <2>2 DEF Reload, To, Idle
    <3> QED BY <1>1, <3>1
  <2>3. CASE t # owner
    <3>1. cycle' = cycle /\ owner' = owner /\ tip'[owner] = tip[owner]
      BY <1>0, <2>1, <2>3 DEF Reload, IndexTypeOK
    <3>2. UNCHANGED <<asked, confirming>>
      BY <2>1, <2>3 DEF loadPendingFromStore
    <3> QED BY <1>2, <3>1, <3>2 DEF TipHeight
  <2> QED BY <2>2, <2>3
<1>8. ASSUME ~VerificationReads, ~VerifiesTx, ~ConfirmsTx, ~Registers, ~ChecksDeadlines, ~RollsBack, ~TabReloads
      PROVE  cycle'.stage # "asking" \/ ~cycle'.clean
  <2>0. cycle \in Cycles
    BY <1>0 DEF IndexTypeOK, Cycles
  <2>1. FirstSync => cycle'.stage # "asking"
    <3>1. FirstSnapshot \/ FirstSyncEnds => cycle'.stage # "asking"
      BY Rested DEF FirstSnapshot, FirstSyncEnds
    <3>2. fetchAndStoreLatestBlock => cycle'.stage # "asking"
      BY DEF fetchAndStoreLatestBlock, Idle
    <3> QED BY <3>1, <3>2 DEF FirstSync
  <2>2. FollowsChain => cycle'.stage # "asking"
    <3>1. NoForkSeen \/ DetectionFails => cycle'.stage # "asking"
      BY Rested DEF NoForkSeen, DetectionFails
    <3>6. MarkOrphans => cycle'.stage # "asking"
      <4>1. MarkOrphans => To("sync")
        BY DEF MarkOrphans
      <4> QED BY <4>1, Rested
    <3>5. discoverChainTip => cycle'.stage # "asking"
      <4>1. discoverChainTip => Begin("detect")
        BY DEF discoverChainTip
      <4> QED BY <4>1, Rested
    <3>4. NothingProcessed \/ UpToDate \/ WalkEnds \/ CursorToTip \/ CycleFails => cycle'.stage # "asking"
      BY Rested DEF NothingProcessed, UpToDate, WalkEnds, CursorToTip, CycleFails
    <3>2. fetchAndStoreNewBlocks \/ FetchFails \/ syncCatchup => cycle'.stage # "asking"
      BY <2>0 DEF fetchAndStoreNewBlocks, FetchFails, syncCatchup, Walk, Cycles
    <3>3. \A b \in BlockIds : syncIncremental(b) \/ BlockProcessed(b) => cycle'.stage # "asking"
      BY <2>0 DEF syncIncremental, BlockProcessed, Cycles
    <3> QED BY <3>1, <3>2, <3>3, <3>4, <3>5, <3>6 DEF FollowsChain, Unknown404, HeightGone
  <2>3. ForkSeen \/ ProcessesTx => cycle'.stage # "asking"
    BY <2>0 DEF ForkSeen, detectRolledBackBlocks, ProcessesTx, TakeTx, Cycles
  <2>4. Reconciles \/ CycleSettles => cycle'.stage # "asking"
    BY Rested DEF Reconciles, reconcileUtxos, CycleSettles, CycleEnds
  <2>5. RequestFails => cycle'.stage # "asking" \/ ~cycle'.clean
    <3>1. DetectionFails \/ CycleFails => cycle'.stage # "asking"
      BY Rested DEF DetectionFails, CycleFails
    <3>2. FetchFails => cycle'.stage # "asking"
      BY <2>0 DEF FetchFails, Walk, Cycles
    <3>3. AskFails => ~cycle'.clean
      BY DEF AskFails, Disturbed, Idle
    <3> QED BY <3>1, <3>2, <3>3 DEF RequestFails
  <2> QED BY <1>8, <2>1, <2>2, <2>3, <2>4, <2>5 DEF Next
<1> QED BY <1>1, <1>3, <1>4, <1>5, <1>6, <1>7, <1>8

-----------------------------------------------------------------------------
(* Until the chain forks: every step                                          *)

LEMMA LandingInit == Init => LandingInv
<1> SUFFICES ASSUME Init PROVE Linear /\ Solid /\ Pace /\ Abreast /\ Punctual /\ Asking /\ Landing
  BY DEF LandingInv
<1>1. /\ Start \in Nat /\ MaxLag \in Nat /\ Len(chain) = Start /\ done = Start /\ MaxForks \in Nat
      /\ \A h \in 1..Start : chain[h] = <<h, 0>> /\ mined[chain[h]] = {}
  <2>1. Start \in Nat /\ Start \in Heights /\ MaxLag \in Nat /\ MaxForks \in Nat
    BY BlockchainAssumption, UtxoIndexAssumption DEF Heights
  <2>2. chain = [h \in 1..Start |-> <<h, 0>>] /\ mined = [b \in BlockIds |-> {}] /\ done = Start
    BY DEF Init, ChainInit
  <2>3. \A h \in 1..Start : <<h, 0>> \in BlockIds
    BY <2>1, BlockchainAssumption DEF BlockIds, Heights
  <2> QED BY <2>1, <2>2, <2>3
<1>2. /\ \A h \in 1..Len(chain) : At(h) = {}
      /\ \A T : ~OnChain(T)
  BY <1>1 DEF At, OnChain
<1>3. Linear
  BY <1>1, <1>2 DEF Linear
<1>4. Solid /\ Abreast /\ Asking
  <2>1. cycle.stage = "start" /\ cycle.todo = {} /\ cycle.txs = {}
    BY DEF Init, IndexInit, Idle
  <2>2. blocks = [b \in BlockIds |-> "absent"] /\ tip = [t \in Tabs |-> NoBlock]
    BY DEF Init, IndexInit
  <2> QED BY <2>1, <2>2 DEF Solid, SolidBlocks, SolidTips, SolidCycle, Abreast, Asking, Cycling
<1>5. Pace
  BY <1>1 DEF Pace
<1>6. \A T \in Txs : Status(T) = "none"
  BY DEF Init, PendingInit, NoEntry, Status
<1>7. /\ \A t \in Tabs : hashes[t] = {} /\ held[t] = {} /\ unwinding[t] = {}
      /\ confirming = {}
  BY DEF Init, PendingInit
<1>8. Landing /\ Punctual
  BY <1>1, <1>2, <1>6, <1>7 DEF Landing, Recorded, Settled, Sighted, Deaths, Burials, GivenUp, Punctual
<1> QED BY <1>3, <1>4, <1>5, <1>8

LEMMA GrowthLands ==
    ASSUME TypeOK, forks = 0, Linear, Solid, Pace, Abreast, Asking, Landing, ChainGrows
    PROVE  Linear' /\ Solid' /\ Pace' /\ Abreast' /\ Asking' /\ Landing'
<1>1. PICK S \in SUBSET Txs : Registered(S) /\ Mine(S)
  BY DEF ChainGrows
<1>2. UNCHANGED <<indexVars, pendingVars, asked, done>>
  BY DEF ChainGrows, counters
<1>3. /\ Linear'
      /\ \A T \in Txs : OnChain(T)' <=> OnChain(T) \/ T \in S
      /\ \A T \in Txs : Dead(T) => Dead(T)'
      /\ \A b : Canonical(b) => Canonical(b)'
      /\ \A h \in 1..Len(chain) : At(h)' = At(h)
      /\ Len(chain)' = Len(chain) + 1
  BY <1>1, ChainGrown DEF TypeOK
<1>4. Len(chain) \in Nat /\ done \in Nat /\ MaxLag \in Nat /\ Len(chain) < done + MaxLag
  BY OfChain, BlockchainAssumption, UtxoIndexAssumption DEF TypeOK, Heights, ChainGrows
<1>5. Solid'
  <2>1. SolidBlocks' /\ SolidTips'
    BY <1>2, <1>3 DEF indexVars, Solid, SolidBlocks, SolidTips
  <2>2. \A x \in cycle.txs : x.tx \in At(x.at)'
    <3>1. ASSUME NEW x \in cycle.txs PROVE x.at \in 1..Len(chain)
      <4>1. x \in Landed /\ x.tx \in At(x.at)
        BY DEF TypeOK, IndexTypeOK, Solid, SolidCycle
      <4> QED BY <4>1, <1>4 DEF Landed, Heights, At
    <3> QED BY <1>3, <3>1 DEF Solid, SolidCycle
  <2>3. SolidCycle'
    BY <1>2, <1>3, <2>2 DEF indexVars, Solid, SolidCycle
  <2> QED BY <2>1, <2>3 DEF Solid
<1>6. Pace' /\ Abreast'
  BY <1>2, <1>3, <1>4 DEF Pace, Abreast, indexVars, Cycling, TipHeight
<1>7. \A T : Status(T)' = Status(T)
  BY <1>2 DEF pendingVars, Status
<1>8. /\ Own \subseteq Txs
      /\ \A t \in Tabs : /\ \A r \in held[t] : r.tx \in Txs
                        /\ \A r \in unwinding[t] : r.tx \in Txs
  BY Names, HeldTypes DEF TypeOK
<1>9. Recorded'
  <2>1. \A T \in S \cap Own : Status(T) # "none"
    BY <1>1 DEF Registered, Status
  <2> QED BY <1>2, <1>3, <1>7, <1>8, <2>1 DEF pendingVars, Landing, Recorded
<1>10. Settled'
  <2>1. \A h \in 1..done : h \in 1..Len(chain)
    BY <1>4 DEF Pace
  <2> QED BY <1>2, <1>3, <1>7, <2>1 DEF Landing, Settled
<1>11. Sighted'
  <2>1. \A k \in confirming : k.tx \in Txs
    BY DEF TypeOK, PendingTypeOK
  <2> QED BY <1>2, <1>3, <1>7, <2>1 DEF pendingVars, Landing, Sighted
<1>12. Deaths'
  BY <1>2, <1>3, <1>7, <1>8 DEF pendingVars, Landing, Deaths, Doomed
<1>13. Burials'
  BY <1>2, <1>7 DEF pendingVars, Landing, Burials, Buried, Gone, Unclaimed
<1>14. Asking'
  <2>1. TipHeight(owner) \in 0..Len(chain)
    BY SolidTip DEF TypeOK, IndexTypeOK, Solid
  <2>2. \A h \in 1..TipHeight(owner) : h \in 1..Len(chain)
    BY <1>4, <2>1
  <2>3. UNCHANGED <<cycle, confirming, asked>> /\ TipHeight(owner)' = TipHeight(owner)
    BY <1>2 DEF indexVars, pendingVars, TipHeight
  <2> QED BY <1>3, <1>7, <2>2, <2>3 DEF Asking
<1> QED BY <1>3, <1>5, <1>6, <1>9, <1>10, <1>11, <1>12, <1>13, <1>14 DEF Landing

\* Every other step but a fork leaves the chain, and only the end of a clean
\* cycle moves "done".
LEMMA StepLawful ==
    ASSUME Paced, TypeOK, TypeOK', Linear, Solid, Pace, Abreast, Punctual, Asking, Landing,
           Next, ~ChainGrows, ~ChainForks
    PROVE  /\ UNCHANGED chainVars
           /\ Solid' /\ Pace' /\ Abreast'
           /\ LawfulStep
           /\ UNCHANGED done \/ \A h \in 1..done' : \A T \in At(h) : Status(T)' # "pending"
<1>0. /\ ChainTypeOK /\ IndexTypeOK /\ PendingTypeOK /\ done \in Heights
  BY DEF TypeOK
<1>a. UNCHANGED <<chain, done>> => Pace'
  BY DEF Pace
<1>b. UNCHANGED <<chainVars, indexVars, done>> => Solid' /\ Abreast'
  BY DEF chainVars, indexVars, Solid, SolidBlocks, SolidTips, SolidCycle, Canonical, At,
         Abreast, Cycling, TipHeight
<1>c. UNCHANGED chainVars => UNCHANGED chain
  BY DEF chainVars
<1>d. UNCHANGED counters => UNCHANGED done
  BY DEF counters
<1>1. CASE FirstSync
  <2>1. LawfulStep
    BY <1>0, <1>1, StillLawful, SnapshotLawful DEF FirstSync
  <2>2. Solid' /\ Abreast'
    BY <1>0, <1>1, FirstSyncSolid DEF FirstSync, Abreast
  <2> QED BY <1>1, <1>a, <1>c, <1>d, <2>1, <2>2 DEF FirstSync
<1>2. CASE FollowsChain
  <2>1. UNCHANGED <<chainVars, pendingVars, done>>
    BY <1>2, <1>d DEF FollowsChain
  <2>2. Solid' /\ Abreast'
    <3>1. \/ discoverChainTip \/ NoForkSeen \/ DetectionFails
          \/ NothingProcessed \/ UpToDate \/ fetchAndStoreNewBlocks \/ FetchFails \/ syncCatchup \/ CursorToTip
          \/ WalkEnds \/ CycleFails
          \/ \E b \in BlockIds : syncIncremental(b) \/ BlockProcessed(b)
          \/ MarkOrphans
      BY <1>2 DEF FollowsChain, Unknown404, HeightGone
    <3>2. ~MarkOrphans
      BY <1>0, NoneDiffer DEF Stored
    <3> QED BY <1>0, <2>1, <3>1, <3>2, DetectSolid, SyncSolid, WalkSolid
  <2> QED BY <1>a, <1>c, <2>1, <2>2, StillLawful
<1>3. CASE ForkSeen
  BY <1>0, <1>3, NoneDiffer DEF ForkSeen
<1>4. CASE ProcessesTx
  <2>1. PICK x \in cycle.txs : TakeTx(x) /\ IF x.tx \in hashes[owner] THEN ConfirmReads(x.tx, x.at, FALSE)
                                            ELSE Discover(x.tx, x.at)
    BY <1>4 DEF ProcessesTx
  <2>2. x.tx \in Txs /\ OnChain(x.tx)
    <3>1. x \in Landed /\ x.tx \in At(x.at)
      BY <1>0 DEF IndexTypeOK, Solid, SolidCycle
    <3>2. x.tx \in Txs /\ x.at \in Nat \ {0} /\ Len(chain) \in Nat
      BY <1>0, <3>1, OfChain, BlockchainAssumption DEF Landed, Heights
    <3> QED BY <3>1, <3>2 DEF At, OnChain
  <2>3. LawfulStep
    BY <1>0, <2>1, <2>2, ConfirmLawful, DiscoverLawful
  <2>4. UNCHANGED <<chainVars, done>>
    BY <1>4, <1>d DEF ProcessesTx
  <2>5. Solid' /\ Abreast'
    BY <1>0, <2>1, <2>4, WalkSolid
  <2> QED BY <1>a, <1>c, <2>3, <2>4, <2>5
<1>5. CASE Reconciles
  <2>1. UNCHANGED <<chainVars, done>> /\ reconcileUtxos /\ Reconcile
    BY <1>5, <1>d DEF Reconciles
  <2> QED BY <1>0, <1>a, <1>c, <2>1, SnapshotLawful, SyncSolid
<1>6. CASE VerificationReads \/ VerifiesTx
  <2>1. CASE VerificationReads
    <3>1. UNCHANGED <<chainVars, pendingVars, done>> /\ VerificationStarts
      BY <2>1 DEF VerificationReads
    <3> QED BY <1>0, <1>a, <1>c, <3>1, StillLawful, WalkSolid
  <2>2. CASE VerifiesTx
    <3>1. UNCHANGED <<chainVars, indexVars, done>>
      BY <2>2 DEF VerifiesTx
    <3>2. LawfulStep
      <4>1. PICK T \in asked : IF OnChain(T) THEN ConfirmReads(T, HeightOf(T), TRUE) ELSE UNCHANGED pendingVars
        BY <2>2 DEF VerifiesTx
      <4>2. T \in Txs
        BY DEF TypeOK
      <4> QED BY <1>0, <4>1, <4>2, ConfirmLawful, StillLawful
    <3> QED BY <1>a, <1>b, <1>c, <3>1, <3>2
  <2> QED BY <1>6, <2>1, <2>2
<1>7. CASE ConfirmsTx
  <2>1. UNCHANGED <<chainVars, indexVars, done>>
    BY <1>7, <1>d DEF ConfirmsTx
  <2> QED BY <1>0, <1>7, <1>a, <1>b, <1>c, <2>1, ConfirmLawful DEF ConfirmsTx
<1>8. CASE CycleSettles
  <2>1. /\ UNCHANGED chainVars /\ CycleEnds /\ UpdateDepths
        /\ confirming = {} /\ asked = {}
        /\ done' = IF cycle.clean /\ Canonical(tip[owner]) THEN TipHeight(owner) ELSE done
    BY <1>8 DEF CycleSettles
  <2>2. LawfulStep /\ \A T \in Txs : Status(T)' = Status(T)
    BY <1>0, <2>1, DepthsLawful
  <2>3. Solid' /\ Abreast'
    BY <1>0, <2>1, WalkSolid
  <2>4. UNCHANGED done \/ \A h \in 1..done' : \A T \in At(h) : Status(T)' # "pending"
    <3>1. SUFFICES ASSUME cycle.clean, done' = TipHeight(owner), NEW h \in 1..TipHeight(owner), NEW T \in At(h)
                   PROVE  Status(T)' # "pending"
      BY <2>1
    <3>2. cycle.stage = "asking"
      BY <2>1 DEF CycleEnds
    <3>3. Status(T) # "pending"
      BY <2>1, <3>1, <3>2 DEF Asking
    <3>4. T \in Txs
      <4>1. h \in Nat \ {0}
        BY <1>0, LatestType, BlockchainAssumption
      <4> QED BY <1>0, <4>1, OfChain
    <3> QED BY <2>2, <3>3, <3>4
  <2>5. Pace'
    <3>1. TipHeight(owner) \in 0..Len(chain) /\ TipHeight(owner) >= done
      BY <1>0, <2>1, SolidTip DEF Solid, IndexTypeOK, Abreast, CycleEnds, Cycling
    <3>2. done \in Nat /\ Len(chain) \in Nat /\ MaxLag \in Nat
      BY <1>0, OfChain, BlockchainAssumption, UtxoIndexAssumption DEF Heights
    <3>3. done' \in {done, TipHeight(owner)} /\ chain' = chain
      BY <1>c, <2>1
    <3> QED BY <3>1, <3>2, <3>3 DEF Pace
  <2> QED BY <2>1, <2>2, <2>3, <2>4, <2>5
<1>9. CASE RequestFails
  <2>1. UNCHANGED <<chainVars, done>>
    BY <1>9 DEF RequestFails
  <2>2. Solid' /\ Abreast'
    BY <1>0, <1>9, <2>1, DetectSolid, SyncSolid, WalkSolid DEF RequestFails
  <2>3. LawfulStep
    BY <1>9, StillLawful DEF RequestFails
  <2> QED BY <1>a, <1>c, <2>1, <2>2, <2>3
<1>10. CASE Registers
  <2>1. UNCHANGED <<chainVars, indexVars, done>>
    BY <1>10, <1>d DEF Registers
  <2> QED BY <1>0, <1>10, <1>a, <1>b, <1>c, <2>1, RegisterLawful DEF Registers
<1>11. CASE ChecksDeadlines
  <2>1. UNCHANGED <<chainVars, indexVars, done>>
    BY <1>11, <1>d DEF ChecksDeadlines
  <2> QED BY <1>0, <1>11, <1>a, <1>b, <1>c, <2>1, DeadlineReadsLawful, DeadlineSavesLawful DEF ChecksDeadlines
<1>12. CASE RollsBack
  <2>1. UNCHANGED <<chainVars, indexVars, done>>
    BY <1>12, <1>d DEF RollsBack
  <2> QED BY <1>0, <1>12, <1>a, <1>b, <1>c, <2>1, RollbackLawful DEF RollsBack
<1>13. CASE TabReloads
  <2>1. UNCHANGED <<chainVars, done>>
    BY <1>13 DEF TabReloads
  <2> QED BY <1>0, <1>13, <1>a, <1>c, <2>1, LoadLawful, ReloadSolid DEF TabReloads
<1> QED BY <1>1, <1>2, <1>3, <1>4, <1>5, <1>6, <1>7, <1>8, <1>9, <1>10, <1>11, <1>12, <1>13 DEF Next

\* A chain that has not forked had not before.
LEMMA Unforked ==
    ASSUME TypeOK, [Next]_vars, forks' = 0
    PROVE  forks = 0 /\ ~ChainForks
<1>1. forks \in Nat
  BY DEF TypeOK, ChainTypeOK
<1>2. ASSUME ChainForks PROVE FALSE
  BY <1>1, <1>2 DEF ChainForks, Fork
<1>3. CASE ChainGrows
  BY <1>2, <1>3 DEF ChainGrows, Mine
<1>4. CASE UNCHANGED chainVars
  BY <1>2, <1>4 DEF chainVars
<1>5. ChainGrows \/ UNCHANGED chainVars
  BY <1>2 DEF Next, vars, FirstSync, FollowsChain, ForkSeen, ProcessesTx, Reconciles, VerifiesTx, ConfirmsTx,
              CycleSettles, RequestFails, Registers, ChecksDeadlines, RollsBack, TabReloads, VerificationReads
<1> QED BY <1>2, <1>3, <1>4, <1>5

LEMMA LandingNext ==
    ASSUME Paced, TypeOK, TypeOK', LandingInv, [Next]_vars
    PROVE  LandingInv'
<1> SUFFICES ASSUME forks' = 0 PROVE (Linear /\ Solid /\ Pace /\ Abreast /\ Punctual /\ Asking /\ Landing)'
  BY DEF LandingInv
<1>0. /\ ChainTypeOK /\ PendingTypeOK /\ PendingTypeOK' /\ forks \in Nat
  BY DEF TypeOK, ChainTypeOK
<1>1. forks = 0 /\ ~ChainForks
  BY Unforked
<1>2. Linear /\ Solid /\ Pace /\ Abreast /\ Punctual /\ Asking /\ Landing
  BY <1>1 DEF LandingInv
<1>3. CASE UNCHANGED vars
  <2>1. UNCHANGED <<chain, mined, blocks, tip, owner, cycle, entries, utxos, hashes, confirming, held, unwinding,
                    asked, done>>
    BY <1>3 DEF vars, chainVars, indexVars, pendingVars
  <2>2. (Linear /\ Solid /\ Pace /\ Abreast)'
    BY <1>2, <2>1 DEF Linear, Solid, SolidBlocks, SolidTips, SolidCycle, Canonical, At, Pace, Abreast, Cycling, TipHeight
  <2>3. (Punctual /\ Asking)'
    BY <1>2, <2>1 DEF Punctual, Asking, At, Status, TipHeight
  <2>4. Landing'
    BY <1>2, <2>1 DEF Landing, Recorded, Settled, Sighted, Deaths, Dead, Doomed, OnChain, At, Burials, Buried, Gone,
       Unclaimed, Status
  <2> QED BY <2>2, <2>3, <2>4
<1>4. CASE ChainGrows
  BY <1>1, <1>2, <1>4, GrowthLands, PunctualStep DEF Next
<1>5. CASE Next /\ ~ChainGrows
  <2>1. /\ UNCHANGED chainVars /\ Solid' /\ Pace' /\ Abreast' /\ LawfulStep
        /\ UNCHANGED done \/ \A h \in 1..done' : \A T \in At(h) : Status(T)' # "pending"
    BY <1>1, <1>2, <1>5, StepLawful
  <2>2. Linear'
    BY <1>2, <2>1, ChainKept
  <2>3. Landing'
    BY <1>0, <1>2, <2>1, LandingStep
  <2>4. Punctual' /\ Asking'
    BY <1>1, <1>2, <1>5, <2>1, PunctualStep, AskingStep
  <2> QED BY <2>1, <2>2, <2>3, <2>4
<1> QED BY <1>3, <1>4, <1>5

-----------------------------------------------------------------------------
(* Until the chain forks: what is promised of pending transactions            *)

LEMMA LandingAlways == ASSUME Paced PROVE Spec => [](TypeOK /\ LandingInv)
<1>1. Init => TypeOK /\ LandingInv
  BY InitType, LandingInit
<1>2. TypeOK /\ LandingInv /\ [Next]_vars => (TypeOK /\ LandingInv)'
  BY NextType, LandingNext
<1> QED BY <1>1, <1>2, PTL DEF Spec

\* While a deadline is late enough for how far the chain runs ahead of the clean
\* cycles, and a tab's tip rises under a deadline check, no tab gives up a
\* transaction that has landed, however old the read its check saves: until the
\* first fork.
THEOREM LandedNeverGivenUp == ASSUME Paced PROVE Spec => [](forks = 0 => LandedNotRolledBack)
<1>1. LandingInv => (forks = 0 => LandedNotRolledBack)
  BY DEF LandingInv, Landing, Deaths, Dead, GivenUp, Status, LandedNotRolledBack
<1> QED BY <1>1, LandingAlways, PTL

\* Then also nothing is left of a transaction that was rolled back: no later
\* step of any tab brings its output or its claim back.
THEOREM RolledBackIsGone == ASSUME Paced PROVE Spec => [](forks = 0 => RollbackComplete)
<1>1. LandingInv => (forks = 0 => RollbackComplete)
  BY Names DEF LandingInv, Landing, Burials, Gone, Unclaimed, Status, RollbackComplete, WithStatus
<1> QED BY <1>1, LandingAlways, PTL

\* Then no deadline check or rollback of any tab, saving an entry as it was when
\* read, overwrites a confirmation: what it read before the transaction landed
\* has not passed the gate.
THEOREM ConfirmedStays == ASSUME Paced, MaxForks = 0 PROVE Spec => OnlyForksUnconfirm
<1>1. TypeOK /\ TypeOK' /\ LandingInv /\ [Next]_vars
      => [\A T \in WithStatus({"confirmed"}) : entries'[T].status = "confirmed"]_vars
  <2>1. SUFFICES ASSUME TypeOK, TypeOK', LandingInv, [Next]_vars, ~UNCHANGED vars,
                        NEW T \in Txs, Status(T) = "confirmed"
                 PROVE  Status(T)' = "confirmed"
    BY DEF WithStatus, Status
  <2>2. forks = 0 /\ Linear /\ Solid /\ Pace /\ Abreast /\ Punctual /\ Asking /\ Landing
    BY <2>1 DEF TypeOK, ChainTypeOK, LandingInv
  <2>3. CASE ChainGrows \/ ChainForks
    BY <2>1, <2>3 DEF ChainGrows, ChainForks, pendingVars, Status
  <2>4. CASE ~(ChainGrows \/ ChainForks)
    <3>1. UNCHANGED chainVars /\ LawfulStep
      BY <2>1, <2>2, <2>4, StepLawful
    <3> QED BY <2>1, <2>2, <3>1, LawfulMoves DEF LawfulStep
  <2> QED BY <2>3, <2>4
<1>2. [\A T \in WithStatus({"confirmed"}) : entries'[T].status = "confirmed"]_vars
      => [\A T \in WithStatus({"confirmed"}) :
            entries'[T].status # "confirmed" =>
               /\ entries'[T].status = "pending"
               /\ \E b \in Stored : ~Canonical(b) /\ T \in mined[b]]_vars
  OBVIOUS
<1> QED BY <1>1, <1>2, LandingAlways, PTL DEF Spec, OnlyForksUnconfirm

-----------------------------------------------------------------------------
(* Until the chain forks: the cursor                                          *)

\* Among some blocks there is a highest one.
LEMMA HighestSome ==
    ASSUME NEW S \in SUBSET BlockIds, S # {}
    PROVE  Highest(S) # {}
<1> DEFINE heights == {Height(b) : b \in S}
<1>1. heights \in SUBSET (0..MaxHeight) /\ heights # {} /\ MaxHeight \in Nat
  BY BlockType, BlockchainAssumption DEF Heights
<1>2. PICK n \in heights : \A y \in heights : y <= n
  <2> HIDE DEF heights
  <2> QED BY <1>1, GreatestHeight
<1> QED BY <1>2 DEF Highest

LEMMA NextCursorType == (IndexTypeOK => CursorIs)'
BY CursorType, PTL

LEMMA CursorSame ==
    ASSUME IndexTypeOK, IndexTypeOK', Processed' = Processed
    PROVE  Cursor' = Cursor
<1>1. CursorIs /\ CursorIs' /\ MaxHeight \in Nat
  BY CursorType, NextCursorType, BlockchainAssumption
<1>2. Cursor \in Nat /\ Cursor' \in Nat
  BY <1>1 DEF CursorIs
<1>3. CASE Processed = {}
  BY <1>1, <1>3 DEF CursorIs
<1>4. CASE Processed # {}
  <2>1. PICK b \in Processed : Height(b) = Cursor
    BY <1>1, <1>4 DEF CursorIs
  <2>2. PICK d \in Processed' : Height(d) = Cursor'
    BY <1>1, <1>4 DEF CursorIs
  <2>3. Height(b) <= Cursor' /\ Height(d) <= Cursor
    BY <1>1, <2>1, <2>2 DEF CursorIs
  <2> QED BY <1>2, <2>1, <2>2, <2>3
<1> QED BY <1>3, <1>4

-----------------------------------------------------------------------------
(* Until the chain forks: the outputs                                         *)

\* A transaction that is not given up has its output in the index.
Alive == {"pending", "confirmed"}
Outputs ==
    /\ \A T \in Txs : Status(T) \in Alive => utxos[T] # "absent"
    /\ \A k \in confirming : utxos[k.tx] # "absent"

\* Only a rollback takes an output away, and none is missing of what becomes alive.
OutputsLawful ==
    /\ \A T \in Txs : utxos[T] # "absent" /\ Status(T) \notin GivenUp => utxos'[T] # "absent"
    /\ \A T \in Txs : Status(T)' \in Alive => Status(T) \in Alive \/ utxos'[T] # "absent"
    /\ \A k \in confirming' : k \in confirming \/ utxos'[k.tx] # "absent"

\* What is on the chain and in the index stays there.
IndexedKept == \A T \in Txs : OnChain(T) /\ Indexed(T) => Indexed(T)'

LEMMA OutputsStep ==
    ASSUME PendingTypeOK, Landing, UNCHANGED chainVars, Outputs, LawfulStep, OutputsLawful
    PROVE  Outputs' /\ IndexedKept
<1>1. ASSUME NEW T \in Txs, OnChain(T)
      PROVE  Status(T) \notin GivenUp /\ Status(T)' \notin GivenUp
             /\ (Status(T) \in Alive => Status(T)' \in Alive)
  <2>1. ~Dead(T)
    BY <1>1 DEF Dead
  <2>2. Status(T) \notin GivenUp
    BY <2>1 DEF Landing, Deaths
  <2>3. Status(T)' \notin GivenUp
    BY <2>1, LawfulMoves DEF LawfulStep
  <2>4. Lawful(T)
    BY DEF LawfulStep
  <2> QED BY <1>1, <2>1, <2>2, <2>3, <2>4 DEF Lawful, Alive
<1>2. \A k \in confirming : k.tx \in Txs /\ OnChain(k.tx) /\ utxos[k.tx] # "absent"
  BY DEF PendingTypeOK, Landing, Sighted, Outputs
<1>3. \A T \in Txs : Status(T)' \in Alive => utxos'[T] # "absent"
  <2>1. \A T \in Txs : Status(T) \in Alive => utxos[T] # "absent" /\ Status(T) \notin GivenUp
    BY DEF Outputs, Alive, GivenUp
  <2> QED BY <2>1 DEF OutputsLawful
<1>4. \A k \in confirming' : utxos'[k.tx] # "absent"
  BY <1>1, <1>2 DEF OutputsLawful
<1>5. \A T : Indexed(T) <=> Status(T) \in Alive /\ utxos[T] # "absent"
  BY DEF Indexed, Status, Alive
<1>6. \A T : Indexed(T)' <=> Status(T)' \in Alive /\ utxos'[T] # "absent"
  BY DEF Indexed, Status, Alive
<1>7. IndexedKept
  BY <1>1, <1>3, <1>5, <1>6 DEF IndexedKept
<1> QED BY <1>3, <1>4, <1>7 DEF Outputs

LEMMA StillOutputs ==
    ASSUME UNCHANGED utxos, confirming' \subseteq confirming,
           \A T \in Txs : Status(T)' \in Alive => Status(T) \in Alive
    PROVE  OutputsLawful
BY DEF OutputsLawful

LEMMA SnapshotOutputs ==
    ASSUME PendingTypeOK, IndexSnapshot \/ Reconcile
    PROVE  OutputsLawful
<1>1. UNCHANGED <<entries, confirming>>
  BY DEF IndexSnapshot, Reconcile
<1>2. \A T \in Txs : utxos'[T] \in {utxos[T], "unspent", "reconciled"}
  BY Names DEF IndexSnapshot, Reconcile
<1> QED BY <1>1, <1>2 DEF OutputsLawful, Status

LEMMA RegisterOutputs ==
    ASSUME PendingTypeOK, NEW t \in Tabs, NEW T, registerPendingTx(t, T)
    PROVE  OutputsLawful
<1>1. T \in Txs /\ Input[T] \in Utxos /\ UNCHANGED confirming
  BY Names, UtxosType DEF registerPendingTx
<1>2. \A S \in Txs : utxos'[S] \in {utxos[S], T, "unspent"}
  BY <1>1, Names DEF registerPendingTx, PendingTypeOK
<1>3. utxos'[T] = "unspent"
  BY <1>1, Names DEF registerPendingTx, PendingTypeOK
<1>4. \A S \in Txs \ {T} : Status(S)' = Status(S)
  BY DEF registerPendingTx, PendingTypeOK, Status
<1>5. T # "absent"
  BY <1>1, Names
<1> QED BY <1>1, <1>2, <1>3, <1>4, <1>5 DEF OutputsLawful

LEMMA ConfirmOutputs ==
    ASSUME PendingTypeOK, Outputs
    PROVE  /\ \A T \in Txs : \A h, known : ConfirmReads(T, h, known) => OutputsLawful
           /\ \A k \in confirming : ConfirmSaves(k) => OutputsLawful
<1>1. ASSUME NEW T \in Txs, NEW h, NEW known, ConfirmReads(T, h, known) PROVE OutputsLawful
  <2>1. UNCHANGED entries /\ T \in Utxos
    BY <1>1, Names DEF ConfirmReads
  <2>2. CASE UNCHANGED <<utxos, confirming>>
    BY <2>1, <2>2, StillOutputs DEF Status
  <2>3. CASE Status(T) = "pending"
    <3>1. utxos' = utxos \/ utxos' = [utxos EXCEPT ![T] = "unspent"]
      BY <1>1 DEF ConfirmReads
    <3>2. \A S \in Txs : utxos'[S] \in {utxos[S], "unspent"}
      BY <3>1, Names DEF PendingTypeOK
    <3>3. utxos'[T] # "absent"
      BY <2>3, <3>2 DEF Outputs, Alive
    <3>4. \A k \in confirming' : k.tx = T
      BY <1>1, <2>3 DEF ConfirmReads, Status
    <3> QED BY <2>1, <3>2, <3>3, <3>4 DEF OutputsLawful, Status
  <2> QED BY <1>1, <2>2, <2>3 DEF ConfirmReads, Status
<1>2. ASSUME NEW k \in confirming, ConfirmSaves(k) PROVE OutputsLawful
  <2>1. utxos' = utxos /\ confirming' \subseteq confirming /\ k.tx \in Txs
    BY <1>2 DEF ConfirmSaves, PendingTypeOK
  <2>2. utxos[k.tx] # "absent"
    BY DEF Outputs
  <2>3. \A S \in Txs \ {k.tx} : Status(S)' = Status(S)
    BY <1>2 DEF ConfirmSaves, PendingTypeOK, Status
  <2> QED BY <2>1, <2>2, <2>3 DEF OutputsLawful
<1> QED BY <1>1, <1>2

LEMMA DiscoverOutputs ==
    ASSUME PendingTypeOK, NEW T \in Txs, NEW h, Discover(T, h)
    PROVE  OutputsLawful /\ utxos'[T] # "absent" /\ Status(T)' # "none"
<1>1. UNCHANGED confirming /\ T \in Utxos
  BY Names DEF Discover
<1>2. \A S \in Txs : utxos'[S] \in {utxos[S], T, "unspent"}
  BY Names DEF Discover
<1>3. utxos'[T] # "absent"
  <2>1. utxos[T] = "absent" => utxos'[T] = "unspent"
    BY <1>1 DEF Discover
  <2>2. utxos'[T] \in {utxos[T], T, "unspent"} /\ T # "absent"
    BY <1>2, Names
  <2>3. utxos[T] # "absent" => utxos'[T] # "absent"
    BY <2>2
  <2> QED BY <2>1, <2>3
<1>4. /\ \A S \in Txs : Status(S)' = Status(S) \/ (Status(S)' = "confirmed" /\ S = T)
      /\ Status(T)' # "none"
  BY DiscoverStatus
<1>5. \A S \in Txs : utxos[S] # "absent" => utxos'[S] # "absent"
  BY <1>2, Names
<1> QED BY <1>1, <1>3, <1>4, <1>5 DEF OutputsLawful

\* the steps that leave the outputs alone, and make no transaction alive
LEMMA OtherAlive ==
    ASSUME PendingTypeOK, NEW t \in Tabs,
           \/ UpdateDepths \/ loadPendingFromStore(t)
           \/ DeadlineReads(t) \/ DeadlineSaves(t) \/ RollbackReads(t) \/ RollbackEnds(t)
    PROVE  /\ UNCHANGED utxos /\ confirming' \subseteq confirming
           /\ \A T \in Txs : Status(T)' \in Alive => Status(T) \in Alive
<1>1. CASE UpdateDepths
  <2>1. ASSUME NEW T \in Txs PROVE Status(T)' = Status(T)
    <3>1. entries'[T] = entries[T] \/ entries'[T] = [entries[T] EXCEPT !.provisional = FALSE]
      BY <1>1 DEF UpdateDepths
    <3>2. [entries[T] EXCEPT !.provisional = FALSE].status = entries[T].status
      BY DEF PendingTypeOK, Entries
    <3> QED BY <3>1, <3>2 DEF Status
  <2> QED BY <1>1, <2>1 DEF UpdateDepths
<1>2. CASE loadPendingFromStore(t)
  BY <1>2 DEF loadPendingFromStore, Status
<1>3. CASE DeadlineSaves(t)
  <2>1. PICK r \in held[t] :
         entries' = IF DeadlineDeep(t, r.tx)
                    THEN [entries EXCEPT ![r.tx] = [r.entry EXCEPT !.status = "rollback-pending"]]
                    ELSE entries
    BY <1>3 DEF DeadlineSaves
  <2>2. r.tx \in Txs /\ r.entry \in Entries
    BY HeldTypes
  <2>3. [r.entry EXCEPT !.status = "rollback-pending"].status = "rollback-pending"
    BY <2>2 DEF Entries
  <2>4. \A S \in Txs : Status(S)' = Status(S) \/ Status(S)' = "rollback-pending"
    BY <2>1, <2>2, <2>3 DEF PendingTypeOK, Status
  <2> QED BY <1>3, <2>4 DEF DeadlineSaves, Alive
<1>4. CASE DeadlineReads(t) \/ RollbackReads(t)
  BY <1>4 DEF DeadlineReads, RollbackReads, Status
<1>5. CASE RollbackEnds(t)
  <2>1. PICK r \in unwinding[t] : entries' = [entries EXCEPT ![r.tx] = [r.entry EXCEPT !.status = "rolled-back"]]
    BY <1>5 DEF RollbackEnds
  <2>2. r.tx \in Txs /\ r.entry \in Entries
    BY HeldTypes
  <2>3. [r.entry EXCEPT !.status = "rolled-back"].status = "rolled-back"
    BY <2>2 DEF Entries
  <2>4. \A S \in Txs : Status(S)' = Status(S) \/ Status(S)' = "rolled-back"
    BY <2>1, <2>2, <2>3 DEF PendingTypeOK, Status
  <2> QED BY <1>5, <2>4 DEF RollbackEnds, Alive
<1> QED BY <1>1, <1>2, <1>3, <1>4, <1>5

LEMMA OtherOutputs ==
    ASSUME PendingTypeOK, Landing, NEW t \in Tabs,
           \/ UpdateDepths \/ loadPendingFromStore(t)
           \/ DeadlineReads(t) \/ DeadlineSaves(t)
           \/ RollbackReads(t) \/ RollbackClears(t) \/ RollbackDeletes(t) \/ RollbackEnds(t)
    PROVE  OutputsLawful
<1>1. CASE ~RollbackClears(t) /\ ~RollbackDeletes(t)
  BY <1>1, OtherAlive, StillOutputs
<1>2. CASE RollbackClears(t)
  <2>1. UNCHANGED <<entries, confirming>>
    BY <1>2 DEF RollbackClears
  <2>2. \A u \in Utxos : utxos'[u] \in {utxos[u], "unspent"}
    BY <1>2 DEF RollbackClears
  <2> QED BY <2>1, <2>2, Names DEF OutputsLawful, Status
<1>3. CASE RollbackDeletes(t)
  <2>1. UNCHANGED <<entries, confirming>>
    BY <1>3 DEF RollbackDeletes
  <2>2. PICK r \in unwinding[t] : utxos' = [utxos EXCEPT ![r.tx] = "absent"]
    BY <1>3 DEF RollbackDeletes
  <2>3. Status(r.tx) \in GivenUp
    BY DEF Landing, Deaths
  <2>4. \A S \in Txs : Status(S) \notin GivenUp => utxos'[S] = utxos[S]
    BY <2>2, <2>3, Names DEF PendingTypeOK
  <2> QED BY <2>1, <2>4 DEF OutputsLawful, Status
<1> QED BY <1>1, <1>2, <1>3

-----------------------------------------------------------------------------
(* Until the chain forks: no gap in the index                                 *)

NoGap == \A h \in (Height(base) + 1)..Cursor : \A T \in At(h) : Indexed(T)

\* From the cursor to any block that is stored, every block is.
Contiguous ==
    /\ \A b \in BlockIds : blocks[b] # "rolled back"
    /\ Processed # {} => \A d \in Stored : \A h \in Cursor..Height(d) : <<h, 0>> \in Stored
    /\ Cycling => \A b \in Stored : Height(b) <= TipHeight(owner)

\* where the initial sync and the walk of the blocks begin
Begun ==
    /\ cycle.stage = "snapshot" => Stored = {}
    /\ cycle.stage = "stored" => cycle.todo = {base} /\ Stored \subseteq {base} /\ Processed = {}
    /\ cycle.stage \in {"walk", "block"} => Processed # {} /\ cycle.todo = getUnprocessedBlocks

\* the transactions of a height, taken or about to be
Taken(h) == \A T \in At(h) : Indexed(T) \/ [tx |-> T, at |-> h] \in cycle.txs
TakingBlock == cycle.stage = "block" => \A b \in LowestTodo : Taken(Height(b))
TakingRest ==
    /\ cycle.stage \in {"catchup", "reconciled"} =>
          TipHeight(owner) > Cursor /\ \A h \in (Cursor + 1)..TipHeight(owner) : Taken(h)
    /\ cycle.stage = "reconciled" => cycle.txs = {}

\* Before a transaction is taken, those before it are.
TakingOrder ==
    cycle.stage \in {"block", "catchup"} =>
        \A x \in cycle.txs : \A h \in (Height(base) + 1)..(x.at - 1) : Taken(h)

Gapless == NoGap /\ Contiguous /\ Begun /\ TakingBlock /\ TakingRest /\ TakingOrder

\* The transactions of a height are on the chain.
LEMMA AtOnChain ==
    ASSUME ChainTypeOK, NEW h \in Nat \ {0}, NEW T \in At(h)
    PROVE  T \in Txs /\ OnChain(T) /\ h \in 1..Len(chain)
BY OfChain, BlockchainAssumption DEF At, OnChain, Heights

\* What is taken stays taken while the index keeps what it has.
LEMMA TakenKept ==
    ASSUME ChainTypeOK, UNCHANGED chainVars, IndexedKept, NEW h \in Nat \ {0}, Taken(h),
           \A x \in cycle.txs : x \in cycle'.txs \/ Indexed(x.tx)'
    PROVE  Taken(h)'
<1>1. At(h)' = At(h)
  BY ChainKept
<1>2. ASSUME NEW T \in At(h) PROVE Indexed(T)' \/ [tx |-> T, at |-> h] \in cycle'.txs
  <2>1. T \in Txs /\ OnChain(T)
    BY AtOnChain
  <2>2. CASE Indexed(T)
    BY <2>1, <2>2 DEF IndexedKept
  <2>3. CASE [tx |-> T, at |-> h] \in cycle.txs
    BY <2>3
  <2> QED BY <2>2, <2>3 DEF Taken
<1> QED BY <1>1, <1>2 DEF Taken

\* a step that leaves the blocks alone
LEMMA GapKept ==
    ASSUME ChainTypeOK, IndexTypeOK, IndexTypeOK', UNCHANGED <<chainVars, blocks, base>>,
           IndexedKept, NoGap
    PROVE  NoGap' /\ Processed' = Processed /\ Stored' = Stored /\ Cursor' = Cursor
<1>1. Processed' = Processed /\ Stored' = Stored
  BY DEF Processed, Stored
<1>2. Cursor' = Cursor
  BY <1>1, CursorSame
<1>3. ASSUME NEW h \in (Height(base) + 1)..Cursor, NEW T \in At(h)
      PROVE  Indexed(T)'
  <2>1. h \in Nat \ {0}
    BY BlockType, LatestType, BlockchainAssumption DEF IndexTypeOK, Blk
  <2>2. T \in Txs /\ OnChain(T)
    BY <2>1, AtOnChain
  <2> QED BY <2>2 DEF NoGap, IndexedKept
<1>4. \A h : At(h)' = At(h)
  BY ChainKept
<1> QED BY <1>1, <1>2, <1>3, <1>4 DEF NoGap

\* where the steps of the index start from
Grounds ==
    /\ ChainTypeOK /\ IndexTypeOK /\ IndexTypeOK' /\ Linear /\ Solid
    /\ UNCHANGED chainVars /\ IndexedKept /\ Gapless

\* a step that neither processes nor walks
LEMMA GapRested ==
    ASSUME Grounds, UNCHANGED <<blocks, base>>,
           cycle'.stage \notin {"snapshot", "stored", "walk", "block", "catchup", "reconciled"},
           Cycling' => \A b \in Stored : Height(b) <= TipHeight(owner)'
    PROVE  Gapless'
<1>1. NoGap' /\ Processed' = Processed /\ Stored' = Stored /\ Cursor' = Cursor
  BY GapKept DEF Grounds, Gapless
<1>2. Contiguous'
  BY <1>1 DEF Grounds, Gapless, Contiguous
<1>3. Begun' /\ TakingBlock' /\ TakingRest' /\ TakingOrder'
  BY DEF Begun, TakingBlock, TakingRest, TakingOrder
<1> QED BY <1>1, <1>2, <1>3 DEF Gapless

\* what a stage has still to do
LEMMA Heighted ==
    ASSUME ChainTypeOK, IndexTypeOK
    PROVE  /\ \A b \in LowestTodo : b \in BlockIds /\ b \in cycle.todo /\ Height(b) \in Nat \ {0}
           /\ \A h \in (Cursor + 1)..TipHeight(owner) : h \in Nat \ {0}
           /\ \A x \in cycle.txs : \A h \in (Height(base) + 1)..(x.at - 1) : h \in Nat \ {0}
           /\ Cursor \in Nat /\ TipHeight(owner) \in Nat /\ Height(base) \in Nat
<1>1. Cursor \in Nat /\ TipHeight(owner) \in Nat
  BY LatestType, BlockchainAssumption
<1>2. \A b \in LowestTodo : b \in BlockIds /\ b \in cycle.todo
  BY DEF LowestTodo, IndexTypeOK
<1>3. Height(base) \in Nat
  BY BlockType, BlockchainAssumption DEF IndexTypeOK, Blk
<1>4. \A x \in cycle.txs : x.at \in Nat
  BY BlockchainAssumption DEF IndexTypeOK, Landed, Heights
<1> QED BY <1>1, <1>2, <1>3, <1>4, BlockType DEF Heights

\* a step that leaves the cycle where it is
LEMMA GapStill ==
    ASSUME Grounds, UNCHANGED <<blocks, base, owner>>, cycle'.stage = cycle.stage, cycle'.todo = cycle.todo,
           TipHeight(owner)' = TipHeight(owner), cycle'.txs \subseteq cycle.txs,
           \A x \in cycle.txs : x \in cycle'.txs \/ Indexed(x.tx)'
    PROVE  Gapless'
<1>1. NoGap' /\ Processed' = Processed /\ Stored' = Stored /\ Cursor' = Cursor
  BY GapKept DEF Grounds, Gapless
<1>2. Contiguous' /\ Begun'
  BY <1>1 DEF Grounds, Gapless, Contiguous, Begun, Cycling, getUnprocessedBlocks
<1>3. \A h \in Nat \ {0} : Taken(h) => Taken(h)'
  BY TakenKept DEF Grounds
<1>4. TakingBlock'
  <2>1. LowestTodo' = LowestTodo
    BY DEF LowestTodo
  <2> QED BY <1>3, <2>1, Heighted DEF Grounds, Gapless, TakingBlock
<1>5. TakingRest'
  <2>1. cycle.txs = {} => cycle'.txs = {}
    OBVIOUS
  <2> QED BY <1>1, <1>3, <2>1, Heighted DEF Grounds, Gapless, TakingRest
<1>6. TakingOrder'
  <2>1. \A x \in cycle.txs : \A h \in (Height(base) + 1)..(x.at - 1) : h \in Nat \ {0}
    BY Heighted DEF Grounds
  <2> QED BY <1>3, <2>1 DEF Grounds, Gapless, TakingOrder
<1> QED BY <1>1, <1>2, <1>4, <1>5, <1>6 DEF Gapless

LEMMA GapFirstSync ==
    ASSUME Grounds, ~SlowFirstSync, FirstSnapshot \/ fetchAndStoreLatestBlock \/ FirstSyncEnds
    PROVE  Gapless'
<1>0. /\ ChainTypeOK /\ IndexTypeOK /\ IndexTypeOK' /\ CursorIs /\ CursorIs'
      /\ Processed \subseteq Stored /\ base \in Blk /\ base' \in Blk
  BY CursorType, NextCursorType DEF Grounds, Processed, Stored, IndexTypeOK, Blk
<1>1. Height(base) \in Nat /\ Height(base') \in Nat
  BY <1>0, BlockType, BlockchainAssumption
<1>2. CASE FirstSnapshot
  <2>1. Stored = {}
    <3>1. Stored # {} => getLatestBlock # {}
      BY HighestSome DEF getLatestBlock, Stored
    <3> QED BY <1>2, <3>1 DEF FirstSnapshot
  <2>2. Stored' = {} /\ Processed' = {} /\ cycle'.stage = "snapshot" /\ blocks' = blocks
    BY <1>0, <1>2, <2>1, Rested DEF FirstSnapshot, Stored, Processed
  <2>3. Cursor' = 0
    BY <1>0, <2>2 DEF CursorIs
  <2>4. NoGap'
    BY <1>1, <2>3 DEF NoGap
  <2>5. Contiguous'
    BY <2>2 DEF Grounds, Gapless, Contiguous
  <2> QED BY <2>2, <2>4, <2>5 DEF Gapless, Begun, TakingBlock, TakingRest, TakingOrder
<1>3. CASE fetchAndStoreLatestBlock
  <2>1. /\ Top = base /\ Stored = {} /\ Processed = {} /\ base' = base
        /\ cycle'.stage = "stored" /\ cycle'.todo = {Top} /\ cycle'.txs = {}
    BY <1>0, <1>3 DEF fetchAndStoreLatestBlock, Idle, Grounds, Gapless, Begun
  <2>2. \A b \in BlockIds : blocks'[b] = blocks[b] \/ (b = Top /\ blocks'[b] = "unprocessed")
    BY <1>3 DEF fetchAndStoreLatestBlock, Save
  <2>3. Processed' = {} /\ Stored' \subseteq {base} /\ \A b \in BlockIds : blocks'[b] # "rolled back"
    BY <2>1, <2>2 DEF Processed, Stored, Grounds, Gapless, Contiguous
  <2>4. Cursor' = 0
    BY <1>0, <2>3 DEF CursorIs
  <2>5. NoGap'
    BY <1>1, <2>4 DEF NoGap
  <2>6. Contiguous'
    BY <2>1, <2>3 DEF Contiguous, Cycling
  <2> QED BY <2>1, <2>3, <2>5, <2>6 DEF Gapless, Begun, TakingBlock, TakingRest, TakingOrder
<1>4. CASE FirstSyncEnds
  <2>1. /\ cycle.todo = {base} /\ Stored \subseteq {base} /\ Processed = {} /\ base' = base
        /\ blocks' = Save({base}, "processed") /\ cycle'.stage = "idle"
    BY <1>4, Rested DEF FirstSyncEnds, Grounds, Gapless, Begun
  <2>2. \A b \in BlockIds : blocks'[b] = IF b = base THEN "processed" ELSE blocks[b]
    BY <2>1 DEF Save
  <2>3. Processed' \subseteq {base} /\ Stored' \subseteq {base} /\ Processed' \subseteq Stored'
        /\ \A b \in BlockIds : blocks'[b] # "rolled back"
    BY <2>1, <2>2 DEF Processed, Stored, Grounds, Gapless, Contiguous
  <2>4. Cursor' \in {0, Height(base)} /\ (Processed' # {} => Cursor' = Height(base))
    BY <1>0, <2>3 DEF CursorIs
  <2>5. NoGap'
    BY <1>1, <2>1, <2>4 DEF NoGap
  <2>6. base = <<Height(base), 0>>
    <3>1. Canonical(base)
      BY <2>1 DEF Grounds, Solid, SolidCycle
    <3>2. base[2] = 0
      BY <1>0, <3>1, LinearBlocks DEF Grounds
    <3>3. base = <<Height(base), base[2]>>
      BY <1>0, BlockType DEF Blk, NoBlock, Height
    <3> QED BY <3>2, <3>3
  <2>7. Contiguous'
    <3>1. ASSUME Processed' # {}, NEW d \in Stored', NEW h \in Cursor'..Height(d) PROVE <<h, 0>> \in Stored'
      <4>1. d = base /\ Cursor' = Height(base)
        BY <2>3, <2>4, <3>1
      <4>2. h \in Height(base)..Height(base)
        BY <3>1, <4>1
      <4>3. h = Height(base)
        BY <1>1, <4>2
      <4> QED BY <2>6, <3>1, <4>1, <4>3
    <3> QED BY <2>1, <2>3, <3>1 DEF Contiguous, Cycling
  <2> QED BY <2>1, <2>5, <2>7 DEF Gapless, Begun, TakingBlock, TakingRest, TakingOrder
<1> QED BY <1>2, <1>3, <1>4

\* the steps of a cycle that leave the blocks alone
LEMMA GapStage ==
    ASSUME Grounds,
           \/ discoverChainTip \/ NoForkSeen \/ DetectionFails \/ NothingProcessed \/ UpToDate
           \/ WalkEnds \/ VerificationStarts \/ AskFails \/ CycleEnds \/ CycleFails
    PROVE  Gapless'
<1>0. /\ ChainTypeOK /\ IndexTypeOK /\ Linear /\ Solid /\ UNCHANGED chain
      /\ \A b \in Stored : Height(b) \in 1..Len(chain)
  <2>1. /\ ChainTypeOK /\ IndexTypeOK /\ Linear /\ Solid /\ UNCHANGED chain
    BY DEF Grounds, chainVars
  <2>2. \A b \in Stored : Canonical(b)
    BY <2>1 DEF Stored, Solid, SolidBlocks
  <2> QED BY <2>1, <2>2 DEF Canonical
<1>1. CASE discoverChainTip
  <2>1. cycle'.stage = "detect" /\ UNCHANGED <<blocks, base, owner>>
    BY <1>1, Rested DEF discoverChainTip
  <2>2. TipHeight(owner)' = Len(chain)
    <3>1. PICK b \in Blk : /\ Height(HigherTip(b)) = Len(chain)
                           /\ tip' = [tip EXCEPT ![owner] = HigherTip(b)]
      <4>1. \A b \in getLatestBlock : b \in Blk /\ Canonical(b)
        BY <1>0, LatestType DEF Solid, SolidBlocks, Stored, Blk
      <4>2. tip[owner] \in Blk /\ owner \in Tabs
        BY <1>0 DEF IndexTypeOK, Blk
      <4>3. \A b \in getLatestBlock : Height(HigherTip(b)) = Len(chain)
        BY <1>0, <4>1, HigherTips
      <4>4. Height(HigherTip(tip[owner])) = Len(chain)
        BY <1>0, <4>2, SolidTip DEF Solid
      <4> QED BY <1>1, <4>1, <4>2, <4>3, <4>4 DEF discoverChainTip
    <3> QED BY <1>0, <2>1, <3>1 DEF TipHeight, IndexTypeOK
  <2>3. \A b \in Stored : Height(b) <= TipHeight(owner)'
    BY <1>0, <2>2, OfChain, BlockchainAssumption DEF Heights
  <2> QED BY <2>1, <2>3, GapRested
<1>2. CASE NoForkSeen \/ DetectionFails \/ UpToDate \/ WalkEnds \/ VerificationStarts \/ AskFails
  <2>1. cycle'.stage \in {"sync", "verify", "asking"} /\ UNCHANGED <<blocks, base, owner, tip>> /\ Cycling
    BY <1>2, Rested
       DEF NoForkSeen, DetectionFails, UpToDate, InStep, WalkEnds, VerificationStarts, AskFails, Cycling
  <2>2. \A b \in Stored : Height(b) <= TipHeight(owner)'
    BY <2>1 DEF Grounds, Gapless, Contiguous, TipHeight
  <2> QED BY <2>1, <2>2, GapRested
<1>3. CASE NothingProcessed \/ CycleEnds \/ CycleFails
  <2>1. cycle'.stage = "idle" /\ UNCHANGED <<blocks, base>>
    BY <1>3, Rested DEF NothingProcessed, CycleEnds, CycleFails
  <2> QED BY <2>1, GapRested DEF Cycling
<1> QED BY <1>1, <1>2, <1>3

LEMMA GapReload ==
    ASSUME Grounds, ~SlowFirstSync, NEW t \in Tabs, NEW next \in Tabs, Reload(t, next)
    PROVE  Gapless'
<1>1. CASE t # owner
  <2>1. UNCHANGED <<blocks, base, owner, cycle>> /\ TipHeight(owner)' = TipHeight(owner)
    BY <1>1 DEF Reload, TipHeight, Grounds, IndexTypeOK
  <2> QED BY <2>1, GapStill
<1>2. CASE t = owner
  <2>1. PICK stage \in {"start", "idle"} : To(stage)
    BY <1>2 DEF Reload
  <2>2. cycle'.stage \in {"start", "idle"} /\ UNCHANGED <<blocks, base>> /\ ~Cycling'
    BY <2>1, Rested DEF Reload, Cycling
  <2> QED BY <2>2, GapRested
<1> QED BY <1>1, <1>2

\* the steps that fetch blocks and transactions
LEMMA GapFetches ==
    ASSUME Grounds, Solid',
           \/ fetchAndStoreNewBlocks \/ FetchFails \/ syncCatchup \/ reconcileUtxos
           \/ \E b \in BlockIds : syncIncremental(b)
    PROVE  Gapless'
<1>0. /\ ChainTypeOK /\ IndexTypeOK /\ IndexTypeOK' /\ Linear /\ Solid /\ UNCHANGED chain
      /\ Contiguous /\ cycle \in Cycles /\ Len(chain) \in Heights /\ Len(chain) \in Nat
      /\ Cursor \in Nat /\ TipHeight(owner) \in Nat
  BY Heighted, OfChain, BlockchainAssumption DEF Grounds, Gapless, chainVars, IndexTypeOK, Cycles, Heights
<1>a. InStep => Processed # {} /\ Cycling
  BY DEF InStep, Cycling
<1>b. ASSUME cycle' = Walk \/ cycle' = [Walk EXCEPT !.clean = FALSE]
      PROVE  /\ cycle'.stage = "walk" /\ cycle'.todo = getUnprocessedBlocks'
             /\ TakingBlock' /\ TakingRest' /\ TakingOrder'
  <2>1. cycle'.stage = "walk" /\ cycle'.todo = {b \in BlockIds : blocks'[b] = "unprocessed"}
    BY <1>0, <1>b DEF Walk, Cycles
  <2> QED BY <2>1 DEF getUnprocessedBlocks, TakingBlock, TakingRest, TakingOrder
<1>1. CASE fetchAndStoreNewBlocks
  <2>1. PICK latest \in getLatestBlock :
          blocks' = Save({b \in BlockIds : /\ Canonical(b) /\ blocks[b] = "absent"
                                           /\ Height(b) > Height(latest)}, "unprocessed")
    BY <1>1 DEF fetchAndStoreNewBlocks
  <2>2. latest \in Stored /\ \A b \in Stored : Height(b) <= Height(latest)
    BY <1>0, LatestType DEF getLatestBlock, Highest
  <2>3. ASSUME NEW b \in BlockIds
        PROVE  \/ blocks'[b] = blocks[b] /\ (blocks[b] # "absent" \/ ~Canonical(b) \/ Height(b) <= Height(latest))
               \/ blocks[b] = "absent" /\ blocks'[b] = "unprocessed" /\ Canonical(b) /\ Height(b) > Height(latest)
    <3>1. Height(b) \in Nat /\ Height(latest) \in Nat
      BY <2>2, BlockType DEF Stored, Heights
    <3> QED BY <2>1, <3>1 DEF Save
  <2>4. Processed' = Processed /\ Stored \subseteq Stored'
    BY <2>3 DEF Processed, Stored
  <2>5. Cursor' = Cursor
    BY <1>0, <2>4, CursorSame
  <2>6. NoGap'
    <3>2. \A h : At(h)' = At(h)
      BY ChainKept DEF Grounds
    <3>3. base' = base /\ \A h \in (Height(base) + 1)..Cursor : h \in Nat \ {0}
      BY <1>0, <1>1, BlockType, BlockchainAssumption DEF fetchAndStoreNewBlocks, IndexTypeOK, Blk
    <3>4. \A h \in (Height(base) + 1)..Cursor : \A T \in At(h) : Indexed(T) => Indexed(T)'
      BY <1>0, <3>3, AtOnChain DEF Grounds, IndexedKept
    <3> QED BY <2>5, <3>2, <3>3, <3>4 DEF NoGap, Grounds, Gapless
  <2>7. Contiguous'
    <3>1. \A b \in BlockIds : blocks'[b] # "rolled back"
      BY <1>0, <2>3 DEF Contiguous
    <3>2. ASSUME NEW d \in Stored', NEW h \in Cursor..Height(d) PROVE <<h, 0>> \in Stored'
      <4>0. Processed # {} /\ d \in BlockIds /\ Height(latest) \in Nat /\ Height(d) \in Nat /\ h \in Nat
        BY <1>0, <1>1, <1>a, <2>2, <3>2, BlockType DEF fetchAndStoreNewBlocks, Stored, Heights
      <4>1. CASE d \in Stored
        BY <1>0, <2>4, <3>2, <4>0, <4>1 DEF Contiguous
      <4>2. CASE d \notin Stored /\ h <= Height(latest)
        <5>1. h \in Cursor..Height(latest)
          BY <1>0, <3>2, <4>0, <4>2
        <5> QED BY <1>0, <2>2, <2>4, <4>0, <5>1 DEF Contiguous
      <4>3. CASE d \notin Stored /\ h > Height(latest)
        <5>1. Canonical(d)
          BY <2>3, <3>2, <4>0, <4>3 DEF Stored
        <5>2. h \in 1..Len(chain)
          BY <1>0, <3>2, <4>0, <4>3, <5>1 DEF Canonical
        <5>3. <<h, 0>> \in BlockIds /\ Canonical(<<h, 0>>) /\ Height(<<h, 0>>) = h
          BY <1>0, <5>2, LinearBlocks, OfChain DEF Linear
        <5>4. blocks'[<<h, 0>>] # "absent"
          BY <2>3, <4>0, <4>3, <5>3
        <5> QED BY <1>0, <3>1, <5>3, <5>4 DEF Stored, IndexTypeOK, BlockStates
      <4> QED BY <4>0, <4>1, <4>2, <4>3
    <3>3. \A b \in Stored' : Height(b) <= TipHeight(owner)'
      <4>1. TipHeight(owner)' = Len(chain)
        BY <1>0, <1>1, SolidTip DEF fetchAndStoreNewBlocks, TipHeight, IndexTypeOK, Solid
      <4>2. \A b \in Stored' : Canonical(b)' /\ Height(b) \in Nat
        BY BlockType DEF Solid, SolidBlocks, Stored, Heights
      <4> QED BY <1>0, <4>1, <4>2 DEF Canonical
    <3> QED BY <2>5, <3>1, <3>2, <3>3 DEF Contiguous
  <2>8. Begun' /\ TakingBlock' /\ TakingRest' /\ TakingOrder'
    BY <1>1, <1>a, <1>b, <2>4 DEF fetchAndStoreNewBlocks, Begun
  <2> QED BY <2>6, <2>7, <2>8 DEF Gapless
<1>2. CASE FetchFails
  <2>1. NoGap' /\ Processed' = Processed /\ Stored' = Stored /\ Cursor' = Cursor
    BY <1>2, GapKept DEF FetchFails, Grounds, Gapless
  <2>2. Contiguous'
    BY <1>0, <1>2, <1>a, <2>1 DEF FetchFails, Contiguous, TipHeight
  <2>3. Begun' /\ TakingBlock' /\ TakingRest' /\ TakingOrder'
    BY <1>2, <1>a, <1>b, <2>1 DEF FetchFails, Begun
  <2> QED BY <2>1, <2>2, <2>3 DEF Gapless
<1>3. CASE syncCatchup
  <2>1. NoGap' /\ Processed' = Processed /\ Stored' = Stored /\ Cursor' = Cursor
    BY <1>3, GapKept DEF syncCatchup, Grounds, Gapless
  <2>2. /\ cycle'.stage = "catchup" /\ UNCHANGED <<tip, owner>>
        /\ cycle'.txs = {x \in Landed : x.at > Cursor /\ x.tx \in At(x.at)}
    BY <1>0, <1>3 DEF syncCatchup, Cycles
  <2>3. Contiguous' /\ Begun' /\ TakingBlock'
    BY <1>0, <1>3, <1>a, <2>1, <2>2 DEF syncCatchup, Contiguous, TipHeight, Begun, TakingBlock
  <2>4. TipHeight(owner) > Cursor
    BY <1>0, <1>3, ChainIndexAssumption DEF syncCatchup, Gap
  <2>5. ASSUME NEW h \in (Cursor + 1)..TipHeight(owner), NEW T \in At(h)
        PROVE  [tx |-> T, at |-> h] \in cycle'.txs
    <3>1. h \in Nat \ {0} /\ h > Cursor
      BY <1>0, <2>5
    <3>2. T \in Txs /\ h \in 1..Len(chain)
      BY <1>0, <2>5, <3>1, AtOnChain
    <3>3. h \in Heights
      BY <1>0, <3>2, BlockchainAssumption DEF Heights
    <3> QED BY <2>2, <2>5, <3>1, <3>2, <3>3 DEF Landed
  <2>6. \A h : At(h)' = At(h)
    BY ChainKept DEF Grounds
  <2>7. TakingRest'
    BY <2>1, <2>2, <2>4, <2>5, <2>6 DEF TakingRest, Taken, TipHeight
  <2>8. TakingOrder'
    <3>1. SUFFICES ASSUME NEW x \in cycle'.txs, NEW h \in (Height(base) + 1)..(x.at - 1), NEW T \in At(h)
                   PROVE  Indexed(T)' \/ [tx |-> T, at |-> h] \in cycle'.txs
      BY <1>3, <2>6 DEF syncCatchup, TakingOrder, Taken
    <3>2. x.at \in Nat /\ h \in Nat \ {0} /\ Height(base) \in Nat
      BY <1>0, <2>2, <3>1, Heighted, BlockchainAssumption DEF Landed, Heights
    <3>3. T \in Txs /\ OnChain(T) /\ h \in 1..Len(chain)
      BY <1>0, <3>1, <3>2, AtOnChain
    <3>4. CASE h <= Cursor
      <4>1. h \in (Height(base) + 1)..Cursor
        BY <1>0, <3>1, <3>2, <3>4
      <4> QED BY <3>1, <3>3, <4>1 DEF Grounds, Gapless, NoGap, IndexedKept
    <3>5. CASE h > Cursor
      <4>1. h \in Heights
        BY <1>0, <3>3, BlockchainAssumption DEF Heights
      <4> QED BY <2>2, <3>1, <3>3, <3>5, <4>1 DEF Landed
    <3> QED BY <1>0, <3>2, <3>4, <3>5
  <2> QED BY <2>1, <2>3, <2>7, <2>8 DEF Gapless
<1>4. CASE reconcileUtxos
  <2>1. NoGap' /\ Processed' = Processed /\ Stored' = Stored /\ Cursor' = Cursor
    BY <1>4, GapKept DEF reconcileUtxos, Grounds, Gapless
  <2>2. /\ cycle.stage = "catchup" /\ cycle.txs = {} /\ cycle'.stage = "reconciled" /\ cycle'.txs = {}
        /\ UNCHANGED <<blocks, tip, owner>> /\ Cycling
    BY <1>4, Rested DEF reconcileUtxos, Cycling
  <2>3. Contiguous' /\ Begun' /\ TakingBlock' /\ TakingOrder'
    BY <1>0, <2>1, <2>2 DEF Contiguous, TipHeight, Begun, TakingBlock, TakingOrder
  <2>4. \A h \in (Cursor + 1)..TipHeight(owner) : Taken(h)'
    BY <2>2, TakenKept, Heighted DEF Grounds, Gapless, TakingRest
  <2>5. TakingRest'
    BY <2>1, <2>2, <2>4 DEF Grounds, Gapless, TakingRest, TipHeight
  <2> QED BY <2>1, <2>3, <2>5 DEF Gapless
<1>5. ASSUME NEW b \in BlockIds, syncIncremental(b) PROVE Gapless'
  <2>1. NoGap' /\ Processed' = Processed /\ Stored' = Stored /\ Cursor' = Cursor
    BY <1>5, GapKept DEF syncIncremental, Grounds, Gapless
  <2>2. /\ cycle.stage = "walk" /\ cycle'.stage = "block" /\ cycle'.todo = cycle.todo /\ Cycling
        /\ cycle'.txs = {[tx |-> T, at |-> Height(b)] : T \in At(Height(b))}
        /\ UNCHANGED <<blocks, tip, owner>> /\ b \in LowestTodo
    BY <1>0, <1>5 DEF syncIncremental, Cycles, Cycling
  <2>3. Contiguous' /\ Begun' /\ TakingRest'
    BY <1>0, <2>1, <2>2 DEF Contiguous, TipHeight, Begun, TakingRest, Grounds, Gapless, getUnprocessedBlocks
  <2>4. \A d \in LowestTodo' : Height(d) = Height(b)
    <3>1. \A d \in LowestTodo : d \in cycle.todo /\ Height(d) \in Nat
      BY <1>0, Heighted
    <3> QED BY <2>2, <3>1 DEF LowestTodo
  <2>5. At(Height(b))' = At(Height(b))
    BY ChainKept DEF Grounds
  <2>6. TakingBlock'
    BY <2>2, <2>4, <2>5 DEF TakingBlock, Taken
  <2>7. TakingOrder'
    <3>1. SUFFICES ASSUME NEW h \in (Height(base) + 1)..(Height(b) - 1), NEW T \in At(h)
                   PROVE  Indexed(T)'
      <4>1. \A x \in cycle'.txs : x.at = Height(b)
        BY <2>2
      <4>2. \A h : At(h)' = At(h)
        BY ChainKept DEF Grounds
      <4> QED BY <1>5, <4>1, <4>2 DEF syncIncremental, TakingOrder, Taken
    <3>2. h \in Nat \ {0} /\ Height(b) \in Nat /\ b \in cycle.todo
      BY <1>0, <2>2, <3>1, Heighted
    <3>3. h <= Cursor
      <4>1. SUFFICES ASSUME h > Cursor PROVE FALSE
        BY <1>0, <3>2
      <4>2. b \in Stored /\ Processed # {}
        BY <2>2, <3>2 DEF Grounds, Gapless, Begun, getUnprocessedBlocks, Stored
      <4>3. h \in Cursor..Height(b)
        BY <1>0, <3>1, <3>2, <4>1
      <4>4. <<h, 0>> \in Stored /\ Height(<<h, 0>>) = h
        BY <1>0, <4>2, <4>3 DEF Contiguous, Height
      <4>5. <<h, 0>> \notin Processed
        BY <1>0, <3>2, <4>1, <4>4, CursorType DEF CursorIs
      <4>6. <<h, 0>> \in cycle.todo
        BY <2>2, <4>4, <4>5 DEF Grounds, Gapless, Begun, getUnprocessedBlocks, Stored, Processed
      <4>7. Height(b) <= h
        BY <2>2, <4>4, <4>6 DEF LowestTodo
      <4> QED BY <1>0, <3>1, <3>2, <4>7
    <3>4. h \in (Height(base) + 1)..Cursor
      BY <1>0, <3>1, <3>2, <3>3, Heighted
    <3> QED BY <1>0, <3>1, <3>2, <3>4, AtOnChain DEF Grounds, Gapless, NoGap, IndexedKept
  <2> QED BY <2>1, <2>3, <2>6, <2>7 DEF Gapless
<1> QED BY <1>1, <1>2, <1>3, <1>4, <1>5

\* the steps by which a block becomes processed
LEMMA GapProcesses ==
    ASSUME Grounds, Solid', CursorToTip \/ \E b \in BlockIds : BlockProcessed(b)
    PROVE  Gapless'
<1>0. /\ ChainTypeOK /\ IndexTypeOK /\ Linear /\ Solid /\ Contiguous /\ cycle \in Cycles
      /\ CursorIs /\ CursorIs' /\ Cursor \in Nat /\ Cursor' \in Nat /\ TipHeight(owner) \in Nat
      /\ \A h : At(h)' = At(h)
  BY CursorType, NextCursorType, Heighted, ChainKept, BlockchainAssumption
     DEF Grounds, Gapless, IndexTypeOK, Cycles, CursorIs
<1>1. \A b \in BlockIds : Height(b) \in Nat \ {0}
  BY BlockType DEF Heights
<1>2. Height(base) \in Nat
  BY <1>0, BlockType, BlockchainAssumption DEF IndexTypeOK, Blk
<1>3. ASSUME NEW b \in BlockIds, blocks' = Save({b}, "processed"), base' = base,
             NEW h \in (Height(base) + 1)..Cursor', h <= Cursor, NEW T \in At(h)
      PROVE  Indexed(T)'
  <2>1. h \in Nat \ {0} /\ h \in (Height(base) + 1)..Cursor
    BY <1>0, <1>2, <1>3
  <2>2. T \in Txs /\ OnChain(T)
    BY <1>0, <1>3, <2>1, AtOnChain
  <2> QED BY <1>3, <2>1, <2>2 DEF Grounds, Gapless, NoGap, IndexedKept
<1>4. ASSUME NEW h \in Nat \ {0}, Taken(h), cycle.txs = {}, NEW T \in At(h) PROVE Indexed(T)'
  BY <1>0, <1>4, AtOnChain DEF Taken, Grounds, IndexedKept
<1>5. CASE CursorToTip
  <2>1. /\ cycle.stage = "reconciled" /\ blocks' = Save({tip[owner]}, "processed") /\ Cycling
        /\ cycle'.stage = "verify" /\ UNCHANGED <<tip, owner, base>> /\ cycle.txs = {}
        /\ TipHeight(owner) > Cursor /\ \A h \in (Cursor + 1)..TipHeight(owner) : Taken(h)
    BY <1>5, Rested DEF CursorToTip, Cycling, Grounds, Gapless, TakingRest
  <2>2. tip[owner] \in BlockIds /\ tip[owner] = <<TipHeight(owner), 0>>
    <3>1. tip[owner] \in Blk /\ tip[owner] # NoBlock
      BY <1>0, <2>1 DEF IndexTypeOK, Blk, TipHeight, NoBlock, Height
    <3>2. tip[owner] \in BlockIds /\ owner \in Tabs
      BY <1>0, <3>1 DEF Blk, IndexTypeOK
    <3>3. Canonical(tip[owner])
      BY <1>0, <3>1, <3>2 DEF Solid, SolidTips
    <3>4. tip[owner][2] = 0
      BY <1>0, <3>1, <3>3, LinearBlocks
    <3> QED BY <3>2, <3>4, BlockType DEF TipHeight
  <2>3. /\ Processed' = Processed \cup {tip[owner]} /\ Stored' = Stored \cup {tip[owner]}
        /\ \A b \in BlockIds : blocks'[b] # "rolled back"
    BY <1>0, <2>1, <2>2 DEF Save, Processed, Stored, Contiguous
  <2>4. Cursor' = TipHeight(owner)
    <3>1. TipHeight(owner) <= Cursor'
      BY <1>0, <2>3 DEF CursorIs, TipHeight
    <3>2. PICK b \in Processed' : Height(b) = Cursor'
      BY <1>0, <2>3 DEF CursorIs
    <3>3. CASE b \in Processed
      BY <1>0, <2>1, <3>1, <3>2, <3>3 DEF CursorIs
    <3> QED BY <2>3, <3>2, <3>3 DEF TipHeight
  <2>5. NoGap'
    <3>1. SUFFICES ASSUME NEW h \in (Height(base) + 1)..Cursor', NEW T \in At(h)
                   PROVE  Indexed(T)'
      BY <1>0, <2>1 DEF NoGap
    <3>2. CASE h <= Cursor
      BY <1>3, <2>1, <2>2, <3>1, <3>2
    <3>3. CASE h > Cursor
      <4>1. h \in (Cursor + 1)..TipHeight(owner) /\ h \in Nat \ {0}
        BY <1>0, <1>2, <2>4, <3>1, <3>3
      <4> QED BY <1>4, <2>1, <3>1, <4>1
    <3>4. h \in Nat
      BY <1>0, <1>2, <3>1
    <3> QED BY <1>0, <3>2, <3>3, <3>4
  <2>6. \A b \in Stored' : Height(b) <= TipHeight(owner) /\ Height(b) \in Nat
    <3>1. \A b \in Stored : Height(b) <= TipHeight(owner) /\ b \in BlockIds
      BY <1>0, <2>1 DEF Contiguous, Stored
    <3>2. Height(tip[owner]) = TipHeight(owner)
      BY DEF TipHeight
    <3>3. ASSUME NEW b \in Stored' PROVE b \in BlockIds /\ Height(b) <= TipHeight(owner)
      <4>1. CASE b = tip[owner]
        BY <1>0, <2>2, <3>2, <4>1
      <4>2. CASE b \in Stored
        BY <3>1, <4>2
      <4> QED BY <2>3, <3>3, <4>1, <4>2
    <3> QED BY <1>1, <3>3
  <2>7. Contiguous'
    <3>1. ASSUME NEW d \in Stored', NEW h \in Cursor'..Height(d) PROVE <<h, 0>> \in Stored'
      <4>1. h = TipHeight(owner)
        BY <1>0, <2>4, <2>6, <3>1
      <4> QED BY <2>2, <2>3, <4>1
    <3> QED BY <2>1, <2>3, <2>6, <3>1 DEF Contiguous, TipHeight
  <2> QED BY <2>1, <2>5, <2>7 DEF Gapless, Begun, TakingBlock, TakingRest, TakingOrder
<1>6. ASSUME NEW b \in BlockIds, BlockProcessed(b) PROVE Gapless'
  <2>1. /\ cycle.stage = "block" /\ cycle.txs = {} /\ b \in LowestTodo /\ Cycling
        /\ blocks' = Save({b}, "processed") /\ UNCHANGED <<tip, owner, base>>
        /\ cycle'.stage = "walk" /\ cycle'.todo = cycle.todo \ {b}
        /\ Taken(Height(b)) /\ Processed # {} /\ cycle.todo = getUnprocessedBlocks
    BY <1>0, <1>6 DEF BlockProcessed, Cycles, Cycling, Grounds, Gapless, TakingBlock, Begun
  <2>2. b \in Stored
    BY <2>1 DEF LowestTodo, getUnprocessedBlocks, Stored
  <2>3. /\ Processed' = Processed \cup {b} /\ Stored' = Stored
        /\ \A d \in BlockIds : blocks'[d] # "rolled back"
    BY <1>0, <2>1, <2>2 DEF Save, Processed, Stored, Contiguous
  <2>4. Cursor <= Cursor' /\ (Cursor' > Cursor => Cursor' = Height(b))
    <3>1. PICK c \in Processed : Height(c) = Cursor
      BY <1>0, <2>1 DEF CursorIs
    <3>2. Cursor <= Cursor'
      BY <1>0, <2>3, <3>1 DEF CursorIs
    <3>3. PICK d \in Processed' : Height(d) = Cursor'
      BY <1>0, <2>3 DEF CursorIs
    <3>4. CASE d \in Processed
      BY <1>0, <3>2, <3>3, <3>4 DEF CursorIs
    <3> QED BY <2>3, <3>2, <3>3, <3>4
  <2>5. NoGap'
    <3>1. SUFFICES ASSUME NEW h \in (Height(base) + 1)..Cursor', NEW T \in At(h)
                   PROVE  Indexed(T)'
      BY <1>0, <2>1 DEF NoGap
    <3>2. CASE h = Height(b)
      BY <1>1, <1>4, <2>1, <3>1, <3>2
    <3>3. CASE h <= Cursor
      BY <1>3, <2>1, <3>1, <3>3
    <3>4. CASE h # Height(b) /\ h > Cursor
      <4>1. h \in Cursor..Height(b)
        BY <1>0, <1>2, <2>4, <3>1, <3>4
      <4>2. <<h, 0>> \in Stored /\ Height(<<h, 0>>) = h
        BY <1>0, <2>1, <2>2, <4>1 DEF Contiguous, Height
      <4>3. <<h, 0>> \notin Processed /\ <<h, 0>> # b
        BY <1>0, <3>1, <3>4, <4>1, <4>2 DEF CursorIs
      <4>4. <<h, 0>> \in cycle.todo
        BY <2>1, <4>2, <4>3 DEF Stored, Processed, getUnprocessedBlocks
      <4>5. Height(b) <= h
        BY <2>1, <4>2, <4>4 DEF LowestTodo
      <4> QED BY <1>0, <1>1, <3>4, <4>1, <4>5
    <3>5. h \in Nat
      BY <1>0, <1>2, <3>1
    <3> QED BY <1>0, <3>2, <3>3, <3>4, <3>5
  <2>6. Contiguous'
    <3>1. ASSUME NEW d \in Stored', NEW h \in Cursor'..Height(d) PROVE <<h, 0>> \in Stored'
      <4>1. Height(d) \in Nat /\ d \in Stored
        BY <1>1, <2>3, <3>1 DEF Stored
      <4>2. h \in Cursor..Height(d)
        BY <1>0, <2>4, <3>1, <4>1
      <4> QED BY <1>0, <2>1, <2>3, <4>1, <4>2 DEF Contiguous
    <3> QED BY <1>0, <2>1, <2>3, <3>1 DEF Contiguous, TipHeight
  <2>7. Begun' /\ TakingBlock' /\ TakingRest' /\ TakingOrder'
    BY <2>1, <2>3 DEF Begun, TakingBlock, TakingRest, TakingOrder, getUnprocessedBlocks, Save
  <2> QED BY <2>5, <2>6, <2>7 DEF Gapless
<1> QED BY <1>5, <1>6

\* a transaction is taken
LEMMA GapTakes ==
    ASSUME Grounds, NEW x, TakeTx(x), Indexed(x.tx)'
    PROVE  Gapless'
<1>1. /\ cycle'.stage = cycle.stage /\ cycle'.todo = cycle.todo /\ cycle'.txs = cycle.txs \ {x}
      /\ UNCHANGED <<blocks, tip, owner, base>>
  BY DEF TakeTx, Grounds, IndexTypeOK
<1>2. TipHeight(owner)' = TipHeight(owner)
  BY <1>1 DEF TipHeight
<1>3. \A y \in cycle.txs : y \in cycle'.txs \/ Indexed(y.tx)'
  BY <1>1
<1> QED BY <1>1, <1>2, <1>3, GapStill

LEMMA GapGrows ==
    ASSUME TypeOK, TypeOK', forks = 0, Linear, Solid, Outputs, Gapless, ChainGrows
    PROVE  Outputs' /\ Gapless'
<1>0. /\ ChainTypeOK /\ IndexTypeOK /\ IndexTypeOK' /\ UNCHANGED <<indexVars, pendingVars>>
  BY DEF TypeOK, ChainGrows
<1>1. \A h \in 1..Len(chain) : At(h)' = At(h)
  <2>1. PICK S \in SUBSET Txs : Mine(S)
    BY DEF ChainGrows
  <2> QED BY <1>0, <2>1, ChainGrown
<1>2. Outputs'
  BY <1>0 DEF pendingVars, Outputs, Status
<1>3. /\ blocks' = blocks /\ Processed' = Processed /\ Stored' = Stored /\ cycle' = cycle
      /\ base' = base /\ tip' = tip /\ owner' = owner
  BY <1>0 DEF indexVars, Processed, Stored
<1>4. Cursor' = Cursor
  BY <1>0, <1>3, CursorSame
<1>5. \A T : Indexed(T)' <=> Indexed(T)
  BY <1>0 DEF pendingVars, Indexed
<1>6. Contiguous' /\ Begun'
  BY <1>3, <1>4 DEF Gapless, Contiguous, Begun, Cycling, TipHeight, getUnprocessedBlocks
<1>7. /\ Len(chain) \in Nat /\ Cursor <= Len(chain) /\ TipHeight(owner) <= Len(chain)
      /\ Cursor \in Nat /\ TipHeight(owner) \in Nat /\ Height(base) \in Nat
  <2>1. Len(chain) \in Nat /\ Cursor \in Nat /\ TipHeight(owner) \in Nat
    BY <1>0, Heighted, OfChain, BlockchainAssumption DEF Heights
  <2>2. Cursor <= Len(chain)
    <3>1. CursorIs
      BY <1>0, CursorType
    <3>2. \A b \in Processed : Canonical(b)
      BY DEF Processed, Solid, SolidBlocks
    <3> QED BY <2>1, <3>1, <3>2 DEF CursorIs, Canonical
  <2>3. TipHeight(owner) <= Len(chain)
    BY <1>0, <2>1, SolidTip DEF Solid, IndexTypeOK
  <2>4. Height(base) \in Nat
    BY <1>0, BlockType, BlockchainAssumption DEF IndexTypeOK, Blk
  <2> QED BY <2>1, <2>2, <2>3, <2>4
<1>8. NoGap'
  <2>1. \A h \in (Height(base) + 1)..Cursor : h \in 1..Len(chain)
    BY <1>7
  <2> QED BY <1>1, <1>3, <1>4, <1>5, <2>1 DEF Gapless, NoGap
<1>9. \A h \in 1..Len(chain) : Taken(h) => Taken(h)'
  BY <1>1, <1>3, <1>5 DEF Taken
<1>10. TakingBlock'
  <2>1. \A b \in LowestTodo : Height(b) \in 1..Len(chain)
    BY <1>0, Heighted DEF Solid, SolidCycle, Canonical
  <2>2. LowestTodo' = LowestTodo
    BY <1>3 DEF LowestTodo
  <2> QED BY <1>3, <1>9, <2>1, <2>2 DEF Gapless, TakingBlock
<1>11. TakingRest'
  <2>1. \A h \in (Cursor + 1)..TipHeight(owner) : h \in 1..Len(chain)
    BY <1>7
  <2>2. TipHeight(owner)' = TipHeight(owner)
    BY <1>3 DEF TipHeight
  <2> QED BY <1>3, <1>4, <1>9, <2>1, <2>2 DEF Gapless, TakingRest
<1>12. TakingOrder'
  <2>1. ASSUME NEW x \in cycle.txs, NEW h \in (Height(base) + 1)..(x.at - 1) PROVE h \in 1..Len(chain)
    <3>1. x.at \in Nat /\ x.tx \in At(x.at)
      BY <1>0, BlockchainAssumption DEF IndexTypeOK, Landed, Heights, Solid, SolidCycle
    <3>2. x.at <= Len(chain)
      BY <1>7, <3>1 DEF At
    <3> QED BY <1>7, <2>1, <3>1, <3>2
  <2> QED BY <1>3, <1>9, <2>1 DEF Gapless, TakingOrder
<1> QED BY <1>2, <1>6, <1>8, <1>10, <1>11, <1>12 DEF Gapless

LEMMA StepOutputs ==
    ASSUME TypeOK, Solid, Landing, Outputs, Next, ~ChainGrows, ~ChainForks
    PROVE  OutputsLawful
<1>0. IndexTypeOK /\ PendingTypeOK
  BY DEF TypeOK
<1>a. UNCHANGED pendingVars => OutputsLawful
  BY StillOutputs DEF pendingVars, Status
<1>1. CASE FirstSync
  BY <1>0, <1>1, <1>a, SnapshotOutputs DEF FirstSync
<1>2. CASE FollowsChain
  BY <1>2, <1>a DEF FollowsChain
<1>3. CASE ForkSeen
  BY <1>3, NoneDiffer DEF ForkSeen
<1>4. CASE ProcessesTx
  <2>1. PICK x \in cycle.txs : IF x.tx \in hashes[owner] THEN ConfirmReads(x.tx, x.at, FALSE)
                              ELSE Discover(x.tx, x.at)
    BY <1>4 DEF ProcessesTx
  <2>2. x.tx \in Txs
    BY <1>0 DEF IndexTypeOK, Landed
  <2> QED BY <1>0, <2>1, <2>2, ConfirmOutputs, DiscoverOutputs
<1>5. CASE Reconciles
  BY <1>0, <1>5, SnapshotOutputs DEF Reconciles
<1>6. CASE VerificationReads \/ VerifiesTx
  <2>1. asked \subseteq Txs
    BY DEF TypeOK
  <2> QED BY <1>0, <1>6, <1>a, <2>1, ConfirmOutputs DEF VerificationReads, VerifiesTx
<1>7. CASE ConfirmsTx
  BY <1>0, <1>7, ConfirmOutputs DEF ConfirmsTx
<1>8. CASE CycleSettles \/ RequestFails
  <2>1. owner \in Tabs
    BY <1>0 DEF IndexTypeOK
  <2>2. UpdateDepths => OutputsLawful
    BY <1>0, <2>1, OtherOutputs
  <2> QED BY <1>8, <1>a, <2>2 DEF CycleSettles, RequestFails
<1>9. CASE Registers
  BY <1>0, <1>9, RegisterOutputs DEF Registers
<1>10. CASE ChecksDeadlines
  BY <1>0, <1>10, OtherOutputs DEF ChecksDeadlines
<1>11. CASE RollsBack
  BY <1>0, <1>11, OtherOutputs DEF RollsBack
<1>12. CASE TabReloads
  BY <1>0, <1>12, OtherOutputs DEF TabReloads
<1> QED BY <1>1, <1>2, <1>3, <1>4, <1>5, <1>6, <1>7, <1>8, <1>9, <1>10, <1>11, <1>12 DEF Next

\* A transaction of the chain that has an entry is alive.
LEMMA LandedAlive ==
    ASSUME PendingTypeOK, Landing, NEW T \in Txs, OnChain(T), Status(T) # "none"
    PROVE  Status(T) \in Alive
<1>1. Status(T) \in Statuses
  BY DEF PendingTypeOK, Entries, Status
<1>2. Status(T) \notin GivenUp
  BY DEF Landing, Deaths, Dead
<1> QED BY <1>1, <1>2 DEF Statuses, GivenUp, Alive

\* What is taken is in the index afterwards.
LEMMA TakenIndexed ==
    ASSUME PendingTypeOK, PendingTypeOK', Landing, UNCHANGED chainVars, Outputs, LawfulStep, OutputsLawful,
           NEW t \in Tabs, NEW T \in Txs, NEW h, OnChain(T),
           IF T \in hashes[t] THEN ConfirmReads(T, h, FALSE) ELSE Discover(T, h)
    PROVE  Indexed(T)'
<1>1. CASE T \in hashes[t]
  <2>1. Status(T) # "none"
    BY <1>1 DEF Landing, Recorded
  <2>2. Status(T) \in Alive /\ utxos[T] # "absent"
    BY <2>1, LandedAlive DEF Outputs
  <2>3. Indexed(T)
    BY <2>2 DEF Indexed, Status, Alive
  <2> QED BY <2>3, OutputsStep DEF IndexedKept
<1>2. CASE T \notin hashes[t]
  <2>1. utxos'[T] # "absent" /\ Status(T)' # "none"
    BY <1>2, DiscoverOutputs
  <2>2. Status(T)' \in Statuses
    BY DEF PendingTypeOK, Entries, Status
  <2>3. Status(T)' \notin GivenUp
    BY LawfulMoves DEF LawfulStep, Dead
  <2> QED BY <2>1, <2>2, <2>3 DEF Statuses, GivenUp, Indexed, Status
<1> QED BY <1>1, <1>2

LEMMA StepGapless ==
    ASSUME Paced, ~SlowFirstSync, TypeOK, TypeOK', Linear, Solid, Pace, Abreast, Punctual, Asking, Landing,
           Outputs, Gapless, Next, ~ChainGrows, ~ChainForks
    PROVE  Outputs' /\ Gapless'
<1>0. ChainTypeOK /\ IndexTypeOK /\ PendingTypeOK /\ IndexTypeOK' /\ PendingTypeOK' /\ owner \in Tabs
  BY DEF TypeOK, IndexTypeOK
<1>1. UNCHANGED chainVars /\ Solid' /\ LawfulStep
  BY StepLawful
<1>2. OutputsLawful
  BY StepOutputs
<1>3. Outputs' /\ IndexedKept
  BY <1>0, <1>1, <1>2, OutputsStep
<1>4. Grounds
  BY <1>0, <1>1, <1>3 DEF Grounds
<1>b. SUFFICES Gapless'
  BY <1>3
<1>a. UNCHANGED indexVars => Gapless'
  <2>1. SUFFICES ASSUME UNCHANGED indexVars PROVE Gapless'
    OBVIOUS
  <2>2. /\ UNCHANGED <<blocks, base, owner>> /\ cycle' = cycle /\ TipHeight(owner)' = TipHeight(owner)
    BY <2>1 DEF indexVars, TipHeight
  <2> QED BY <1>4, <2>2, GapStill
<1>5. CASE FirstSync
  BY <1>4, <1>5, GapFirstSync DEF FirstSync
<1>6. CASE FollowsChain
  <2>1. \/ discoverChainTip \/ NoForkSeen \/ DetectionFails
        \/ NothingProcessed \/ UpToDate \/ fetchAndStoreNewBlocks \/ FetchFails \/ syncCatchup \/ CursorToTip
        \/ WalkEnds \/ CycleFails
        \/ \E b \in BlockIds : syncIncremental(b) \/ BlockProcessed(b)
        \/ MarkOrphans
    BY <1>6 DEF FollowsChain, Unknown404, HeightGone
  <2>2. ~MarkOrphans
    BY NoneDiffer DEF Stored
  <2> QED BY <1>1, <1>4, <2>1, <2>2, GapStage, GapFetches, GapProcesses
<1>7. CASE ForkSeen
  BY <1>7, NoneDiffer DEF ForkSeen
<1>8. CASE ProcessesTx
  <2>1. PICK x \in cycle.txs : TakeTx(x) /\ IF x.tx \in hashes[owner] THEN ConfirmReads(x.tx, x.at, FALSE)
                                            ELSE Discover(x.tx, x.at)
    BY <1>8 DEF ProcessesTx
  <2>2. x.tx \in Txs /\ OnChain(x.tx)
    <3>1. x \in Landed /\ x.tx \in At(x.at)
      BY <1>0 DEF IndexTypeOK, Solid, SolidCycle
    <3>2. x.at \in Nat \ {0}
      BY <3>1 DEF Landed, Heights
    <3> QED BY <1>0, <3>1, <3>2, AtOnChain
  <2>3. Indexed(x.tx)'
    BY <1>0, <1>1, <1>2, <2>1, <2>2, TakenIndexed
  <2> QED BY <1>4, <2>1, <2>3, GapTakes
<1>9. CASE Reconciles
  BY <1>1, <1>4, <1>9, GapFetches DEF Reconciles
<1>10. CASE CycleSettles
  BY <1>4, <1>10, GapStage DEF CycleSettles
<1>11. CASE RequestFails
  BY <1>1, <1>4, <1>11, GapStage, GapFetches DEF RequestFails
<1>12. CASE TabReloads
  BY <1>4, <1>12, GapReload DEF TabReloads
<1>13. CASE VerifiesTx \/ ConfirmsTx \/ Registers \/ ChecksDeadlines \/ RollsBack
  BY <1>a, <1>13 DEF VerifiesTx, ConfirmsTx, Registers, ChecksDeadlines, RollsBack
<1>14. CASE VerificationReads
  BY <1>4, <1>14, GapStage DEF VerificationReads
<1> QED BY <1>3, <1>5, <1>6, <1>7, <1>8, <1>9, <1>10, <1>11, <1>12, <1>13, <1>14 DEF Next

\* Until the chain forks, outputs are kept and the index has no gap.
GapInv == forks = 0 => Outputs /\ Gapless

LEMMA GapInit == Init => GapInv
<1> SUFFICES ASSUME Init PROVE Outputs /\ Gapless
  BY DEF GapInv
<1>1. Outputs
  <2>1. \A T \in Txs : Status(T) = "none"
    BY DEF Init, PendingInit, NoEntry, Status
  <2>2. confirming = {}
    BY DEF Init, PendingInit
  <2> QED BY <2>1, <2>2 DEF Outputs, Alive
<1>2. blocks = [b \in BlockIds |-> "absent"] /\ cycle.stage = "start"
  BY DEF Init, IndexInit, Idle
<1>3. Stored = {} /\ Processed = {}
  BY <1>2 DEF Stored, Processed
<1>4. CursorIs /\ Height(base) \in Nat
  BY InitType, CursorType, BlockType, BlockchainAssumption DEF TypeOK, IndexTypeOK, Blk
<1>5. Cursor = 0
  BY <1>3, <1>4 DEF CursorIs
<1>6. NoGap
  BY <1>4, <1>5 DEF NoGap
<1>7. Contiguous
  BY <1>2, <1>3 DEF Contiguous
<1>8. Begun /\ TakingBlock /\ TakingRest /\ TakingOrder
  BY <1>2 DEF Begun, TakingBlock, TakingRest, TakingOrder
<1> QED BY <1>1, <1>6, <1>7, <1>8 DEF Gapless

LEMMA GapNext ==
    ASSUME Paced, ~SlowFirstSync, TypeOK, TypeOK', LandingInv, GapInv, [Next]_vars
    PROVE  GapInv'
<1> SUFFICES ASSUME forks' = 0 PROVE (Outputs /\ Gapless)'
  BY DEF GapInv
<1>0. ChainTypeOK /\ IndexTypeOK /\ IndexTypeOK'
  BY DEF TypeOK
<1>1. forks = 0 /\ ~ChainForks
  BY Unforked
<1>2. Linear /\ Solid /\ Pace /\ Abreast /\ Punctual /\ Asking /\ Landing /\ Outputs /\ Gapless
  BY <1>1 DEF LandingInv, GapInv
<1>3. CASE UNCHANGED vars
  <2>1. UNCHANGED <<chainVars, indexVars, pendingVars>>
    BY <1>3 DEF vars
  <2>2. Outputs'
    BY <1>2, <2>1 DEF pendingVars, Outputs, Status
  <2>3. IndexedKept
    BY <2>1 DEF pendingVars, IndexedKept, Indexed
  <2>4. Grounds
    BY <1>0, <1>2, <2>1, <2>3 DEF Grounds
  <2>5. /\ UNCHANGED <<blocks, base, owner>> /\ cycle' = cycle /\ TipHeight(owner)' = TipHeight(owner)
    BY <2>1 DEF indexVars, TipHeight
  <2>6. Gapless'
    BY <2>4, <2>5, GapStill
  <2> QED BY <2>2, <2>6
<1>4. CASE ChainGrows
  BY <1>1, <1>2, <1>4, GapGrows
<1>5. CASE Next /\ ~ChainGrows
  BY <1>1, <1>2, <1>5, StepGapless
<1> QED BY <1>3, <1>4, <1>5

\* If the chain does not move while the initial sync reads the UTxOs, then until
\* the first fork every transaction up to the cursor is in the index, or its
\* block is still to be processed: whatever fails in a cycle, and whenever tabs
\* are closed or take over.
THEOREM NoGapUnforked == ASSUME Paced, ~SlowFirstSync PROVE Spec => [](forks = 0 => NoSilentGap)
<1>1. Init => TypeOK /\ LandingInv /\ GapInv
  BY InitType, LandingInit, GapInit
<1>2. TypeOK /\ LandingInv /\ GapInv /\ [Next]_vars => (TypeOK /\ LandingInv /\ GapInv)'
  BY NextType, LandingNext, GapNext
<1>3. TypeOK /\ GapInv => (forks = 0 => NoSilentGap)
  BY DEF GapInv, Gapless, NoGap, NoSilentGap
<1> QED BY <1>1, <1>2, <1>3, PTL DEF Spec

-----------------------------------------------------------------------------
(* Until the chain forks: what is spent                                       *)

\* A transaction spends what came before it, and nothing is spent twice.
Ledger ==
    /\ \A S, T \in Txs : OnChain(S) /\ OnChain(T) /\ Input[S] = Input[T] => S = T
    /\ \A i, j \in 1..Len(chain) : \A T \in At(i), S \in At(j) : Input[S] = T => i < j
    /\ \A T \in Txs : OnChain(T) => Input[T] \in Genesis \/ OnChain(Input[T])

\* Nothing has happened before the UTxOs are read; they hold what was there then.
Unread ==
    base = NoBlock =>
        /\ cycle.stage = "start" /\ Stored = {}
        /\ \A T \in Txs : ~OnChain(T) /\ Status(T) \notin Alive
Read ==
    base # NoBlock =>
        /\ cycle.stage = "snapshot" \/ Stored # {}
        /\ Height(base) <= Len(chain) /\ \A h \in 1..Height(base) : At(h) = {}
        /\ \A g \in Genesis : utxos[g] # "absent"

\* An output comes with an entry.
Present == \A T \in Txs : utxos[T] # "absent" => Status(T) # "none"

\* A transaction that is alive has its input, unless what it spends was given up or
\* another transaction of the chain has spent it.
Excused(S) ==
    \/ Input[S] \in Txs /\ Status(Input[S]) \in GivenUp
    \/ \E T \in Txs : T # S /\ OnChain(T) /\ Input[T] = Input[S]
Claimed == \A S \in Txs : Status(S) \in Alive /\ ~Excused(S) => utxos[Input[S]] = S

Claims == Ledger /\ Unread /\ Read /\ Present /\ Claimed

\* What a step may do to the outputs and their claims.
ClaimsLawful ==
    /\ \A S \in Txs : Status(S)' \in Alive =>
          Status(S) \in Alive \/ (cycle.stage # "start" /\ utxos'[Input[S]] = S)
    /\ \A S \in Txs : Status(S) \in Alive /\ utxos[Input[S]] = S => utxos'[Input[S]] = S \/ Excused(S)'
    /\ \A g \in Genesis : utxos[g] # "absent" => utxos'[g] # "absent"
    /\ \A T \in Txs : utxos'[T] # "absent" => utxos[T] # "absent" \/ Status(T)' # "none"

\* a new block keeps the ledger
LEMMA LedgerGrows ==
    ASSUME ChainTypeOK, Linear, forks = 0, NEW S \in SUBSET Txs, Mine(S), Ledger
    PROVE  Ledger'
<1>0. PICK n \in Nat : n = Len(chain) + 1 /\ Len(chain) \in Nat
  BY OfChain, BlockchainAssumption DEF Heights
<1>1. /\ Len(chain)' = n /\ At(n)' = S
      /\ \A h \in 1..Len(chain) : At(h)' = At(h)
      /\ \A T \in Txs : OnChain(T)' <=> OnChain(T) \/ T \in S
  BY <1>0, ChainGrown
<1>2. /\ \A T, R \in S : T = R
      /\ \A T \in S : ~OnChain(T) /\ ~Spent(Input[T]) /\ (Input[T] \in Genesis \/ OnChain(Input[T]))
  BY DEF Mine, Includable
<1>3. \A T \in Txs : T \notin Genesis /\ Input[T] \in Genesis \cup Txs
  BY Names, BlockchainAssumption DEF Utxos
<1>4. ASSUME NEW A \in Txs, NEW B \in Txs, OnChain(A)', OnChain(B)', Input[A] = Input[B] PROVE A = B
  <2>1. A \in S => ~OnChain(B)
    BY <1>2, <1>4 DEF Spent
  <2>2. B \in S => ~OnChain(A)
    BY <1>2, <1>4 DEF Spent
  <2>3. OnChain(A) /\ OnChain(B) => A = B
    BY <1>4 DEF Ledger
  <2> QED BY <1>1, <1>2, <1>4, <2>1, <2>2, <2>3
<1>5. ASSUME NEW i \in 1..n, NEW j \in 1..n, NEW T \in At(i)', NEW R \in At(j)', Input[R] = T PROVE i < j
  <2>1. \A h \in 1..n : h = n \/ h \in 1..Len(chain)
    BY <1>0
  <2>2. CASE i \in 1..Len(chain) /\ j \in 1..Len(chain)
    <3>1. T \in At(i) /\ R \in At(j)
      BY <1>1, <1>5, <2>2
    <3> QED BY <1>5, <2>2, <3>1 DEF Ledger
  <2>3. CASE i \in 1..Len(chain) /\ j = n
    BY <1>0, <2>3
  <2>4. CASE i = n
    <3>1. T \in S /\ T \in Txs
      BY <1>1, <1>5, <2>4
    <3>2. R \in Txs /\ (R \in S \/ OnChain(R))
      <4>1. CASE j = n
        BY <1>1, <1>5, <4>1
      <4>2. CASE j \in 1..Len(chain)
        <5>1. R \in At(j) /\ j \in Nat \ {0}
          BY <1>1, <1>5, <4>2
        <5> QED BY <5>1, AtOnChain
      <4> QED BY <2>1, <4>1, <4>2
    <3>3. Input[R] \in Genesis \/ OnChain(Input[R])
      BY <1>2, <3>2 DEF Ledger
    <3> QED BY <1>2, <1>3, <1>5, <3>1, <3>3
  <2> QED BY <2>1, <2>2, <2>3, <2>4
<1>6. ASSUME NEW T \in Txs, OnChain(T)' PROVE Input[T] \in Genesis \/ OnChain(Input[T])'
  <2>1. Input[T] \in Genesis \/ OnChain(Input[T])
    BY <1>1, <1>2, <1>6 DEF Ledger
  <2>2. Input[T] \in Txs /\ OnChain(Input[T]) => OnChain(Input[T])'
    BY <1>1
  <2> QED BY <1>3, <2>1, <2>2
<1> QED BY <1>1, <1>4, <1>5, <1>6 DEF Ledger

LEMMA StillClaims ==
    ASSUME UNCHANGED utxos, \A T \in Txs : Status(T)' \in Alive => Status(T) \in Alive
    PROVE  ClaimsLawful
BY DEF ClaimsLawful

LEMMA RegisterClaims ==
    ASSUME PendingTypeOK, Present, cycle.stage # "start", NEW t \in Tabs, NEW T, registerPendingTx(t, T)
    PROVE  ClaimsLawful
<1>1. /\ T \in Txs /\ T \in Utxos /\ Input[T] \in Utxos
      /\ Status(T) = "none" /\ utxos[Input[T]] = "unspent"
  BY Names, UtxosType DEF registerPendingTx, Status
<1>2. utxos[T] = "absent" /\ Input[T] # T
  BY <1>1 DEF Present
<1>3. /\ utxos'[Input[T]] = T /\ utxos'[T] = "unspent"
      /\ \A u \in Utxos : u # T /\ u # Input[T] => utxos'[u] = utxos[u]
  BY <1>1, <1>2 DEF registerPendingTx, PendingTypeOK
<1>4. Status(T)' = "pending" /\ \A S \in Txs \ {T} : Status(S)' = Status(S)
  <2>1. entries' = [entries EXCEPT ![T] = [entries[T] EXCEPT !.status = "pending"]]
    BY DEF registerPendingTx
  <2>2. [entries[T] EXCEPT !.status = "pending"].status = "pending"
    BY <1>1 DEF PendingTypeOK, Entries
  <2> QED BY <1>1, <2>1, <2>2 DEF PendingTypeOK, Status
<1>5. ASSUME NEW S \in Txs, utxos[Input[S]] = S PROVE utxos'[Input[S]] = S
  <2>1. Input[S] # T /\ Input[S] # Input[T] /\ Input[S] \in Utxos
    BY <1>1, <1>2, <1>5, Names, UtxosType
  <2> QED BY <1>3, <1>5, <2>1
<1>6. \A g \in Genesis : utxos[g] # "absent" => utxos'[g] # "absent"
  BY <1>1, <1>3, Names DEF Utxos
<1>7. \A S \in Txs : utxos'[S] # "absent" => utxos[S] # "absent" \/ Status(S)' # "none"
  <2>1. ASSUME NEW S \in Txs, S # T PROVE utxos'[S] # "absent" => utxos[S] # "absent"
    BY <1>1, <1>3, <2>1, Names
  <2> QED BY <1>4, <2>1
<1> QED BY <1>3, <1>4, <1>5, <1>6, <1>7 DEF ClaimsLawful

LEMMA ConfirmClaims ==
    ASSUME PendingTypeOK, Landing, Outputs, Present
    PROVE  /\ \A T \in Txs : \A h, known : ConfirmReads(T, h, known) => ClaimsLawful
           /\ \A k \in confirming : ConfirmSaves(k) => ClaimsLawful
<1>1. ASSUME NEW T \in Txs, NEW h, NEW known, ConfirmReads(T, h, known) PROVE ClaimsLawful
  <2>1. UNCHANGED entries
    BY <1>1 DEF ConfirmReads
  <2>2. UNCHANGED utxos
    <3>1. Status(T) = "pending" => utxos[T] # "absent"
      BY DEF Outputs, Alive
    <3> QED BY <1>1, <3>1 DEF ConfirmReads, Status
  <2> QED BY <2>1, <2>2, StillClaims DEF Status
<1>2. ASSUME NEW k \in confirming, ConfirmSaves(k) PROVE ClaimsLawful
  <2>1. utxos' = utxos /\ k.tx \in Txs
    BY <1>2 DEF ConfirmSaves, PendingTypeOK
  <2>2. \A S \in Txs \ {k.tx} : Status(S)' = Status(S)
    BY <1>2 DEF ConfirmSaves, PendingTypeOK, Status
  <2>3. OnChain(k.tx) /\ utxos[k.tx] # "absent"
    BY DEF Outputs, Landing, Sighted
  <2>4. Status(k.tx) \in Alive
    BY <2>1, <2>3, LandedAlive DEF Present
  <2> QED BY <2>1, <2>2, <2>4, StillClaims
<1> QED BY <1>1, <1>2

LEMMA DiscoverClaims ==
    ASSUME PendingTypeOK, UNCHANGED chainVars, Present, cycle.stage # "start",
           NEW T \in Txs, NEW h, OnChain(T), utxos[Input[T]] # "absent", Discover(T, h)
    PROVE  ClaimsLawful
<1>1. /\ T \in Utxos /\ Input[T] \in Utxos
      /\ \A u \in Utxos : utxos'[u] = IF u = T /\ utxos[u] = "absent" THEN "unspent"
                                      ELSE IF u = Input[T] THEN T ELSE utxos[u]
  BY Names, UtxosType DEF Discover
<1>2. /\ \A S \in Txs : Status(S)' = Status(S) \/ (Status(S)' = "confirmed" /\ S = T)
      /\ Status(T)' # "none"
  BY DiscoverStatus
<1>3. utxos'[Input[T]] = T
  BY <1>1
<1>4. ASSUME NEW S \in Txs, S # T, utxos[Input[S]] = S PROVE utxos'[Input[S]] = S \/ Excused(S)'
  <2>1. CASE Input[S] = Input[T]
    <3>1. OnChain(T)'
      BY ChainKept
    <3> QED BY <1>4, <2>1, <3>1 DEF Excused
  <2>2. CASE Input[S] # Input[T]
    <3>1. Input[S] \in Utxos /\ S # "absent"
      BY Names, UtxosType
    <3> QED BY <1>1, <1>4, <2>2, <3>1
  <2> QED BY <2>1, <2>2
<1>5. \A g \in Genesis : utxos[g] # "absent" => utxos'[g] # "absent"
  BY <1>1, Names DEF Utxos
<1>6. \A S \in Txs : utxos'[S] # "absent" => utxos[S] # "absent" \/ Status(S)' # "none"
  BY <1>1, <1>2, Names
<1> QED BY <1>2, <1>3, <1>4, <1>5, <1>6 DEF ClaimsLawful, Alive

LEMMA ReconcileClaims ==
    ASSUME PendingTypeOK, Reconcile
    PROVE  ClaimsLawful
<1>1. UNCHANGED entries
  BY DEF Reconcile
<1>2. \A u \in Utxos : utxos'[u] = utxos[u] \/ (utxos[u] = "unspent" /\ utxos'[u] = "reconciled")
  BY DEF Reconcile
<1>3. \A S \in Txs : Input[S] \in Utxos /\ S \in Utxos /\ S # "unspent"
  BY Names, UtxosType
<1> QED BY <1>1, <1>2, <1>3 DEF ClaimsLawful, Status, Utxos

LEMMA RollbackClaims ==
    ASSUME PendingTypeOK, Landing, NEW t \in Tabs, RollbackClears(t) \/ RollbackDeletes(t)
    PROVE  ClaimsLawful
<1>0. UNCHANGED entries
  BY DEF RollbackClears, RollbackDeletes
<1>1. PICK r \in unwinding[t] :
        \/ utxos' = [u \in Utxos |-> IF utxos[u] = r.tx THEN "unspent" ELSE utxos[u]]
        \/ utxos' = [utxos EXCEPT ![r.tx] = "absent"]
        \/ utxos' = utxos
  BY DEF RollbackClears, RollbackDeletes
<1>2. r.tx \in Txs /\ Status(r.tx) \in GivenUp
  BY HeldTypes DEF Landing, Deaths
<1>3. CASE utxos' = utxos
  BY <1>0, <1>3, StillClaims DEF Status
<1>4. CASE utxos' = [u \in Utxos |-> IF utxos[u] = r.tx THEN "unspent" ELSE utxos[u]]
  <2>1. \A S \in Txs : Status(S) \in Alive => S # r.tx
    BY <1>2 DEF Alive, GivenUp
  <2>2. \A u \in Utxos : utxos'[u] = utxos[u] \/ (utxos[u] = r.tx /\ utxos'[u] = "unspent")
    BY <1>4
  <2>3. \A S \in Txs : S \in Utxos /\ Input[S] \in Utxos /\ r.tx # "absent"
    BY <1>2, Names, UtxosType
  <2> QED BY <1>0, <2>1, <2>2, <2>3 DEF ClaimsLawful, Status, Utxos
<1>5. CASE utxos' = [utxos EXCEPT ![r.tx] = "absent"]
  <2>1. \A u \in Utxos : u # r.tx => utxos'[u] = utxos[u]
    BY <1>5 DEF PendingTypeOK
  <2>2. utxos'[r.tx] = "absent"
    BY <1>2, <1>5, Names DEF PendingTypeOK
  <2>3. ASSUME NEW S \in Txs, utxos[Input[S]] = S PROVE utxos'[Input[S]] = S \/ Excused(S)'
    <3>1. CASE Input[S] = r.tx
      <4>1. Status(r.tx)' \in GivenUp
        BY <1>0, <1>2 DEF Status
      <4> QED BY <1>2, <3>1, <4>1 DEF Excused
    <3>2. CASE Input[S] # r.tx
      BY <2>1, <2>3, <3>2, UtxosType
    <3> QED BY <3>1, <3>2
  <2>4. \A g \in Genesis : utxos[g] # "absent" => utxos'[g] # "absent"
    BY <1>2, <2>1, Names DEF Utxos
  <2>5. \A S \in Txs : utxos'[S] # "absent" => utxos[S] # "absent"
    BY <2>1, <2>2, Names
  <2> QED BY <1>0, <2>3, <2>4, <2>5 DEF ClaimsLawful, Status
<1> QED BY <1>1, <1>3, <1>4, <1>5

\* How the index begins: blocks once stored stay, and until there are any only the
\* initial sync gets further.
Opening ==
    /\ base' = base \/ (FirstSnapshot /\ IndexSnapshot)
    /\ Stored \subseteq Stored'
    /\ cycle.stage = "snapshot" => cycle'.stage = "snapshot" \/ Stored' # {}
    /\ cycle.stage = "start" /\ Stored = {} =>
          (FirstSnapshot /\ IndexSnapshot) \/ (cycle'.stage = "start" /\ Stored' = {})

\* the steps of a tab that has begun
LEMMA LaterOpening ==
    ASSUME UNCHANGED base, Stored \subseteq Stored', cycle.stage \notin {"start", "snapshot"}
    PROVE  Opening
BY DEF Opening

LEMMA BlocksStored ==
    /\ UNCHANGED blocks => Stored' = Stored
    /\ \A S, state : state \in {"unprocessed", "processed"} /\ blocks' = Save(S, state) => Stored \subseteq Stored'
BY DEF Stored, Save

LEMMA FirstSyncOpens ==
    ASSUME ChainTypeOK, IndexTypeOK, Solid, Gapless,
           (FirstSnapshot /\ IndexSnapshot) \/ fetchAndStoreLatestBlock \/ FirstSyncEnds
    PROVE  Opening
<1>1. CASE FirstSnapshot /\ IndexSnapshot
  <2>1. Stored' = Stored /\ cycle.stage = "start"
    BY <1>1, BlocksStored DEF FirstSnapshot
  <2> QED BY <1>1, <2>1 DEF Opening
<1>2. CASE fetchAndStoreLatestBlock
  <2>1. cycle.stage = "snapshot" /\ base' = base
    BY <1>2 DEF fetchAndStoreLatestBlock
  <2>2. Stored \subseteq Stored'
    BY <1>2, BlocksStored DEF fetchAndStoreLatestBlock
  <2>3. Top \in Stored'
    <3>1. Top \in BlockIds
      BY OfChain
    <3>2. CASE blocks[Top] = "absent"
      BY <1>2, <3>1, <3>2 DEF fetchAndStoreLatestBlock, Save, Stored
    <3>3. CASE blocks[Top] # "absent"
      <4>1. Stored = {}
        BY <2>1 DEF Gapless, Begun
      <4> QED BY <3>1, <3>3, <4>1 DEF Gapless, Contiguous, IndexTypeOK, BlockStates, Stored
    <3> QED BY <3>2, <3>3
  <2> QED BY <2>1, <2>2, <2>3 DEF Opening
<1>3. CASE FirstSyncEnds
  BY <1>3, BlocksStored, LaterOpening DEF FirstSyncEnds
<1> QED BY <1>1, <1>2, <1>3

LEMMA CycleOpens ==
    ASSUME \/ discoverChainTip \/ NoForkSeen \/ DetectionFails \/ NothingProcessed \/ UpToDate
           \/ fetchAndStoreNewBlocks \/ FetchFails \/ syncCatchup \/ reconcileUtxos \/ CursorToTip
           \/ WalkEnds \/ VerificationStarts \/ AskFails \/ CycleEnds \/ CycleFails
           \/ \E b \in BlockIds : syncIncremental(b) \/ BlockProcessed(b)
           \/ \E x \in cycle.txs : TakeTx(x)
    PROVE  Opening
<1>1. CASE discoverChainTip
  <2>1. getLatestBlock # {} \/ cycle.stage = "idle"
    BY <1>1 DEF discoverChainTip
  <2>2. Stored # {} \/ cycle.stage = "idle"
    BY <2>1 DEF getLatestBlock, Highest
  <2>3. Stored' = Stored /\ base' = base /\ cycle.stage \in {"idle", "start"}
    BY <1>1, BlocksStored DEF discoverChainTip
  <2> QED BY <2>2, <2>3 DEF Opening
<1>2. CASE \/ NoForkSeen \/ DetectionFails \/ NothingProcessed \/ UpToDate \/ FetchFails \/ syncCatchup
           \/ reconcileUtxos \/ WalkEnds \/ VerificationStarts \/ AskFails \/ CycleEnds \/ CycleFails
           \/ \E b \in BlockIds : syncIncremental(b)
           \/ \E x \in cycle.txs : TakeTx(x)
  BY <1>2, BlocksStored, LaterOpening
     DEF NoForkSeen, DetectionFails, NothingProcessed, UpToDate, FetchFails, syncCatchup, reconcileUtxos,
         WalkEnds, VerificationStarts, AskFails, CycleEnds, CycleFails, syncIncremental, TakeTx, InStep
<1>3. CASE fetchAndStoreNewBlocks
  <2>1. \E S : blocks' = Save(S, "unprocessed")
    BY <1>3 DEF fetchAndStoreNewBlocks
  <2> QED BY <1>3, <2>1, BlocksStored, LaterOpening DEF fetchAndStoreNewBlocks, InStep
<1>4. CASE CursorToTip
  BY <1>4, BlocksStored, LaterOpening DEF CursorToTip
<1>5. CASE \E b \in BlockIds : BlockProcessed(b)
  BY <1>5, BlocksStored, LaterOpening DEF BlockProcessed
<1> QED BY <1>1, <1>2, <1>3, <1>4, <1>5

LEMMA ReloadOpens ==
    ASSUME ~SlowFirstSync, NEW t \in Tabs, NEW next \in Tabs, Reload(t, next)
    PROVE  Opening
<1>1. Stored' = Stored /\ base' = base /\ cycle.stage # "snapshot"
  BY BlocksStored DEF Reload
<1>2. ASSUME cycle.stage = "start", Stored = {} PROVE cycle'.stage = "start"
  <2>1. CASE t # owner
    BY <1>2, <2>1 DEF Reload
  <2>2. CASE t = owner
    <3>1. Cursor = 0
      <4>1. {0} \cup {Height(b) : b \in Processed} = {0}
        BY <1>2 DEF Processed, Stored
      <4>2. \E h \in {0} : \A k \in {0} : k <= h
        OBVIOUS
      <4> QED BY <4>1, <4>2 DEF Cursor
    <3>2. To("start")
      BY <2>2, <3>1 DEF Reload
    <3> QED BY <3>2, Rested
  <2> QED BY <2>1, <2>2
<1> QED BY <1>1, <1>2 DEF Opening

LEMMA StepOpens ==
    ASSUME ~SlowFirstSync, TypeOK, Solid, Gapless, Next, ~ChainGrows, ~ChainForks
    PROVE  Opening
<1>0. ChainTypeOK /\ IndexTypeOK
  BY DEF TypeOK
<1>a. UNCHANGED indexVars => Opening
  BY BlocksStored DEF indexVars, Opening
<1>1. CASE FirstSync
  BY <1>0, <1>1, FirstSyncOpens DEF FirstSync
<1>2. CASE FollowsChain
  <2>1. \/ discoverChainTip \/ NoForkSeen \/ DetectionFails
        \/ NothingProcessed \/ UpToDate \/ fetchAndStoreNewBlocks \/ FetchFails \/ syncCatchup \/ CursorToTip
        \/ WalkEnds \/ CycleFails
        \/ \E b \in BlockIds : syncIncremental(b) \/ BlockProcessed(b)
        \/ MarkOrphans
    BY <1>2 DEF FollowsChain, Unknown404, HeightGone
  <2>2. ~MarkOrphans
    BY <1>0, NoneDiffer DEF Stored
  <2> QED BY <2>1, <2>2, CycleOpens
<1>3. CASE ForkSeen
  BY <1>0, <1>3, NoneDiffer DEF ForkSeen
<1>4. CASE ProcessesTx
  BY <1>4, CycleOpens DEF ProcessesTx
<1>5. CASE Reconciles \/ CycleSettles \/ RequestFails
  BY <1>5, CycleOpens DEF Reconciles, CycleSettles, RequestFails
<1>8. CASE VerificationReads
  BY <1>8, CycleOpens DEF VerificationReads
<1>6. CASE VerifiesTx \/ ConfirmsTx \/ Registers \/ ChecksDeadlines \/ RollsBack
  BY <1>6, <1>a DEF VerifiesTx, ConfirmsTx, Registers, ChecksDeadlines, RollsBack
<1>7. CASE TabReloads
  BY <1>7, ReloadOpens DEF TabReloads
<1> QED BY <1>1, <1>2, <1>3, <1>4, <1>5, <1>6, <1>7, <1>8 DEF Next

\* When a transaction is taken, what it spends is in the index.
LEMMA InputPresent ==
    ASSUME ChainTypeOK, IndexTypeOK, Solid, Gapless, Ledger, Unread, Read,
           NEW x \in cycle.txs, TakeTx(x), cycle.stage \in {"block", "catchup"}
    PROVE  x.tx \in Txs /\ OnChain(x.tx) /\ utxos[Input[x.tx]] # "absent"
<1>1. /\ x.tx \in Txs /\ x.at \in Nat \ {0} /\ x.tx \in At(x.at) /\ base # NoBlock
      /\ Height(base) \in Nat
  BY Heighted DEF IndexTypeOK, Landed, Heights, Solid, SolidCycle, Unread
<1>2. OnChain(x.tx) /\ x.at \in 1..Len(chain)
  BY <1>1, AtOnChain
<1>3. CASE Input[x.tx] \in Genesis
  BY <1>1, <1>2, <1>3 DEF Read
<1>4. CASE Input[x.tx] \notin Genesis
  <2> DEFINE P == Input[x.tx]
  <2>1. P \in Txs /\ OnChain(P)
    BY <1>1, <1>2, <1>4, UtxosType DEF Ledger, Utxos
  <2>2. PICK h \in 1..Len(chain) : P \in At(h)
    BY <2>1 DEF OnChain, At
  <2>3. h < x.at
    BY <1>1, <1>2, <2>2 DEF Ledger
  <2>4. h > Height(base)
    BY <1>1, <2>2 DEF Read
  <2>5. h \in (Height(base) + 1)..(x.at - 1)
    BY <1>1, <2>2, <2>3, <2>4
  <2>6. Taken(h)
    BY <2>5 DEF Gapless, TakingOrder
  <2>7. [tx |-> P, at |-> h] \notin cycle.txs
    BY <1>1, <2>2, <2>3 DEF TakeTx
  <2> QED BY <1>1, <1>2, <2>2, <2>6, <2>7 DEF Taken, Indexed
<1> QED BY <1>2, <1>1, <1>3, <1>4

LEMMA StepClaims ==
    ASSUME TypeOK, UNCHANGED chainVars, Solid, Landing, Outputs, Gapless, Claims,
           Next, ~ChainGrows, ~ChainForks
    PROVE  ClaimsLawful \/ (FirstSnapshot /\ IndexSnapshot)
<1>0. ChainTypeOK /\ IndexTypeOK /\ PendingTypeOK /\ Ledger /\ Unread /\ Read /\ Present
  BY DEF TypeOK, Claims
<1>a. UNCHANGED pendingVars => ClaimsLawful
  BY StillClaims DEF pendingVars, Status
<1>1. CASE FirstSync
  BY <1>1, <1>a DEF FirstSync
<1>2. CASE FollowsChain
  BY <1>2, <1>a DEF FollowsChain
<1>3. CASE ForkSeen
  BY <1>0, <1>3, NoneDiffer DEF ForkSeen
<1>4. CASE ProcessesTx
  <2>1. PICK x \in cycle.txs : TakeTx(x) /\ IF x.tx \in hashes[owner] THEN ConfirmReads(x.tx, x.at, FALSE)
                                            ELSE Discover(x.tx, x.at)
    BY <1>4 DEF ProcessesTx
  <2>2. cycle.stage \in {"block", "catchup"}
    BY <1>4 DEF ProcessesTx
  <2>3. x.tx \in Txs /\ OnChain(x.tx) /\ utxos[Input[x.tx]] # "absent"
    BY <1>0, <2>1, <2>2, InputPresent
  <2> QED BY <1>0, <2>1, <2>2, <2>3, ConfirmClaims, DiscoverClaims
<1>5. CASE Reconciles
  BY <1>0, <1>5, ReconcileClaims DEF Reconciles
<1>6. CASE VerificationReads \/ VerifiesTx
  <2>1. asked \subseteq Txs
    BY DEF TypeOK
  <2> QED BY <1>0, <1>6, <1>a, <2>1, ConfirmClaims DEF VerificationReads, VerifiesTx
<1>7. CASE ConfirmsTx
  BY <1>0, <1>7, ConfirmClaims DEF ConfirmsTx
<1>8. CASE CycleSettles \/ RequestFails
  <2>1. owner \in Tabs
    BY <1>0 DEF IndexTypeOK
  <2>2. UpdateDepths => ClaimsLawful
    BY <1>0, <2>1, OtherAlive, StillClaims
  <2> QED BY <1>8, <1>a, <2>2 DEF CycleSettles, RequestFails
<1>9. CASE Registers
  BY <1>0, <1>9, RegisterClaims DEF Registers
<1>10. CASE ChecksDeadlines
  BY <1>0, <1>10, OtherAlive, StillClaims DEF ChecksDeadlines
<1>11. CASE RollsBack
  <2>1. PICK t \in Tabs : RollbackReads(t) \/ RollbackClears(t) \/ RollbackDeletes(t) \/ RollbackEnds(t)
    BY <1>11 DEF RollsBack
  <2>2. RollbackReads(t) \/ RollbackEnds(t) => ClaimsLawful
    BY <1>0, OtherAlive, StillClaims
  <2>3. RollbackClears(t) \/ RollbackDeletes(t) => ClaimsLawful
    BY <1>0, RollbackClaims
  <2> QED BY <2>1, <2>2, <2>3
<1>12. CASE TabReloads
  BY <1>0, <1>12, OtherAlive, StillClaims DEF TabReloads
<1> QED BY <1>1, <1>2, <1>3, <1>4, <1>5, <1>6, <1>7, <1>8, <1>9, <1>10, <1>11, <1>12 DEF Next

SpentInv == forks = 0 => Claims

LEMMA ClaimsInit == Init => SpentInv
<1> SUFFICES ASSUME Init PROVE Claims
  BY DEF SpentInv
<1>1. \A T \in Txs : ~OnChain(T)
  <2>1. \A h \in 1..Len(chain) : chain[h] \in BlockIds
    BY InitType DEF TypeOK, ChainTypeOK
  <2> QED BY <2>1 DEF Init, ChainInit, OnChain
<1>2. \A h \in 1..Len(chain) : At(h) = {}
  <2>1. \A h \in 1..Len(chain) : chain[h] \in BlockIds /\ h <= Len(chain)
    BY InitType DEF TypeOK, ChainTypeOK, Heights
  <2> QED BY <2>1 DEF Init, ChainInit, At
<1>3. Ledger
  BY <1>1, <1>2 DEF Ledger
<1>4. \A T \in Txs : Status(T) = "none" /\ utxos[T] = "absent"
  BY Names DEF Init, PendingInit, NoEntry, Status
<1>5. base = NoBlock /\ cycle.stage = "start" /\ Stored = {}
  BY DEF Init, IndexInit, Idle, Stored
<1> QED BY <1>1, <1>3, <1>4, <1>5 DEF Claims, Unread, Read, Present, Claimed, Alive

LEMMA ClaimsStep ==
    ASSUME TypeOK, UNCHANGED chainVars, Linear, Landing, Claims, LawfulStep, Opening,
           ClaimsLawful \/ (FirstSnapshot /\ IndexSnapshot)
    PROVE  Claims'
<1>0. ChainTypeOK /\ IndexTypeOK /\ PendingTypeOK /\ Ledger /\ Unread /\ Read /\ Present /\ Claimed
  BY DEF TypeOK, Claims
<1>1. Ledger'
  BY <1>0, ChainKept DEF Ledger
<1>2. /\ \A T \in Txs : Status(T) # "none" => Status(T)' # "none"
      /\ \A T \in Txs : Status(T) \in GivenUp => Status(T)' \in GivenUp
      /\ \A T \in Txs : OnChain(T)' <=> OnChain(T)
      /\ \A h : At(h)' = At(h)
      /\ Len(chain)' = Len(chain)
  BY LawfulMoves, ChainKept DEF LawfulStep
<1>3. ASSUME FirstSnapshot, IndexSnapshot PROVE Claims'
  <2>1. Stored = {}
    BY <1>3, HighestSome DEF FirstSnapshot, getLatestBlock, Stored
  <2>2. /\ base' = Top /\ cycle'.stage = "snapshot" /\ cycle.stage = "start"
    BY <1>3, Rested DEF FirstSnapshot
  <2>3. \A T \in Txs : ~OnChain(T) /\ Status(T) \notin Alive
    BY <1>0, <2>1, <2>2 DEF Read, Unread
  <2>4. \A u : ~Spent(u)
    BY <2>3 DEF Spent
  <2>5. \A u \in Utxos : utxos'[u] = IF u \in Genesis THEN "unspent" ELSE utxos[u]
    BY <1>3, <2>3, <2>4 DEF IndexSnapshot, Utxos
  <2>6. Top \in BlockIds /\ Top # NoBlock /\ Height(Top) <= Len(chain)
    BY <1>0, OfChain, BlockType, LinearBlocks, BlockchainAssumption DEF Heights
  <2>7. \A h \in 1..Height(Top) : At(h) = {}
    BY <1>0, <2>3, OfChain DEF OnChain, At, ChainTypeOK
  <2>8. \A T \in Txs : Status(T)' = Status(T)
    BY <1>3 DEF IndexSnapshot, Status
  <2>9. Unread' /\ Read'
    BY <1>2, <2>2, <2>5, <2>6, <2>7 DEF Unread, Read, Utxos
  <2>10. Present' /\ Claimed'
    BY <1>0, <2>3, <2>5, <2>8, Names DEF Present, Claimed
  <2> QED BY <1>1, <2>9, <2>10 DEF Claims
<1>4. ASSUME ClaimsLawful, base' = base, ~(FirstSnapshot /\ IndexSnapshot) PROVE Claims'
  <2>1. Unread'
    BY <1>0, <1>2, <1>4 DEF Unread, Opening, ClaimsLawful
  <2>2. Read'
    BY <1>0, <1>2, <1>4 DEF Read, Opening, ClaimsLawful
  <2>3. Present'
    BY <1>0, <1>2, <1>4 DEF Present, ClaimsLawful
  <2>4. \A S \in Txs : Excused(S) => Excused(S)'
    BY <1>2 DEF Excused
  <2>5. Claimed'
    <3> SUFFICES ASSUME NEW S \in Txs, Status(S)' \in Alive, ~Excused(S)' PROVE utxos'[Input[S]] = S
      BY DEF Claimed
    <3>1. CASE Status(S) \in Alive
      BY <1>0, <1>4, <2>4, <3>1 DEF Claimed, ClaimsLawful
    <3> QED BY <1>4, <3>1 DEF ClaimsLawful
  <2> QED BY <1>1, <2>1, <2>2, <2>3, <2>5 DEF Claims
<1> QED BY <1>3, <1>4 DEF Opening

LEMMA ClaimsGrow ==
    ASSUME TypeOK, forks = 0, Linear, Claims, ChainGrows
    PROVE  Claims'
<1>0. /\ ChainTypeOK /\ Ledger /\ Unread /\ Read /\ Present /\ Claimed
      /\ base # NoBlock /\ UNCHANGED <<indexVars, pendingVars>>
  BY DEF TypeOK, Claims, ChainGrows
<1>1. PICK S \in SUBSET Txs : Mine(S)
  BY DEF ChainGrows
<1>2. /\ \A h \in 1..Len(chain) : At(h)' = At(h)
      /\ \A T \in Txs : OnChain(T) => OnChain(T)'
      /\ Len(chain)' = Len(chain) + 1
  BY <1>0, <1>1, ChainGrown
<1>3. Ledger'
  BY <1>0, <1>1, LedgerGrows
<1>4. /\ base' = base /\ cycle' = cycle /\ Stored' = Stored /\ utxos' = utxos
      /\ \A T \in Txs : Status(T)' = Status(T)
  BY <1>0 DEF indexVars, pendingVars, Stored, Status
<1>5. Unread' /\ Present'
  BY <1>0, <1>4 DEF Unread, Present
<1>6. Read'
  <2>1. Len(chain) \in Nat /\ Height(base) \in Nat
    BY <1>0, Heighted, OfChain, BlockchainAssumption DEF TypeOK, IndexTypeOK, Heights
  <2> QED BY <1>0, <1>2, <1>4, <2>1 DEF Read
<1>7. Claimed'
  <2>1. \A T \in Txs : Excused(T) => Excused(T)'
    BY <1>2, <1>4 DEF Excused
  <2> QED BY <1>0, <1>4, <2>1 DEF Claimed
<1> QED BY <1>3, <1>5, <1>6, <1>7 DEF Claims

LEMMA ClaimsNext ==
    ASSUME Paced, ~SlowFirstSync, TypeOK, TypeOK', LandingInv, GapInv, SpentInv, [Next]_vars
    PROVE  SpentInv'
<1> SUFFICES ASSUME forks' = 0 PROVE Claims'
  BY DEF SpentInv
<1>1. forks = 0 /\ ~ChainForks
  BY Unforked
<1>2. Linear /\ Solid /\ Pace /\ Abreast /\ Punctual /\ Asking /\ Landing /\ Outputs /\ Gapless /\ Claims
  BY <1>1 DEF LandingInv, GapInv, SpentInv
<1>3. CASE UNCHANGED vars
  BY <1>2, <1>3 DEF vars, chainVars, indexVars, pendingVars, Claims, Ledger, Unread, Read, Present, Claimed,
     Excused, OnChain, At, Status, Stored
<1>4. CASE ChainGrows
  BY <1>1, <1>2, <1>4, ClaimsGrow
<1>5. CASE Next /\ ~ChainGrows
  <2>1. UNCHANGED chainVars /\ LawfulStep
    BY <1>1, <1>2, <1>5, StepLawful
  <2>2. Opening
    BY <1>1, <1>2, <1>5, StepOpens
  <2>3. ClaimsLawful \/ (FirstSnapshot /\ IndexSnapshot)
    BY <1>1, <1>2, <1>5, <2>1, StepClaims
  <2> QED BY <1>2, <2>1, <2>2, <2>3, ClaimsStep
<1> QED BY <1>3, <1>4, <1>5

\* What a processed block of the chain spends has its spender.
LEMMA ClaimsHold ==
    ASSUME TypeOK, Linear, Landing, Gapless, Claims
    PROVE  SpentNotOffered
<1>0. ChainTypeOK /\ IndexTypeOK /\ PendingTypeOK /\ Ledger /\ Unread /\ Read /\ NoGap
  BY DEF TypeOK, Claims, Gapless
<1> SUFFICES ASSUME NEW b \in BlockIds, NEW T \in mined[b], Canonical(b), blocks[b] = "processed"
             PROVE  utxos[Input[T]] # "unspent"
  BY DEF SpentNotOffered
<1>1. T \in Txs /\ T \in At(Height(b)) /\ Height(b) \in 1..Len(chain) /\ b \in Stored
  BY <1>0 DEF ChainTypeOK, Canonical, At, Heights, Stored
<1>2. OnChain(T) /\ T # "unspent"
  BY <1>1, Names DEF OnChain, Canonical
<1>3. Height(b) <= Cursor /\ Cursor \in Nat
  BY <1>0, <1>1, CursorType DEF CursorIs, Processed
<1>4. base # NoBlock /\ Height(base) \in Nat
  BY <1>0, <1>1, Heighted DEF Unread, IndexTypeOK
<1>5. Height(b) > Height(base)
  BY <1>0, <1>1, <1>4 DEF Read
<1>6. Indexed(T)
  <2>1. Height(b) \in (Height(base) + 1)..Cursor
    BY <1>1, <1>3, <1>4, <1>5
  <2> QED BY <1>0, <1>1, <2>1 DEF NoGap
<1>7. Status(T) \in Alive
  BY <1>6 DEF Indexed, Status, Alive
<1>8. ~Excused(T)
  <2>1. Input[T] \in Txs => OnChain(Input[T])
    BY <1>0, <1>1, <1>2, Names DEF Ledger
  <2>2. Input[T] \in Txs => Status(Input[T]) \notin GivenUp
    BY <2>1 DEF Landing, Deaths, Dead
  <2>3. \A S \in Txs : OnChain(S) /\ Input[S] = Input[T] => S = T
    BY <1>0, <1>1, <1>2 DEF Ledger
  <2> QED BY <2>2, <2>3 DEF Excused
<1> QED BY <1>1, <1>2, <1>7, <1>8 DEF Claims, Claimed

\* If the chain does not move while the initial sync reads the UTxOs, then until
\* the first fork no UTxO that a processed block spends is offered to whoever
\* builds a transaction: not by a rollback that frees what it had taken, nor by a
\* tab that takes over in the middle of a cycle.
THEOREM SpentStaysSpent == ASSUME Paced, ~SlowFirstSync PROVE Spec => [](forks = 0 => SpentNotOffered)
<1>1. Init => TypeOK /\ LandingInv /\ GapInv /\ SpentInv
  BY InitType, LandingInit, GapInit, ClaimsInit
<1>2. TypeOK /\ LandingInv /\ GapInv /\ SpentInv /\ [Next]_vars
      => (TypeOK /\ LandingInv /\ GapInv /\ SpentInv)'
  BY NextType, LandingNext, GapNext, ClaimsNext
<1>3. TypeOK /\ LandingInv /\ GapInv /\ SpentInv => (forks = 0 => SpentNotOffered)
  BY ClaimsHold DEF LandingInv, GapInv, SpentInv
<1> QED BY <1>1, <1>2, <1>3, PTL DEF Spec

-----------------------------------------------------------------------------
(* Across a fork: the chain                                                   *)

\* A block bears its height and the fork it belongs to, and is filled once.
Numbered ==
    /\ \A h \in 1..Len(chain) : Height(chain[h]) = h /\ chain[h][2] \in 0..forks
    /\ \A b \in BlockIds : b[2] > forks \/ (b[2] = forks /\ Height(b) > Len(chain)) => mined[b] = {}

\* What is on the chain stays there, but for a fork; what has left it does not return.
Orphan(b) == forks = 1 /\ b[2] = 0 /\ ~Canonical(b)
Persists ==
    /\ \A b \in BlockIds, T \in Txs : T \in mined[b] => T \in mined'[b]
    /\ forks = 1 => forks' = 1 /\ \A T \in Txs : OnChain(T) => OnChain(T)'
    /\ \A b \in BlockIds : Orphan(b) => Orphan(b)'
    /\ \A b \in BlockIds : b[2] < forks => b[2] < forks'
    /\ \A b \in BlockIds : Canonical(b) => Canonical(b)' \/ b[2] < forks'

LEMMA NumberedBlocks ==
    ASSUME ChainTypeOK, Numbered
    PROVE  /\ Canonical(Top) /\ Height(Top) = Len(chain)
           /\ \A h \in 1..Len(chain) : Canonical(chain[h]) /\ Height(chain[h]) = h
           /\ \A b \in BlockIds : Canonical(b) => b[2] \in 0..forks
<1>1. Len(chain) \in 1..Len(chain)
  BY OfChain, BlockchainAssumption DEF Heights
<1>2. ASSUME NEW h \in 1..Len(chain) PROVE Canonical(chain[h]) /\ Height(chain[h]) = h
  BY DEF Numbered, Canonical
<1>3. \A b \in BlockIds : Canonical(b) => b[2] \in 0..forks
  BY DEF Canonical, Numbered
<1> QED BY <1>1, <1>2, <1>3 DEF Top

LEMMA MinePersists ==
    ASSUME ChainTypeOK, Numbered, NEW S \in SUBSET Txs, Mine(S)
    PROVE  Numbered' /\ (forks <= 1 => Persists)
<1>0. PICK n \in Nat : n = Len(chain) + 1
  BY OfChain, BlockchainAssumption DEF Heights
<1> DEFINE b == <<n, forks>>
<1>1. /\ Len(chain) \in Nat /\ chain \in Seq(BlockIds) /\ b \in BlockIds /\ forks \in 0..MaxForks
      /\ chain' = Append(chain, b) /\ mined' = [mined EXCEPT ![b] = S] /\ forks' = forks
      /\ mined \in [BlockIds -> SUBSET Txs] /\ Height(b) = n /\ b[2] = forks
      /\ n = Len(chain) + 1
  <2>1. Len(chain) + 1 \in Heights
    BY BlockchainAssumption DEF Mine, ChainTypeOK, Heights
  <2> QED BY <1>0, <2>1, BlockchainAssumption DEF Mine, ChainTypeOK, Heights, BlockIds, Height
<1> HIDE DEF b
<1>2. /\ Len(chain') = n /\ chain'[n] = b
      /\ \A h \in 1..Len(chain) : chain'[h] = chain[h] /\ h \in 1..n /\ h # n
      /\ \A h \in 1..n : h = n \/ h \in 1..Len(chain)
  BY <1>1
<1>3. mined[b] = {}
  BY <1>1 DEF Numbered
<1>4. \A d \in BlockIds : mined[d] \subseteq mined'[d] /\ (d # b => mined'[d] = mined[d])
  <2>1. \A d \in BlockIds : d # b => mined'[d] = mined[d]
    BY <1>1
  <2> QED BY <1>3, <2>1
<1>5. \A T \in Txs : OnChain(T) => OnChain(T)'
  <2>1. \A h \in 1..Len(chain) : chain[h] \in BlockIds
    BY OfChain
  <2> QED BY <1>2, <1>4, <2>1 DEF OnChain
<1>6. \A d \in BlockIds : Canonical(d) => Canonical(d)'
  BY <1>2 DEF Canonical
<1>7. ASSUME NEW d \in BlockIds, Orphan(d) PROVE Orphan(d)'
  <2>1. forks = 1 /\ d[2] = 0 /\ Height(d) \in Nat
    BY <1>7, BlockType DEF Orphan, Heights
  <2> d # b
    BY <1>1, <2>1
  <2>2. Canonical(d)' => Height(d) = n \/ Height(d) \in 1..Len(chain)
    BY <1>2 DEF Canonical
  <2> QED BY <1>1, <1>2, <1>7, <2>1, <2>2 DEF Orphan, Canonical
<1>8. Numbered'
  <2>1. \A h \in 1..n : Height(chain'[h]) = h /\ chain'[h][2] \in 0..forks
    BY <1>1, <1>2 DEF Numbered
  <2>2. ASSUME NEW d \in BlockIds, d[2] > forks \/ (d[2] = forks /\ Height(d) > n) PROVE mined'[d] = {}
    <3>1. d # b /\ Height(d) \in Nat
      BY <1>1, <2>2, BlockType DEF Heights
    <3> QED BY <1>1, <1>4, <2>2, <3>1 DEF Numbered
  <2> QED BY <1>1, <1>2, <2>1, <2>2 DEF Numbered
<1> QED BY <1>1, <1>4, <1>5, <1>6, <1>7, <1>8 DEF Persists

LEMMA ForkPersists ==
    ASSUME ChainTypeOK, Numbered, NEW k, Fork(k)
    PROVE  Numbered' /\ (forks' <= 1 => Persists)
<1>1. /\ Len(chain') = Len(chain) - k /\ k \in 1..ForkDepth
      /\ \A h \in 1..Len(chain') : chain'[h] = chain[h]
      /\ Len(chain) \in Nat /\ Len(chain') \in Nat /\ ForkDepth \in Nat
      /\ forks' = forks + 1 /\ forks \in Nat /\ mined' = mined
  BY ForkType, BlockchainAssumption DEF Fork, ChainTypeOK, Heights
<1>2. Numbered'
  <2>1. ASSUME NEW h \in 1..Len(chain') PROVE Height(chain'[h]) = h /\ chain'[h][2] \in 0..forks'
    <3>1. h \in 1..Len(chain)
      BY <1>1
    <3> QED BY <1>1, <3>1 DEF Numbered
  <2>2. \A d \in BlockIds : d[2] \in Nat
    BY BlockType, BlockchainAssumption
  <2> QED BY <1>1, <2>1, <2>2 DEF Numbered
<1>3. ASSUME forks' <= 1 PROVE Persists
  <2>1. forks = 0
    BY <1>1, <1>3
  <2>2. \A b \in BlockIds : Canonical(b) => b[2] < forks'
    BY <1>1, <2>1, NumberedBlocks
  <2>3. \A b \in BlockIds : b[2] < forks => b[2] < forks'
    BY <1>1, BlockType, BlockchainAssumption
  <2> QED BY <1>1, <2>1, <2>2, <2>3 DEF Persists, Orphan
<1> QED BY <1>2, <1>3

LEMMA StillPersists ==
    ASSUME UNCHANGED chainVars
    PROVE  Persists /\ (Numbered' <=> Numbered) /\ \A b : Orphan(b)' <=> Orphan(b)
BY DEF chainVars, Persists, Numbered, Orphan, OnChain, Canonical

-----------------------------------------------------------------------------
(* Across a fork: the invariant                                               *)

\* A block the index knows is on the chain, or a fork has passed since it was.
Known(b) == blocks[b] # "absent" \/ b \in cycle.todo \/ b \in cycle.fresh \/ \E t \in Tabs : tip[t] = b
KnownOnce == \A b \in BlockIds : Known(b) => b[2] < forks \/ Canonical(b)
RolledBack(b) == blocks[b] = "rolled back"
Orphaned == \A b \in BlockIds : RolledBack(b) => Orphan(b)

\* T is in the block it was found in, or on the new fork.
Anchored(T, b) == b \in BlockIds /\ b[2] = 0 => T \in mined[b] \/ (forks = 1 /\ OnChain(T))
Lost(T, b) == Status(T) = "confirmed" /\ entries[T].blk = b /\ ~OnChain(T)
Confirming == {"block", "catchup", "asking"}

AnchoredTaken == \A x \in cycle.txs : Anchored(x.tx, <<x.at, 0>>)
AnchoredReads ==
    /\ confirming # {} => cycle.stage \in Confirming
    /\ \A k \in confirming : Anchored(k.tx, k.blk) /\ (k.blk \in BlockIds => ~RolledBack(k.blk))
AnchoredEntries == \A T \in Txs : Status(T) = "confirmed" => Anchored(T, entries[T].blk)
MarksNone ==
    cycle.stage = "mark" => \A b \in cycle.todo : Orphan(b) /\ \A T \in Txs : ~Lost(T, b)
LosesNone == \A T \in Txs : \A b \in BlockIds : RolledBack(b) => ~Lost(T, b)

Anchoring == /\ KnownOnce /\ Orphaned
             /\ AnchoredTaken /\ AnchoredReads /\ AnchoredEntries
             /\ MarksNone /\ LosesNone
ForkInv == Numbered /\ (forks <= 1 => Anchoring)

\* What a step may do.  To what the index knows:
KnownLawful == \A b \in BlockIds : Known(b)' => Known(b) \/ Canonical(b)
MarksLawful == \A b \in BlockIds : RolledBack(b)' => RolledBack(b) \/ (cycle.stage = "mark" /\ b \in cycle.todo)
TakesLawful == \A x \in cycle'.txs : x \in cycle.txs \/ x.tx \in At(x.at)
MarkLawful == cycle'.stage = "mark" => UNCHANGED <<cycle>>
IndexLawful == KnownLawful /\ MarksLawful /\ TakesLawful /\ MarkLawful

\* and to what is confirmed:
Firm(T, b) == Anchored(T, b) /\ (b \in BlockIds => ~RolledBack(b))
ReadsLawful ==
    /\ confirming' # {} => cycle'.stage \in Confirming
    /\ \A k \in confirming' : k \in confirming \/ Firm(k.tx, k.blk)'
StaysConfirmed(T) == Status(T)' = "confirmed" => Status(T) = "confirmed" /\ entries'[T].blk = entries[T].blk
EntriesLawful ==
    /\ cycle.stage = "mark" => \A T \in Txs : StaysConfirmed(T)
    /\ \A T \in Txs : StaysConfirmed(T) \/ Firm(T, entries[T].blk)'

LEMMA AnchoredStays ==
    ASSUME Persists, NEW T \in Txs, NEW b, Anchored(T, b)
    PROVE  Anchored(T, b)'
BY DEF Anchored, Persists

LEMMA ForkStep ==
    ASSUME TypeOK, TypeOK', Numbered, forks <= 1, Anchoring, UNCHANGED chainVars, IndexLawful, ReadsLawful, EntriesLawful
    PROVE  Anchoring'
<1>0. /\ \A b : (Canonical(b)' <=> Canonical(b)) /\ (Orphan(b)' <=> Orphan(b))
      /\ \A T : OnChain(T)' <=> OnChain(T)
      /\ forks' = forks /\ Persists
      /\ \A T, b : Anchored(T, b)' <=> Anchored(T, b)
  BY StillPersists, ChainKept DEF chainVars, Anchored
<1>1. KnownOnce'
  BY <1>0 DEF Anchoring, KnownOnce, IndexLawful, KnownLawful
<1>2. Orphaned'
  BY <1>0 DEF Anchoring, Orphaned, MarksNone, IndexLawful, MarksLawful
<1>3. AnchoredTaken'
  <2> SUFFICES ASSUME NEW x \in cycle'.txs, x.tx \in At(x.at) PROVE Anchored(x.tx, <<x.at, 0>>)
    BY <1>0 DEF Anchoring, AnchoredTaken, IndexLawful, TakesLawful
  <2>1. x.at \in Heights
    BY DEF TypeOK, IndexTypeOK, Landed
  <2>2. x.at \in 1..Len(chain) /\ x.tx \in mined[chain[x.at]] /\ chain[x.at] \in BlockIds
    BY <2>1, OfChain, BlockchainAssumption DEF TypeOK, At, Heights
  <2>3. OnChain(x.tx)
    BY <2>2 DEF OnChain
  <2>4. Height(chain[x.at]) = x.at /\ chain[x.at][2] \in 0..forks
    BY <2>2 DEF Numbered
  <2>5. chain[x.at] = <<x.at, chain[x.at][2]>>
    BY <2>2, <2>4, BlockType
  <2>6. forks \in {0, 1}
    BY DEF TypeOK, ChainTypeOK
  <2> QED BY <2>2, <2>3, <2>4, <2>5, <2>6 DEF Anchored
<1>4. AnchoredReads'
  <2>1. confirming # {} => cycle.stage # "mark"
    BY DEF Anchoring, AnchoredReads, Confirming
  <2> QED BY <1>0, <2>1 DEF Anchoring, AnchoredReads, ReadsLawful, Firm, IndexLawful, MarksLawful
<1>5. AnchoredEntries'
  BY <1>0 DEF Anchoring, AnchoredEntries, EntriesLawful, StaysConfirmed, Firm
<1>6. MarksNone'
  BY <1>0 DEF Anchoring, MarksNone, IndexLawful, MarkLawful, EntriesLawful, StaysConfirmed, Lost, Status
<1>7. LosesNone'
  <2> SUFFICES ASSUME NEW T \in Txs, NEW b \in BlockIds, RolledBack(b)', Lost(T, b)' PROVE FALSE
    BY DEF LosesNone
  <2>1. StaysConfirmed(T)
    BY DEF EntriesLawful, Firm, Lost
  <2>2. Lost(T, b)
    BY <1>0, <2>1 DEF Lost, StaysConfirmed, Status
  <2> QED BY <2>2 DEF Anchoring, LosesNone, MarksNone, IndexLawful, MarksLawful
<1> QED BY <1>1, <1>2, <1>3, <1>4, <1>5, <1>6, <1>7 DEF Anchoring

-----------------------------------------------------------------------------
(* Across a fork: the steps of the tab that syncs                             *)

\* a step that leaves the entries, and what is read of them
LEMMA EntriesRest ==
    /\ UNCHANGED entries => EntriesLawful
    /\ UNCHANGED confirming /\ (cycle'.stage \in Confirming \/ confirming = {}) => ReadsLawful
BY DEF EntriesLawful, StaysConfirmed, ReadsLawful, Status

LEMMA OfTabs == TypeOK => /\ ChainTypeOK /\ IndexTypeOK /\ PendingTypeOK /\ cycle \in Cycles /\ owner \in Tabs
                          /\ tip \in [Tabs -> Blk]
BY DEF TypeOK, IndexTypeOK, Cycles, Blk

\* a stage that begins with nothing to do
LEMMA BeginsLawful ==
    ASSUME NEW stage, To(stage) \/ Begin(stage) \/ Disturbed(stage), stage # "mark"
    PROVE  /\ cycle'.todo = {} /\ cycle'.fresh = {} /\ cycle'.stage = stage
           /\ TakesLawful /\ MarkLawful
BY DEF To, Begin, Disturbed, Idle, TakesLawful, MarkLawful

LEMMA SavedLawful ==
    ASSUME NEW S, NEW state, state # "rolled back", state # "absent", blocks' = Save(S, state)
    PROVE  /\ \A b \in BlockIds : RolledBack(b)' => RolledBack(b)
           /\ \A b \in BlockIds : blocks'[b] # "absent" => blocks[b] # "absent" \/ b \in S
BY DEF Save, RolledBack

LEMMA SavedOne ==
    ASSUME NEW c, NEW state, state # "rolled back", state # "absent", blocks' = Save({c}, state)
    PROVE  /\ \A b \in BlockIds : RolledBack(b)' => RolledBack(b)
           /\ \A b \in BlockIds : blocks'[b] # "absent" => blocks[b] # "absent" \/ b = c
BY DEF Save, RolledBack

\* The tip becomes the chain's, or stays.
LEMMA HigherKnown ==
    ASSUME ChainTypeOK, Numbered, NEW b, b \in BlockIds => Known(b)
    PROVE  HigherTip(b) \in BlockIds => Known(HigherTip(b)) \/ Canonical(HigherTip(b))
BY NumberedBlocks DEF HigherTip

LEMMA TipKnown ==
    ASSUME TypeOK, NEW t \in Tabs, NEW b, tip' = [tip EXCEPT ![t] = b],
           b \in BlockIds => Known(b) \/ Canonical(b),
           NEW c \in BlockIds, NEW s \in Tabs, tip'[s] = c
    PROVE  Known(c) \/ Canonical(c)
BY OfTabs DEF Known

LEMMA FirstSyncLawful ==
    ASSUME TypeOK, Numbered, UNCHANGED chainVars,
           FirstSnapshot \/ fetchAndStoreLatestBlock \/ FirstSyncEnds
    PROVE  IndexLawful
<1>1. CASE FirstSnapshot
  BY <1>1, BeginsLawful DEF FirstSnapshot, IndexLawful, KnownLawful, Known, MarksLawful, RolledBack
<1>2. CASE fetchAndStoreLatestBlock
  <2>1. Canonical(Top) /\ owner \in Tabs
    BY NumberedBlocks, OfTabs
  <2>2. /\ cycle'.todo = {Top} /\ cycle'.fresh = {} /\ cycle'.txs = {} /\ cycle'.stage = "stored"
    BY <1>2 DEF fetchAndStoreLatestBlock, Idle
  <2>3. tip' = [tip EXCEPT ![owner] = HigherTip(tip[owner])]
    BY <1>2 DEF fetchAndStoreLatestBlock
  <2>4. \A b \in BlockIds : \A s \in Tabs : tip'[s] = b => Known(b) \/ Canonical(b)
    <3>1. tip[owner] \in BlockIds => Known(tip[owner])
      BY <2>1 DEF Known
    <3>2. HigherTip(tip[owner]) \in BlockIds => Known(HigherTip(tip[owner])) \/ Canonical(HigherTip(tip[owner]))
      BY <3>1, HigherKnown, OfTabs
    <3> QED BY <2>1, <2>3, <3>2, TipKnown
  <2>5. /\ \A b \in BlockIds : RolledBack(b)' => RolledBack(b)
        /\ \A b \in BlockIds : blocks'[b] # "absent" => blocks[b] # "absent" \/ b = Top
    <3>1. CASE blocks' = Save({Top}, "unprocessed")
      BY <3>1, SavedOne
    <3>2. CASE blocks' = blocks
      BY <3>2 DEF RolledBack
    <3> QED BY <1>2, <3>1, <3>2 DEF fetchAndStoreLatestBlock
  <2>6. KnownLawful
    BY <2>1, <2>2, <2>4, <2>5 DEF KnownLawful, Known
  <2> QED BY <2>2, <2>5, <2>6 DEF IndexLawful, MarksLawful, TakesLawful, MarkLawful
<1>3. CASE FirstSyncEnds
  <2>1. /\ \A b \in BlockIds : RolledBack(b)' => RolledBack(b)
        /\ \A b \in BlockIds : blocks'[b] # "absent" => blocks[b] # "absent" \/ b \in cycle.todo
    BY <1>3, SavedLawful DEF FirstSyncEnds
  <2> QED BY <1>3, <2>1, BeginsLawful DEF FirstSyncEnds, IndexLawful, KnownLawful, Known, MarksLawful
<1> QED BY <1>1, <1>2, <1>3

LEMMA DetectLawful ==
    ASSUME TypeOK, Numbered, UNCHANGED chainVars,
           \/ discoverChainTip \/ NoForkSeen \/ DetectionFails
    PROVE  IndexLawful
<1>1. CASE discoverChainTip
  <2>1. PICK b : (b \in BlockIds => Known(b)) /\ tip' = [tip EXCEPT ![owner] = HigherTip(b)]
    <3>1. \A b \in getLatestBlock : Known(b)
      BY LatestType, OfTabs DEF Stored, Known
    <3>2. Known(tip[owner])
      BY OfTabs DEF Known
    <3> QED BY <1>1, <3>1, <3>2 DEF discoverChainTip
  <2>2. \A c \in BlockIds : \A s \in Tabs : tip'[s] = c => Known(c) \/ Canonical(c)
    <3>1. HigherTip(b) \in BlockIds => Known(HigherTip(b)) \/ Canonical(HigherTip(b))
      BY <2>1, HigherKnown, OfTabs
    <3> QED BY <2>1, <3>1, TipKnown, OfTabs
  <2>3. UNCHANGED blocks /\ Begin("detect")
    BY <1>1 DEF discoverChainTip
  <2> QED BY <2>2, <2>3, BeginsLawful DEF IndexLawful, KnownLawful, Known, MarksLawful, RolledBack
<1>2. CASE NoForkSeen \/ DetectionFails
  BY <1>2, BeginsLawful DEF NoForkSeen, DetectionFails, IndexLawful, KnownLawful, Known, MarksLawful, RolledBack
<1> QED BY <1>1, <1>2

LEMMA MarkOrphansLawful ==
    ASSUME TypeOK, MarkOrphans
    PROVE  IndexLawful
<1>1. ASSUME NEW b \in BlockIds
      PROVE  /\ blocks'[b] = "rolled back" => blocks[b] = "rolled back" \/ b \in cycle.todo
             /\ blocks'[b] # "absent" => blocks[b] # "absent" \/ b \in cycle.todo \/ b \in cycle.fresh
  <2>1. blocks'[b] = CASE b \in cycle.fresh -> "unprocessed"
                       [] b \in cycle.todo -> "rolled back"
                       [] OTHER -> blocks[b]
    BY DEF MarkOrphans
  <2>2. CASE b \in cycle.fresh /\ b \notin cycle.todo
    BY <2>1, <2>2
  <2>3. CASE b \in cycle.todo
    BY <2>3
  <2>4. CASE b \notin cycle.fresh /\ b \notin cycle.todo
    BY <2>1, <2>4
  <2> QED BY <2>2, <2>3, <2>4
<1> QED BY <1>1, BeginsLawful DEF MarkOrphans, IndexLawful, KnownLawful, Known, MarksLawful, RolledBack

LEMMA SyncLawful ==
    ASSUME TypeOK, Numbered, UNCHANGED chainVars,
           \/ NothingProcessed \/ UpToDate \/ fetchAndStoreNewBlocks \/ FetchFails
           \/ syncCatchup \/ reconcileUtxos \/ CursorToTip
    PROVE  IndexLawful
<1>1. CASE NothingProcessed \/ UpToDate \/ reconcileUtxos
  BY <1>1, BeginsLawful DEF NothingProcessed, UpToDate, reconcileUtxos, IndexLawful, KnownLawful, Known,
     MarksLawful, RolledBack
<1>2. ASSUME cycle' = Walk \/ cycle' = [Walk EXCEPT !.clean = FALSE]
      PROVE  /\ cycle'.fresh = cycle.fresh /\ TakesLawful /\ MarkLawful
             /\ \A b \in BlockIds : b \in cycle'.todo => blocks'[b] # "absent"
  BY <1>2, OfTabs DEF Walk, Cycles, TakesLawful, MarkLawful
<1>3. CASE fetchAndStoreNewBlocks
  <2>1. PICK S : (\A b \in S : Canonical(b)) /\ blocks' = Save(S, "unprocessed")
    BY <1>3 DEF fetchAndStoreNewBlocks
  <2>2. /\ \A b \in BlockIds : RolledBack(b)' => RolledBack(b)
        /\ \A b \in BlockIds : blocks'[b] # "absent" => blocks[b] # "absent" \/ b \in S
    BY <2>1, SavedLawful
  <2>3. \A c \in BlockIds : \A s \in Tabs : tip'[s] = c => Known(c) \/ Canonical(c)
    <3>1. Known(tip[owner]) /\ owner \in Tabs
      BY OfTabs DEF Known
    <3>2. tip' = [tip EXCEPT ![owner] = HigherTip(tip[owner])]
      BY <1>3 DEF fetchAndStoreNewBlocks
    <3>3. HigherTip(tip[owner]) \in BlockIds => Known(HigherTip(tip[owner])) \/ Canonical(HigherTip(tip[owner]))
      BY <3>1, HigherKnown, OfTabs
    <3> QED BY <3>1, <3>2, <3>3, TipKnown
  <2>4. cycle' = Walk
    BY <1>3 DEF fetchAndStoreNewBlocks
  <2> QED BY <1>2, <2>1, <2>2, <2>3, <2>4 DEF IndexLawful, KnownLawful, Known, MarksLawful
<1>4. CASE FetchFails
  BY <1>2, <1>4 DEF FetchFails, IndexLawful, KnownLawful, Known, MarksLawful, RolledBack
<1>5. CASE syncCatchup
  <2>1. /\ cycle'.todo = cycle.todo /\ cycle'.fresh = cycle.fresh /\ cycle'.stage = "catchup"
        /\ cycle'.txs = {x \in Landed : x.at > Cursor /\ x.tx \in At(x.at)} /\ UNCHANGED <<blocks, tip>>
    BY <1>5, OfTabs DEF syncCatchup, Cycles
  <2> QED BY <2>1 DEF IndexLawful, KnownLawful, Known, MarksLawful, TakesLawful, MarkLawful, RolledBack
<1>6. CASE CursorToTip
  <2>1. /\ \A b \in BlockIds : RolledBack(b)' => RolledBack(b)
        /\ \A b \in BlockIds : blocks'[b] # "absent" => blocks[b] # "absent" \/ b = tip[owner]
    <3>1. blocks' = Save({tip[owner]}, "processed")
      BY <1>6 DEF CursorToTip
    <3> QED BY <3>1, SavedOne
  <2> QED BY <1>6, <2>1, BeginsLawful, OfTabs DEF CursorToTip, IndexLawful, KnownLawful, Known, MarksLawful
<1> QED BY <1>1, <1>3, <1>4, <1>5, <1>6

LEMMA WalkLawful ==
    ASSUME TypeOK, UNCHANGED chainVars,
           \/ WalkEnds \/ VerificationStarts \/ AskFails \/ CycleEnds \/ CycleFails
           \/ \E b \in BlockIds : syncIncremental(b) \/ BlockProcessed(b)
           \/ \E x : TakeTx(x)
    PROVE  IndexLawful
<1>1. CASE WalkEnds \/ VerificationStarts \/ AskFails \/ CycleEnds \/ CycleFails
  BY <1>1, BeginsLawful DEF WalkEnds, VerificationStarts, AskFails, CycleEnds, CycleFails, IndexLawful, KnownLawful, Known, MarksLawful,
     RolledBack
<1>2. ASSUME NEW b \in BlockIds, syncIncremental(b) PROVE IndexLawful
  <2>1. /\ cycle'.todo = cycle.todo /\ cycle'.fresh = cycle.fresh /\ cycle'.stage = "block"
        /\ cycle'.txs = {[tx |-> T, at |-> Height(b)] : T \in At(Height(b))} /\ UNCHANGED <<blocks, tip>>
    BY <1>2, OfTabs DEF syncIncremental, Cycles
  <2>2. TakesLawful
    <3> SUFFICES ASSUME NEW x \in cycle'.txs PROVE x.tx \in At(x.at)
      BY DEF TakesLawful
    <3> PICK T \in At(Height(b)) : x = [tx |-> T, at |-> Height(b)]
      BY <2>1
    <3> QED OBVIOUS
  <2> QED BY <2>1, <2>2 DEF IndexLawful, KnownLawful, Known, MarksLawful, MarkLawful, RolledBack
<1>3. ASSUME NEW b \in BlockIds, BlockProcessed(b) PROVE IndexLawful
  <2>1. /\ cycle'.todo \subseteq cycle.todo /\ cycle'.fresh = cycle.fresh /\ cycle'.stage = "walk"
        /\ cycle'.txs = cycle.txs /\ UNCHANGED tip /\ b \in cycle.todo
    BY <1>3, OfTabs DEF BlockProcessed, Cycles, LowestTodo
  <2>2. /\ \A d \in BlockIds : RolledBack(d)' => RolledBack(d)
        /\ \A d \in BlockIds : blocks'[d] # "absent" => blocks[d] # "absent" \/ d = b
    BY <1>3, SavedLawful DEF BlockProcessed
  <2> QED BY <2>1, <2>2 DEF IndexLawful, KnownLawful, Known, MarksLawful, TakesLawful, MarkLawful
<1>4. ASSUME NEW x, TakeTx(x) PROVE IndexLawful
  <2>1. /\ cycle'.todo = cycle.todo /\ cycle'.fresh = cycle.fresh /\ cycle'.stage = cycle.stage
        /\ cycle'.txs \subseteq cycle.txs /\ UNCHANGED <<blocks, tip>> /\ cycle.stage # "mark"
    BY <1>4, OfTabs DEF TakeTx, Cycles
  <2> QED BY <2>1 DEF IndexLawful, KnownLawful, Known, MarksLawful, TakesLawful, MarkLawful, RolledBack
<1> QED BY <1>1, <1>2, <1>3, <1>4

LEMMA ReloadLawful ==
    ASSUME TypeOK, NEW t \in Tabs, NEW next \in Tabs, Reload(t, next)
    PROVE  IndexLawful
<1>1. PICK b : (b \in BlockIds => Known(b)) /\ tip' = [tip EXCEPT ![t] = b]
  <2>1. \A b \in getLatestBlock : Known(b)
    BY LatestType, OfTabs DEF Stored, Known
  <2>2. NoBlock \notin BlockIds
    BY BlockType
  <2> QED BY <2>1, <2>2 DEF Reload
<1>2. \A c \in BlockIds : \A s \in Tabs : tip'[s] = c => Known(c) \/ Canonical(c)
  BY <1>1, TipKnown
<1>3. UNCHANGED blocks
  BY DEF Reload
<1>4. CASE UNCHANGED cycle
  BY <1>2, <1>3, <1>4 DEF IndexLawful, KnownLawful, Known, MarksLawful, TakesLawful, MarkLawful, RolledBack
<1>5. CASE To("start") \/ To("idle")
  BY <1>2, <1>3, <1>5, BeginsLawful DEF IndexLawful, KnownLawful, Known, MarksLawful, RolledBack
<1> QED BY <1>4, <1>5 DEF Reload

-----------------------------------------------------------------------------
(* Across a fork: the entries                                                 *)

\* the block a transaction is confirmed in
LEMMA BlockAtFirm ==
    ASSUME TypeOK, Numbered, Orphaned, NEW T \in Txs, NEW h \in Heights, Anchored(T, <<h, 0>>),
           NEW b \in BlockAt(h)
    PROVE  Firm(T, b)
<1>0. ChainTypeOK /\ h \in Nat \ {0} /\ Len(chain) \in Nat
  BY OfChain, BlockchainAssumption DEF TypeOK, Heights
<1> SUFFICES ASSUME b \in BlockIds PROVE Height(b) = h /\ ~RolledBack(b)
  <2>1. ASSUME b \in BlockIds, Height(b) = h, b[2] = 0 PROVE b = <<h, 0>>
    BY <2>1, BlockType
  <2> QED BY <2>1 DEF Firm, Anchored
<1>1. CASE b \in findBlockByHeight(h)
  BY <1>1 DEF findBlockByHeight, Stored, RolledBack
<1>2. CASE h <= Len(chain) /\ b = chain[h]
  <2>1. h \in 1..Len(chain)
    BY <1>0, <1>2
  <2> QED BY <1>0, <1>2, <2>1, NumberedBlocks DEF Orphaned, Orphan
<1>3. CASE b = NoBlock
  BY <1>3, BlockType
<1> QED BY <1>1, <1>2, <1>3 DEF BlockAt

LEMMA OnChainFirm ==
    ASSUME TypeOK, Numbered, Orphaned, NEW T \in Txs, OnChain(T)
    PROVE  Firm(T, chain[HeightOf(T)])
<1>1. ChainTypeOK
  BY DEF TypeOK
<1>2. HeightOf(T) \in 1..Len(chain) /\ T \in mined[chain[HeightOf(T)]]
  BY <1>1, HeightOfType
<1>3. Canonical(chain[HeightOf(T)])
  BY <1>1, <1>2, NumberedBlocks
<1> QED BY <1>2, <1>3 DEF Firm, Anchored, Orphaned, Orphan

LEMMA FirmStays ==
    ASSUME UNCHANGED <<chainVars, blocks>>
    PROVE  \A T, b : Firm(T, b)' <=> Firm(T, b)
<1>1. \A T : OnChain(T)' <=> OnChain(T)
  BY ChainKept
<1>2. UNCHANGED <<mined, forks, blocks>>
  BY DEF chainVars
<1> QED BY <1>1, <1>2 DEF Firm, Anchored, RolledBack

\* what is read of an entry to confirm it
LEMMA ReadsFirm ==
    ASSUME TypeOK, Numbered, Orphaned, UNCHANGED <<chainVars, blocks>>, cycle'.stage \in Confirming,
           NEW T \in Txs, NEW h, NEW known \in BOOLEAN, ConfirmReads(T, h, known),
           IF known THEN OnChain(T) /\ h = HeightOf(T) ELSE h \in Heights /\ Anchored(T, <<h, 0>>)
    PROVE  ReadsLawful /\ EntriesLawful
<1>1. UNCHANGED entries
  BY DEF ConfirmReads
<1>2. ASSUME NEW k \in confirming', k \notin confirming PROVE Firm(k.tx, k.blk)'
  <2>1. PICK b \in IF known THEN {chain[h]} ELSE BlockAt(h) :
               confirming' = {[tx |-> T, entry |-> entries[T], at |-> h, blk |-> b]}
    BY <1>2 DEF ConfirmReads
  <2>2. k.tx = T /\ k.blk = b
    BY <2>1
  <2>3. Firm(T, b)
    <3>1. CASE known
      BY <2>1, <3>1, OnChainFirm
    <3>2. CASE ~known
      BY <2>1, <3>2, BlockAtFirm
    <3> QED BY <3>1, <3>2
  <2> QED BY <2>2, <2>3, FirmStays
<1> QED BY <1>1, <1>2, EntriesRest DEF ReadsLawful

LEMMA ConfirmSavesFirm ==
    ASSUME TypeOK, AnchoredReads, UNCHANGED <<chainVars, blocks>>, cycle'.stage = cycle.stage,
           NEW c \in confirming, ConfirmSaves(c)
    PROVE  ReadsLawful /\ EntriesLawful
<1>1. c.tx \in Txs /\ entries \in [Txs -> Entries] /\ c.entry \in Entries
  BY DEF TypeOK, PendingTypeOK
<1>2. confirming' \subseteq confirming /\ cycle'.stage \in Confirming /\ cycle.stage # "mark"
  BY DEF ConfirmSaves, AnchoredReads, Confirming
<1>3. entries' = [entries EXCEPT ![c.tx] = Confirmed(c.entry, c.at, c.blk)]
  BY DEF ConfirmSaves
<1>4. Confirmed(c.entry, c.at, c.blk).blk = c.blk
  BY <1>1 DEF Confirmed, Entries
<1>5. entries'[c.tx].blk = c.blk /\ \A T \in Txs : T # c.tx => entries'[T] = entries[T]
  BY <1>1, <1>3, <1>4
<1>6. Firm(c.tx, c.blk)
  BY DEF AnchoredReads, Firm
<1>7. ASSUME NEW T \in Txs PROVE StaysConfirmed(T) \/ Firm(T, entries[T].blk)'
  <2>1. CASE T = c.tx
    BY <1>5, <1>6, <2>1, FirmStays
  <2>2. CASE T # c.tx
    BY <1>5, <2>2 DEF StaysConfirmed, Status
  <2> QED BY <2>1, <2>2
<1> QED BY <1>2, <1>7 DEF ReadsLawful, EntriesLawful

LEMMA DiscoverFirm ==
    ASSUME TypeOK, Numbered, Orphaned, UNCHANGED <<chainVars, blocks>>, confirming = {}, cycle.stage # "mark",
           NEW T \in Txs, NEW h \in Heights, Anchored(T, <<h, 0>>), Discover(T, h)
    PROVE  ReadsLawful /\ EntriesLawful
<1> DEFINE spender == utxos[Input[T]]
<1>1. PICK b \in BlockAt(h) : entries' = [R \in Txs |->
         CASE R = T /\ entries[T].status = "none" -> Confirmed(NoEntry, h, b)
           [] R = spender /\ R # T /\ entries[R].status = "pending" ->
                [entries[R] EXCEPT !.contested = @ \cup {h}]
           [] OTHER -> entries[R]]
  BY DEF Discover
<1> HIDE DEF spender
<1>2. Confirmed(NoEntry, h, b).blk = b
  BY DEF Confirmed, NoEntry
<1>3. Firm(T, b)
  BY BlockAtFirm
<1>4. ASSUME NEW S \in Txs PROVE StaysConfirmed(S) \/ Firm(S, entries[S].blk)'
  <2>1. \/ entries'[S] = Confirmed(NoEntry, h, b) /\ S = T
        \/ entries'[S] = [entries[S] EXCEPT !.contested = @ \cup {h}]
        \/ entries'[S] = entries[S]
    BY <1>1
  <2>2. entries[S] \in Entries
    BY DEF TypeOK, PendingTypeOK
  <2>3. /\ [entries[S] EXCEPT !.contested = @ \cup {h}].status = entries[S].status
        /\ [entries[S] EXCEPT !.contested = @ \cup {h}].blk = entries[S].blk
    BY <2>2 DEF Entries
  <2>4. CASE entries'[S] = Confirmed(NoEntry, h, b) /\ S = T
    BY <1>2, <1>3, <2>4, FirmStays
  <2> QED BY <2>1, <2>3, <2>4 DEF StaysConfirmed, Status
<1>5. UNCHANGED confirming
  BY DEF Discover
<1> QED BY <1>4, <1>5, EntriesRest DEF EntriesLawful

\* Nothing else confirms.
LEMMA NoneConfirms ==
    ASSUME TypeOK,
           \/ UpdateDepths
           \/ \E t \in Tabs : DeadlineReads(t) \/ DeadlineSaves(t)
           \/ \E t \in Tabs : RollbackReads(t) \/ RollbackClears(t) \/ RollbackDeletes(t) \/ RollbackEnds(t)
           \/ \E t \in Tabs, T \in Txs : registerPendingTx(t, T)
    PROVE  EntriesLawful /\ UNCHANGED confirming
<1>0. PendingTypeOK /\ entries \in [Txs -> Entries]
  BY DEF TypeOK, PendingTypeOK
<1>a. UNCHANGED confirming
  BY DEF UpdateDepths, DeadlineSaves, DeadlineReads, RollbackReads, RollbackClears, RollbackDeletes,
     RollbackEnds, registerPendingTx
<1> SUFFICES ASSUME NEW T \in Txs PROVE StaysConfirmed(T)
  BY <1>a DEF EntriesLawful
<1>1. CASE UpdateDepths
  <2>1. entries'[T] = entries[T] \/ entries'[T] = [entries[T] EXCEPT !.provisional = FALSE]
    BY <1>1 DEF UpdateDepths
  <2>2. /\ [entries[T] EXCEPT !.provisional = FALSE].status = entries[T].status
        /\ [entries[T] EXCEPT !.provisional = FALSE].blk = entries[T].blk
    BY <1>0 DEF Entries
  <2> QED BY <1>1, <2>1, <2>2 DEF UpdateDepths, StaysConfirmed, Status
<1>2. ASSUME NEW t \in Tabs, DeadlineSaves(t) PROVE StaysConfirmed(T)
  <2>1. PICK r \in held[t] : entries' = entries
             \/ entries' = [entries EXCEPT ![r.tx] = [r.entry EXCEPT !.status = "rollback-pending"]]
    BY <1>2 DEF DeadlineSaves
  <2>2. r.entry \in Entries
    BY <1>0, HeldTypes
  <2>3. [r.entry EXCEPT !.status = "rollback-pending"].status = "rollback-pending"
    BY <2>2 DEF Entries
  <2>4. entries'[T] = entries[T] \/ entries'[T] = [r.entry EXCEPT !.status = "rollback-pending"]
    BY <1>0, <2>1
  <2> QED BY <1>2, <2>3, <2>4 DEF DeadlineSaves, StaysConfirmed, Status
<1>3. ASSUME NEW t \in Tabs, DeadlineReads(t) \/ RollbackReads(t) \/ RollbackClears(t) \/ RollbackDeletes(t)
      PROVE  StaysConfirmed(T)
  BY <1>3 DEF DeadlineReads, RollbackReads, RollbackClears, RollbackDeletes, StaysConfirmed, Status
<1>4. ASSUME NEW t \in Tabs, RollbackEnds(t) PROVE StaysConfirmed(T)
  <2>1. PICK r \in unwinding[t] : entries' = [entries EXCEPT ![r.tx] = [r.entry EXCEPT !.status = "rolled-back"]]
    BY <1>4 DEF RollbackEnds
  <2>2. r.entry \in Entries
    BY <1>0, HeldTypes
  <2>3. [r.entry EXCEPT !.status = "rolled-back"].status = "rolled-back"
    BY <2>2 DEF Entries
  <2>4. entries'[T] = entries[T] \/ entries'[T] = [r.entry EXCEPT !.status = "rolled-back"]
    BY <1>0, <2>1
  <2> QED BY <2>3, <2>4 DEF StaysConfirmed, Status
<1>5. ASSUME NEW t \in Tabs, NEW R \in Txs, registerPendingTx(t, R) PROVE StaysConfirmed(T)
  <2>1. entries' = [entries EXCEPT ![R].status = "pending"]
    BY <1>5 DEF registerPendingTx
  <2>2. entries'[T] = entries[T] \/ entries'[T].status = "pending"
    BY <1>0, <2>1 DEF Entries
  <2> QED BY <2>1, <2>2 DEF StaysConfirmed, Status
<1> QED BY <1>1, <1>2, <1>3, <1>4, <1>5

-----------------------------------------------------------------------------
(* Across a fork: the steps                                                   *)

\* The orphans found are of the old fork, and what was confirmed in one is
\* found again or pending.
LEMMA OrphansResolved ==
    ASSUME TypeOK, Numbered, forks <= 1, Anchoring, UNCHANGED chainVars,
           NEW S \in SUBSET Stored, detectRolledBackBlocks(S), ResolveOrphanTxs(S)
    PROVE  Anchoring'
<1>0. /\ \A b : (Canonical(b)' <=> Canonical(b)) /\ (Orphan(b)' <=> Orphan(b))
      /\ \A T : OnChain(T)' <=> OnChain(T)
      /\ forks' = forks /\ forks \in {0, 1}
      /\ \A T, b : Anchored(T, b)' <=> Anchored(T, b)
      /\ ChainTypeOK
  BY StillPersists, ChainKept DEF chainVars, Anchored, TypeOK, ChainTypeOK
<1>1. /\ UNCHANGED <<blocks, tip, confirming>> /\ cycle.stage = "detect"
      /\ cycle'.todo = S /\ cycle'.fresh = {chain[Height(b)] : b \in S} /\ cycle'.txs = cycle.txs
  BY OfTabs DEF detectRolledBackBlocks, ResolveOrphanTxs, Cycles
<1>2. confirming = {}
  BY <1>1 DEF Anchoring, AnchoredReads, Confirming
<1>3. ASSUME NEW b \in S PROVE b \in BlockIds /\ Known(b) /\ ~Canonical(b) /\ Orphan(b)
  <2>1. b \in BlockIds /\ Known(b)
    BY DEF Stored, Known
  <2>2. ~Canonical(b)
    BY DEF detectRolledBackBlocks, Differing
  <2>3. b[2] < forks /\ b[2] \in Nat
    BY <2>1, <2>2, BlockType, BlockchainAssumption DEF Anchoring, KnownOnce
  <2> QED BY <1>0, <2>1, <2>2, <2>3 DEF Orphan
<1>4. ASSUME NEW b \in S PROVE Canonical(chain[Height(b)])
  <2>1. Canonical(tip[owner]) /\ Height(b) < TipHeight(owner)
    BY DEF detectRolledBackBlocks, Differing
  <2>2. TipHeight(owner) \in 1..Len(chain) /\ Len(chain) \in Nat /\ Height(b) \in Nat \ {0}
    BY <1>0, <1>3, <2>1, OfChain, BlockType, BlockchainAssumption DEF Canonical, TipHeight, Heights
  <2>3. Height(b) \in 1..Len(chain)
    BY <2>1, <2>2
  <2> QED BY <1>0, <2>3, NumberedBlocks
<1>5. KnownOnce'
  <2>1. \A b \in BlockIds : Known(b)' => Known(b) \/ Canonical(b)
    BY <1>1, <1>3, <1>4 DEF Known
  <2> QED BY <1>0, <2>1 DEF Anchoring, KnownOnce
<1>6. Orphaned' /\ AnchoredTaken' /\ AnchoredReads'
  BY <1>0, <1>1, <1>2 DEF Anchoring, Orphaned, RolledBack, AnchoredTaken, AnchoredReads
<1>7. ASSUME NEW T \in Txs, Status(T)' = "confirmed"
      PROVE  \/ OnChain(T) /\ T \in mined[entries'[T].blk] /\ Canonical(entries'[T].blk)
             \/ /\ entries'[T] = entries[T] /\ Status(T) = "confirmed"
                /\ \A b \in S : T \notin mined[b]
  <2> DEFINE moved == {R \in UNION {mined[b] : b \in S} : entries[R].status # "none"}
             found == {R \in moved : \E h \in ForkHeight(S)..(TipHeight(owner) - 1) : R \in At(h)}
             b == chain[HeightOf(T)]
             e == [entries[T] EXCEPT !.at = HeightOf(T), !.blk = b, !.provisional = Provisional(HeightOf(T))]
             f == [entries[T] EXCEPT !.status = "pending", !.at = 0, !.blk = NoBlock, !.provisional = FALSE]
  <2>1. /\ T \in found => entries'[T] = e
        /\ T \in moved /\ T \notin found => entries'[T] = f
        /\ T \notin moved /\ T \notin found => entries'[T] = entries[T]
    BY DEF ResolveOrphanTxs
  <2>2. entries[T] \in Entries
    BY DEF TypeOK, PendingTypeOK
  <2>3. e.blk = b /\ f.status = "pending"
    BY <2>2 DEF Entries
  <2>4. T \in moved <=> Status(T) # "none" /\ \E c \in S : T \in mined[c]
    BY DEF Status
  <2>5. T \in found => OnChain(T)
    <3>1. ForkHeight(S) \in Nat \ {0}
      BY ForkHeightType DEF TypeOK
    <3>2. TipHeight(owner) \in Nat
      BY OfTabs, LatestType, BlockchainAssumption
    <3>3. \A h \in ForkHeight(S)..(TipHeight(owner) - 1) : h \in Nat \ {0}
      BY <3>1, <3>2
    <3> QED BY <1>0, <3>3, AtOnChain
  <2>6. T \in found => T \in moved
    OBVIOUS
  <2> HIDE DEF moved, found, e, f
  <2>7. CASE T \in found
    <3>1. HeightOf(T) \in 1..Len(chain) /\ T \in mined[b]
      BY <1>0, <2>5, <2>7, HeightOfType
    <3>2. Canonical(b)
      BY <1>0, <3>1, NumberedBlocks
    <3> QED BY <2>1, <2>3, <2>5, <2>7, <3>1, <3>2
  <2>8. CASE T \notin found
    <3>1. T \notin moved /\ entries'[T] = entries[T] /\ Status(T) = "confirmed"
      BY <1>7, <2>1, <2>3, <2>8 DEF Status
    <3> QED BY <2>4, <3>1
  <2> QED BY <2>7, <2>8
<1>8. AnchoredEntries'
  BY <1>0, <1>7 DEF Anchoring, AnchoredEntries, Anchored, chainVars
<1>9. MarksNone'
  <2>1. ASSUME NEW b \in S, NEW T \in Txs, Lost(T, b)' PROVE FALSE
    <3>1. Status(T)' = "confirmed" /\ entries'[T].blk = b /\ ~OnChain(T)
      BY <1>0, <2>1 DEF Lost
    <3>2. /\ entries'[T] = entries[T] /\ Status(T) = "confirmed" /\ T \notin mined[b]
      BY <1>7, <3>1
    <3>3. Anchored(T, b)
      BY <3>1, <3>2 DEF Anchoring, AnchoredEntries
    <3> QED BY <1>3, <3>1, <3>2, <3>3 DEF Anchored, Orphan
  <2> QED BY <1>0, <1>1, <1>3, <2>1 DEF MarksNone
<1>10. LosesNone'
  <2> SUFFICES ASSUME NEW T \in Txs, NEW b \in BlockIds, RolledBack(b)', Lost(T, b)' PROVE FALSE
    BY DEF LosesNone
  <2>1. Status(T)' = "confirmed" /\ entries'[T].blk = b /\ ~OnChain(T) /\ RolledBack(b)
    BY <1>0, <1>1 DEF Lost, RolledBack
  <2>2. Lost(T, b)
    BY <1>7, <2>1 DEF Lost
  <2> QED BY <2>1, <2>2 DEF Anchoring, LosesNone
<1> QED BY <1>5, <1>6, <1>8, <1>9, <1>10 DEF Anchoring

\* Blocks come and go.
LEMMA ChainMoves ==
    ASSUME TypeOK, TypeOK', Numbered, forks <= 1, Anchoring, Persists, UNCHANGED <<indexVars, pendingVars>>
    PROVE  Anchoring'
<1>1. UNCHANGED <<blocks, tip, cycle, confirming, entries>>
  BY DEF indexVars, pendingVars
<1>2. \A T \in Txs : \A b : Anchored(T, b) => Anchored(T, b)'
  BY AnchoredStays
<1>3. KnownOnce'
  <2>1. \A b : Known(b)' <=> Known(b)
    BY <1>1 DEF Known
  <2> QED BY <2>1 DEF Anchoring, KnownOnce, Persists
<1>4. Orphaned'
  BY <1>1 DEF Anchoring, Orphaned, RolledBack, Persists
<1>5. AnchoredTaken' /\ AnchoredReads' /\ AnchoredEntries'
  <2>1. (\A x \in cycle.txs : x.tx \in Txs) /\ \A k \in confirming : k.tx \in Txs
    BY DEF TypeOK, IndexTypeOK, Landed, PendingTypeOK
  <2>2. AnchoredTaken'
    BY <1>1, <1>2, <2>1 DEF Anchoring, AnchoredTaken
  <2>3. AnchoredReads'
    BY <1>1, <1>2, <2>1 DEF Anchoring, AnchoredReads, RolledBack
  <2>4. AnchoredEntries'
    BY <1>1, <1>2 DEF Anchoring, AnchoredEntries, Status
  <2> QED BY <2>2, <2>3, <2>4
<1>6. ASSUME NEW T \in Txs, NEW b \in BlockIds, Orphan(b), ~Lost(T, b) PROVE ~Lost(T, b)'
  BY <1>1, <1>6 DEF Orphan, Lost, Status, Persists
<1>7. MarksNone'
  <2>1. cycle.todo \subseteq BlockIds
    BY OfTabs DEF Cycles
  <2> QED BY <1>1, <1>6, <2>1 DEF Anchoring, MarksNone, Persists
<1>8. LosesNone'
  BY <1>1, <1>6 DEF Anchoring, LosesNone, Orphaned, RolledBack
<1> QED BY <1>3, <1>4, <1>5, <1>7, <1>8 DEF Anchoring

LEMMA StillIndex == ASSUME UNCHANGED indexVars PROVE IndexLawful
BY DEF indexVars, IndexLawful, KnownLawful, Known, MarksLawful, RolledBack, TakesLawful, MarkLawful

\* The steps that leave the chain.
LEMMA StepAnchored ==
    ASSUME TypeOK, TypeOK', Numbered, forks <= 1, Anchoring, Next, ~ChainGrows, ~ChainForks
    PROVE  UNCHANGED chainVars /\ Anchoring'
<1>c. UNCHANGED chainVars
  BY DEF Next, FirstSync, FollowsChain, ForkSeen, ProcessesTx, Reconciles, VerificationReads, VerifiesTx,
         ConfirmsTx, CycleSettles, RequestFails, Registers, ChecksDeadlines, RollsBack, TabReloads
<1>b. UNCHANGED indexVars => UNCHANGED <<chainVars, blocks>> /\ cycle'.stage = cycle.stage
  BY <1>c DEF indexVars
<1>f. confirming # {} => cycle.stage \in Confirming
  BY DEF Anchoring, AnchoredReads
<1>o. Orphaned /\ AnchoredReads
  BY DEF Anchoring
<1> SUFFICES ASSUME ~ForkSeen PROVE IndexLawful /\ ReadsLawful /\ EntriesLawful
  <2>1. CASE ForkSeen
    BY <1>c, <2>1, OrphansResolved DEF ForkSeen
  <2> QED BY <1>c, <2>1, ForkStep
<1>1. CASE FirstSync
  <2>1. IndexLawful
    BY <1>1, <1>c, FirstSyncLawful DEF FirstSync
  <2>2. UNCHANGED <<entries, confirming>>
    BY <1>1 DEF FirstSync, IndexSnapshot, pendingVars
  <2>3. cycle.stage \notin Confirming
    BY <1>1 DEF FirstSync, FirstSnapshot, fetchAndStoreLatestBlock, FirstSyncEnds, Confirming
  <2> QED BY <1>f, <2>1, <2>2, <2>3, EntriesRest
<1>2. CASE FollowsChain
  <2>1. \/ discoverChainTip \/ NoForkSeen \/ DetectionFails
        \/ NothingProcessed \/ UpToDate \/ fetchAndStoreNewBlocks \/ FetchFails \/ syncCatchup \/ CursorToTip
        \/ WalkEnds \/ CycleFails
        \/ \E b \in BlockIds : syncIncremental(b) \/ BlockProcessed(b)
        \/ MarkOrphans
    BY <1>2 DEF FollowsChain, Unknown404, HeightGone
  <2>2. IndexLawful
    BY <1>c, <2>1, DetectLawful, SyncLawful, WalkLawful, MarkOrphansLawful
  <2>3. UNCHANGED <<entries, confirming>>
    BY <1>2 DEF FollowsChain, pendingVars
  <2>4. confirming = {}
    <3>1. CASE confirming = {} /\ (HeightGone \/ \E b \in BlockIds : BlockProcessed(b))
      BY <3>1
    <3>2. CASE cycle.stage \notin Confirming
      BY <1>f, <3>2
    <3>3. CASE \/ discoverChainTip \/ NoForkSeen \/ DetectionFails \/ MarkOrphans \/ NothingProcessed
               \/ UpToDate \/ fetchAndStoreNewBlocks \/ FetchFails
      BY <3>2, <3>3 DEF discoverChainTip, NoForkSeen, DetectionFails, MarkOrphans, NothingProcessed,
         UpToDate, fetchAndStoreNewBlocks, FetchFails, InStep, Confirming
    <3>4. CASE WalkEnds \/ syncCatchup \/ CursorToTip \/ \E b \in BlockIds : syncIncremental(b)
      BY <3>2, <3>4 DEF WalkEnds, syncCatchup, CursorToTip, syncIncremental, InStep, Confirming
    <3> QED BY <1>2, <3>1, <3>3, <3>4 DEF FollowsChain, Unknown404
  <2> QED BY <2>2, <2>3, <2>4, EntriesRest
<1>3. CASE ProcessesTx
  <2>1. PICK x \in cycle.txs : TakeTx(x) /\ IF x.tx \in hashes[owner] THEN ConfirmReads(x.tx, x.at, FALSE)
                                            ELSE Discover(x.tx, x.at)
    BY <1>3 DEF ProcessesTx
  <2>2. confirming = {} /\ cycle.stage \in {"block", "catchup"} /\ UNCHANGED blocks
    BY <1>3, <2>1 DEF ProcessesTx, TakeTx
  <2>3. cycle'.stage = cycle.stage
    BY <2>1, OfTabs DEF TakeTx, Cycles
  <2>4. x.tx \in Txs /\ x.at \in Heights /\ Anchored(x.tx, <<x.at, 0>>)
    BY OfTabs DEF Cycles, Landed, Anchoring, AnchoredTaken
  <2>5. IndexLawful
    BY <1>c, <2>1, WalkLawful
  <2>6. ReadsLawful /\ EntriesLawful
    <3>1. CASE ConfirmReads(x.tx, x.at, FALSE)
      BY <1>c, <1>o, <2>2, <2>3, <2>4, <3>1, ReadsFirm DEF Confirming
    <3>2. CASE Discover(x.tx, x.at)
      BY <1>c, <1>o, <2>2, <2>4, <3>2, DiscoverFirm
    <3> QED BY <2>1, <3>1, <3>2
  <2> QED BY <2>5, <2>6
<1>4. CASE Reconciles
  <2>1. confirming = {} /\ UNCHANGED <<entries, confirming>> /\ reconcileUtxos
    BY <1>4 DEF Reconciles, Reconcile
  <2> QED BY <1>c, <2>1, SyncLawful, EntriesRest
<1>5. CASE VerifiesTx
  <2>1. PICK T \in Txs : IF OnChain(T) THEN ConfirmReads(T, HeightOf(T), TRUE) ELSE UNCHANGED pendingVars
    BY <1>5 DEF VerifiesTx, TypeOK
  <2>2. UNCHANGED indexVars /\ cycle.stage = "asking"
    BY <1>5 DEF VerifiesTx
  <2>3. CASE OnChain(T)
    <3>1. ReadsLawful /\ EntriesLawful
      BY <1>b, <1>o, <2>1, <2>2, <2>3, ReadsFirm DEF Confirming
    <3> QED BY <2>2, <3>1, StillIndex
  <2>4. CASE ~OnChain(T)
    <3>1. UNCHANGED <<entries, confirming>>
      BY <2>1, <2>4 DEF pendingVars
    <3> QED BY <1>b, <1>f, <2>2, <3>1, StillIndex, EntriesRest
  <2> QED BY <2>3, <2>4
<1>11. CASE VerificationReads
  <2>1. VerificationStarts /\ UNCHANGED <<entries, confirming>>
    BY <1>11 DEF VerificationReads, pendingVars
  <2>2. confirming = {}
    BY <1>f, <2>1 DEF VerificationStarts, Confirming
  <2> QED BY <1>c, <2>1, <2>2, WalkLawful, EntriesRest
<1>6. CASE ConfirmsTx
  BY <1>6, <1>b, <1>o, ConfirmSavesFirm, StillIndex DEF ConfirmsTx
<1>7. CASE CycleSettles
  <2>1. confirming = {} /\ CycleEnds /\ UpdateDepths
    BY <1>7 DEF CycleSettles
  <2> QED BY <1>c, <2>1, WalkLawful, NoneConfirms, EntriesRest
<1>8. CASE RequestFails
  <2>1. confirming = {} /\ (DetectionFails \/ FetchFails \/ CycleFails \/ AskFails) /\ UNCHANGED <<entries, confirming>>
    BY <1>8 DEF RequestFails, pendingVars
  <2>2. IndexLawful
    BY <1>c, <2>1, DetectLawful, SyncLawful, WalkLawful
  <2> QED BY <2>1, <2>2, EntriesRest
<1>9. CASE Registers \/ ChecksDeadlines \/ RollsBack
  <2>1. UNCHANGED indexVars
    BY <1>9 DEF Registers, ChecksDeadlines, RollsBack
  <2>2. EntriesLawful /\ UNCHANGED confirming
    BY <1>9, NoneConfirms, PendingAssumption DEF Registers, ChecksDeadlines, RollsBack
  <2> QED BY <1>b, <1>f, <2>1, <2>2, StillIndex, EntriesRest
<1>10. CASE TabReloads
  <2>1. PICK t \in Tabs, next \in Tabs : Reload(t, next) /\ loadPendingFromStore(t)
    BY <1>10 DEF TabReloads
  <2>2. UNCHANGED entries /\ confirming' = IF t = owner THEN {} ELSE confirming
    BY <2>1 DEF loadPendingFromStore
  <2>3. t # owner => UNCHANGED cycle
    BY <2>1 DEF Reload
  <2>4. ReadsLawful
    BY <1>f, <2>2, <2>3 DEF ReadsLawful
  <2> QED BY <2>1, <2>2, <2>4, ReloadLawful, EntriesRest
<1> QED BY <1>1, <1>2, <1>3, <1>4, <1>5, <1>6, <1>7, <1>8, <1>9, <1>10, <1>11 DEF Next

LEMMA ForkInit == Init => ForkInv
<1> SUFFICES ASSUME Init PROVE Numbered /\ Anchoring
  BY DEF ForkInv
<1>1. /\ \A h \in 1..Len(chain) : chain[h] = <<h, 0>>
      /\ forks = 0 /\ mined = [b \in BlockIds |-> {}]
  <2>1. Start \in Nat /\ chain = [h \in 1..Start |-> <<h, 0>>]
    BY BlockchainAssumption DEF Init, ChainInit, Heights
  <2>2. Len(chain) = Start
    BY <2>1
  <2> QED BY <2>1, <2>2 DEF Init, ChainInit
<1>2. Numbered
  BY <1>1 DEF Numbered, Height
<1>3. /\ \A b \in BlockIds : blocks[b] = "absent"
      /\ \A t \in Tabs : tip[t] = NoBlock
      /\ cycle.stage = "start" /\ cycle.todo = {} /\ cycle.fresh = {} /\ cycle.txs = {}
      /\ confirming = {} /\ \A T \in Txs : Status(T) = "none"
  BY DEF Init, IndexInit, PendingInit, Idle, NoEntry, Status
<1>4. KnownOnce /\ Orphaned /\ MarksNone /\ LosesNone
  BY <1>3, BlockType DEF KnownOnce, Known, Orphaned, RolledBack, MarksNone, LosesNone
<1>5. AnchoredTaken /\ AnchoredReads /\ AnchoredEntries
  BY <1>3 DEF AnchoredTaken, AnchoredReads, AnchoredEntries
<1> QED BY <1>2, <1>4, <1>5 DEF Anchoring

LEMMA ForkNext == ASSUME TypeOK, TypeOK', ForkInv, [Next]_vars PROVE ForkInv'
<1>0. ChainTypeOK /\ Numbered /\ forks \in Nat
  BY DEF TypeOK, ForkInv, ChainTypeOK
<1>1. CASE ChainGrows
  <2>1. PICK S \in SUBSET Txs : Mine(S)
    BY <1>1 DEF ChainGrows
  <2>2. Numbered' /\ (forks <= 1 => Persists)
    BY <1>0, <2>1, MinePersists
  <2>3. forks' = forks /\ UNCHANGED <<indexVars, pendingVars>>
    BY <1>1, <2>1 DEF ChainGrows, Mine
  <2> QED BY <1>0, <2>2, <2>3, ChainMoves DEF ForkInv
<1>2. CASE ChainForks
  <2>1. PICK k : Fork(k)
    BY <1>2 DEF ChainForks
  <2>2. Numbered' /\ (forks' <= 1 => Persists)
    BY <1>0, <2>1, ForkPersists
  <2>3. forks' = forks + 1 /\ UNCHANGED <<indexVars, pendingVars>>
    BY <1>2, <2>1 DEF ChainForks, Fork
  <2>4. forks' <= 1 => forks <= 1
    BY <1>0, <2>3
  <2> QED BY <1>0, <2>2, <2>3, <2>4, ChainMoves DEF ForkInv
<1>3. CASE Next /\ ~ChainGrows /\ ~ChainForks
  <2>1. UNCHANGED chainVars
    BY <1>3 DEF Next, FirstSync, FollowsChain, ForkSeen, ProcessesTx, Reconciles, VerificationReads, VerifiesTx,
         ConfirmsTx, CycleSettles, RequestFails, Registers, ChecksDeadlines, RollsBack, TabReloads
  <2>2. Numbered' /\ forks' = forks
    BY <1>0, <2>1, StillPersists DEF chainVars
  <2> QED BY <1>0, <1>3, <2>2, StepAnchored DEF ForkInv
<1>4. CASE UNCHANGED vars
  <2>1. UNCHANGED <<chainVars, indexVars, pendingVars>>
    BY <1>4 DEF vars
  <2>2. Persists /\ Numbered' /\ forks' = forks
    BY <1>0, <2>1, StillPersists DEF chainVars
  <2> QED BY <1>0, <2>1, <2>2, ChainMoves DEF ForkInv
<1> QED BY <1>1, <1>2, <1>3, <1>4

\* However the steps of a cycle fall around the first fork - a block that leaves
\* the chain between being stored, read, and named in a confirmation, or orphans
\* found while other tabs go on - what is confirmed in a block marked as rolled
\* back is on the chain.  A second fork may come between the orphans' discovery
\* and their marking, and then it is not.
THEOREM FirstForkResolved == Spec => [](forks <= 1 => NoOrphanedConfirmation)
<1>1. Init => TypeOK /\ ForkInv
  BY InitType, ForkInit
<1>2. TypeOK /\ ForkInv /\ [Next]_vars => (TypeOK /\ ForkInv)'
  BY NextType, ForkNext
<1>3. TypeOK /\ ForkInv => (forks <= 1 => NoOrphanedConfirmation)
  <2> SUFFICES ASSUME TypeOK, Anchoring, NEW T \in Txs, Status(T) = "confirmed",
                      entries[T].blk # NoBlock, RolledBack(entries[T].blk)
               PROVE  OnChain(T)
    BY DEF ForkInv, NoOrphanedConfirmation, WithStatus, Status, RolledBack
  <2>1. entries[T].blk \in BlockIds
    BY DEF TypeOK, PendingTypeOK, Entries
  <2> QED BY <2>1 DEF Anchoring, LosesNone, Lost
<1> QED BY <1>1, <1>2, <1>3, PTL DEF Spec

=============================================================================
