---------------------------- MODULE CharterProofs ----------------------------
(***************************************************************************)
(* Proofs about Charter, for any number of operators, policies and runs:   *)
(* its type invariant; that no transaction loses a policy but one that     *)
(* queues a change, once some change was queued from an older manifest;    *)
(* and that upgrades recover what earlier runs left undone.                *)
(*                                                                         *)
(* The second follows from what is true of a transaction from the time it  *)
(* is made, whatever happens before it lands (Keeps).                      *)
(*                                                                         *)
(* The third is by an invariant of three parts (SoundInv).  What each run  *)
(* has made was valid on the charter it was made for (RunSound), however   *)
(* many others have landed since.  The charter, the tokens and the         *)
(* settings record agree (ChainSound), until a stale change lands.  And of *)
(* an upgrade that nobody has crossed: its transactions lead, one by one,  *)
(* from the charter on chain to the one its chain builder shows (Links),   *)
(* and the additional txns it has still to make do what that one lacks     *)
(* (Plan).                                                                 *)
(***************************************************************************)
EXTENDS Charter, TLAPS

Manifests == [Policies -> Scripts]
Changes == [policy : Policies, action : {"Add", "Replace"}]
Charters ==
    [manifest : Manifests, settings : BOOLEAN, pending : Seq(Changes),
     depth : Nat, by : Operators \cup {"nobody"}]
CharterData == Charters \cup {NoCharter}
Items == [step : Steps, policy : Policies, data : CharterData]
Kinds == Spending \cup {"ref", "record"}

\* What the scripts and its making say of the charter a tx leaves
Keeps(t) ==
    /\ t.kind = "commit" => t.leaves.manifest = Committed(t.on)
    /\ t.kind = "entry" => t.leaves.manifest = t.on.manifest
    /\ t.kind = "queue" =>
         /\ t.stale \/ t.leaves.manifest = t.on.manifest
         /\ Len(t.leaves.pending) > Len(t.on.pending)

Txs ==
    {t \in [kind : Kinds, policy : Policies, on : Charters, leaves : Charters,
            stale : BOOLEAN, burns : SUBSET Policies] : Keeps(t)}

ChainTyped ==
    /\ charter \in Charters
    /\ oldTokens \subseteq Policies /\ refScripts \subseteq Policies
    /\ newTokens \in [Policies -> Nat]
    /\ settingsRecord \in BOOLEAN /\ damaged \in BOOLEAN

RunTyped ==
    /\ page \in [Operators -> Pages]
    /\ todo \in [Operators -> Seq(Items)]
    /\ work \in [Operators -> CharterData]
    /\ txs \in [Operators -> Seq(Txs)]

LeftTyped ==
    /\ afloat \in [Operators -> Seq(Txs)]
    /\ runs \in 0..MaxRuns
    /\ clean \subseteq Operators

DelegatesTyped ==
    /\ oldScripts \subseteq Policies
    /\ cached \in [Operators -> SUBSET Policies]
    /\ outdated \in [Operators -> SUBSET Policies]

DataTyped == ChainTyped /\ RunTyped /\ LeftTyped
CharterInv == ChainTyped /\ RunTyped /\ LeftTyped /\ DelegatesTyped

-----------------------------------------------------------------------------
(* Data *)

LEMMA CommittedType == ASSUME NEW c \in Charters PROVE Committed(c) \in Manifests
BY DEF Committed, Manifests, Charters, Scripts

LEMMA QueuedType ==
    ASSUME NEW c \in Charters, NEW p \in Policies
    PROVE  /\ Queued(c, p) \in Charters
           /\ Queued(c, p).manifest = c.manifest
           /\ Queued(c, p).pending # <<>>
           /\ Tail(Queued(c, p).pending) = c.pending
           /\ Len(Queued(c, p).pending) = Len(c.pending) + 1
<1> DEFINE change == [policy |-> p, action |-> ActionFor(c, p)]
           q == <<change>> \o c.pending
<1>1. change \in Changes
  BY DEF Changes, ActionFor
<1>2. c.pending \in Seq(Changes)
  BY DEF Charters
<1> HIDE DEF change
<1>3. /\ q \in Seq(Changes) /\ q # <<>>
      /\ Tail(q) = c.pending /\ Len(q) = Len(c.pending) + 1
  BY <1>1, <1>2
<1> HIDE DEF q
<1>4. Queued(c, p) = [c EXCEPT !.pending = q]
  BY DEF Queued, q, change
<1> QED BY <1>3, <1>4 DEF Charters

LEMMA ReplacedType == ASSUME NEW c \in Charters PROVE Replaced(c) \subseteq Policies
<1>1. c.pending \in Seq(Changes)
  BY DEF Charters
<1>2. \A change \in Changes : change.policy \in Policies
  BY DEF Changes
<1>3. \A i \in DOMAIN c.pending : c.pending[i].policy \in Policies
  BY <1>1, <1>2
<1> QED BY <1>3 DEF Replaced

LEMMA SeenType ==
    ASSUME CharterInv, NEW o \in Operators
    PROVE  CharterSeen(o) \in Charters
<1>1. \A i \in DOMAIN txs[o] : txs[o][i].leaves \in Charters
  <2>1. txs[o] \in Seq(Txs)
    BY DEF CharterInv, RunTyped
  <2>2. \A t \in Txs : t.leaves \in Charters
    BY DEF Txs
  <2> QED BY <2>1, <2>2
<1>2. Left(o) \subseteq Charters
  BY <1>1 DEF Left, MadeBy
<1>3. CASE charter \in Spent(o) /\ Left(o) # {}
  BY <1>2, <1>3 DEF CharterSeen
<1>4. CASE ~(charter \in Spent(o) /\ Left(o) # {})
  BY <1>4 DEF CharterSeen, CharterInv, ChainTyped
<1> QED BY <1>3, <1>4

LEMMA ItemType ==
    ASSUME CharterAssumption
    PROVE  /\ \A step \in Steps, p \in Policies : Item(step, p) \in Items
           /\ \A p \in Policies, c \in Charters : Install(p, c) \in Items
           /\ CommitIfNeeded \in Items
           /\ SetupEach \in Seq(Items)
<1>1. \A step \in Steps, p \in Policies : Item(step, p) \in Items
  BY DEF Item, Items, CharterData
<1>2. \A p \in Policies, c \in Charters : Install(p, c) \in Items
  BY DEF Install, Item, Items, CharterData, Steps
<1>3. CommitIfNeeded \in Items
  BY <1>1 DEF CommitIfNeeded, CharterAssumption, Steps
<1>4. \A i \in DOMAIN PolicySeq : Item("setup", PolicySeq[i]) \in Items
  <2> SUFFICES ASSUME NEW i \in DOMAIN PolicySeq PROVE Item("setup", PolicySeq[i]) \in Items
    OBVIOUS
  <2>1. PolicySeq[i] \in Policies
    BY DEF CharterAssumption
  <2>2. "setup" \in Steps
    BY DEF Steps
  <2> QED BY <1>1, <2>1, <2>2
<1>5. SetupEach \in Seq(Items)
  BY <1>4 DEF SetupEach, CharterAssumption
<1> QED BY <1>1, <1>2, <1>3, <1>5
-----------------------------------------------------------------------------
(* The pipeline *)

LEMMA GoesOnTyped ==
    ASSUME CharterInv, NEW o \in Operators, todo[o] # <<>>, NEW nested \in Seq(Items),
           GoesOn(o, nested)
    PROVE  /\ todo' \in [Operators -> Seq(Items)]
           /\ work' \in [Operators -> CharterData]
<1>1. nested \o Tail(todo[o]) \in Seq(Items)
  BY DEF CharterInv, RunTyped
<1> QED BY <1>1 DEF GoesOn, CharterInv, RunTyped, CharterData

LEMMA SkipsTyped ==
    ASSUME CharterInv, NEW o \in Operators, todo[o] # <<>>, NEW nested \in Seq(Items),
           Skips(o, nested)
    PROVE  RunTyped'
BY GoesOnTyped DEF Skips, CharterInv, RunTyped

LEMMA ThrowsTyped ==
    ASSUME CharterInv, NEW o \in Operators, NEW how \in Pages, Throws(o, how)
    PROVE  RunTyped'
BY DEF Throws, CharterInv, RunTyped, CharterData

LEMMA MakesTyped ==
    ASSUME CharterInv, NEW o \in Operators, todo[o] # <<>>, NEW nested \in Seq(Items),
           NEW tx \in Txs, Makes(o, tx, nested)
    PROVE  RunTyped'
<1>1. Append(txs[o], tx) \in Seq(Txs)
  BY DEF CharterInv, RunTyped
<1>2. txs' \in [Operators -> Seq(Txs)]
  BY <1>1 DEF Makes, CharterInv, RunTyped
<1>3. GoesOn(o, nested)
  BY DEF Makes
<1> QED BY <1>2, <1>3, GoesOnTyped DEF Makes, CharterInv, RunTyped

LEMMA PlainType ==
    ASSUME NEW kind \in {"ref", "record"}, NEW p \in Policies, NEW u \in Charters
    PROVE  Plain(kind, p, u) \in Txs
BY DEF Plain, Txs, Keeps, Kinds, Spending

\* What an update must show of the charter it puts in place
LEMMA UpdatesTyped ==
    ASSUME CharterInv, NEW o \in Operators, todo[o] # <<>>, NEW nested \in Seq(Items),
           NEW kind \in Spending, NEW p \in Policies, NEW c \in Charters,
           NEW next \in Charters, NEW valid \in BOOLEAN,
           Updates(o, kind, p, c, next, valid, nested),
           valid =>
             /\ kind = "commit" => next.manifest = Committed(CharterSeen(o))
             /\ kind = "entry" => next.manifest = CharterSeen(o).manifest
             /\ kind = "queue" =>
                  /\ next.manifest = c.manifest
                  /\ Len(next.pending) > Len(CharterSeen(o).pending)
    PROVE  RunTyped'
<1> DEFINE u == CharterSeen(o)
           leaves == [next EXCEPT !.depth = u.depth + 1, !.by = o]
           stale == kind = "queue" /\ ~Same(u, c, {"manifest", "settings"})
           burns == IF kind = "commit" THEN Replaced(c) ELSE {}
           tx == [kind |-> kind, policy |-> p, on |-> u, leaves |-> leaves,
                  stale |-> stale, burns |-> burns]
<1>1. u \in Charters
  BY SeenType
<1>2. CASE valid
  <2>1. /\ leaves \in Charters
        /\ leaves.manifest = next.manifest /\ leaves.pending = next.pending
    <3> HIDE DEF u
    <3>1. u.depth + 1 \in Nat
      BY <1>1 DEF Charters
    <3>2. o \in Operators \cup {"nobody"}
      OBVIOUS
    <3> DEFINE depth == u.depth + 1
    <3> HIDE DEF depth
    <3>3. [next EXCEPT !.depth = depth, !.by = o] \in Charters
      BY <3>1, <3>2 DEF Charters, depth
    <3>4. leaves = [next EXCEPT !.depth = depth, !.by = o]
      BY DEF depth
    <3> QED BY <3>3, <3>4 DEF Charters
  <2>2. burns \subseteq Policies
    BY ReplacedType
  <2>3. ~stale /\ kind = "queue" => u.manifest = c.manifest
    BY DEF Same
  <2> HIDE DEF leaves, stale, burns, u
  <2>4. stale \in BOOLEAN
    BY DEF stale
  <2>5. Keeps(tx)
    BY <1>2, <2>1, <2>3 DEF Keeps, u
  <2>6. tx \in Txs
    BY <1>1, <2>1, <2>2, <2>4, <2>5 DEF Txs, Kinds
  <2>7. Makes(o, tx, nested)
    BY <1>2 DEF Updates, u, leaves, stale, burns
  <2> HIDE DEF tx
  <2> QED BY <2>6, <2>7, MakesTyped
<1>3. CASE ~valid
  BY <1>3, ThrowsTyped DEF Updates, Pages
<1> QED BY <1>2, <1>3

LEMMA HeadItem ==
    ASSUME CharterInv, NEW o \in Operators, todo[o] # <<>>
    PROVE  /\ Head(todo[o]) \in Items
           /\ Head(todo[o]).policy \in Policies
           /\ Head(todo[o]).data \in CharterData
<1>1. Head(todo[o]) \in Items
  BY DEF CharterInv, RunTyped
<1> QED BY <1>1 DEF Items

LEMMA BootstrappingType ==
    ASSUME CharterAssumption, NEW c \in Charters
    PROVE  addTxnBootstrappingSettings(c) \in Seq(Items)
<1> DEFINE install == <<Install(Settings, c), CommitIfNeeded>>
           record == <<Item("record", Settings), Item("register", Settings)>>
<1>1. install \in Seq(Items)
  BY ItemType DEF CharterAssumption
<1>2. Item("record", Settings) \in Items /\ Item("register", Settings) \in Items
  BY ItemType DEF CharterAssumption, Steps
<1>3. record \in Seq(Items)
  BY <1>2
<1> HIDE DEF install, record
<1>4. (IF c.manifest[Settings] = "none" THEN install ELSE <<>>)
       \o (IF ~c.settings THEN record ELSE <<>>) \in Seq(Items)
  BY <1>1, <1>3
<1> QED BY <1>4 DEF addTxnBootstrappingSettings, install, record

-----------------------------------------------------------------------------
(* The actions *)

\* Actions that leave everything but the operator's run alone
LEMMA RestTyped == ASSUME CharterInv, UNCHANGED Rest, RunTyped' PROVE DataTyped'
BY DEF DataTyped, CharterInv, ChainTyped, LeftTyped, Rest, chainVars

LEMMA InstallStep ==
    ASSUME CharterAssumption, CharterInv, NEW o \in Operators, mkTxnInstallPolicyDelegate(o)
    PROVE  DataTyped'
<1> DEFINE p == Head(todo[o]).policy
           c == work[o]
           refScript == <<Item("ref script", p)>>
<1>1. todo[o] # <<>> /\ c # NoCharter
  BY DEF mkTxnInstallPolicyDelegate, Doing, Ready
<1>2. p \in Policies
  BY <1>1, HeadItem
<1>3. c \in Charters
  BY <1>1 DEF CharterInv, RunTyped, CharterData
<1>4. Item("ref script", p) \in Items
  BY <1>2, ItemType DEF Steps
<1>5. refScript \in Seq(Items) /\ Append(refScript, CommitIfNeeded) \in Seq(Items)
  <2>1. \A item \in Items : <<item>> \in Seq(Items)
    OBVIOUS
  <2>2. refScript \in Seq(Items)
    BY <1>4, <2>1
  <2> HIDE DEF refScript
  <2>3. CommitIfNeeded \in Items
    BY ItemType
  <2> QED BY <2>2, <2>3
<1>6. UNCHANGED Rest
  BY DEF mkTxnInstallPolicyDelegate
<1> HIDE DEF p, c, refScript
<1>7. ASSUME Skips(o, IF Head(todo[o]).step = "setup" /\ ~RefScriptSeen(o, p)
                      THEN refScript ELSE <<>>)
      PROVE  RunTyped'
  <2>1. (IF Head(todo[o]).step = "setup" /\ ~RefScriptSeen(o, p)
         THEN refScript ELSE <<>>) \in Seq(Items)
    BY <1>5
  <2> QED BY <1>1, <1>7, <2>1, SkipsTyped
<1>8. ASSUME Updates(o, "queue", p, c, Queued(c, p), ValidQueue(CharterSeen(o), Queued(c, p)),
                     Append(refScript, CommitIfNeeded))
      PROVE  RunTyped'
  <2>1. Queued(c, p) \in Charters /\ Queued(c, p).manifest = c.manifest
    BY <1>2, <1>3, QueuedType
  <2>2. c.pending \in Seq(Changes)
    BY <1>3 DEF Charters
  <2>3. ValidQueue(CharterSeen(o), Queued(c, p)) =>
          Len(Queued(c, p).pending) > Len(CharterSeen(o).pending)
    <3> SUFFICES ASSUME ValidQueue(CharterSeen(o), Queued(c, p))
                 PROVE  Len(Queued(c, p).pending) > Len(CharterSeen(o).pending)
      OBVIOUS
    <3>1. CharterSeen(o).pending = c.pending
      BY <1>2, <1>3, QueuedType DEF ValidQueue
    <3> QED BY <1>2, <1>3, <2>2, <3>1, QueuedType
  <2>4. ValidQueue(CharterSeen(o), Queued(c, p)) \in BOOLEAN
    BY DEF ValidQueue
  <2>5. "queue" \in Spending
    BY DEF Spending
  <2> QED
    BY <1>1, <1>2, <1>3, <1>5, <1>8, <2>1, <2>3, <2>4, <2>5, UpdatesTyped
<1> QED BY <1>6, <1>7, <1>8, RestTyped DEF mkTxnInstallPolicyDelegate, p, c, refScript

LEMMA CommitStep ==
    ASSUME CharterAssumption, CharterInv, NEW o \in Operators, mkTxnCommittingPendingChanges(o)
    PROVE  DataTyped'
<1> DEFINE c == work[o]
           next == [c EXCEPT !.manifest = Committed(c), !.pending = <<>>]
           burned == {<<p, c.manifest[p]>> : p \in Replaced(c)}
           valid == CanCommit(o, c) /\ ValidCommit(CharterSeen(o), next, burned)
<1>1. todo[o] # <<>> /\ c # NoCharter
  BY DEF mkTxnCommittingPendingChanges, Doing, Ready
<1>2. c \in Charters
  BY <1>1 DEF CharterInv, RunTyped, CharterData
<1>3. next \in Charters
  <2> HIDE DEF c
  <2> DEFINE m == Committed(c)
  <2>1. m \in Manifests
    BY <1>2, CommittedType
  <2> DEFINE none == <<>>
  <2>2. none \in Seq(Changes)
    OBVIOUS
  <2> HIDE DEF m, none
  <2>3. [c EXCEPT !.manifest = m, !.pending = none] \in Charters
    BY <1>2, <2>1, <2>2 DEF Charters
  <2> QED BY <2>3 DEF m, none
<1>4. UNCHANGED Rest
  BY DEF mkTxnCommittingPendingChanges
<1>5. Settings \in Policies
  BY DEF CharterAssumption
<1>6. <<>> \in Seq(Items)
  OBVIOUS
<1>7. valid \in BOOLEAN
  BY DEF CanCommit, ValidCommit
<1>8. valid => next.manifest = Committed(CharterSeen(o))
  BY DEF ValidCommit
<1>9. "commit" \in Spending
  BY DEF Spending
<1>10. \/ Skips(o, <<>>)
       \/ Updates(o, "commit", Settings, c, next, valid, <<>>)
  BY DEF mkTxnCommittingPendingChanges
<1> HIDE DEF c, next, valid
<1>11. ASSUME Updates(o, "commit", Settings, c, next, valid, <<>>) PROVE RunTyped'
  BY <1>1, <1>2, <1>3, <1>5, <1>6, <1>7, <1>8, <1>9, <1>11, UpdatesTyped
<1>12. ASSUME Skips(o, <<>>) PROVE RunTyped'
  BY <1>1, <1>6, <1>12, SkipsTyped
<1> QED BY <1>4, <1>10, <1>11, <1>12, RestTyped

LEMMA EntryStep ==
    ASSUME CharterAssumption, CharterInv, NEW o \in Operators, mkTxnAddManifestEntry(o)
    PROVE  DataTyped'
<1> DEFINE c == work[o]
           next == [c EXCEPT !.settings = TRUE]
           valid == /\ RecordSeen(o) /\ c.manifest[Settings] # "none"
                    /\ ValidEntry(CharterSeen(o), next)
<1>1. todo[o] # <<>> /\ c # NoCharter
  BY DEF mkTxnAddManifestEntry, Doing, Ready
<1>2. c \in Charters
  BY <1>1 DEF CharterInv, RunTyped, CharterData
<1>3. next \in Charters
  BY <1>2 DEF Charters
<1>4. UNCHANGED Rest
  BY DEF mkTxnAddManifestEntry
<1>5. Settings \in Policies
  BY DEF CharterAssumption
<1>6. <<CommitIfNeeded>> \in Seq(Items)
  BY ItemType
<1>7. valid \in BOOLEAN
  BY <1>3, SeenType DEF RecordSeen, ValidEntry, Charters, CharterInv, ChainTyped
<1>8. valid => next.manifest = CharterSeen(o).manifest
  BY DEF ValidEntry, Same
<1>9. "entry" \in Spending
  BY DEF Spending
<1>10. Updates(o, "entry", Settings, c, next, valid, <<CommitIfNeeded>>)
  BY DEF mkTxnAddManifestEntry
<1> HIDE DEF c, next, valid
<1>11. RunTyped'
  BY <1>1, <1>2, <1>3, <1>5, <1>6, <1>7, <1>8, <1>9, <1>10, UpdatesTyped
<1> QED BY <1>4, <1>11, RestTyped

LEMMA OpensPageStep ==
    ASSUME CharterInv, NEW o \in Operators, NEW items \in Seq(Items), NEW connected,
           OpensPage(o, items, connected),
           clean' \subseteq Operators
    PROVE  DataTyped'
<1>1. runs' \in 0..MaxRuns
  BY CharterAssumption DEF OpensPage, CharterInv, LeftTyped, CharterAssumption
<1>2. todo' \in [Operators -> Seq(Items)]
  BY DEF OpensPage, CharterInv, RunTyped
<1>3. page' \in [Operators -> Pages]
  BY DEF OpensPage, CharterInv, RunTyped, Pages
<1> QED
  BY <1>1, <1>2, <1>3 DEF OpensPage, DataTyped, CharterInv, ChainTyped, RunTyped, LeftTyped, chainVars

\* Steps that no transaction's effect is part of
LEMMA RunStep ==
    ASSUME CharterAssumption, CharterInv, NEW o \in Operators,
           \/ mkTxnUpgradeIfNeeded(o)
           \/ \E p \in Policies : InstallsPolicy(o, p)
           \/ loadUpgradeTxns(o) \/ checkForUpdates(o) \/ ReadsCharter(o)
           \/ mkRefScriptTxn(o) \/ createSettingsRecord(o)
           \/ Rejects(o) \/ RunEnds(o) \/ PageCloses(o)
    PROVE  DataTyped'
<1>c. charter \in Charters
  BY DEF CharterInv, ChainTyped
<1>n. <<>> \in Seq(Items) /\ <<>> \in Seq(Txs) /\ {"away", "failed"} \subseteq Pages
  BY DEF Pages
<1>1. CASE mkTxnUpgradeIfNeeded(o)
  <2> DEFINE items == Append(addTxnBootstrappingSettings(charter), Item("check", Settings))
  <2>1. addTxnBootstrappingSettings(charter) \in Seq(Items)
    BY <1>c, BootstrappingType
  <2>2. Item("check", Settings) \in Items
    BY ItemType DEF CharterAssumption, Steps
  <2>3. items \in Seq(Items)
    BY <2>1, <2>2
  <2>4. OpensPage(o, items, {Settings} \cap Older(charter)) /\ clean' = clean \cup {o}
    BY <1>1 DEF mkTxnUpgradeIfNeeded
  <2> HIDE DEF items
  <2>5. clean' \subseteq Operators
    BY <2>4 DEF CharterInv, LeftTyped
  <2> QED BY <2>3, <2>4, <2>5, OpensPageStep
<1>2. ASSUME NEW p \in Policies, InstallsPolicy(o, p) PROVE DataTyped'
  <2>1. \A item \in Items : <<item>> \in Seq(Items)
    OBVIOUS
  <2>2. <<Install(p, charter)>> \in Seq(Items)
    BY <1>c, <2>1, ItemType
  <2>3. OpensPage(o, <<Install(p, charter)>>, {}) /\ clean' = clean \ {o}
    BY <1>2 DEF InstallsPolicy
  <2>4. clean' \subseteq Operators
    BY <2>3 DEF CharterInv, LeftTyped
  <2> QED BY <2>2, <2>3, <2>4, OpensPageStep
<1>3. CASE loadUpgradeTxns(o)
  <2>1. RunTyped'
    BY <1>3 DEF loadUpgradeTxns, CharterInv, RunTyped, Pages
  <2> QED BY <1>3, <2>1, RestTyped DEF loadUpgradeTxns
<1>4. CASE checkForUpdates(o)
  <2> DEFINE nested == <<CommitIfNeeded>> \o SetupEach \o <<CommitIfNeeded>>
  <2>1. \A item \in Items : <<item>> \in Seq(Items)
    OBVIOUS
  <2>2. <<CommitIfNeeded>> \in Seq(Items) /\ SetupEach \in Seq(Items)
    BY <2>1, ItemType
  <2>3. nested \in Seq(Items)
    BY <2>2
  <2>4. todo[o] # <<>> /\ Skips(o, nested) /\ UNCHANGED Rest
    BY <1>4 DEF checkForUpdates, Doing
  <2> HIDE DEF nested
  <2> QED BY <2>3, <2>4, SkipsTyped, RestTyped
<1>5. CASE ReadsCharter(o)
  <2> DEFINE read == IF Head(todo[o]).step = "install" THEN Head(todo[o]).data
                     ELSE CharterSeen(o)
  <2>1. todo[o] # <<>>
    BY <1>5 DEF ReadsCharter, Doing
  <2>2. read \in CharterData
    BY <2>1, HeadItem, SeenType DEF CharterData
  <2>3. work' = [work EXCEPT ![o] = read] /\ UNCHANGED <<page, todo, txs>> /\ UNCHANGED Rest
    BY <1>5 DEF ReadsCharter
  <2> HIDE DEF read
  <2>4. RunTyped'
    BY <2>2, <2>3 DEF CharterInv, RunTyped
  <2> QED BY <2>3, <2>4, RestTyped
<1>6. CASE mkRefScriptTxn(o)
  <2> DEFINE tx == Plain("ref", Head(todo[o]).policy, CharterSeen(o))
  <2>1. todo[o] # <<>> /\ UNCHANGED Rest
    BY <1>6 DEF mkRefScriptTxn, Doing
  <2>2. tx \in Txs
    BY <2>1, HeadItem, SeenType, PlainType
  <2>3. Makes(o, tx, <<>>) \/ Throws(o, "no funds")
    BY <1>6 DEF mkRefScriptTxn
  <2>4. <<>> \in Seq(Items) /\ "no funds" \in Pages
    BY DEF Pages
  <2> HIDE DEF tx
  <2> QED BY <2>1, <2>2, <2>3, <2>4, MakesTyped, ThrowsTyped, RestTyped
<1>7. CASE createSettingsRecord(o)
  <2> DEFINE tx == Plain("record", Settings, CharterSeen(o))
  <2>1. todo[o] # <<>> /\ UNCHANGED Rest
    BY <1>7 DEF createSettingsRecord, Doing
  <2>2. tx \in Txs
    BY SeenType, PlainType DEF CharterAssumption
  <2>3. Makes(o, tx, <<>>) \/ Throws(o, "failed")
    BY <1>7 DEF createSettingsRecord
  <2>4. <<>> \in Seq(Items) /\ "failed" \in Pages
    BY DEF Pages
  <2> HIDE DEF tx
  <2> QED BY <2>1, <2>2, <2>3, <2>4, MakesTyped, ThrowsTyped, RestTyped
<1>8. CASE Rejects(o)
  <2>1. RunTyped'
    BY <1>8, <1>n DEF Rejects, CharterInv, RunTyped, CharterData
  <2> QED BY <1>8, <2>1, RestTyped DEF Rejects
<1>9. CASE RunEnds(o)
  <2>1. RunTyped'
    BY <1>9 DEF RunEnds, CharterInv, RunTyped, Pages
  <2> QED BY <1>9, <2>1, RestTyped DEF RunEnds
<1>10. CASE PageCloses(o)
  <2>1. RunTyped'
    BY <1>10, <1>n DEF PageCloses, CharterInv, RunTyped, CharterData
  <2>2. afloat' \in [Operators -> Seq(Txs)]
    <3>1. PICK n \in 0..1 : /\ n = 1 => txs[o] # <<>>
                            /\ afloat' = [afloat EXCEPT ![o] = SubSeq(txs[o], 1, n)]
      BY <1>10 DEF PageCloses
    <3>2. txs[o] \in Seq(Txs)
      BY DEF CharterInv, RunTyped
    <3>3. n <= Len(txs[o])
      BY <3>1, <3>2
    <3>4. SubSeq(txs[o], 1, n) \in Seq(Txs)
      BY <3>2, <3>3
    <3> QED BY <3>1, <3>4 DEF CharterInv, LeftTyped
  <2> QED
    BY <1>10, <2>1, <2>2 DEF PageCloses, DataTyped, CharterInv, ChainTyped, LeftTyped, chainVars
<1> QED BY <1>1, <1>2, <1>3, <1>4, <1>5, <1>6, <1>7, <1>8, <1>9, <1>10

LEMMA LandingStep ==
    ASSUME CharterInv, NEW o \in Operators, Lands(o) \/ AfloatLands(o)
    PROVE  DataTyped'
<1>1. ASSUME NEW t \in Txs, Takes(t) PROVE ChainTyped'
  <2>1. /\ t.leaves \in Charters /\ t.policy \in Policies /\ t.stale \in BOOLEAN
        /\ t.burns \subseteq Policies
    BY DEF Txs
  <2> QED BY <1>1, <2>1 DEF Takes, CharterInv, ChainTyped
<1>2. ASSUME NEW t, NEW others, Crosses(t, others) PROVE clean' \subseteq Operators
  BY <1>2 DEF Crosses, CharterInv, LeftTyped
<1>3. CASE Lands(o)
  <2>1. Head(txs[o]) \in Txs /\ Tail(txs[o]) \in Seq(Txs)
    BY <1>3 DEF Lands, CharterInv, RunTyped
  <2>2. RunTyped'
    BY <1>3, <2>1 DEF Lands, CharterInv, RunTyped
  <2>3. ChainTyped'
    BY <1>1, <1>3, <2>1 DEF Lands
  <2>4. clean' \subseteq Operators
    BY <1>2, <1>3 DEF Lands
  <2> QED BY <1>3, <2>2, <2>3, <2>4 DEF Lands, DataTyped, CharterInv, LeftTyped
<1>4. CASE AfloatLands(o)
  <2>1. Head(afloat[o]) \in Txs /\ Tail(afloat[o]) \in Seq(Txs)
    BY <1>4 DEF AfloatLands, CharterInv, LeftTyped
  <2>2. afloat' \in [Operators -> Seq(Txs)]
    BY <1>4, <2>1 DEF AfloatLands, CharterInv, LeftTyped
  <2>3. ChainTyped'
    BY <1>1, <1>4, <2>1 DEF AfloatLands
  <2>4. clean' \subseteq Operators
    BY <1>2, <1>4 DEF AfloatLands
  <2> QED
    BY <1>4, <2>2, <2>3, <2>4 DEF AfloatLands, DataTyped, CharterInv, RunTyped, LeftTyped
<1> QED BY <1>3, <1>4

\* What the delegates that pages connect are of
LEMMA ConnectsTyped ==
    ASSUME DelegatesTyped, NEW o \in Operators, NEW policies,
           ConnectsPlainly(o, policies \cap Policies) \/ ConnectsForTx(o, policies)
    PROVE  cached' \in [Operators -> SUBSET Policies] /\ outdated' \in [Operators -> SUBSET Policies]
BY DEF DelegatesTyped, ConnectsPlainly, ConnectsForTx, Detectable

LEMMA OpensDelegates ==
    ASSUME DelegatesTyped, NEW o \in Operators, NEW items, NEW connected \in SUBSET Policies,
           OpensPage(o, items, connected)
    PROVE  DelegatesTyped'
<1>1. PICK forTx \in SUBSET (Older(charter) \cap oldScripts), plain \in SUBSET Older(charter) :
        /\ cached' = [cached EXCEPT ![o] = forTx \cup plain \cup connected]
        /\ outdated' = [outdated EXCEPT ![o] = forTx]
  BY DEF OpensPage
<1>2. forTx \subseteq Policies /\ plain \subseteq Policies
  BY DEF Older
<1>3. oldScripts' = oldScripts
  BY DEF OpensPage, chainVars
<1> QED BY <1>1, <1>2, <1>3 DEF DelegatesTyped

LEMMA DelegatesStep ==
    ASSUME DelegatesTyped, CharterNext
    PROVE  DelegatesTyped'
<1>0. Upgraders \subseteq Operators /\ Installers \subseteq Operators
  BY DEF Operators
<1>o. \A c : Older(c) \subseteq Policies /\ \A S : S \cap Older(c) = (S \cap Older(c)) \cap Policies
  BY DEF Older
<1>1. ASSUME NEW o \in Operators, mkTxnUpgradeIfNeeded(o) \/ \E p \in Policies : InstallsPolicy(o, p)
      PROVE  DelegatesTyped'
  <2>1. \E items : \E connected \in SUBSET Policies : OpensPage(o, items, connected)
    BY <1>1, <1>o DEF mkTxnUpgradeIfNeeded, InstallsPolicy
  <2> QED BY <2>1, OpensDelegates
<1>2. ASSUME NEW o \in Operators, checkForUpdates(o) PROVE DelegatesTyped'
  <2>1. ConnectsPlainly(o, Older(CharterSeen(o)) \cap Policies) /\ UNCHANGED Rest
    <3>1. Older(CharterSeen(o)) \cap Policies = Older(CharterSeen(o))
      BY <1>o
    <3> QED BY <1>2, <3>1 DEF checkForUpdates
  <2> QED BY <2>1, ConnectsTyped DEF DelegatesTyped, Rest, chainVars
<1>3. ASSUME NEW o \in Operators, mkTxnInstallPolicyDelegate(o) PROVE DelegatesTyped'
  <2> DEFINE policies == {Head(todo[o]).policy} \cap Older(work[o])
  <2>1. ConnectsPlainly(o, policies) /\ UNCHANGED Rest
    BY <1>3 DEF mkTxnInstallPolicyDelegate
  <2>2. policies \cap Policies = policies
    BY <1>o
  <2> HIDE DEF policies
  <2>3. ConnectsPlainly(o, policies \cap Policies)
    BY <2>1, <2>2
  <2> QED BY <2>1, <2>3, ConnectsTyped DEF DelegatesTyped, Rest, chainVars
<1>4. ASSUME NEW o \in Operators, mkTxnCommittingPendingChanges(o) \/ createSettingsRecord(o)
      PROVE  DelegatesTyped'
  <2>1. (\E policies : ConnectsForTx(o, policies)) /\ UNCHANGED Rest
    BY <1>4 DEF mkTxnCommittingPendingChanges, createSettingsRecord
  <2> QED BY <2>1, ConnectsTyped DEF DelegatesTyped, Rest, chainVars
<1>5. ASSUME NEW o \in Operators,
             \/ loadUpgradeTxns(o) \/ ReadsCharter(o) \/ mkRefScriptTxn(o) \/ mkTxnAddManifestEntry(o)
             \/ Rejects(o) \/ RunEnds(o)
      PROVE  DelegatesTyped'
  <2>1. UNCHANGED <<Rest, delegateVars>>
    BY <1>5 DEF loadUpgradeTxns, ReadsCharter, mkRefScriptTxn, mkTxnAddManifestEntry, Rejects, RunEnds
  <2> QED BY <2>1 DEF DelegatesTyped, Rest, chainVars, delegateVars
<1>6. ASSUME NEW o \in Operators, Lands(o) \/ AfloatLands(o) PROVE DelegatesTyped'
  <2>1. UNCHANGED <<oldScripts, delegateVars>>
    BY <1>6 DEF Lands, AfloatLands, Takes
  <2> QED BY <2>1 DEF DelegatesTyped, delegateVars
<1>7. ASSUME NEW o \in Operators, PageCloses(o) PROVE DelegatesTyped'
  BY <1>7 DEF PageCloses, DelegatesTyped, chainVars
<1> QED BY <1>0, <1>1, <1>2, <1>3, <1>4, <1>5, <1>6, <1>7 DEF CharterNext

-----------------------------------------------------------------------------
(* The theorems *)

LEMMA Initially == CharterAssumption /\ CharterInit => CharterInv
<1> SUFFICES ASSUME CharterAssumption, CharterInit PROVE CharterInv
  OBVIOUS
<1>1. <<>> \in Seq(Items) /\ <<>> \in Seq(Txs) /\ <<>> \in Seq(Changes)
  OBVIOUS
<1>2. [p \in Policies |-> IF p \in oldTokens THEN "old" ELSE "none"] \in Manifests
  BY DEF Manifests, Scripts
<1>3. charter \in Charters
  BY <1>1, <1>2 DEF CharterInit, Charters
<1>4. ChainTyped
  BY <1>3 DEF CharterInit, ChainTyped
<1>5. RunTyped
  BY <1>1 DEF CharterInit, RunTyped, Pages, CharterData
<1>6. LeftTyped
  BY <1>1 DEF CharterInit, LeftTyped, CharterAssumption
<1>7. DelegatesTyped
  BY DEF CharterInit, DelegatesTyped
<1> QED BY <1>4, <1>5, <1>6, <1>7 DEF CharterInv

LEMMA Inductive == CharterAssumption /\ CharterInv /\ [CharterNext]_charterVars => CharterInv'
<1> SUFFICES ASSUME CharterAssumption, CharterInv, [CharterNext]_charterVars
             PROVE  CharterInv'
  OBVIOUS
<1>1. CASE UNCHANGED charterVars
  BY <1>1 DEF charterVars, chainVars, runVars, delegateVars, CharterInv, ChainTyped, RunTyped, LeftTyped,
              DelegatesTyped
<1>2. CASE CharterNext
  <2>1. Upgraders \subseteq Operators /\ Installers \subseteq Operators
    BY DEF Operators
  <2>2. DataTyped'
    BY <1>2, <2>1, RunStep, InstallStep, CommitStep, EntryStep, LandingStep DEF CharterNext
  <2>3. DelegatesTyped'
    BY <1>2, DelegatesStep DEF CharterInv
  <2> QED BY <2>2, <2>3 DEF DataTyped, CharterInv
<1> QED BY <1>1, <1>2

\* The types of the charter, of what runs keep, and of the changes pending, for any
\* number of operators, policies and runs.
THEOREM CharterTypeCorrect == CharterSpec => []CharterTypeOK
<1>1. CharterInv => CharterTypeOK
  <2> SUFFICES ASSUME CharterInv PROVE CharterTypeOK
    OBVIOUS
  <2>1. charter.manifest \in [Policies -> Scripts] /\ charter.pending \in Seq(Changes)
    BY DEF CharterInv, ChainTyped, Charters, Manifests
  <2>2. \A i \in DOMAIN charter.pending : charter.pending[i] \in Changes
    BY <2>1
  <2>3. \A o \in Operators : \A i \in DOMAIN todo[o] : todo[o][i].step \in Steps
    <3> SUFFICES ASSUME NEW o \in Operators, NEW i \in DOMAIN todo[o]
                 PROVE  todo[o][i].step \in Steps
      OBVIOUS
    <3>1. todo[o][i] \in Items
      BY DEF CharterInv, RunTyped
    <3> QED BY <3>1 DEF Items
  <2> QED
    BY <2>1, <2>2, <2>3 DEF CharterTypeOK, CharterInv, ChainTyped, RunTyped, LeftTyped, DelegatesTyped, Changes
<1> QED BY <1>1, Initially, Inductive, CharterAssumption, PTL DEF CharterSpec

LEMMA CommitKeeps ==
    ASSUME NEW c \in Charters, NEW p \in Policies
    PROVE  Rank(c.manifest[p]) <= Rank(Committed(c)[p])
<1>1. c.manifest[p] \in Scripts
  BY DEF Charters, Manifests
<1>2. Rank("none") = 0 /\ Rank("old") = 1 /\ Rank("new") = 2
  BY DEF Rank
<1>3. Committed(c)[p] = "new" \/ Committed(c)[p] = c.manifest[p]
  BY DEF Committed
<1> QED BY <1>1, <1>2, <1>3 DEF Scripts

LEMMA LandingKeeps ==
    ASSUME CharterInv, NEW t \in Txs, CanLand(t), Takes(t)
    PROVE  \/ \A p \in Policies : Rank(charter.manifest[p]) <= Rank(charter'.manifest[p])
           \/ damaged' /\ Len(charter'.pending) > Len(charter.pending)
<1>1. charter \in Charters /\ Keeps(t) /\ t.kind \in Kinds
  BY DEF CharterInv, ChainTyped, Txs
<1>2. \A p \in Policies : Rank(charter.manifest[p]) <= Rank(charter.manifest[p])
  <2> SUFFICES ASSUME NEW p \in Policies
               PROVE  Rank(charter.manifest[p]) <= Rank(charter.manifest[p])
    OBVIOUS
  <2>1. charter.manifest[p] \in Scripts
    BY <1>1 DEF Charters, Manifests
  <2>2. Rank("none") = 0 /\ Rank("old") = 1 /\ Rank("new") = 2
    BY DEF Rank
  <2> QED BY <2>1, <2>2 DEF Scripts
<1>3. CASE t.kind \notin Spending
  BY <1>2, <1>3 DEF Takes
<1>4. CASE t.kind \in Spending
  <2>1. charter' = t.leaves /\ t.on = charter
    BY <1>4 DEF Takes, CanLand, Spending
  <2>2. CASE t.kind = "commit"
    BY <1>1, <2>1, <2>2, CommitKeeps DEF Keeps
  <2>3. CASE t.kind = "entry"
    BY <1>1, <1>2, <2>1, <2>3 DEF Keeps
  <2>4. CASE t.kind = "queue"
    <3>1. CASE t.stale
      BY <1>1, <2>1, <2>4, <3>1 DEF Keeps, Takes
    <3>2. CASE ~t.stale
      BY <1>1, <1>2, <2>1, <2>4, <3>2 DEF Keeps
    <3> QED BY <3>1, <3>2
  <2> QED BY <1>4, <2>2, <2>3, <2>4 DEF Spending
<1> QED BY <1>3, <1>4

\* Whatever the operators do and wherever their runs are left: a transaction that loses
\* a policy, or takes one back to an older script, queues a change, and some change was
\* queued from a manifest that was no longer the charter's.
THEOREM NoPolicyLost == CharterSpec => PoliciesKept
<1> DEFINE Kept == \/ \A p \in Policies : Rank(charter.manifest[p]) <= Rank(charter'.manifest[p])
                   \/ damaged' /\ Len(charter'.pending) > Len(charter.pending)
<1>1. CharterInv /\ [CharterNext]_charterVars => [Kept]_charterVars
  <2> SUFFICES ASSUME CharterInv, CharterNext PROVE Kept \/ UNCHANGED charterVars
    OBVIOUS
  <2>r. UNCHANGED charter => Kept
    <3> SUFFICES ASSUME UNCHANGED charter PROVE Kept
      OBVIOUS
    <3>1. charter \in Charters
      BY DEF CharterInv, ChainTyped
    <3>2. \A p \in Policies : charter.manifest[p] \in Scripts
      BY <3>1 DEF Charters, Manifests
    <3>3. Rank("none") = 0 /\ Rank("old") = 1 /\ Rank("new") = 2
      BY DEF Rank
    <3> QED BY <3>2, <3>3 DEF Scripts
  <2>1. ASSUME NEW o \in Operators, Lands(o) PROVE Kept
    <3>1. Head(txs[o]) \in Txs /\ CanLand(Head(txs[o])) /\ Takes(Head(txs[o]))
      BY <2>1 DEF Lands, CharterInv, RunTyped
    <3> QED BY <3>1, LandingKeeps
  <2>2. ASSUME NEW o \in Operators, AfloatLands(o) PROVE Kept
    <3>1. Head(afloat[o]) \in Txs /\ CanLand(Head(afloat[o])) /\ Takes(Head(afloat[o]))
      BY <2>2 DEF AfloatLands, CharterInv, LeftTyped
    <3> QED BY <3>1, LandingKeeps
  <2>3. ASSUME NEW o \in Operators,
               \/ mkTxnUpgradeIfNeeded(o) \/ (\E p \in Policies : InstallsPolicy(o, p))
               \/ loadUpgradeTxns(o) \/ PageCloses(o) \/ ReadsCharter(o)
        PROVE  UNCHANGED charter
    BY <2>3 DEF mkTxnUpgradeIfNeeded, InstallsPolicy, OpensPage, loadUpgradeTxns, PageCloses,
                ReadsCharter, Rest, chainVars
  <2>4. ASSUME NEW o \in Operators,
               \/ checkForUpdates(o) \/ mkTxnInstallPolicyDelegate(o) \/ mkRefScriptTxn(o)
               \/ mkTxnCommittingPendingChanges(o) \/ createSettingsRecord(o)
               \/ mkTxnAddManifestEntry(o) \/ Rejects(o) \/ RunEnds(o)
        PROVE  UNCHANGED charter
    <3>1. UNCHANGED Rest
      BY <2>4 DEF checkForUpdates, mkTxnInstallPolicyDelegate, mkRefScriptTxn,
                  mkTxnCommittingPendingChanges, createSettingsRecord,
                  mkTxnAddManifestEntry, Rejects, RunEnds
    <3> QED BY <3>1 DEF Rest, chainVars
  <2>5. Upgraders \subseteq Operators /\ Installers \subseteq Operators
    BY DEF Operators
  <2> HIDE DEF Kept
  <2> QED BY <2>r, <2>1, <2>2, <2>3, <2>4, <2>5 DEF CharterNext
<1> QED
  BY <1>1, Initially, Inductive, CharterAssumption, PTL DEF CharterSpec, PoliciesKept

-----------------------------------------------------------------------------
(* From one charter to another                                                *)

\* What is "old" was so before; what is later is deeper.
Onward(a, b) ==
    /\ a.depth <= b.depth
    /\ \A p \in Policies : b.manifest[p] = "old" => a.manifest[p] = "old"

LEMMA OnwardSelf == ASSUME NEW a \in Charters PROVE Onward(a, a)
BY DEF Onward, Charters

LEMMA OnwardTrans ==
    ASSUME NEW a \in Charters, NEW b \in Charters, NEW c \in Charters, Onward(a, b), Onward(b, c)
    PROVE  Onward(a, c)
BY DEF Onward, Charters

\* t, made when a was seen, leaves b to be seen.
Passes(t, a, b) ==
    /\ t.kind # "ref" => t.on = a
    /\ IF t.kind \in Spending THEN b = t.leaves /\ b.depth = a.depth + 1 ELSE b = a

\* The txs q lead from c to v, one after the other.
Path(path, q, c, v) ==
    /\ path[0] = c /\ path[Len(q)] = v
    /\ \A i \in 1..Len(q) : Passes(q[i], path[i - 1], path[i])
    /\ \A i \in 0..Len(q) :
         /\ Onward(path[i], v)
         /\ \/ path[i] = v
            \/ \E k \in (i + 1)..Len(q) : q[k].kind \in Spending /\ q[k].on = path[i]
    /\ v = c \/ \E k \in 1..Len(q) : q[k].kind \in Spending /\ q[k].leaves = v
Links(q, c, v) == \E path \in [0..Len(q) -> Charters] : Path(path, q, c, v)

LEMMA LinksNone == ASSUME NEW c \in Charters PROVE Links(<<>>, c, c)
<1> DEFINE path == [i \in 0..Len(<<>>) |-> c]
<1>1. 0..Len(<<>>) = {0} /\ 1..Len(<<>>) = {}
  OBVIOUS
<1>2. path[0] = c /\ path[Len(<<>>)] = c
  OBVIOUS
<1>3. path \in [0..Len(<<>>) -> Charters]
  OBVIOUS
<1> HIDE DEF path
<1>4. Path(path, <<>>, c, c)
  BY <1>1, <1>2, OnwardSelf DEF Path
<1> QED BY <1>3, <1>4 DEF Links

LEMMA LinksNothing ==
    ASSUME NEW c, NEW v, Links(<<>>, c, v)
    PROVE  v = c
BY DEF Links, Path

LEMMA LinksAppend ==
    ASSUME NEW q \in Seq(Txs), NEW c \in Charters, NEW v \in Charters, NEW w \in Charters,
           Links(q, c, v), NEW t \in Txs, Passes(t, v, w), Onward(v, w)
    PROVE  Links(Append(q, t), c, w)
<1> DEFINE n == Len(q)
           r == Append(q, t)
<1>1. /\ n \in Nat /\ Len(r) = n + 1 /\ r[n + 1] = t
      /\ \A i \in 1..n : r[i] = q[i]
  OBVIOUS
<1>2. PICK path \in [0..n -> Charters] : Path(path, q, c, v)
  BY DEF Links
<1> DEFINE longer == [i \in 0..(n + 1) |-> IF i = n + 1 THEN w ELSE path[i]]
<1> HIDE DEF n, r
<1>3. /\ longer \in [0..Len(r) -> Charters]
      /\ longer[n + 1] = w /\ \A i \in 0..n : longer[i] = path[i] /\ path[i] \in Charters
  BY <1>1
<1> HIDE DEF longer
<1>4. path[0] = c /\ path[n] = v
  BY <1>2 DEF Path, n
<1>5. \A i \in 1..(n + 1) : Passes(r[i], longer[i - 1], longer[i])
  <2>1. \A i \in 1..n : Passes(q[i], path[i - 1], path[i])
    BY <1>2 DEF Path, n
  <2> SUFFICES ASSUME NEW i \in 1..(n + 1) PROVE Passes(r[i], longer[i - 1], longer[i])
    OBVIOUS
  <2>2. CASE i = n + 1
    <3>1. longer[i - 1] = v /\ longer[i] = w /\ r[i] = t
      BY <1>1, <1>3, <1>4, <2>2
    <3> QED BY <3>1
  <2>3. CASE i # n + 1
    <3>1. i \in 1..n /\ i - 1 \in 0..n /\ i \in 0..n
      BY <1>1, <2>3
    <3>2. longer[i - 1] = path[i - 1] /\ longer[i] = path[i] /\ r[i] = q[i]
      BY <1>1, <1>3, <3>1
    <3> QED BY <2>1, <3>1, <3>2
  <2> QED BY <2>2, <2>3
<1>6. ASSUME NEW i \in 0..(n + 1)
      PROVE  /\ Onward(longer[i], w)
             /\ \/ longer[i] = w
                \/ \E k \in (i + 1)..(n + 1) : r[k].kind \in Spending /\ r[k].on = longer[i]
  <2>1. CASE i = n + 1
    BY <1>3, <2>1, OnwardSelf
  <2>2. CASE i # n + 1
    <3>1. i \in 0..n
      BY <1>1, <2>2
    <3>2. longer[i] = path[i] /\ path[i] \in Charters
      BY <1>3, <3>1
    <3>3. /\ Onward(path[i], v)
          /\ \/ path[i] = v
             \/ \E k \in (i + 1)..n : q[k].kind \in Spending /\ q[k].on = path[i]
      BY <1>2, <3>1 DEF Path, n
    <3>4. CASE path[i] = v
      <4>1. CASE t.kind \in Spending
        <5>1. t.on = v
          BY <4>1 DEF Passes, Spending
        <5>2. n + 1 \in (i + 1)..(n + 1)
          BY <1>1, <3>1
        <5> QED BY <1>1, <3>2, <3>4, <4>1, <5>1, <5>2
      <4>2. CASE t.kind \notin Spending
        BY <3>2, <3>4, <4>2, OnwardSelf DEF Passes
      <4> QED BY <3>2, <3>4, <4>1, <4>2
    <3>5. ASSUME NEW k \in (i + 1)..n, q[k].kind \in Spending, q[k].on = path[i]
          PROVE  \E j \in (i + 1)..(n + 1) : r[j].kind \in Spending /\ r[j].on = longer[i]
      <4>1. k \in 1..n /\ k \in (i + 1)..(n + 1)
        BY <1>1, <3>1
      <4>2. r[k] = q[k]
        BY <1>1, <4>1
      <4> QED BY <3>2, <3>5, <4>1, <4>2
    <3>6. Onward(longer[i], w)
      BY <3>2, <3>3, OnwardTrans
    <3> QED BY <3>3, <3>4, <3>5, <3>6
  <2> QED BY <2>1, <2>2
<1>7. w = c \/ \E k \in 1..(n + 1) : r[k].kind \in Spending /\ r[k].leaves = w
  <2>1. CASE t.kind \in Spending
    <3>1. t.leaves = w /\ n + 1 \in 1..(n + 1)
      BY <1>1, <2>1 DEF Passes
    <3> QED BY <1>1, <2>1, <3>1
  <2>2. CASE t.kind \notin Spending
    <3>1. w = v
      BY <2>2 DEF Passes
    <3>2. v = c \/ \E k \in 1..n : q[k].kind \in Spending /\ q[k].leaves = v
      BY <1>2 DEF Path, n
    <3>3. \A k \in 1..n : k \in 1..(n + 1) /\ r[k] = q[k]
      BY <1>1
    <3> QED BY <3>1, <3>2, <3>3
  <2> QED BY <2>1, <2>2
<1>8. longer[0] = c /\ longer[n + 1] = w
  BY <1>1, <1>3, <1>4
<1>9. Path(longer, r, c, w)
  BY <1>1, <1>5, <1>6, <1>7, <1>8 DEF Path
<1> QED BY <1>3, <1>9 DEF Links, r

\* The first of the txs can land, and leads to what the others begin with.
LEMMA LinksTail ==
    ASSUME NEW q \in Seq(Txs), q # <<>>, NEW c \in Charters, NEW v \in Charters, Links(q, c, v)
    PROVE  /\ Head(q).kind # "ref" => Head(q).on = c
           /\ \E d \in Charters : Passes(Head(q), c, d) /\ Links(Tail(q), d, v)
<1> DEFINE n == Len(q)
           r == Tail(q)
<1>1. /\ n \in Nat /\ n > 0 /\ Len(r) = n - 1 /\ Head(q) = q[1]
      /\ \A i \in 1..(n - 1) : r[i] = q[i + 1]
  OBVIOUS
<1>2. PICK path \in [0..n -> Charters] : Path(path, q, c, v)
  BY DEF Links
<1> DEFINE rest == [i \in 0..(n - 1) |-> path[i + 1]]
           d == path[1]
<1> HIDE DEF n, r
<1>3. /\ rest \in [0..Len(r) -> Charters]
      /\ \A i \in 0..(n - 1) : rest[i] = path[i + 1]
      /\ d \in Charters
  BY <1>1
<1> HIDE DEF rest, d
<1>4. /\ path[0] = c /\ path[n] = v
      /\ \A i \in 1..n : Passes(q[i], path[i - 1], path[i])
      /\ \A i \in 0..n :
           /\ Onward(path[i], v)
           /\ \/ path[i] = v
              \/ \E k \in (i + 1)..n : q[k].kind \in Spending /\ q[k].on = path[i]
      /\ v = c \/ \E k \in 1..n : q[k].kind \in Spending /\ q[k].leaves = v
  BY <1>2 DEF Path, n
<1>5. Passes(Head(q), c, d)
  <2>1. 1 \in 1..n /\ 1 - 1 = 0
    BY <1>1
  <2> QED BY <1>1, <1>4, <2>1 DEF d
<1>6. \A i \in 1..(n - 1) : Passes(r[i], rest[i - 1], rest[i])
  <2> SUFFICES ASSUME NEW i \in 1..(n - 1) PROVE Passes(r[i], rest[i - 1], rest[i])
    OBVIOUS
  <2>1. i + 1 \in 1..n /\ (i + 1) - 1 = i /\ i - 1 \in 0..(n - 1) /\ i \in 0..(n - 1) /\ (i - 1) + 1 = i
    BY <1>1
  <2>2. Passes(q[i + 1], path[i], path[i + 1])
    BY <1>4, <2>1
  <2>3. rest[i - 1] = path[i] /\ rest[i] = path[i + 1]
    BY <1>3, <2>1
  <2> QED BY <1>1, <2>2, <2>3
<1>7. ASSUME NEW i \in 0..(n - 1)
      PROVE  /\ Onward(rest[i], v)
             /\ \/ rest[i] = v
                \/ \E k \in (i + 1)..(n - 1) : r[k].kind \in Spending /\ r[k].on = rest[i]
  <2>1. i + 1 \in 0..n /\ rest[i] = path[i + 1]
    BY <1>1, <1>3
  <2>2. /\ Onward(path[i + 1], v)
        /\ \/ path[i + 1] = v
           \/ \E k \in ((i + 1) + 1)..n : q[k].kind \in Spending /\ q[k].on = path[i + 1]
    BY <1>4, <2>1
  <2>3. ASSUME NEW k \in ((i + 1) + 1)..n, q[k].kind \in Spending, q[k].on = path[i + 1]
        PROVE  \E j \in (i + 1)..(n - 1) : r[j].kind \in Spending /\ r[j].on = rest[i]
    <3>1. k - 1 \in (i + 1)..(n - 1) /\ k - 1 \in 1..(n - 1) /\ (k - 1) + 1 = k
      BY <1>1
    <3>2. r[k - 1] = q[k]
      BY <1>1, <3>1
    <3> QED BY <2>1, <2>3, <3>1, <3>2
  <2> QED BY <2>1, <2>2, <2>3
<1>8. v = d \/ \E k \in 1..(n - 1) : r[k].kind \in Spending /\ r[k].leaves = v
  <2>1. Onward(d, v)
    <3>1. 1 \in 0..n
      BY <1>1
    <3> QED BY <1>4, <3>1 DEF d
  <2>2. CASE v = c
    <3>1. Head(q).kind \in Spending => d.depth = c.depth + 1
      BY <1>5 DEF Passes
    <3>2. c.depth \in Nat /\ d.depth <= v.depth
      BY <2>1 DEF Onward, Charters
    <3>3. Head(q).kind \notin Spending
      BY <2>2, <3>1, <3>2
    <3> QED BY <1>5, <2>2, <3>3 DEF Passes
  <2>3. ASSUME NEW k \in 1..n, q[k].kind \in Spending, q[k].leaves = v
        PROVE  v = d \/ \E j \in 1..(n - 1) : r[j].kind \in Spending /\ r[j].leaves = v
    <3>1. CASE k = 1
      BY <1>1, <1>5, <2>3, <3>1 DEF Passes
    <3>2. CASE k # 1
      <4>1. k - 1 \in 1..(n - 1) /\ (k - 1) + 1 = k
        BY <1>1, <3>2
      <4>2. r[k - 1] = q[k]
        BY <1>1, <4>1
      <4> QED BY <2>3, <4>1, <4>2
    <3> QED BY <3>1, <3>2
  <2> QED BY <1>4, <2>2, <2>3
<1>9. rest[0] = d /\ rest[n - 1] = v
  BY <1>1, <1>3, <1>4 DEF d
<1>10. Path(rest, r, d, v)
  BY <1>1, <1>6, <1>7, <1>8, <1>9 DEF Path
<1>11. Links(r, d, v)
  BY <1>3, <1>10 DEF Links
<1> QED BY <1>3, <1>5, <1>11 DEF Passes, r

\* What is seen is what the last tx leaves, or the charter itself.
LEMMA LinksSeen ==
    ASSUME CharterInv, NEW o \in Operators, NEW v \in Charters, Links(txs[o], charter, v)
    PROVE  CharterSeen(o) = v
<1> DEFINE n == Len(txs[o])
           q == txs[o]
<1>1. /\ n \in Nat /\ DOMAIN q = 1..n /\ charter \in Charters
      /\ \A i \in 1..n : q[i] \in Txs
  BY DEF CharterInv, RunTyped, ChainTyped
<1>2. PICK path \in [0..n -> Charters] : Path(path, q, charter, v)
  BY DEF Links
<1>3. /\ Spent(o) = {q[i].on : i \in {j \in 1..n : q[j].kind \in Spending}}
      /\ Left(o) = {q[i].leaves : i \in {j \in 1..n : q[j].kind \in Spending}} \ Spent(o)
  BY <1>1 DEF Spent, Left, MadeBy
<1> HIDE DEF n, q
<1>4. /\ path[0] = charter /\ path[n] = v
      /\ \A i \in 1..n : Passes(q[i], path[i - 1], path[i])
      /\ \A i \in 0..n :
           /\ Onward(path[i], v)
           /\ \/ path[i] = v
              \/ \E k \in (i + 1)..n : q[k].kind \in Spending /\ q[k].on = path[i]
      /\ v = charter \/ \E k \in 1..n : q[k].kind \in Spending /\ q[k].leaves = v
  BY <1>2 DEF Path, n, q
<1>5. v \notin Spent(o)
  <2> SUFFICES ASSUME NEW i \in 1..n, q[i].kind \in Spending, q[i].on = v PROVE FALSE
    BY <1>3
  <2>1. Passes(q[i], path[i - 1], path[i]) /\ i - 1 \in 0..n /\ i \in 0..n
    BY <1>1, <1>4
  <2>2. path[i - 1] = v /\ path[i].depth = v.depth + 1
    BY <2>1 DEF Passes, Spending
  <2>3. path[i].depth <= v.depth /\ v.depth \in Nat
    BY <1>4, <2>1 DEF Onward, Charters
  <2> QED BY <2>2, <2>3
<1>6. ASSUME NEW w \in Left(o) PROVE w = v
  <2>1. PICK i \in 1..n : q[i].kind \in Spending /\ q[i].leaves = w
    BY <1>3
  <2>2. Passes(q[i], path[i - 1], path[i]) /\ i \in 0..n
    BY <1>1, <1>4
  <2>3. path[i] = w
    BY <2>1, <2>2 DEF Passes
  <2>4. ASSUME NEW k \in (i + 1)..n, q[k].kind \in Spending, q[k].on = w PROVE FALSE
    <3>1. k \in 1..n
      BY <1>1
    <3> QED BY <1>3, <2>4, <3>1
  <2> QED BY <1>4, <2>2, <2>3, <2>4
<1>7. CASE v = charter
  <2>1. charter \notin Spent(o)
    BY <1>5, <1>7
  <2> QED BY <1>7, <2>1 DEF CharterSeen
<1>8. CASE v # charter
  <2>1. charter \in Spent(o)
    <3>1. 0 \in 0..n
      BY <1>1
    <3>2. PICK k \in (0 + 1)..n : q[k].kind \in Spending /\ q[k].on = charter
      BY <1>4, <1>8, <3>1
    <3> QED BY <1>3, <3>2
  <2>2. v \in Left(o)
    BY <1>3, <1>4, <1>5, <1>8
  <2>3. Left(o) = {v}
    BY <1>6, <2>2
  <2> QED BY <2>1, <2>3 DEF CharterSeen
<1> QED BY <1>7, <1>8

-----------------------------------------------------------------------------
(* Changes pending                                                            *)

Pends(c, p) == \E i \in DOMAIN c.pending : c.pending[i].policy = p

\* One change may be pending, of a policy that is not as it should be.
Proper(c) ==
    \/ c.pending = <<>>
    \/ \E p \in Policies : /\ c.pending = <<[policy |-> p, action |-> ActionFor(c, p)]>>
                           /\ c.manifest[p] # "new"

LEMMA ProperNone ==
    ASSUME NEW c \in Charters, c.pending = <<>>
    PROVE  /\ \A p \in Policies : ~Pends(c, p)
           /\ Replaced(c) = {} /\ Committed(c) = c.manifest
<1>1. DOMAIN c.pending = {}
  OBVIOUS
<1>2. c.manifest \in [Policies -> Scripts]
  BY DEF Charters, Manifests
<1> QED BY <1>1, <1>2 DEF Pends, Replaced, Committed

LEMMA ProperOne ==
    ASSUME NEW c \in Charters, NEW p \in Policies, c.manifest[p] # "new",
           c.pending = <<[policy |-> p, action |-> ActionFor(c, p)]>>
    PROVE  /\ \A r \in Policies : Pends(c, r) <=> r = p
           /\ Replaced(c) = IF c.manifest[p] = "old" THEN {p} ELSE {}
           /\ Committed(c) = [r \in Policies |-> IF r = p THEN "new" ELSE c.manifest[r]]
           /\ DOMAIN c.pending = {1} /\ c.pending[1].policy = p /\ c.pending[1].action = ActionFor(c, p)
<1>1. /\ DOMAIN c.pending = {1} /\ c.pending[1] = [policy |-> p, action |-> ActionFor(c, p)]
  OBVIOUS
<1>2. c.pending[1].policy = p /\ c.pending[1].action = ActionFor(c, p)
  BY <1>1
<1>3. c.manifest \in [Policies -> Scripts]
  BY DEF Charters, Manifests
<1>4. \A r \in Policies : Pends(c, r) <=> r = p
  BY <1>1, <1>2 DEF Pends
<1>6. ActionFor(c, p) = "Replace" <=> c.manifest[p] = "old"
  BY <1>3 DEF ActionFor, Scripts
<1>7. Replaced(c) = IF c.manifest[p] = "old" THEN {p} ELSE {}
  <2>1. {j \in DOMAIN c.pending : c.pending[j].action = "Replace"}
          = IF c.manifest[p] = "old" THEN {1} ELSE {}
    BY <1>1, <1>2, <1>6
  <2> QED BY <1>2, <2>1 DEF Replaced
<1>8. Committed(c) = [r \in Policies |-> IF r = p THEN "new" ELSE c.manifest[r]]
  BY <1>1, <1>2 DEF Committed
<1> QED BY <1>1, <1>2, <1>4, <1>7, <1>8

-----------------------------------------------------------------------------
(* What is still to be made                                                   *)

Has(td, step, p) == \E i \in DOMAIN td : td[i].step = step /\ td[i].policy = p
Coming(td, step) == \E i \in DOMAIN td : td[i].step = step
Before(td, j, step) == \E i \in 1..(j - 1) : td[i].step = step
Without(td, steps) == \A i \in DOMAIN td : td[i].step \notin steps

\* Nothing is to be done about a policy whose older script has not been found, with
\* "out" those of which it has.
Settled(c, p, out) ==
    c.manifest[p] = "new" \/ Pends(c, p) \/ (c.manifest[p] = "old" /\ p \notin out)

\* The items "td" do everything that is missing of what is seen: the charter v, the
\* scripts that are stored, a settings record.
ChangeComes(td, v) ==
    v.pending # <<>> =>
      \E k \in DOMAIN td : td[k].step \in {"commit", "check"} /\ ~Before(td, k, "setup")
PoliciesCome(td, v, out) ==
    \A p \in Policies : Settled(v, p, out) \/ Has(td, "setup", p) \/ Coming(td, "check")
ScriptsCome(td, stored) ==
    \A p \in Policies :
      p \in stored \/ Has(td, "ref script", p) \/ Has(td, "setup", p) \/ Coming(td, "check")
SettingsCome(td, v) == v.settings \/ Coming(td, "register")

\* Each comes when it can be done.
RegisterFits(td, v, recorded) ==
    \A j \in DOMAIN td : td[j].step = "register" =>
      /\ ~v.settings /\ (recorded \/ Before(td, j, "record"))
      /\ \A i \in DOMAIN td : td[i].step = "register" => i = j
RecordLeads(td) ==
    \A j \in DOMAIN td : td[j].step = "record" =>
      \E i \in DOMAIN td : i > j /\ td[i].step = "register"
RecordFits(td, v) ==
    \A j \in DOMAIN td : td[j].step \in {"record", "register"} =>
      \/ v.manifest[Settings] # "none"
      \/ Before(td, j, "commit") /\ (Pends(v, Settings) \/ td[1].step = "install")
InstallFits(td, v, fresh) ==
    \A j \in DOMAIN td : td[j].step = "install" =>
      /\ j = 1 /\ td[j].policy = Settings /\ td[j].data = v
      /\ fresh /\ v.manifest[Settings] = "none"

Plan(td, v, out, stored, recorded, fresh) ==
    /\ Proper(v) /\ RecordLeads(td)
    /\ ChangeComes(td, v) /\ PoliciesCome(td, v, out) /\ ScriptsCome(td, stored) /\ SettingsCome(td, v)
    /\ RegisterFits(td, v, recorded) /\ RecordFits(td, v) /\ InstallFits(td, v, fresh)

LEMMA Shift ==
    ASSUME NEW td \in Seq(Items), td # <<>>, NEW nested \in Seq(Items)
    PROVE  LET new == nested \o Tail(td) IN
           /\ DOMAIN new = 1..(Len(nested) + Len(td) - 1)
           /\ DOMAIN td = 1..Len(td) /\ Len(td) \in Nat /\ Len(td) > 0 /\ Len(nested) \in Nat
           /\ DOMAIN nested = 1..Len(nested) /\ td[1] = Head(td)
           /\ \A i \in 1..Len(nested) : new[i] = nested[i]
           /\ \A i \in 2..Len(td) : /\ Len(nested) + i - 1 \in DOMAIN new
                                    /\ new[Len(nested) + i - 1] = td[i]
           /\ \A i \in DOMAIN new : i \notin 1..Len(nested) =>
                i - Len(nested) + 1 \in 2..Len(td) /\ new[i] = td[i - Len(nested) + 1]
<1>1. Tail(td) \in Seq(Items) /\ Len(Tail(td)) = Len(td) - 1 /\ Len(td) > 0
  OBVIOUS
<1>2. \A i \in 1..(Len(td) - 1) : Tail(td)[i] = td[i + 1]
  OBVIOUS
<1> QED BY <1>1, <1>2

LEMMA HasShift ==
    ASSUME NEW td \in Seq(Items), td # <<>>, NEW nested \in Seq(Items), NEW s, NEW p
    PROVE  /\ Has(td, s, p) => Has(nested \o Tail(td), s, p) \/ (Head(td).step = s /\ Head(td).policy = p)
           /\ Has(nested, s, p) => Has(nested \o Tail(td), s, p)
           /\ Coming(td, s) => Coming(nested \o Tail(td), s) \/ Head(td).step = s
           /\ Coming(nested, s) => Coming(nested \o Tail(td), s)
<1> DEFINE new == nested \o Tail(td)
<1>1. /\ DOMAIN new = 1..(Len(nested) + Len(td) - 1) /\ Len(nested) \in Nat /\ Len(td) \in Nat /\ Len(td) > 0
      /\ DOMAIN nested = 1..Len(nested) /\ DOMAIN td = 1..Len(td) /\ td[1] = Head(td)
      /\ \A i \in 1..Len(nested) : new[i] = nested[i]
      /\ \A i \in 2..Len(td) : Len(nested) + i - 1 \in DOMAIN new /\ new[Len(nested) + i - 1] = td[i]
  BY Shift
<1> HIDE DEF new
<1>2. \A i \in DOMAIN td : i = 1 \/ i \in 2..Len(td)
  BY <1>1
<1>3. \A i \in DOMAIN nested : i \in DOMAIN new
  BY <1>1
<1>l. \A i \in DOMAIN td : td[i] = Head(td) \/ \E j \in DOMAIN new : new[j] = td[i]
  BY <1>1, <1>2
<1>4. Has(td, s, p) => Has(new, s, p) \/ (Head(td).step = s /\ Head(td).policy = p)
  BY <1>l DEF Has
<1>5. Coming(td, s) => Coming(new, s) \/ Head(td).step = s
  BY <1>l DEF Coming
<1>6. (Has(nested, s, p) => Has(new, s, p)) /\ (Coming(nested, s) => Coming(new, s))
  BY <1>1, <1>3 DEF Has, Coming
<1> QED BY <1>4, <1>5, <1>6 DEF new

LEMMA BeforeShift ==
    ASSUME NEW td \in Seq(Items), td # <<>>, NEW nested \in Seq(Items), NEW i \in 2..Len(td), NEW s
    PROVE  /\ Before(td, i, s) => Before(nested \o Tail(td), Len(nested) + i - 1, s) \/ Head(td).step = s
           /\ Before(nested \o Tail(td), Len(nested) + i - 1, s) => Coming(nested, s) \/ Before(td, i, s)
<1> DEFINE new == nested \o Tail(td)
           n == Len(nested)
<1>1. /\ DOMAIN new = 1..(n + Len(td) - 1) /\ n \in Nat /\ Len(td) \in Nat
      /\ DOMAIN nested = 1..n /\ td[1] = Head(td)
      /\ \A k \in 1..n : new[k] = nested[k]
      /\ \A k \in 2..Len(td) : new[n + k - 1] = td[k]
  BY Shift
<1> HIDE DEF new, n
<1>2. ASSUME NEW k \in 1..(i - 1), td[k].step = s
      PROVE  Before(new, n + i - 1, s) \/ Head(td).step = s
  <2>1. CASE k = 1
    BY <1>1, <1>2, <2>1
  <2>2. CASE k # 1
    <3>1. k \in 2..Len(td) /\ n + k - 1 \in 1..((n + i - 1) - 1)
      BY <1>1, <2>2
    <3> QED BY <1>1, <1>2, <3>1 DEF Before
  <2> QED BY <2>1, <2>2
<1>3. ASSUME NEW k \in 1..((n + i - 1) - 1), new[k].step = s
      PROVE  Coming(nested, s) \/ Before(td, i, s)
  <2>1. CASE k \in 1..n
    BY <1>1, <1>3, <2>1 DEF Coming
  <2>2. CASE k \notin 1..n
    <3> DEFINE m == k - n + 1
    <3>1. m \in 2..Len(td) /\ m \in 1..(i - 1) /\ n + m - 1 = k
      BY <1>1, <2>2
    <3>2. new[k] = td[m]
      BY <1>1, <3>1
    <3> QED BY <1>3, <3>1, <3>2 DEF Before
  <2> QED BY <2>1, <2>2
<1>4. Before(td, i, s) => Before(new, n + i - 1, s) \/ Head(td).step = s
  BY <1>2 DEF Before
<1>5. Before(new, n + i - 1, s) => Coming(nested, s) \/ Before(td, i, s)
  BY <1>3 DEF Before
<1> QED BY <1>4, <1>5 DEF new, n

LEMMA NestedItems ==
    ASSUME NEW td \in Seq(Items), td # <<>>, NEW nested \in Seq(Items), NEW k \in DOMAIN nested, NEW s
    PROVE  LET new == nested \o Tail(td) IN
           k \in DOMAIN new /\ new[k] = nested[k] /\ (Before(new, k, s) => Before(nested, k, s))
<1> DEFINE new == nested \o Tail(td)
<1>1. /\ DOMAIN new = 1..(Len(nested) + Len(td) - 1) /\ Len(td) \in Nat /\ Len(td) > 0 /\ Len(nested) \in Nat
      /\ DOMAIN nested = 1..Len(nested) /\ \A i \in 1..Len(nested) : new[i] = nested[i]
  BY Shift
<1> HIDE DEF new
<1>2. k \in DOMAIN new /\ \A i \in 1..k : new[i] = nested[i]
  BY <1>1
<1>3. k \in 1..k /\ 1..(k - 1) \subseteq 1..k
  BY <1>1
<1> QED BY <1>2, <1>3 DEF Before, new

LEMMA LaterItems ==
    ASSUME NEW td \in Seq(Items), td # <<>>, NEW nested \in Seq(Items), NEW steps, Without(nested, steps)
    PROVE  LET new == nested \o Tail(td) IN
           /\ DOMAIN td = 1..Len(td) /\ td[1] = Head(td) /\ 1 \in DOMAIN td
           /\ \A k \in DOMAIN td : k # 1 => k \in 2..Len(td)
           /\ \A k \in 2..Len(td) : Len(nested) + k - 1 \in DOMAIN new /\ new[Len(nested) + k - 1] = td[k]
           /\ \A j \in DOMAIN new : new[j].step \in steps =>
                \E k \in 2..Len(td) :
                  k \in DOMAIN td /\ k # 1 /\ new[j] = td[k] /\ j = Len(nested) + k - 1
<1> DEFINE new == nested \o Tail(td)
           n == Len(nested)
<1>1. /\ DOMAIN new = 1..(n + Len(td) - 1) /\ n \in Nat /\ Len(td) \in Nat /\ Len(td) > 0
      /\ DOMAIN nested = 1..n /\ DOMAIN td = 1..Len(td) /\ td[1] = Head(td)
      /\ \A i \in 1..n : new[i] = nested[i]
      /\ \A i \in 2..Len(td) : n + i - 1 \in DOMAIN new /\ new[n + i - 1] = td[i]
      /\ \A i \in DOMAIN new : i \notin 1..n => i - n + 1 \in 2..Len(td) /\ new[i] = td[i - n + 1]
  BY Shift
<1> HIDE DEF new, n
<1>2. ASSUME NEW j \in DOMAIN new, new[j].step \in steps
      PROVE  \E k \in 2..Len(td) : k \in DOMAIN td /\ k # 1 /\ new[j] = td[k] /\ j = n + k - 1
  <2>1. j \notin 1..n
    BY <1>1, <1>2 DEF Without
  <2>2. PICK k \in 2..Len(td) : k = j - n + 1
    BY <1>1, <2>1
  <2>3. k \in DOMAIN td /\ k # 1 /\ j = n + k - 1
    BY <1>1, <2>2
  <2>4. new[j] = td[k]
    BY <1>1, <2>1, <2>2
  <2> QED BY <2>3, <2>4
<1>3. \A k \in DOMAIN td : k # 1 => k \in 2..Len(td)
  BY <1>1
<1>4. 1 \in DOMAIN td
  BY <1>1
<1> QED BY <1>1, <1>2, <1>3, <1>4 DEF new, n

\* What the step "h" makes of what is seen, with "nested" to come, leaves nothing out.
MovesOn(h, nested, v, w, out, found, stored, more, recorded, known) ==
    /\ Without(nested, {"install", "record", "register"})
    /\ stored \subseteq more /\ (recorded => known) /\ Proper(w)
    /\ w.pending # <<>> =>
         \/ \E k \in DOMAIN nested : nested[k].step = "commit" /\ ~Before(nested, k, "setup")
         \/ v.pending # <<>> /\ h.step \notin {"commit", "check"} /\ Without(nested, {"setup"})
    /\ \A p \in Policies : Settled(v, p, out) => Settled(w, p, found)
    /\ h.step = "setup" =>
         /\ Settled(w, h.policy, found)
         /\ h.policy \in more \/ Has(nested, "ref script", h.policy)
    /\ h.step = "check" => \A p \in Policies : Has(nested, "setup", p)
    /\ h.step = "ref script" => h.policy \in more
    /\ h.step = "register" => w.settings
    /\ h.step # "register" => (w.settings <=> v.settings)
    /\ h.step = "record" => known
    /\ v.manifest[Settings] # "none" => w.manifest[Settings] # "none"
    /\ Pends(v, Settings) \/ h.step = "install" =>
         w.manifest[Settings] # "none" \/ (Pends(w, Settings) /\ h.step # "commit")

\* Its first item is done: v becomes w, more is stored, "nested" comes next.
LEMMA PlanMoves ==
    ASSUME NEW td \in Seq(Items), td # <<>>, NEW nested \in Seq(Items), NEW h, h = Head(td),
           NEW v, NEW w, NEW out, NEW found, NEW stored, NEW more, NEW recorded \in BOOLEAN,
           NEW known \in BOOLEAN, NEW fresh, NEW later, Plan(td, v, out, stored, recorded, fresh),
           MovesOn(h, nested, v, w, out, found, stored, more, recorded, known)
    PROVE  Plan(nested \o Tail(td), w, found, more, known, later)
<1> DEFINE new == nested \o Tail(td)
           n == Len(nested)
<1>w. Without(nested, {"install", "record", "register"})
  BY DEF MovesOn
<1>m. /\ stored \subseteq more /\ (recorded => known) /\ Proper(w)
      /\ w.pending # <<>> =>
           \/ \E k \in DOMAIN nested : nested[k].step = "commit" /\ ~Before(nested, k, "setup")
           \/ v.pending # <<>> /\ h.step \notin {"commit", "check"} /\ Without(nested, {"setup"})
      /\ h.step = "record" => known
  BY DEF MovesOn
<1>1. /\ td[1] = h /\ 1 \in DOMAIN td
      /\ \A k \in DOMAIN td : k # 1 => k \in 2..Len(td)
      /\ \A k \in 2..Len(td) : n + k - 1 \in DOMAIN new /\ new[n + k - 1] = td[k]
      /\ \A j \in DOMAIN new : new[j].step \in {"install", "record", "register"} =>
           \E k \in 2..Len(td) : k \in DOMAIN td /\ k # 1 /\ new[j] = td[k] /\ j = n + k - 1
  BY <1>w, LaterItems
<1>2. /\ \A s, p : Has(td, s, p) => Has(new, s, p) \/ (h.step = s /\ h.policy = p)
      /\ \A s, p : Has(nested, s, p) => Has(new, s, p)
      /\ \A s : Coming(td, s) => Coming(new, s) \/ h.step = s
  BY HasShift
<1>3. \A i \in 2..Len(td), s \in {"setup", "record", "commit"} :
        /\ Before(td, i, s) => Before(new, n + i - 1, s) \/ h.step = s
        /\ Before(new, n + i - 1, s) => Coming(nested, s) \/ Before(td, i, s)
  BY BeforeShift
<1>n. \A k \in DOMAIN nested :
        k \in DOMAIN new /\ new[k] = nested[k] /\ (Before(new, k, "setup") => Before(nested, k, "setup"))
  BY NestedItems
<1> HIDE DEF new, n
<1>p. /\ ChangeComes(td, v) /\ PoliciesCome(td, v, out) /\ ScriptsCome(td, stored) /\ SettingsCome(td, v)
      /\ RegisterFits(td, v, recorded) /\ RecordFits(td, v) /\ InstallFits(td, v, fresh)
      /\ RecordLeads(td)
  BY DEF Plan
<1>4. ChangeComes(new, w)
  <2> SUFFICES ASSUME w.pending # <<>>
               PROVE  \E k \in DOMAIN new : new[k].step \in {"commit", "check"} /\ ~Before(new, k, "setup")
    BY DEF ChangeComes
  <2>1. ASSUME NEW k \in DOMAIN nested, nested[k].step = "commit", ~Before(nested, k, "setup")
        PROVE  new[k].step \in {"commit", "check"} /\ ~Before(new, k, "setup") /\ k \in DOMAIN new
    BY <1>n, <2>1
  <2>2. CASE v.pending # <<>> /\ h.step \notin {"commit", "check"} /\ Without(nested, {"setup"})
    <3>1. PICK k \in DOMAIN td : td[k].step \in {"commit", "check"} /\ ~Before(td, k, "setup")
      BY <1>p, <2>2 DEF ChangeComes
    <3>2. k # 1
      BY <1>1, <2>2, <3>1
    <3>3. k \in 2..Len(td)
      BY <1>1, <3>2
    <3>4. ~Coming(nested, "setup")
      BY <2>2 DEF Without, Coming
    <3>5. ~Before(new, n + k - 1, "setup")
      BY <1>3, <3>1, <3>3, <3>4
    <3> QED BY <1>1, <3>1, <3>3, <3>5
  <2> QED BY <1>m, <2>1, <2>2
<1>5. PoliciesCome(new, w, found)
  <2> SUFFICES ASSUME NEW p \in Policies
               PROVE  Settled(w, p, found) \/ Has(new, "setup", p) \/ Coming(new, "check")
    BY DEF PoliciesCome
  <2>0. /\ Settled(v, p, out) => Settled(w, p, found)
        /\ h.step = "setup" => Settled(w, h.policy, found)
        /\ h.step = "check" => Has(nested, "setup", p)
    BY DEF MovesOn
  <2>1. Settled(v, p, out) \/ Has(td, "setup", p) \/ Coming(td, "check")
    BY <1>p DEF PoliciesCome
  <2> QED BY <1>2, <2>0, <2>1
<1>6. ScriptsCome(new, more)
  <2> SUFFICES ASSUME NEW p \in Policies
               PROVE  p \in more \/ Has(new, "ref script", p) \/ Has(new, "setup", p) \/ Coming(new, "check")
    BY DEF ScriptsCome
  <2>0. /\ h.step = "setup" => h.policy \in more \/ Has(nested, "ref script", h.policy)
        /\ h.step = "check" => Has(nested, "setup", p)
        /\ h.step = "ref script" => h.policy \in more
    BY DEF MovesOn
  <2>1. p \in stored \/ Has(td, "ref script", p) \/ Has(td, "setup", p) \/ Coming(td, "check")
    BY <1>p DEF ScriptsCome
  <2> QED BY <1>2, <1>m, <2>0, <2>1
<1>7. SettingsCome(new, w)
  <2>1. v.settings \/ Coming(td, "register")
    BY <1>p DEF SettingsCome
  <2>2. (h.step = "register" => w.settings) /\ (h.step # "register" => (w.settings <=> v.settings))
    BY DEF MovesOn
  <2> QED BY <1>2, <2>1, <2>2 DEF SettingsCome
<1>8. RegisterFits(new, w, known)
  <2> SUFFICES ASSUME NEW j \in DOMAIN new, new[j].step = "register"
               PROVE  /\ ~w.settings /\ (known \/ Before(new, j, "record"))
                      /\ \A i \in DOMAIN new : new[i].step = "register" => i = j
    BY DEF RegisterFits
  <2>1. PICK k \in 2..Len(td) : k \in DOMAIN td /\ k # 1 /\ new[j] = td[k] /\ j = n + k - 1
    BY <1>1
  <2>2. /\ ~v.settings /\ (recorded \/ Before(td, k, "record"))
        /\ \A i \in DOMAIN td : td[i].step = "register" => i = k
    BY <1>p, <2>1 DEF RegisterFits
  <2>3. h.step # "register"
    BY <1>1, <2>1, <2>2
  <2>4. known \/ Before(new, j, "record")
    BY <1>3, <1>m, <2>1, <2>2
  <2>5. ASSUME NEW i \in DOMAIN new, new[i].step = "register" PROVE i = j
    <3>1. PICK m \in 2..Len(td) : m \in DOMAIN td /\ new[i] = td[m] /\ i = n + m - 1
      BY <1>1, <2>5
    <3>2. m = k
      BY <2>2, <2>5, <3>1
    <3> QED BY <2>1, <3>1, <3>2
  <2>6. ~w.settings
    BY <2>2, <2>3 DEF MovesOn
  <2> QED BY <2>4, <2>5, <2>6
<1>9. RecordFits(new, w)
  <2> SUFFICES ASSUME NEW j \in DOMAIN new, new[j].step \in {"record", "register"},
                      w.manifest[Settings] = "none"
               PROVE  Before(new, j, "commit") /\ Pends(w, Settings)
    BY DEF RecordFits
  <2>1. PICK k \in 2..Len(td) : k \in DOMAIN td /\ new[j] = td[k] /\ j = n + k - 1
    BY <1>1
  <2>0. v.manifest[Settings] = "none"
    BY DEF MovesOn
  <2>2. Before(td, k, "commit") /\ (Pends(v, Settings) \/ h.step = "install")
    BY <1>1, <1>p, <2>0, <2>1 DEF RecordFits
  <2>3. h.step = "commit" => ~(Pends(v, Settings) \/ h.step = "install")
    BY DEF MovesOn
  <2>4. Pends(w, Settings)
    BY <2>2 DEF MovesOn
  <2> QED BY <1>3, <2>1, <2>2, <2>3, <2>4
<1>10. InstallFits(new, w, later)
  <2> SUFFICES ASSUME NEW j \in DOMAIN new, new[j].step = "install" PROVE FALSE
    BY DEF InstallFits
  <2>1. PICK k \in 2..Len(td) : k \in DOMAIN td /\ k # 1 /\ new[j] = td[k]
    BY <1>1
  <2> QED BY <1>p, <2>1 DEF InstallFits
<1>11. RecordLeads(new)
  <2> SUFFICES ASSUME NEW j \in DOMAIN new, new[j].step = "record"
               PROVE  \E i \in DOMAIN new : i > j /\ new[i].step = "register"
    BY DEF RecordLeads
  <2>1. PICK k \in 2..Len(td) : k \in DOMAIN td /\ new[j] = td[k] /\ j = n + k - 1
    BY <1>1
  <2>2. PICK m \in DOMAIN td : m > k /\ td[m].step = "register"
    BY <1>p, <2>1 DEF RecordLeads
  <2>3. DOMAIN td = 1..Len(td) /\ n \in Nat
    BY DEF n
  <2>4. m \in 2..Len(td) /\ n + m - 1 > j
    BY <2>1, <2>2, <2>3
  <2>5. n + m - 1 \in DOMAIN new /\ new[n + m - 1] = td[m]
    BY <1>1, <2>4
  <2> QED BY <2>2, <2>4, <2>5
<1> QED BY <1>m, <1>4, <1>5, <1>6, <1>7, <1>8, <1>9, <1>10, <1>11 DEF Plan, new

\* When nothing is left to be made, nothing is missing.
LEMMA PlanDone ==
    ASSUME NEW v, NEW out, NEW stored, NEW recorded, NEW fresh,
           Plan(<<>>, v, out, stored, recorded, fresh)
    PROVE  /\ v.pending = <<>> /\ v.settings /\ \A p \in Policies : ~Pends(v, p)
           /\ \A p \in Policies : v.manifest[p] = "new" \/ (v.manifest[p] = "old" /\ p \notin out)
           /\ \A p \in Policies : p \in stored
<1>1. DOMAIN <<>> = {}
  OBVIOUS
<1>2. v.pending = <<>>
  BY <1>1 DEF Plan, ChangeComes
<1>3. \A p \in Policies : ~Pends(v, p)
  BY <1>2 DEF Pends
<1> QED
  BY <1>1, <1>2, <1>3 DEF Plan, PoliciesCome, ScriptsCome, SettingsCome, Has, Coming, Settled

\* More is stored, more is recorded.
LEMMA PlanMore ==
    ASSUME NEW td, NEW v, NEW out, NEW stored, NEW more, NEW recorded \in BOOLEAN,
           NEW known \in BOOLEAN, NEW fresh, NEW later, Plan(td, v, out, stored, recorded, fresh),
           stored \subseteq more, recorded => known, fresh => later
    PROVE  Plan(td, v, out, more, known, later)
<1>1. ScriptsCome(td, more)
  BY DEF Plan, ScriptsCome
<1>2. RegisterFits(td, v, known)
  BY DEF Plan, RegisterFits
<1>3. InstallFits(td, v, later)
  BY DEF Plan, InstallFits
<1> QED BY <1>1, <1>2, <1>3 DEF Plan

\* The check leads to everything.
LEMMA CheckComes ==
    ASSUME NEW td, NEW v, NEW out, NEW stored, NEW k \in DOMAIN td, td[k].step = "check", ~Before(td, k, "setup")
    PROVE  ChangeComes(td, v) /\ PoliciesCome(td, v, out) /\ ScriptsCome(td, stored)
<1>1. Coming(td, "check")
  BY DEF Coming
<1> QED BY <1>1 DEF ChangeComes, PoliciesCome, ScriptsCome

\* What an upgrade begins with.
LEMMA PlanBegins ==
    ASSUME CharterAssumption, NEW v \in Charters, Proper(v), NEW out, NEW stored, NEW recorded
    PROVE  Plan(Append(addTxnBootstrappingSettings(v), Item("check", Settings)),
                v, out, stored, recorded, TRUE)
<1> DEFINE td == Append(addTxnBootstrappingSettings(v), Item("check", Settings))
           check == Item("check", Settings)
           install == Install(Settings, v)
           record == Item("record", Settings)
           register == Item("register", Settings)
<1>1. /\ check.step = "check" /\ install.step = "install" /\ record.step = "record"
      /\ register.step = "register" /\ CommitIfNeeded.step = "commit"
      /\ install.policy = Settings /\ install.data = v
  BY DEF Item, Install, CommitIfNeeded
<1>2. td = Append((IF v.manifest[Settings] = "none" THEN <<install, CommitIfNeeded>> ELSE <<>>)
                  \o (IF ~v.settings THEN <<record, register>> ELSE <<>>), check)
  BY DEF addTxnBootstrappingSettings
<1>3. v.settings \in BOOLEAN
  BY DEF Charters
<1> HIDE DEF td, check, install, record, register
<1>4. CASE v.manifest[Settings] = "none" /\ ~v.settings
  <2>1. /\ DOMAIN td = 1..5 /\ td[1] = install /\ td[2] = CommitIfNeeded /\ td[3] = record
        /\ td[4] = register /\ td[5] = check
    BY <1>2, <1>4
  <2>2. /\ td[1].step = "install" /\ td[2].step = "commit" /\ td[3].step = "record"
        /\ td[4].step = "register" /\ td[5].step = "check" /\ td[1].policy = Settings /\ td[1].data = v
    BY <1>1, <2>1
  <2>3. /\ Before(td, 3, "commit") /\ Before(td, 4, "commit") /\ Before(td, 4, "record")
        /\ ~Before(td, 5, "setup") /\ Coming(td, "check") /\ Coming(td, "register")
    BY <2>1, <2>2 DEF Before, Coming
  <2>r. RecordLeads(td)
    BY <2>1, <2>2 DEF RecordLeads
  <2>4. SettingsCome(td, v)
    BY <2>3 DEF SettingsCome
  <2>5. RegisterFits(td, v, recorded) /\ RecordFits(td, v) /\ InstallFits(td, v, TRUE)
    BY <1>4, <2>1, <2>2, <2>3 DEF RegisterFits, RecordFits, InstallFits
  <2>6. ChangeComes(td, v) /\ PoliciesCome(td, v, out) /\ ScriptsCome(td, stored)
    BY <2>1, <2>2, <2>3, CheckComes
  <2> QED BY <2>r, <2>4, <2>5, <2>6 DEF Plan, td, check
<1>5. CASE v.manifest[Settings] = "none" /\ v.settings
  <2>1. /\ DOMAIN td = 1..3 /\ td[1] = install /\ td[2] = CommitIfNeeded /\ td[3] = check
    BY <1>2, <1>5
  <2>2. /\ td[1].step = "install" /\ td[2].step = "commit" /\ td[3].step = "check"
        /\ td[1].policy = Settings /\ td[1].data = v
    BY <1>1, <2>1
  <2>3. ~Before(td, 3, "setup") /\ Coming(td, "check")
    BY <2>1, <2>2 DEF Before, Coming
  <2>r. RecordLeads(td)
    BY <2>1, <2>2 DEF RecordLeads
  <2>4. SettingsCome(td, v)
    BY <1>5, <2>3 DEF SettingsCome
  <2>5. RegisterFits(td, v, recorded) /\ RecordFits(td, v) /\ InstallFits(td, v, TRUE)
    BY <1>5, <2>1, <2>2, <2>3 DEF RegisterFits, RecordFits, InstallFits
  <2>6. ChangeComes(td, v) /\ PoliciesCome(td, v, out) /\ ScriptsCome(td, stored)
    BY <2>1, <2>2, <2>3, CheckComes
  <2> QED BY <2>r, <2>4, <2>5, <2>6 DEF Plan, td, check
<1>6. CASE v.manifest[Settings] # "none" /\ ~v.settings
  <2>1. /\ DOMAIN td = 1..3 /\ td[1] = record /\ td[2] = register /\ td[3] = check
    BY <1>2, <1>6
  <2>2. td[1].step = "record" /\ td[2].step = "register" /\ td[3].step = "check"
    BY <1>1, <2>1
  <2>3. /\ Before(td, 2, "record") /\ ~Before(td, 3, "setup") /\ Coming(td, "check")
        /\ Coming(td, "register")
    BY <2>1, <2>2 DEF Before, Coming
  <2>r. RecordLeads(td)
    BY <2>1, <2>2 DEF RecordLeads
  <2>4. SettingsCome(td, v)
    BY <2>3 DEF SettingsCome
  <2>5. RegisterFits(td, v, recorded) /\ RecordFits(td, v) /\ InstallFits(td, v, TRUE)
    BY <1>6, <2>1, <2>2, <2>3 DEF RegisterFits, RecordFits, InstallFits
  <2>6. ChangeComes(td, v) /\ PoliciesCome(td, v, out) /\ ScriptsCome(td, stored)
    BY <2>1, <2>2, <2>3, CheckComes
  <2> QED BY <2>r, <2>4, <2>5, <2>6 DEF Plan, td, check
<1>7. CASE v.manifest[Settings] # "none" /\ v.settings
  <2>1. DOMAIN td = {1} /\ td[1] = check
    BY <1>2, <1>7
  <2>2. td[1].step = "check"
    BY <1>1, <2>1
  <2>3. ~Before(td, 1, "setup") /\ Coming(td, "check")
    BY <2>1, <2>2 DEF Before, Coming
  <2>r. RecordLeads(td)
    BY <2>1, <2>2 DEF RecordLeads
  <2>4. SettingsCome(td, v)
    BY <1>7, <2>3 DEF SettingsCome
  <2>5. RegisterFits(td, v, recorded) /\ RecordFits(td, v) /\ InstallFits(td, v, TRUE)
    BY <1>7, <2>1, <2>2 DEF RegisterFits, RecordFits, InstallFits
  <2>6. ChangeComes(td, v) /\ PoliciesCome(td, v, out) /\ ScriptsCome(td, stored)
    BY <2>1, <2>2, <2>3, CheckComes
  <2> QED BY <2>r, <2>4, <2>5, <2>6 DEF Plan, td, check
<1> QED BY <1>3, <1>4, <1>5, <1>6, <1>7

-----------------------------------------------------------------------------
(* What is true of every run, whoever crosses it                              *)

\* What a tx makes of the charter, unless it was written from an older manifest.
Fits(t) ==
    /\ t.kind \in Spending => t.leaves.depth = t.on.depth + 1
    /\ t.kind = "queue" /\ ~t.stale =>
         /\ t.on.pending = <<>> /\ t.on.manifest[t.policy] # "new"
         /\ t.leaves.pending = <<[policy |-> t.policy, action |-> ActionFor(t.on, t.policy)]>>
         /\ t.leaves.manifest = t.on.manifest /\ t.leaves.settings = t.on.settings
    /\ t.kind = "commit" =>
         /\ t.leaves.manifest = Committed(t.on) /\ t.leaves.settings = t.on.settings
         /\ t.leaves.pending = <<>>
    /\ t.kind = "entry" => t.leaves.manifest = t.on.manifest
    /\ t.burns = IF t.kind = "commit" THEN Replaced(t.on) ELSE {}
    /\ t.kind # "queue" => ~t.stale

\* It can no longer land, now that the charter is c.
Lost(t, c) == t.kind # "ref" /\ t.on # c /\ t.on.depth <= c.depth

\* An entry leaves what is pending as it was, and comes after its record, unless it
\* comes after a tx that is lost.
EntryFits(q, j, c, recorded) ==
    /\ q[j].leaves.pending = q[j].on.pending \/ \E i \in 1..(j - 1) : Lost(q[i], c)
    /\ recorded \/ \E i \in 1..(j - 1) : q[i].kind = "record"
EntriesFit(q, c, recorded) == \A j \in DOMAIN q : q[j].kind = "entry" => EntryFits(q, j, c, recorded)

\* An entry is made right after its record.
Ordered(td) == \A j \in DOMAIN td : td[j].step = "register" /\ j > 1 => td[j - 1].step = "record"
Recorded(q, w, v, c) ==
    /\ q # <<>> /\ q[Len(q)].kind = "record"
    /\ \/ q[Len(q)].on = v /\ w \in {NoCharter, v}
       \/ \E i \in DOMAIN q : Lost(q[i], c)

\* What a run has made, and reads next, is consistent with what it was made for.
TxsSound(q) == (\A i \in DOMAIN q : Fits(q[i])) /\ EntriesFit(q, charter, settingsRecord)
RegisterSound(o) ==
    /\ Ordered(todo[o])
    /\ todo[o] # <<>> /\ Head(todo[o]).step = "register" =>
         Recorded(txs[o], work[o], CharterSeen(o), charter)
AtRest(o) ==
    /\ page[o] \in {"away", "loaded"} => txs[o] = <<>> /\ work[o] = NoCharter
    /\ todo[o] # <<>> => page[o] \in {"loaded", "building"}
RunSound(o) == TxsSound(txs[o]) /\ TxsSound(afloat[o]) /\ RegisterSound(o) /\ AtRest(o)

\* Nothing but the ledger moves, and it moves on.
Advances == charter' = charter \/ charter'.depth = charter.depth + 1
LedgerAdvances == Advances /\ (settingsRecord => settingsRecord')

LEMMA LostStays ==
    ASSUME CharterInv, CharterInv', Advances, NEW t \in Txs, Lost(t, charter)
    PROVE  Lost(t, charter')
<1>1. charter.depth \in Nat /\ charter'.depth \in Nat /\ t.on.depth \in Nat
  BY DEF CharterInv, ChainTyped, Charters, Txs
<1> QED BY <1>1 DEF Lost, Advances

LEMMA TxsStaySound ==
    ASSUME CharterInv, CharterInv', LedgerAdvances, NEW q \in Seq(Txs), TxsSound(q)
    PROVE  /\ \A i \in DOMAIN q : Fits(q[i])
           /\ EntriesFit(q, charter', settingsRecord')
<1>1. ASSUME NEW j \in DOMAIN q, EntryFits(q, j, charter, settingsRecord)
      PROVE  EntryFits(q, j, charter', settingsRecord')
  <2>1. \A i \in 1..(j - 1) : q[i] \in Txs
    OBVIOUS
  <2>2. \A i \in 1..(j - 1) : Lost(q[i], charter) => Lost(q[i], charter')
    BY <2>1, LostStays DEF LedgerAdvances
  <2> QED BY <1>1, <2>2 DEF EntryFits, LedgerAdvances
<1> QED BY <1>1 DEF TxsSound, EntriesFit

\* The first of them has landed, or others come.
LEMMA TxsTailSound ==
    ASSUME CharterInv, CharterInv', LedgerAdvances, NEW q \in Seq(Txs), q # <<>>, TxsSound(q),
           ~Lost(Head(q), charter), Head(q).kind = "record" => settingsRecord'
    PROVE  /\ \A i \in DOMAIN Tail(q) : Fits(Tail(q)[i])
           /\ EntriesFit(Tail(q), charter', settingsRecord')
<1> DEFINE r == Tail(q)
<1>1. /\ Len(q) \in Nat /\ Len(q) > 0 /\ DOMAIN q = 1..Len(q) /\ DOMAIN r = 1..(Len(q) - 1)
      /\ Head(q) = q[1] /\ \A i \in 1..(Len(q) - 1) : r[i] = q[i + 1]
      /\ \A i \in 1..Len(q) : q[i] \in Txs
  OBVIOUS
<1> HIDE DEF r
<1>2. \A i \in DOMAIN r : i + 1 \in DOMAIN q /\ r[i] = q[i + 1]
  BY <1>1
<1>3. \A i \in DOMAIN r : Fits(r[i])
  BY <1>2 DEF TxsSound
<1>4. ASSUME NEW j \in DOMAIN r, r[j].kind = "entry" PROVE EntryFits(r, j, charter', settingsRecord')
  <2>1. EntryFits(q, j + 1, charter, settingsRecord)
    BY <1>2, <1>4 DEF TxsSound, EntriesFit
  <2>2. r[j].leaves.pending = r[j].on.pending \/ \E i \in 1..(j - 1) : Lost(r[i], charter')
    <3>1. ASSUME NEW i \in 1..((j + 1) - 1), Lost(q[i], charter)
          PROVE  \E k \in 1..(j - 1) : Lost(r[k], charter')
      <4>1. i # 1
        BY <1>1, <3>1
      <4>2. i \in 1..Len(q) /\ i - 1 \in 1..(j - 1) /\ i - 1 \in 1..(Len(q) - 1) /\ (i - 1) + 1 = i
        BY <1>1, <4>1
      <4>3. r[i - 1] = q[i] /\ q[i] \in Txs
        BY <1>1, <4>2
      <4> QED BY <3>1, <4>2, <4>3, LostStays DEF LedgerAdvances
    <3> QED BY <1>2, <2>1, <3>1 DEF EntryFits
  <2>3. settingsRecord' \/ \E i \in 1..(j - 1) : r[i].kind = "record"
    <3>1. ASSUME NEW i \in 1..((j + 1) - 1), q[i].kind = "record"
          PROVE  settingsRecord' \/ \E k \in 1..(j - 1) : r[k].kind = "record"
      <4>1. CASE i = 1
        BY <1>1, <3>1, <4>1
      <4>2. CASE i # 1
        <5>1. i - 1 \in 1..(j - 1) /\ i - 1 \in 1..(Len(q) - 1) /\ (i - 1) + 1 = i
          BY <1>1, <4>2
        <5>2. r[i - 1] = q[i]
          BY <1>1, <5>1
        <5> QED BY <3>1, <5>1, <5>2
      <4> QED BY <4>1, <4>2
    <3> QED BY <2>1, <3>1 DEF EntryFits, LedgerAdvances
  <2> QED BY <2>2, <2>3 DEF EntryFits
<1> QED BY <1>3, <1>4 DEF EntriesFit, r

LEMMA TxsAppendSound ==
    ASSUME CharterInv, NEW q \in Seq(Txs), TxsSound(q), NEW t \in Txs, Fits(t),
           t.kind = "entry" =>
             /\ t.leaves.pending = t.on.pending \/ \E i \in DOMAIN q : Lost(q[i], charter)
             /\ settingsRecord \/ \E i \in DOMAIN q : q[i].kind = "record"
    PROVE  TxsSound(Append(q, t))
<1> DEFINE n == Len(q)
           r == Append(q, t)
<1>1. /\ n \in Nat /\ DOMAIN q = 1..n /\ DOMAIN r = 1..(n + 1) /\ r[n + 1] = t
      /\ \A i \in 1..n : r[i] = q[i]
  OBVIOUS
<1> HIDE DEF n, r
<1>2. \A i \in DOMAIN r : i = n + 1 \/ (i \in DOMAIN q /\ i \in 1..n)
  BY <1>1
<1>3. ASSUME NEW i \in DOMAIN r PROVE Fits(r[i])
  <2>1. CASE i = n + 1
    BY <1>1, <2>1
  <2>2. CASE i \in DOMAIN q /\ i \in 1..n
    <3>1. r[i] = q[i] /\ Fits(q[i])
      BY <1>1, <2>2 DEF TxsSound
    <3> QED BY <3>1
  <2> QED BY <1>2, <2>1, <2>2
<1>4. ASSUME NEW j \in DOMAIN r, r[j].kind = "entry" PROVE EntryFits(r, j, charter, settingsRecord)
  <2>1. CASE j = n + 1
    <3>1. 1..(j - 1) = DOMAIN q /\ r[j] = t
      BY <1>1, <2>1
    <3>2. \A i \in DOMAIN q : r[i] = q[i]
      BY <1>1
    <3> QED BY <1>4, <3>1, <3>2 DEF EntryFits
  <2>2. CASE j # n + 1
    <3>1. j \in DOMAIN q /\ \A i \in 1..j : r[i] = q[i]
      BY <1>1, <2>2
    <3>2. j \in 1..j /\ 1..(j - 1) \subseteq 1..j
      BY <1>1, <3>1
    <3>3. EntryFits(q, j, charter, settingsRecord)
      BY <1>4, <3>1, <3>2 DEF TxsSound, EntriesFit
    <3> QED BY <3>1, <3>2, <3>3 DEF EntryFits
  <2> QED BY <2>1, <2>2
<1> QED BY <1>3, <1>4 DEF TxsSound, EntriesFit, r

LEMMA OrderedNone == Ordered(<<>>)
<1>1. DOMAIN <<>> = {}
  OBVIOUS
<1> QED BY <1>1 DEF Ordered

LEMMA OrderedGoesOn ==
    ASSUME NEW td \in Seq(Items), td # <<>>, Ordered(td), NEW nested \in Seq(Items),
           Without(nested, {"register"}), nested # <<>> => Head(td).step # "record"
    PROVE  /\ Ordered(nested \o Tail(td))
           /\ nested \o Tail(td) # <<>> /\ Head(nested \o Tail(td)).step = "register"
                => Head(td).step = "record"
<1> DEFINE new == nested \o Tail(td)
           n == Len(nested)
<1>1. /\ DOMAIN td = 1..Len(td) /\ td[1] = Head(td)
      /\ \A k \in 2..Len(td) : new[n + k - 1] = td[k]
      /\ \A j \in DOMAIN new : new[j].step = "register" =>
           \E k \in 2..Len(td) : k \in DOMAIN td /\ new[j] = td[k] /\ j = n + k - 1
  <2>1. \A j \in DOMAIN new : new[j].step \in {"register"} =>
          \E k \in 2..Len(td) : k \in DOMAIN td /\ k # 1 /\ new[j] = td[k] /\ j = n + k - 1
    BY LaterItems
  <2>2. /\ DOMAIN td = 1..Len(td) /\ td[1] = Head(td)
        /\ \A k \in 2..Len(td) : new[n + k - 1] = td[k]
    BY Shift
  <2> HIDE DEF new, n
  <2> QED BY <2>1, <2>2
<1>2. n \in Nat /\ Len(td) \in Nat /\ (new # <<>> => 1 \in DOMAIN new /\ Head(new) = new[1])
  OBVIOUS
<1> HIDE DEF new, n
<1>3. ASSUME NEW k \in 2..Len(td), td[k].step = "register"
      PROVE  td[k - 1].step = "record" /\ k - 1 \in 1..Len(td)
  <2>1. k \in DOMAIN td /\ k > 1 /\ k - 1 \in 1..Len(td)
    BY <1>1, <1>2
  <2> QED BY <1>3, <2>1 DEF Ordered
<1>4. ASSUME NEW j \in DOMAIN new, new[j].step = "register", j > 1 PROVE new[j - 1].step = "record"
  <2>1. PICK k \in 2..Len(td) : k \in DOMAIN td /\ new[j] = td[k] /\ j = n + k - 1
    BY <1>1, <1>4
  <2>2. td[k - 1].step = "record"
    BY <1>3, <1>4, <2>1
  <2>3. CASE k = 2
    <3>1. td[1].step = "record"
      BY <2>2, <2>3
    <3>2. nested # <<>>
      BY <1>2, <1>4, <2>1, <2>3 DEF n
    <3> QED BY <1>1, <3>1, <3>2
  <2>4. CASE k # 2
    <3>1. k - 1 \in 2..Len(td) /\ n + (k - 1) - 1 = j - 1
      <4>1. n \in Nat /\ Len(td) \in Nat /\ k \in 2..Len(td) /\ k # 2 /\ j = n + k - 1
        BY <1>2, <2>1, <2>4
      <4> QED BY <4>1
    <3> QED BY <1>1, <2>2, <3>1
  <2> QED BY <2>3, <2>4
<1>5. ASSUME new # <<>>, Head(new).step = "register" PROVE Head(td).step = "record"
  <2>1. PICK k \in 2..Len(td) : new[1] = td[k] /\ 1 = n + k - 1
    BY <1>1, <1>2, <1>5
  <2>2. k = 2 /\ td[2].step = "register" /\ 2 - 1 = 1
    BY <1>2, <1>5, <2>1
  <2> QED BY <1>1, <1>3, <2>2
<1> QED BY <1>4, <1>5 DEF Ordered, new

\* what is seen, when only refs and records are added
LEMMA SeenStays ==
    ASSUME NEW o \in Operators, charter' = charter, txs'[o] = txs[o]
    PROVE  CharterSeen(o)' = CharterSeen(o)
BY DEF CharterSeen, Spent, Left, MadeBy

LEMMA MadeAppend ==
    ASSUME CharterInv, NEW o \in Operators, NEW t \in Txs, txs'[o] = Append(txs[o], t)
    PROVE  MadeBy(o)' = MadeBy(o) \cup {t}
<1>1. txs[o] \in Seq(Txs)
  BY DEF CharterInv, RunTyped
<1>2. ASSUME NEW q \in Seq(Txs)
      PROVE  {Append(q, t)[i] : i \in DOMAIN Append(q, t)} = {q[i] : i \in DOMAIN q} \cup {t}
  <2>1. /\ DOMAIN Append(q, t) = 1..(Len(q) + 1) /\ Append(q, t)[Len(q) + 1] = t
        /\ \A i \in 1..Len(q) : Append(q, t)[i] = q[i]
        /\ DOMAIN q = 1..Len(q) /\ Len(q) \in Nat
    OBVIOUS
  <2> QED BY <2>1
<1> QED BY <1>1, <1>2 DEF MadeBy

LEMMA SeenPlain ==
    ASSUME CharterInv, NEW o \in Operators, charter' = charter, NEW t \in Txs, t.kind \notin Spending,
           txs'[o] = Append(txs[o], t)
    PROVE  CharterSeen(o)' = CharterSeen(o)
<1>1. MadeBy(o)' = MadeBy(o) \cup {t}
  BY MadeAppend
<1>2. {x \in MadeBy(o)' : x.kind \in Spending} = {x \in MadeBy(o) : x.kind \in Spending}
  BY <1>1
<1>3. Spent(o)' = Spent(o) /\ Left(o)' = Left(o)
  BY <1>2 DEF Spent, Left
<1> QED BY <1>3 DEF CharterSeen

\* When the charter that was seen is spent, what was made on it is lost.
LEMMA RecordedStays ==
    ASSUME CharterInv, CharterInv', Advances, NEW o \in Operators, UNCHANGED <<work[o], txs[o]>>,
           Recorded(txs[o], work[o], CharterSeen(o), charter)
    PROVE  Recorded(txs[o], work[o], CharterSeen(o), charter)'
<1> DEFINE q == txs[o]
<1>1. /\ q \in Seq(Txs) /\ q # <<>> /\ q[Len(q)].kind = "record" /\ Len(q) \in DOMAIN q
      /\ \A i \in DOMAIN q : q[i] \in Txs
  BY DEF CharterInv, RunTyped, Recorded
<1>2. txs'[o] = q /\ work'[o] = work[o]
  OBVIOUS
<1>3. CASE charter' = charter
  BY <1>2, <1>3, SeenStays DEF Recorded
<1>4. ASSUME charter' # charter PROVE \E i \in DOMAIN q : Lost(q[i], charter')
  <2>1. charter'.depth = charter.depth + 1 /\ charter.depth \in Nat
    BY <1>4 DEF Advances, CharterInv, ChainTyped, Charters
  <2>2. \A t \in Txs : t.on = charter /\ t.kind # "ref" => Lost(t, charter')
    BY <1>4, <2>1 DEF Lost
  <2>3. CASE \E i \in DOMAIN q : Lost(q[i], charter)
    BY <1>1, <2>3, LostStays
  <2>4. CASE q[Len(q)].on = CharterSeen(o)
    <3>1. CASE charter \in Spent(o)
      <4>1. PICK i \in DOMAIN q : q[i].kind \in Spending /\ q[i].on = charter
        BY <3>1 DEF Spent, MadeBy
      <4> QED BY <1>1, <2>2, <4>1 DEF Spending
    <3>2. CASE charter \notin Spent(o)
      BY <1>1, <2>2, <2>4, <3>2 DEF CharterSeen
    <3> QED BY <3>1, <3>2
  <2> QED BY <2>3, <2>4 DEF Recorded
<1> QED BY <1>1, <1>2, <1>3, <1>4 DEF Recorded

LEMMA RegisterStays ==
    ASSUME CharterInv, CharterInv', Advances, NEW o \in Operators, UNCHANGED <<todo[o], work[o], txs[o]>>,
           RegisterSound(o)
    PROVE  RegisterSound(o)'
<1>1. todo'[o] = todo[o]
  OBVIOUS
<1>2. CASE todo[o] # <<>> /\ Head(todo[o]).step = "register"
  <2>1. Recorded(txs[o], work[o], CharterSeen(o), charter)'
    BY <1>2, RecordedStays DEF RegisterSound
  <2> QED BY <1>1, <2>1 DEF RegisterSound
<1>3. CASE ~(todo[o] # <<>> /\ Head(todo[o]).step = "register")
  BY <1>1, <1>3 DEF RegisterSound
<1> QED BY <1>2, <1>3

\* A run that does nothing, while the ledger moves on
LEMMA OtherSound ==
    ASSUME CharterInv, CharterInv', LedgerAdvances, NEW o \in Operators, RunSound(o),
           UNCHANGED <<page[o], todo[o], work[o], txs[o], afloat[o]>>
    PROVE  RunSound(o)'
<1>1. txs[o] \in Seq(Txs) /\ afloat[o] \in Seq(Txs)
  BY DEF CharterInv, RunTyped, LeftTyped
<1>2. TxsSound(txs[o]) /\ TxsSound(afloat[o]) /\ RegisterSound(o) /\ AtRest(o)
  BY DEF RunSound
<1>3. TxsSound(txs[o])'
  BY <1>1, <1>2, TxsStaySound DEF TxsSound
<1>4. TxsSound(afloat[o])'
  BY <1>1, <1>2, TxsStaySound DEF TxsSound
<1>5. RegisterSound(o)'
  BY <1>2, RegisterStays DEF LedgerAdvances
<1>6. AtRest(o)'
  BY <1>2 DEF AtRest
<1> QED BY <1>3, <1>4, <1>5, <1>6 DEF RunSound

LEMMA SkipsSound ==
    ASSUME CharterInv, NEW o \in Operators, RunSound(o), page[o] = "building", todo[o] # <<>>,
           Head(todo[o]).step # "record", NEW nested \in Seq(Items), Without(nested, {"register"}),
           Skips(o, nested), UNCHANGED Rest
    PROVE  RunSound(o)'
<1>1. todo[o] \in Seq(Items)
  BY DEF CharterInv, RunTyped
<1>2. /\ page'[o] = page[o] /\ txs'[o] = txs[o] /\ todo'[o] = nested \o Tail(todo[o])
      /\ UNCHANGED <<afloat, charter, settingsRecord>>
  BY DEF Skips, GoesOn, CharterInv, RunTyped, Rest, chainVars
<1>3. TxsSound(txs[o])' /\ TxsSound(afloat[o])'
  BY <1>2 DEF RunSound, TxsSound
<1>4. RegisterSound(o)'
  BY <1>1, <1>2, OrderedGoesOn DEF RunSound, RegisterSound
<1> QED BY <1>2, <1>3, <1>4 DEF RunSound, AtRest

LEMMA ThrowsSound ==
    ASSUME CharterInv, NEW o \in Operators, RunSound(o), NEW how \in {"failed", "no funds"},
           Throws(o, how), UNCHANGED Rest
    PROVE  RunSound(o)'
<1>1. /\ page'[o] = how /\ txs'[o] = txs[o] /\ todo'[o] = <<>>
      /\ UNCHANGED <<afloat, charter, settingsRecord>>
  BY DEF Throws, CharterInv, RunTyped, Rest, chainVars
<1>2. TxsSound(txs[o])' /\ TxsSound(afloat[o])'
  BY <1>1 DEF RunSound, TxsSound
<1>4. RegisterSound(o)'
  BY <1>1, OrderedNone DEF RegisterSound
<1> QED BY <1>1, <1>2, <1>4 DEF RunSound, AtRest

LEMMA MakesSound ==
    ASSUME CharterInv, NEW o \in Operators, RunSound(o), page[o] = "building", todo[o] # <<>>,
           NEW nested \in Seq(Items), Without(nested, {"register"}),
           NEW t \in Txs, Fits(t),
           t.kind = "entry" =>
             /\ t.leaves.pending = t.on.pending \/ \E i \in DOMAIN txs[o] : Lost(txs[o][i], charter)
             /\ settingsRecord \/ \E i \in DOMAIN txs[o] : txs[o][i].kind = "record",
           Head(todo[o]).step = "record" => nested = <<>> /\ t.kind = "record" /\ t.on = CharterSeen(o),
           Makes(o, t, nested), UNCHANGED Rest
    PROVE  RunSound(o)'
<1>1. todo[o] \in Seq(Items) /\ txs[o] \in Seq(Txs)
  BY DEF CharterInv, RunTyped
<1>2. /\ page'[o] = page[o] /\ txs'[o] = Append(txs[o], t) /\ todo'[o] = nested \o Tail(todo[o])
      /\ work'[o] = NoCharter
      /\ UNCHANGED <<afloat, charter, settingsRecord>>
  BY DEF Makes, GoesOn, CharterInv, RunTyped, Rest, chainVars
<1>3. TxsSound(txs[o]) /\ TxsSound(afloat[o]) /\ RegisterSound(o)
  BY DEF RunSound
<1>4. TxsSound(Append(txs[o], t))
  BY <1>1, <1>3, TxsAppendSound
<1>5. TxsSound(txs[o])'
  BY <1>2, <1>4 DEF TxsSound
<1>6. TxsSound(afloat[o])'
  BY <1>2, <1>3 DEF TxsSound
<1>7. RegisterSound(o)'
  <2>1. /\ Ordered(todo'[o])
        /\ todo'[o] # <<>> /\ Head(todo'[o]).step = "register" => Head(todo[o]).step = "record"
    BY <1>1, <1>2, <1>3, OrderedGoesOn DEF RegisterSound
  <2>2. ASSUME Head(todo[o]).step = "record"
        PROVE  Recorded(txs'[o], work'[o], CharterSeen(o)', charter')
    <3>1. t.kind = "record" /\ t.on = CharterSeen(o)
      BY <2>2
    <3>2. CharterSeen(o)' = CharterSeen(o)
      BY <1>2, <3>1, SeenPlain DEF Spending
    <3>3. ASSUME NEW q \in Seq(Txs)
          PROVE  Append(q, t) # <<>> /\ Append(q, t)[Len(Append(q, t))] = t
      OBVIOUS
    <3> QED BY <1>1, <1>2, <3>1, <3>2, <3>3 DEF Recorded
  <2> QED BY <2>1, <2>2 DEF RegisterSound
<1> QED BY <1>2, <1>5, <1>6, <1>7 DEF RunSound, AtRest

-----------------------------------------------------------------------------
(* The txs that put another charter in place                                  *)

\* The tx that Updates() makes
UpdateTx(o, kind, p, c, next) ==
    [kind |-> kind, policy |-> p, on |-> CharterSeen(o),
     leaves |-> [next EXCEPT !.depth = CharterSeen(o).depth + 1, !.by = o],
     stale |-> kind = "queue" /\ ~Same(CharterSeen(o), c, {"manifest", "settings"}),
     burns |-> IF kind = "commit" THEN Replaced(c) ELSE {}]

LEMMA UpdateTxType ==
    ASSUME CharterInv, NEW o \in Operators, NEW kind \in Spending, NEW p \in Policies,
           NEW c \in Charters, NEW next \in Charters,
           kind = "commit" => next.manifest = Committed(CharterSeen(o)),
           kind = "entry" => next.manifest = CharterSeen(o).manifest,
           kind = "queue" =>
             /\ next.manifest = c.manifest
             /\ Len(next.pending) > Len(CharterSeen(o).pending)
    PROVE  LET t == UpdateTx(o, kind, p, c, next) IN
           /\ t \in Txs /\ t.kind = kind /\ t.policy = p /\ t.on = CharterSeen(o)
           /\ t.leaves \in Charters /\ t.leaves.depth = CharterSeen(o).depth + 1
           /\ t.leaves.manifest = next.manifest /\ t.leaves.settings = next.settings
           /\ t.leaves.pending = next.pending
           /\ t.stale <=> (kind = "queue" /\ ~Same(CharterSeen(o), c, {"manifest", "settings"}))
           /\ t.burns = IF kind = "commit" THEN Replaced(c) ELSE {}
<1> DEFINE u == CharterSeen(o)
           leaves == [next EXCEPT !.depth = u.depth + 1, !.by = o]
           stale == kind = "queue" /\ ~Same(u, c, {"manifest", "settings"})
           burns == IF kind = "commit" THEN Replaced(c) ELSE {}
           t == [kind |-> kind, policy |-> p, on |-> u, leaves |-> leaves,
                 stale |-> stale, burns |-> burns]
<1>1. u \in Charters
  BY SeenType
<1>2. t = UpdateTx(o, kind, p, c, next)
  BY DEF UpdateTx
<1>3. /\ leaves \in Charters /\ leaves.depth = u.depth + 1 /\ leaves.manifest = next.manifest
      /\ leaves.pending = next.pending /\ leaves.settings = next.settings
  <2> HIDE DEF u
  <2> DEFINE depth == u.depth + 1
  <2>1. depth \in Nat
    BY <1>1 DEF Charters
  <2> HIDE DEF depth
  <2> DEFINE l == [next EXCEPT !.depth = depth, !.by = o]
  <2>2. l \in Charters
    BY <2>1 DEF Charters
  <2>3. /\ l.depth = depth /\ l.manifest = next.manifest
        /\ l.pending = next.pending /\ l.settings = next.settings
    BY DEF Charters
  <2>4. leaves = l
    BY DEF depth
  <2> HIDE DEF l, leaves
  <2> QED BY <2>2, <2>3, <2>4 DEF depth
<1>4. burns \subseteq Policies
  BY ReplacedType
<1>5. ~stale /\ kind = "queue" => u.manifest = c.manifest
  BY DEF Same
<1>6. stale \in BOOLEAN
  OBVIOUS
<1>7. /\ kind = "commit" => leaves.manifest = Committed(u)
      /\ kind = "entry" => leaves.manifest = u.manifest
      /\ kind = "queue" => next.manifest = c.manifest /\ Len(next.pending) > Len(u.pending)
  BY <1>3
<1>8. stale <=> (kind = "queue" /\ ~Same(CharterSeen(o), c, {"manifest", "settings"}))
  OBVIOUS
<1>9. burns = IF kind = "commit" THEN Replaced(c) ELSE {}
  OBVIOUS
<1>10. u = CharterSeen(o)
  OBVIOUS
<1> HIDE DEF leaves, stale, burns, u
<1>11. Keeps(t)
  BY <1>3, <1>5, <1>7 DEF Keeps
<1>12. t \in Txs
  BY <1>1, <1>3, <1>4, <1>6, <1>11 DEF Txs, Kinds
<1>13. /\ t.kind = kind /\ t.policy = p /\ t.on = u /\ t.leaves = leaves /\ t.stale = stale
       /\ t.burns = burns
  OBVIOUS
<1> HIDE DEF t
<1> QED BY <1>2, <1>3, <1>8, <1>9, <1>10, <1>12, <1>13

LEMMA UpdatesWhat ==
    ASSUME NEW o, NEW kind, NEW p, NEW c, NEW next, NEW valid, NEW nested,
           Updates(o, kind, p, c, next, valid, nested)
    PROVE  \/ valid /\ Makes(o, UpdateTx(o, kind, p, c, next), nested)
           \/ ~valid /\ Throws(o, "failed")
BY DEF Updates, UpdateTx

LEMMA QueueFits ==
    ASSUME CharterInv, NEW o \in Operators, NEW p \in Policies, NEW c \in Charters,
           ~NotNeeded(o, c, p), ValidQueue(CharterSeen(o), Queued(c, p))
    PROVE  LET t == UpdateTx(o, "queue", p, c, Queued(c, p)) IN
           /\ t \in Txs /\ Fits(t) /\ t.kind = "queue" /\ t.policy = p /\ t.on = CharterSeen(o)
           /\ c = CharterSeen(o) => ~t.stale
<1> DEFINE u == CharterSeen(o)
           next == Queued(c, p)
           t == UpdateTx(o, "queue", p, c, next)
           change == [policy |-> p, action |-> ActionFor(c, p)]
<1>1. /\ next \in Charters /\ next.manifest = c.manifest /\ Tail(next.pending) = c.pending
      /\ Len(next.pending) = Len(c.pending) + 1
  BY QueuedType
<1>2. next.pending = <<change>> \o c.pending /\ next.settings = c.settings
  BY DEF Queued, Charters
<1>3. u \in Charters
  BY SeenType
<1>4. c.pending = u.pending /\ u.pending = <<>>
  BY <1>1 DEF ValidQueue
<1>5. "queue" \in Spending
  BY DEF Spending
<1>6. Len(next.pending) > Len(u.pending)
  <2>1. Len(next.pending) = Len(u.pending) + 1 /\ Len(u.pending) \in Nat
    BY <1>1, <1>3, <1>4 DEF Charters
  <2> QED BY <2>1
<1>7. /\ t \in Txs /\ t.kind = "queue" /\ t.policy = p /\ t.on = u
      /\ t.leaves.depth = u.depth + 1 /\ t.leaves.manifest = next.manifest
      /\ t.leaves.settings = next.settings /\ t.leaves.pending = next.pending
      /\ t.stale <=> ~Same(u, c, {"manifest", "settings"})
      /\ t.burns = {}
  BY <1>1, <1>5, <1>6, UpdateTxType
<1>8. next.pending = <<change>>
  <2>1. c.pending = <<>>
    BY <1>4
  <2> HIDE DEF change
  <2> QED BY <1>2, <2>1
<1>9. c.manifest[p] # "new"
  BY DEF NotNeeded
<1> HIDE DEF u, next, t
<1>10. ~t.stale => u.manifest = c.manifest /\ u.settings = c.settings
  BY <1>7 DEF Same
<1>11. ~t.stale => u.manifest[p] # "new" /\ ActionFor(u, p) = ActionFor(c, p)
  BY <1>9, <1>10 DEF ActionFor
<1>12. Fits(t)
  <2>1. ~t.stale => t.leaves.pending = <<[policy |-> p, action |-> ActionFor(u, p)]>>
    BY <1>7, <1>8, <1>11
  <2> HIDE DEF change
  <2> QED BY <1>1, <1>2, <1>4, <1>7, <1>10, <1>11, <2>1 DEF Fits
<1>13. c = u => ~t.stale
  BY <1>7 DEF Same
<1> QED BY <1>7, <1>12, <1>13 DEF u, next, t

LEMMA CommitTxType ==
    ASSUME CharterInv, Settings \in Policies, NEW o \in Operators, NEW c \in Charters,
           NEW next \in Charters, next.manifest = Committed(CharterSeen(o))
    PROVE  LET t == UpdateTx(o, "commit", Settings, c, next) IN
           /\ t \in Txs /\ t.kind = "commit" /\ t.on = CharterSeen(o)
           /\ t.leaves.depth = CharterSeen(o).depth + 1 /\ t.leaves.manifest = next.manifest
           /\ t.leaves.settings = next.settings /\ t.leaves.pending = next.pending
           /\ ~t.stale /\ t.burns = Replaced(c)
<1>1. "commit" \in Spending
  BY DEF Spending
<1> QED BY <1>1, UpdateTxType

LEMMA EntryTxType ==
    ASSUME CharterInv, Settings \in Policies, NEW o \in Operators, NEW c \in Charters,
           NEW next \in Charters, next.manifest = CharterSeen(o).manifest
    PROVE  LET t == UpdateTx(o, "entry", Settings, c, next) IN
           /\ t \in Txs /\ t.kind = "entry" /\ t.on = CharterSeen(o)
           /\ t.leaves.depth = CharterSeen(o).depth + 1 /\ t.leaves.manifest = next.manifest
           /\ t.leaves.settings = next.settings /\ t.leaves.pending = next.pending
           /\ ~t.stale /\ t.burns = {}
<1>1. "entry" \in Spending
  BY DEF Spending
<1> QED BY <1>1, UpdateTxType

LEMMA CommitFits ==
    ASSUME CharterInv, Settings \in Policies, NEW o \in Operators, NEW c \in Charters,
           NEW next \in Charters,
           ValidCommit(CharterSeen(o), next, {<<p, c.manifest[p]>> : p \in Replaced(c)})
    PROVE  LET t == UpdateTx(o, "commit", Settings, c, next) IN
           t \in Txs /\ Fits(t) /\ t.kind = "commit" /\ t.on = CharterSeen(o) /\ ~t.stale
<1> DEFINE u == CharterSeen(o)
           t == UpdateTx(o, "commit", Settings, c, next)
<1>3. next.manifest = Committed(u) /\ next.settings = u.settings /\ next.pending = <<>>
  BY DEF ValidCommit, Same
<1>4. Replaced(c) = Replaced(u)
  <2>1. {<<p, c.manifest[p]>> : p \in Replaced(c)} = {<<p, u.manifest[p]>> : p \in Replaced(u)}
    BY DEF ValidCommit
  <2> HIDE DEF u
  <2>2. ASSUME NEW p \in Replaced(c) PROVE p \in Replaced(u)
    <3>1. <<p, c.manifest[p]>> \in {<<r, u.manifest[r]>> : r \in Replaced(u)}
      BY <2>1
    <3> QED BY <3>1
  <2>3. ASSUME NEW p \in Replaced(u) PROVE p \in Replaced(c)
    <3>1. <<p, u.manifest[p]>> \in {<<r, c.manifest[r]>> : r \in Replaced(c)}
      BY <2>1
    <3> QED BY <3>1
  <2> QED BY <2>2, <2>3
<1>6. /\ t \in Txs /\ t.kind = "commit" /\ t.on = u
      /\ t.leaves.depth = u.depth + 1 /\ t.leaves.manifest = next.manifest
      /\ t.leaves.settings = next.settings /\ t.leaves.pending = next.pending
      /\ ~t.stale /\ t.burns = Replaced(c)
  BY <1>3, CommitTxType
<1> HIDE DEF t
<1> QED BY <1>3, <1>4, <1>6 DEF Fits, t

LEMMA EntryTxFits ==
    ASSUME CharterInv, Settings \in Policies, NEW o \in Operators, NEW c \in Charters,
           NEW next \in Charters, ValidEntry(CharterSeen(o), next)
    PROVE  LET t == UpdateTx(o, "entry", Settings, c, next) IN
           /\ t \in Txs /\ Fits(t) /\ t.kind = "entry" /\ t.on = CharterSeen(o) /\ ~t.stale
           /\ t.leaves.pending = next.pending /\ t.leaves.settings
<1> DEFINE u == CharterSeen(o)
           t == UpdateTx(o, "entry", Settings, c, next)
<1>2. next.manifest = u.manifest /\ next.settings
  BY DEF ValidEntry, Same
<1>4. /\ t \in Txs /\ t.kind = "entry" /\ t.on = u
      /\ t.leaves.depth = u.depth + 1 /\ t.leaves.manifest = next.manifest
      /\ t.leaves.settings = next.settings /\ t.leaves.pending = next.pending
      /\ ~t.stale /\ t.burns = {}
  BY <1>2, EntryTxType
<1> HIDE DEF t
<1> QED BY <1>2, <1>4 DEF Fits, t

LEMMA NextType ==
    ASSUME NEW c \in Charters
    PROVE  /\ [c EXCEPT !.manifest = Committed(c), !.pending = <<>>] \in Charters
           /\ [c EXCEPT !.settings = TRUE] \in Charters
           /\ [c EXCEPT !.settings = TRUE].pending = c.pending
<1>1. Committed(c) \in Manifests /\ <<>> \in Seq(Changes)
  BY CommittedType
<1> QED BY <1>1 DEF Charters

LEMMA PlainFits ==
    ASSUME NEW kind \in {"ref", "record"}, NEW p \in Policies, NEW u \in Charters
    PROVE  LET t == Plain(kind, p, u) IN
           /\ t \in Txs /\ Fits(t) /\ t.kind = kind /\ t.policy = p /\ t.on = u /\ ~t.stale
           /\ t.kind \notin Spending
<1>1. Plain(kind, p, u) \in Txs
  BY PlainType
<1> QED BY <1>1 DEF Plain, Fits, Spending

\* A tx of a run that nobody crosses
LEMMA FitsLeads ==
    ASSUME NEW t \in Txs, Fits(t), ~t.stale, t.kind \in Spending, Proper(t.on),
           t.kind = "entry" => t.leaves.pending = t.on.pending
    PROVE  Proper(t.leaves) /\ Onward(t.on, t.leaves) /\ Passes(t, t.on, t.leaves)
<1> DEFINE u == t.on
           w == t.leaves
<1>1. u \in Charters /\ w \in Charters /\ u.depth \in Nat /\ w.depth = u.depth + 1
  BY DEF Txs, Charters, Fits
<1>2. Passes(t, u, w)
  BY <1>1 DEF Passes
<1>3. CASE t.kind = "queue"
  <2>1. /\ w.pending = <<[policy |-> t.policy, action |-> ActionFor(u, t.policy)]>>
        /\ w.manifest = u.manifest /\ u.manifest[t.policy] # "new" /\ t.policy \in Policies
    BY <1>3 DEF Fits, Txs
  <2>2. ActionFor(u, t.policy) = ActionFor(w, t.policy)
    BY <2>1 DEF ActionFor
  <2>3. Proper(w)
    BY <2>1, <2>2 DEF Proper
  <2> QED BY <1>1, <1>2, <2>1, <2>3 DEF Onward
<1>4. CASE t.kind = "commit"
  <2>1. w.manifest = Committed(u) /\ w.pending = <<>>
    BY <1>4 DEF Fits
  <2>2. \A p \in Policies : Committed(u)[p] = "old" => u.manifest[p] = "old"
    BY DEF Committed
  <2> QED BY <1>1, <1>2, <2>1, <2>2 DEF Onward, Proper
<1>5. CASE t.kind = "entry"
  <2>1. w.manifest = u.manifest /\ w.pending = u.pending
    BY <1>5 DEF Fits
  <2>2. \A p \in Policies : ActionFor(u, p) = ActionFor(w, p)
    BY <2>1 DEF ActionFor
  <2>3. Proper(w)
    BY <2>1, <2>2 DEF Proper
  <2> QED BY <1>1, <1>2, <2>1, <2>3 DEF Onward
<1> QED BY <1>3, <1>4, <1>5 DEF Spending

-----------------------------------------------------------------------------
(* The items that come next                                                   *)

Unsettling == {"install", "record", "register"}

LEMMA NoItems == <<>> \in Seq(Items) /\ \A steps : Without(<<>>, steps)
<1>1. DOMAIN <<>> = {} /\ <<>> \in Seq(Items)
  OBVIOUS
<1> QED BY <1>1 DEF Without

LEMMA FewItems ==
    /\ \A x \in Items : <<x>> \in Seq(Items) /\ DOMAIN <<x>> = {1} /\ <<x>>[1] = x
    /\ \A x \in Items, y \in Items :
         LET two == Append(<<x>>, y) IN
         two \in Seq(Items) /\ DOMAIN two = {1, 2} /\ two[1] = x /\ two[2] = y
<1>1. ASSUME NEW x \in Items PROVE <<x>> \in Seq(Items) /\ DOMAIN <<x>> = {1} /\ <<x>>[1] = x
  OBVIOUS
<1>2. ASSUME NEW x \in Items, NEW y \in Items
      PROVE  LET two == Append(<<x>>, y) IN
             two \in Seq(Items) /\ DOMAIN two = {1, 2} /\ two[1] = x /\ two[2] = y
  <2> DEFINE two == Append(<<x>>, y)
  <2>1. two \in Seq(Items)
    BY <1>1
  <2>2. Len(two) = 2 /\ two[1] = x /\ two[2] = y
    OBVIOUS
  <2>3. DOMAIN two = 1..2
    BY <2>1, <2>2
  <2> HIDE DEF two
  <2>4. DOMAIN two = {1, 2}
    BY <2>3
  <2> QED BY <2>1, <2>2, <2>4 DEF two
<1> QED BY <1>1, <1>2

LEMMA CommitItem ==
    ASSUME CharterAssumption
    PROVE  <<CommitIfNeeded>> \in Seq(Items) /\ Without(<<CommitIfNeeded>>, Unsettling \cup {"setup"})
<1>1. CommitIfNeeded \in Items /\ CommitIfNeeded.step = "commit"
  BY ItemType DEF CommitIfNeeded, Item
<1> HIDE DEF CommitIfNeeded
<1>2. /\ <<CommitIfNeeded>> \in Seq(Items) /\ DOMAIN <<CommitIfNeeded>> = {1}
      /\ <<CommitIfNeeded>>[1] = CommitIfNeeded
  BY <1>1, FewItems
<1> QED BY <1>1, <1>2 DEF Without, Unsettling

LEMMA ScriptItem ==
    ASSUME CharterAssumption, NEW p \in Policies
    PROVE  LET script == <<Item("ref script", p)>> IN
           /\ script \in Seq(Items) /\ Without(script, Unsettling \cup {"setup"})
           /\ Has(script, "ref script", p)
<1> DEFINE item == Item("ref script", p)
<1>1. item \in Items /\ item.step = "ref script" /\ item.policy = p
  BY ItemType DEF Item, Steps
<1> HIDE DEF item
<1>2. <<item>> \in Seq(Items) /\ DOMAIN <<item>> = {1} /\ <<item>>[1] = item
  BY <1>1, FewItems
<1>3. Without(<<item>>, Unsettling \cup {"setup"}) /\ Has(<<item>>, "ref script", p)
  BY <1>1, <1>2 DEF Without, Unsettling, Has
<1> QED BY <1>2, <1>3 DEF item

LEMMA InstallItems ==
    ASSUME CharterAssumption, NEW p \in Policies
    PROVE  LET items == Append(<<Item("ref script", p)>>, CommitIfNeeded) IN
           /\ items \in Seq(Items) /\ Without(items, Unsettling \cup {"setup"})
           /\ Has(items, "ref script", p)
           /\ \E k \in DOMAIN items : items[k].step = "commit" /\ ~Before(items, k, "setup")
<1> DEFINE item == Item("ref script", p)
           items == Append(<<item>>, CommitIfNeeded)
<1>1. /\ item \in Items /\ item.step = "ref script" /\ item.policy = p
      /\ CommitIfNeeded \in Items /\ CommitIfNeeded.step = "commit"
  BY ItemType DEF Item, CommitIfNeeded, Steps
<1> HIDE DEF item
<1>2. items \in Seq(Items) /\ DOMAIN items = {1, 2} /\ items[1] = item /\ items[2] = CommitIfNeeded
  BY <1>1, FewItems
<1> HIDE DEF items
<1>3. Without(items, Unsettling \cup {"setup"})
  BY <1>1, <1>2 DEF Without, Unsettling
<1>4. Has(items, "ref script", p)
  BY <1>1, <1>2 DEF Has
<1>5. ~Before(items, 2, "setup")
  <2>1. 1..(2 - 1) = {1}
    OBVIOUS
  <2> QED BY <1>1, <1>2, <2>1 DEF Before
<1> QED BY <1>1, <1>2, <1>3, <1>4, <1>5 DEF items, item

LEMMA Between ==
    ASSUME NEW x \in Items, NEW q \in Seq(Items)
    PROVE  LET r == <<x>> \o q \o <<x>> IN
           /\ r \in Seq(Items) /\ DOMAIN r = 1..(Len(q) + 2)
           /\ r[1] = x /\ r[Len(q) + 2] = x
           /\ \A i \in 1..Len(q) : r[i + 1] = q[i]
<1> DEFINE one == <<x>>
           s == one \o q
           r == s \o one
<1>1. one \in Seq(Items) /\ Len(one) = 1 /\ one[1] = x
  BY FewItems
<1> HIDE DEF one
<1>j. ASSUME NEW a \in Seq(Items), NEW b \in Seq(Items)
      PROVE  /\ a \o b \in Seq(Items) /\ Len(a \o b) = Len(a) + Len(b) /\ Len(a) \in Nat
             /\ \A i \in 1..Len(a) : (a \o b)[i] = a[i]
             /\ \A i \in 1..Len(b) : (a \o b)[Len(a) + i] = b[i]
  OBVIOUS
<1>l. Len(q) \in Nat /\ 1 \in 1..1
  OBVIOUS
<1>2. /\ s \in Seq(Items) /\ Len(s) = 1 + Len(q) /\ s[1] = x
      /\ \A i \in 1..Len(q) : s[1 + i] = q[i]
  BY <1>1, <1>j, <1>l
<1> HIDE DEF s
<1>3. /\ r \in Seq(Items) /\ Len(r) = Len(q) + 2 /\ r[Len(q) + 2] = x
      /\ \A i \in 1..(Len(q) + 1) : r[i] = s[i]
  <2>0. /\ r \in Seq(Items) /\ Len(r) = Len(s) + Len(one)
        /\ \A i \in 1..Len(s) : r[i] = s[i]
        /\ \A i \in 1..Len(one) : r[Len(s) + i] = one[i]
    BY <1>1, <1>2, <1>j
  <2>j. 1 \in 1..Len(one)
    BY <1>1
  <2> HIDE DEF r
  <2>1. /\ r \in Seq(Items) /\ Len(r) = Len(s) + 1 /\ r[Len(s) + 1] = x
        /\ \A i \in 1..Len(s) : r[i] = s[i]
    BY <1>1, <2>0, <2>j
  <2>2. Len(s) = Len(q) + 1 /\ Len(s) + 1 = Len(q) + 2
    BY <1>2, <1>l
  <2> QED BY <2>1, <2>2
<1>4. DOMAIN r = 1..(Len(q) + 2)
  BY <1>3
<1> HIDE DEF r
<1>5. \A i \in 1..Len(q) : i + 1 \in 1..(Len(q) + 1) /\ 1 + i = i + 1
  BY <1>l
<1>6. 1 \in 1..(Len(q) + 1)
  BY <1>l
<1> QED BY <1>2, <1>3, <1>4, <1>5, <1>6 DEF r, s, one

LEMMA CheckItems ==
    ASSUME CharterAssumption
    PROVE  LET items == <<CommitIfNeeded>> \o SetupEach \o <<CommitIfNeeded>> IN
           /\ items \in Seq(Items) /\ Without(items, Unsettling)
           /\ \A p \in Policies : Has(items, "setup", p)
           /\ \E k \in DOMAIN items : items[k].step = "commit" /\ ~Before(items, k, "setup")
<1> DEFINE items == <<CommitIfNeeded>> \o SetupEach \o <<CommitIfNeeded>>
           n == Len(PolicySeq)
<1>1. CommitIfNeeded \in Items /\ CommitIfNeeded.step = "commit" /\ SetupEach \in Seq(Items)
  BY ItemType DEF Item, CommitIfNeeded
<1>2. /\ n \in Nat /\ DOMAIN SetupEach = 1..n
      /\ \A i \in 1..n : SetupEach[i] = Item("setup", PolicySeq[i])
      /\ Policies = {PolicySeq[i] : i \in 1..n}
  BY DEF CharterAssumption, SetupEach, Policies, ToSet
<1>3. \A i \in 1..n : SetupEach[i].step = "setup" /\ SetupEach[i].policy = PolicySeq[i]
  BY <1>2 DEF Item
<1>4. Len(SetupEach) = n
  BY <1>1, <1>2
<1> HIDE DEF n
<1>5. /\ items \in Seq(Items) /\ DOMAIN items = 1..(n + 2)
      /\ items[1] = CommitIfNeeded /\ items[n + 2] = CommitIfNeeded
      /\ \A i \in 1..n : items[i + 1] = SetupEach[i]
  BY <1>1, <1>4, Between
<1> HIDE DEF items
<1>6. \A i \in 1..(n + 2) : i = 1 \/ i = n + 2 \/ (i - 1 \in 1..n /\ (i - 1) + 1 = i)
  BY <1>2
<1>7. \A i \in DOMAIN items : items[i].step \in {"commit", "setup"}
  <2> SUFFICES ASSUME NEW i \in 1..(n + 2) PROVE items[i].step \in {"commit", "setup"}
    BY <1>5
  <2>1. CASE i = 1 \/ i = n + 2
    BY <1>1, <1>5, <2>1
  <2>2. CASE i - 1 \in 1..n /\ (i - 1) + 1 = i
    <3>1. items[i] = SetupEach[i - 1]
      BY <1>5, <2>2
    <3> QED BY <1>3, <2>2, <3>1
  <2> QED BY <1>6, <2>1, <2>2
<1>8. Without(items, Unsettling)
  BY <1>7 DEF Without, Unsettling
<1>9. ASSUME NEW p \in Policies PROVE Has(items, "setup", p)
  <2>1. PICK i \in 1..n : PolicySeq[i] = p
    BY <1>2
  <2>2. i + 1 \in DOMAIN items /\ items[i + 1] = SetupEach[i]
    BY <1>2, <1>5
  <2> QED BY <1>3, <2>1, <2>2 DEF Has
<1>10. 1 \in DOMAIN items /\ ~Before(items, 1, "setup")
  BY <1>2, <1>5 DEF Before
<1> QED BY <1>1, <1>5, <1>8, <1>9, <1>10 DEF items

LEMMA WithoutFewer ==
    ASSUME NEW td, NEW steps, NEW fewer, Without(td, steps), fewer \subseteq steps
    PROVE  Without(td, fewer)
BY DEF Without

-----------------------------------------------------------------------------
(* Every run stays sound                                                      *)

LEMMA CheckSound ==
    ASSUME CharterAssumption, CharterInv, NEW o \in Operators, RunSound(o), checkForUpdates(o)
    PROVE  RunSound(o)'
<1> DEFINE items == <<CommitIfNeeded>> \o SetupEach \o <<CommitIfNeeded>>
<1>1. items \in Seq(Items) /\ Without(items, {"register"})
  BY CheckItems, WithoutFewer DEF Unsettling
<1>2. /\ page[o] = "building" /\ todo[o] # <<>> /\ Head(todo[o]).step # "record"
      /\ Skips(o, items) /\ UNCHANGED Rest
  BY DEF checkForUpdates, Doing
<1> HIDE DEF items
<1> QED BY <1>1, <1>2, SkipsSound

LEMMA InstallSound ==
    ASSUME CharterAssumption, CharterInv, NEW o \in Operators, RunSound(o), mkTxnInstallPolicyDelegate(o)
    PROVE  RunSound(o)'
<1> DEFINE p == Head(todo[o]).policy
           c == work[o]
           script == <<Item("ref script", p)>>
           items == Append(script, CommitIfNeeded)
<1>1. /\ page[o] = "building" /\ todo[o] # <<>> /\ Head(todo[o]).step # "record" /\ UNCHANGED Rest
      /\ c # NoCharter
  BY DEF mkTxnInstallPolicyDelegate, Doing, Ready
<1>2. p \in Policies
  BY <1>1, HeadItem
<1>3. c \in Charters
  BY <1>1 DEF CharterInv, RunTyped, CharterData
<1>4. /\ script \in Seq(Items) /\ Without(script, {"register"})
      /\ items \in Seq(Items) /\ Without(items, {"register"})
      /\ <<>> \in Seq(Items) /\ Without(<<>>, {"register"})
  <2>1. script \in Seq(Items) /\ Without(script, Unsettling \cup {"setup"})
    BY <1>2, ScriptItem
  <2>2. items \in Seq(Items) /\ Without(items, Unsettling \cup {"setup"})
    BY <1>2, InstallItems
  <2>3. {"register"} \subseteq Unsettling \cup {"setup"}
    BY DEF Unsettling
  <2> HIDE DEF script, items
  <2> QED BY <2>1, <2>2, <2>3, NoItems, WithoutFewer
<1>5. \/ Skips(o, script) \/ Skips(o, <<>>)
      \/ ~NotNeeded(o, c, p) /\ Updates(o, "queue", p, c, Queued(c, p),
                                     ValidQueue(CharterSeen(o), Queued(c, p)), items)
  BY DEF mkTxnInstallPolicyDelegate
<1> HIDE DEF p, c, script, items
<1>6. CASE Skips(o, script) \/ Skips(o, <<>>)
  BY <1>1, <1>4, <1>6, SkipsSound
<1>7. CASE ~NotNeeded(o, c, p) /\ Updates(o, "queue", p, c, Queued(c, p),
                                       ValidQueue(CharterSeen(o), Queued(c, p)), items)
  <2> DEFINE t == UpdateTx(o, "queue", p, c, Queued(c, p))
  <2>1. \/ ValidQueue(CharterSeen(o), Queued(c, p)) /\ Makes(o, t, items)
        \/ Throws(o, "failed")
    BY <1>7, UpdatesWhat
  <2>2. ASSUME ValidQueue(CharterSeen(o), Queued(c, p)) PROVE t \in Txs /\ Fits(t) /\ t.kind = "queue"
    BY <1>2, <1>3, <1>7, <2>2, QueueFits
  <2> HIDE DEF t
  <2> QED BY <1>1, <1>4, <2>1, <2>2, MakesSound, ThrowsSound
<1> QED BY <1>5, <1>6, <1>7

LEMMA CommitSound ==
    ASSUME CharterAssumption, CharterInv, NEW o \in Operators, RunSound(o),
           mkTxnCommittingPendingChanges(o)
    PROVE  RunSound(o)'
<1> DEFINE c == work[o]
           next == [c EXCEPT !.manifest = Committed(c), !.pending = <<>>]
           valid == /\ CanCommit(o, c)
                    /\ ValidCommit(CharterSeen(o), next, {<<p, c.manifest[p]>> : p \in Replaced(c)})
<1>1. /\ page[o] = "building" /\ todo[o] # <<>> /\ Head(todo[o]).step # "record" /\ UNCHANGED Rest
      /\ c # NoCharter
  BY DEF mkTxnCommittingPendingChanges, Doing, Ready
<1>2. c \in Charters /\ Settings \in Policies
  BY <1>1 DEF CharterInv, RunTyped, CharterData, CharterAssumption
<1>3. next \in Charters
  BY <1>2, NextType
<1>4. Skips(o, <<>>) \/ Updates(o, "commit", Settings, c, next, valid, <<>>)
  BY DEF mkTxnCommittingPendingChanges
<1>5. <<>> \in Seq(Items) /\ Without(<<>>, {"register"})
  BY NoItems
<1>v. valid => ValidCommit(CharterSeen(o), next, {<<p, c.manifest[p]>> : p \in Replaced(c)})
  OBVIOUS
<1> HIDE DEF c, next, valid
<1>6. CASE Skips(o, <<>>)
  BY <1>1, <1>5, <1>6, SkipsSound
<1>7. CASE Updates(o, "commit", Settings, c, next, valid, <<>>)
  <2> DEFINE t == UpdateTx(o, "commit", Settings, c, next)
  <2>1. (valid /\ Makes(o, t, <<>>)) \/ Throws(o, "failed")
    BY <1>7, UpdatesWhat
  <2>2. ASSUME valid PROVE t \in Txs /\ Fits(t) /\ t.kind = "commit"
    BY <1>2, <1>3, <1>v, <2>2, CommitFits
  <2> HIDE DEF t
  <2> QED BY <1>1, <1>5, <2>1, <2>2, MakesSound, ThrowsSound
<1> QED BY <1>4, <1>6, <1>7

LEMMA EntrySound ==
    ASSUME CharterAssumption, CharterInv, NEW o \in Operators, RunSound(o), mkTxnAddManifestEntry(o)
    PROVE  RunSound(o)'
<1> DEFINE c == work[o]
           next == [c EXCEPT !.settings = TRUE]
           valid == /\ RecordSeen(o) /\ c.manifest[Settings] # "none"
                    /\ ValidEntry(CharterSeen(o), next)
<1>1. /\ page[o] = "building" /\ todo[o] # <<>> /\ Head(todo[o]).step = "register" /\ UNCHANGED Rest
      /\ c # NoCharter
  BY DEF mkTxnAddManifestEntry, Doing, Ready
<1>2. c \in Charters /\ Settings \in Policies
  BY <1>1 DEF CharterInv, RunTyped, CharterData, CharterAssumption
<1>3. next \in Charters /\ next.pending = c.pending
  BY <1>2, NextType
<1>4. Updates(o, "entry", Settings, c, next, valid, <<CommitIfNeeded>>)
  BY DEF mkTxnAddManifestEntry
<1>5. <<CommitIfNeeded>> \in Seq(Items) /\ Without(<<CommitIfNeeded>>, {"register"})
  BY CommitItem, WithoutFewer DEF Unsettling
<1>v. valid => ValidEntry(CharterSeen(o), next)
  OBVIOUS
<1>6. Recorded(txs[o], c, CharterSeen(o), charter)
  BY <1>1 DEF RunSound, RegisterSound
<1> HIDE DEF c, next, valid
<1> DEFINE t == UpdateTx(o, "entry", Settings, c, next)
<1>7. (valid /\ Makes(o, t, <<CommitIfNeeded>>)) \/ Throws(o, "failed")
  BY <1>4, UpdatesWhat
<1>8. ASSUME valid
      PROVE  /\ t \in Txs /\ Fits(t) /\ t.kind = "entry" /\ t.on = CharterSeen(o)
             /\ t.leaves.pending = c.pending
  BY <1>2, <1>3, <1>v, <1>8, EntryTxFits
<1> HIDE DEF t
<1>9. /\ c = CharterSeen(o) \/ \E i \in DOMAIN txs[o] : Lost(txs[o][i], charter)
      /\ \E i \in DOMAIN txs[o] : txs[o][i].kind = "record"
  <2>1. txs[o] # <<>> /\ txs[o] \in Seq(Txs)
    BY <1>6 DEF Recorded, CharterInv, RunTyped
  <2>2. Len(txs[o]) \in DOMAIN txs[o]
    BY <2>1
  <2> QED BY <1>1, <1>6, <2>2 DEF Recorded
<1> QED BY <1>1, <1>5, <1>7, <1>8, <1>9, MakesSound, ThrowsSound

LEMMA PlainSound ==
    ASSUME CharterAssumption, CharterInv, NEW o \in Operators, RunSound(o),
           mkRefScriptTxn(o) \/ createSettingsRecord(o)
    PROVE  RunSound(o)'
<1>1. <<>> \in Seq(Items) /\ Without(<<>>, {"register"}) /\ CharterSeen(o) \in Charters
  BY NoItems, SeenType
<1>2. CASE mkRefScriptTxn(o)
  <2> DEFINE t == Plain("ref", Head(todo[o]).policy, CharterSeen(o))
  <2>1. /\ page[o] = "building" /\ todo[o] # <<>> /\ Head(todo[o]).step # "record" /\ UNCHANGED Rest
        /\ Makes(o, t, <<>>) \/ Throws(o, "no funds")
    BY <1>2 DEF mkRefScriptTxn, Doing
  <2>2. t \in Txs /\ Fits(t) /\ t.kind = "ref"
    <3>1. Head(todo[o]).policy \in Policies
      BY <2>1, HeadItem
    <3> QED BY <1>1, <3>1, PlainFits
  <2> HIDE DEF t
  <2> QED BY <1>1, <2>1, <2>2, MakesSound, ThrowsSound
<1>3. CASE createSettingsRecord(o)
  <2> DEFINE t == Plain("record", Settings, CharterSeen(o))
  <2>1. /\ page[o] = "building" /\ todo[o] # <<>> /\ UNCHANGED Rest
        /\ Makes(o, t, <<>>) \/ Throws(o, "failed")
    BY <1>3 DEF createSettingsRecord, Doing
  <2>2. t \in Txs /\ Fits(t) /\ t.kind = "record" /\ t.on = CharterSeen(o)
    BY <1>1, PlainFits DEF CharterAssumption
  <2> HIDE DEF t
  <2> QED BY <1>1, <2>1, <2>2, MakesSound, ThrowsSound
<1> QED BY <1>2, <1>3

LEMMA TakesAdvances ==
    ASSUME CharterInv, NEW t \in Txs, Fits(t), CanLand(t), Takes(t)
    PROVE  LedgerAdvances /\ ~Lost(t, charter) /\ (t.kind = "record" => settingsRecord')
<1>1. CASE t.kind \in Spending
  <2>1. t.on = charter /\ charter' = t.leaves /\ t.leaves.depth = t.on.depth + 1
    BY <1>1 DEF CanLand, Takes, Fits, Spending
  <2> QED BY <2>1 DEF LedgerAdvances, Advances, Takes, Lost
<1>2. CASE t.kind \notin Spending
  BY <1>2 DEF LedgerAdvances, Advances, Takes, Lost, CanLand
<1> QED BY <1>1, <1>2

LEMMA NoneSound == TxsSound(<<>>)
<1>1. DOMAIN <<>> = {}
  OBVIOUS
<1> QED BY <1>1 DEF TxsSound, EntriesFit

LEMMA FirstSound ==
    ASSUME NEW q \in Seq(Txs), TxsSound(q), NEW n \in 0..1, n = 1 => q # <<>>
    PROVE  TxsSound(SubSeq(q, 1, n))
<1>1. CASE n = 0
  <2>1. SubSeq(q, 1, n) = <<>>
    BY <1>1
  <2> QED BY <2>1, NoneSound
<1>2. CASE n = 1
  <2> DEFINE r == SubSeq(q, 1, n)
  <2>1. r \in Seq(Txs) /\ Len(r) = 1 /\ r[1] = q[1] /\ 1 \in DOMAIN q
    BY <1>2
  <2>2. DOMAIN r = {1}
    BY <2>1
  <2> HIDE DEF r
  <2>3. Fits(q[1]) /\ (q[1].kind = "entry" => EntryFits(q, 1, charter, settingsRecord))
    BY <2>1 DEF TxsSound, EntriesFit
  <2>4. 1..(1 - 1) = {}
    OBVIOUS
  <2> QED BY <2>1, <2>2, <2>3, <2>4 DEF TxsSound, EntriesFit, EntryFits, r
<1> QED BY <1>1, <1>2

LEMMA ReadsSound ==
    ASSUME CharterInv, NEW o \in Operators, RunSound(o), ReadsCharter(o)
    PROVE  RunSound(o)'
<1>1. /\ page[o] = "building" /\ todo[o] # <<>>
      /\ UNCHANGED <<page, todo, txs, afloat, charter, settingsRecord>>
  BY DEF ReadsCharter, Doing, Rest, chainVars
<1>2. TxsSound(txs[o])' /\ TxsSound(afloat[o])' /\ AtRest(o)'
  BY <1>1 DEF RunSound, TxsSound, AtRest
<1>3. CharterSeen(o)' = CharterSeen(o)
  BY <1>1, SeenStays
<1>4. Head(todo[o]).step = "register" => work'[o] = CharterSeen(o)
  BY DEF ReadsCharter, CharterInv, RunTyped
<1>5. RegisterSound(o)'
  BY <1>1, <1>3, <1>4 DEF RunSound, RegisterSound, Recorded
<1> QED BY <1>2, <1>5 DEF RunSound

LEMMA OpensSound ==
    ASSUME CharterInv, NEW o \in Operators, RunSound(o), NEW items \in Seq(Items),
           Ordered(items), items # <<>> => Head(items).step # "register",
           NEW connected, OpensPage(o, items, connected)
    PROVE  RunSound(o)'
<1>1. /\ page[o] = "away" /\ page'[o] = "loaded" /\ todo'[o] = items
      /\ UNCHANGED <<work, txs, afloat, charter, settingsRecord>>
  BY DEF OpensPage, chainVars, CharterInv, RunTyped
<1>2. TxsSound(txs[o])' /\ TxsSound(afloat[o])' /\ AtRest(o)'
  BY <1>1 DEF RunSound, TxsSound, AtRest
<1> QED BY <1>1, <1>2 DEF RunSound, RegisterSound

LEMMA BootstrappingOrdered ==
    ASSUME CharterAssumption, NEW v \in Charters
    PROVE  LET td == Append(addTxnBootstrappingSettings(v), Item("check", Settings)) IN
           /\ td \in Seq(Items) /\ Ordered(td) /\ td # <<>> /\ Head(td).step # "register"
<1> DEFINE td == Append(addTxnBootstrappingSettings(v), Item("check", Settings))
           check == Item("check", Settings)
           install == Install(Settings, v)
           record == Item("record", Settings)
           register == Item("register", Settings)
<1>1. /\ check.step = "check" /\ install.step = "install" /\ record.step = "record"
      /\ register.step = "register" /\ CommitIfNeeded.step = "commit"
  BY DEF Item, Install, CommitIfNeeded
<1>2. td = Append((IF v.manifest[Settings] = "none" THEN <<install, CommitIfNeeded>> ELSE <<>>)
                  \o (IF ~v.settings THEN <<record, register>> ELSE <<>>), check)
  BY DEF addTxnBootstrappingSettings
<1>3. v.settings \in BOOLEAN
  BY DEF Charters
<1>t. td \in Seq(Items)
  <2>1. addTxnBootstrappingSettings(v) \in Seq(Items) /\ check \in Items
    BY BootstrappingType, ItemType DEF CharterAssumption, Steps
  <2> QED BY <2>1
<1>h. ASSUME 1 \in DOMAIN td PROVE td # <<>> /\ Head(td) = td[1]
  BY <1>t, <1>h
<1> HIDE DEF td, check, install, record, register
<1>4. CASE v.manifest[Settings] = "none" /\ ~v.settings
  <2>1. /\ DOMAIN td = 1..5 /\ td[1] = install /\ td[2] = CommitIfNeeded /\ td[3] = record
        /\ td[4] = register /\ td[5] = check
    BY <1>2, <1>4
  <2>2. /\ td[1].step = "install" /\ td[2].step = "commit" /\ td[3].step = "record"
        /\ td[4].step = "register" /\ td[5].step = "check"
    BY <1>1, <2>1
  <2> QED BY <1>h, <1>t, <2>1, <2>2 DEF Ordered, td, check
<1>5. CASE v.manifest[Settings] = "none" /\ v.settings
  <2>1. DOMAIN td = 1..3 /\ td[1] = install /\ td[2] = CommitIfNeeded /\ td[3] = check
    BY <1>2, <1>5
  <2>2. td[1].step = "install" /\ td[2].step = "commit" /\ td[3].step = "check"
    BY <1>1, <2>1
  <2> QED BY <1>h, <1>t, <2>1, <2>2 DEF Ordered, td, check
<1>6. CASE v.manifest[Settings] # "none" /\ ~v.settings
  <2>1. DOMAIN td = 1..3 /\ td[1] = record /\ td[2] = register /\ td[3] = check
    BY <1>2, <1>6
  <2>2. td[1].step = "record" /\ td[2].step = "register" /\ td[3].step = "check"
    BY <1>1, <2>1
  <2> QED BY <1>h, <1>t, <2>1, <2>2 DEF Ordered, td, check
<1>7. CASE v.manifest[Settings] # "none" /\ v.settings
  <2>1. DOMAIN td = {1} /\ td[1] = check
    BY <1>2, <1>7
  <2>2. td[1].step = "check"
    BY <1>1, <2>1
  <2> QED BY <1>h, <1>t, <2>1, <2>2 DEF Ordered, td, check
<1> QED BY <1>3, <1>4, <1>5, <1>6, <1>7

LEMMA LandsSound ==
    ASSUME CharterInv, CharterInv', NEW o \in Operators, RunSound(o), Lands(o)
    PROVE  RunSound(o)' /\ LedgerAdvances
<1> DEFINE t == Head(txs[o])
<1>1. /\ txs[o] \in Seq(Txs) /\ txs[o] # <<>> /\ afloat[o] \in Seq(Txs)
      /\ txs'[o] = Tail(txs[o]) /\ UNCHANGED <<page, todo, afloat>>
      /\ CanLand(t) /\ Takes(t)
  BY DEF Lands, CharterInv, RunTyped, LeftTyped
<1>2. t \in Txs /\ Fits(t)
  BY <1>1 DEF RunSound, TxsSound
<1>3. LedgerAdvances /\ ~Lost(t, charter) /\ (t.kind = "record" => settingsRecord')
  BY <1>1, <1>2, TakesAdvances
<1>4. TxsSound(txs[o]) /\ TxsSound(afloat[o]) /\ AtRest(o)
  BY DEF RunSound
<1>5. TxsSound(txs[o])'
  BY <1>1, <1>3, <1>4, TxsTailSound DEF TxsSound
<1>6. TxsSound(afloat[o])'
  BY <1>1, <1>3, <1>4, TxsStaySound DEF TxsSound
<1>7. page[o] \notin {"away", "loaded"} /\ todo[o] = <<>>
  BY <1>1, <1>4 DEF AtRest, Lands, Signed
<1>8. RegisterSound(o)' /\ AtRest(o)'
  BY <1>1, <1>7, OrderedNone DEF RegisterSound, AtRest
<1> QED BY <1>3, <1>5, <1>6, <1>8 DEF RunSound

LEMMA AfloatLandsSound ==
    ASSUME CharterInv, CharterInv', NEW o \in Operators, RunSound(o), AfloatLands(o)
    PROVE  RunSound(o)' /\ LedgerAdvances
<1> DEFINE t == Head(afloat[o])
<1>1. /\ txs[o] \in Seq(Txs) /\ afloat[o] # <<>> /\ afloat[o] \in Seq(Txs)
      /\ afloat'[o] = Tail(afloat[o]) /\ UNCHANGED <<page, todo, work, txs>>
      /\ CanLand(t) /\ Takes(t)
  BY DEF AfloatLands, CharterInv, RunTyped, LeftTyped
<1>2. t \in Txs /\ Fits(t)
  BY <1>1 DEF RunSound, TxsSound
<1>3. LedgerAdvances /\ ~Lost(t, charter) /\ (t.kind = "record" => settingsRecord')
  BY <1>1, <1>2, TakesAdvances
<1>4. TxsSound(txs[o]) /\ TxsSound(afloat[o]) /\ RegisterSound(o) /\ AtRest(o)
  BY DEF RunSound
<1>5. TxsSound(txs[o])'
  BY <1>1, <1>3, <1>4, TxsStaySound DEF TxsSound
<1>6. TxsSound(afloat[o])'
  BY <1>1, <1>3, <1>4, TxsTailSound DEF TxsSound
<1>7. RegisterSound(o)'
  BY <1>1, <1>3, <1>4, RegisterStays DEF LedgerAdvances
<1>8. AtRest(o)'
  BY <1>1, <1>4 DEF AtRest
<1> QED BY <1>3, <1>5, <1>6, <1>7, <1>8 DEF RunSound

LEMMA ClosesSound ==
    ASSUME CharterInv, NEW o \in Operators, RunSound(o), Rejects(o) \/ RunEnds(o) \/ PageCloses(o)
    PROVE  RunSound(o)'
<1>0. txs[o] \in Seq(Txs) /\ TxsSound(txs[o]) /\ TxsSound(afloat[o])
  BY DEF CharterInv, RunTyped, RunSound
<1>1. /\ UNCHANGED <<charter, settingsRecord>> /\ page'[o] \in {"failed", "done", "away"} /\ todo'[o] = <<>>
      /\ txs'[o] = <<>> /\ (page'[o] = "away" => work'[o] = NoCharter)
  BY DEF Rejects, RunEnds, PageCloses, CharterInv, RunTyped, Rest, chainVars
<1>2. TxsSound(txs[o])'
  BY <1>1, NoneSound DEF TxsSound
<1>3. TxsSound(afloat[o])'
  <2>1. CASE Rejects(o) \/ RunEnds(o)
    <3>1. UNCHANGED afloat
      BY <2>1 DEF Rejects, RunEnds, Rest
    <3> QED BY <1>0, <1>1, <3>1 DEF TxsSound
  <2>2. CASE PageCloses(o)
    <3>1. PICK n \in 0..1 : (n = 1 => txs[o] # <<>>) /\ afloat'[o] = SubSeq(txs[o], 1, n)
      BY <2>2 DEF PageCloses, CharterInv, LeftTyped
    <3>2. TxsSound(SubSeq(txs[o], 1, n))
      BY <1>0, <3>1, FirstSound
    <3> QED BY <1>1, <3>1, <3>2 DEF TxsSound
  <2> QED BY <2>1, <2>2
<1>4. RegisterSound(o)' /\ AtRest(o)'
  BY <1>1, OrderedNone DEF RegisterSound, AtRest
<1> QED BY <1>2, <1>3, <1>4 DEF RunSound

LEMMA LoadSound ==
    ASSUME CharterInv, CharterInv', NEW o \in Operators, RunSound(o), loadUpgradeTxns(o)
    PROVE  RunSound(o)'
<1>1. /\ page'[o] = "building" /\ UNCHANGED <<todo, work, txs, afloat, charter, settingsRecord>>
  BY DEF loadUpgradeTxns, CharterInv, RunTyped, Rest, chainVars
<1>2. TxsSound(txs[o])' /\ TxsSound(afloat[o])'
  BY <1>1 DEF RunSound, TxsSound
<1>3. RegisterSound(o)'
  BY <1>1, RegisterStays DEF RunSound, Advances
<1> QED BY <1>1, <1>2, <1>3 DEF RunSound, AtRest

\* A step of the run of o is no step of another's.
Acts(o) ==
    \/ o \in Upgraders /\ mkTxnUpgradeIfNeeded(o)
    \/ \E p \in Policies : InstallsPolicy(o, p)
    \/ loadUpgradeTxns(o) \/ checkForUpdates(o) \/ ReadsCharter(o)
    \/ mkTxnInstallPolicyDelegate(o) \/ mkRefScriptTxn(o) \/ mkTxnCommittingPendingChanges(o)
    \/ createSettingsRecord(o) \/ mkTxnAddManifestEntry(o)
    \/ Lands(o) \/ AfloatLands(o) \/ Rejects(o) \/ RunEnds(o) \/ PageCloses(o)

LEMMA NextActs == CharterNext => \E o \in Operators : Acts(o)
<1>1. Upgraders \subseteq Operators /\ Installers \subseteq Operators
  BY DEF Operators
<1> QED BY <1>1 DEF CharterNext, Acts

RunUnchanged(o) == UNCHANGED <<page[o], todo[o], work[o], txs[o], afloat[o]>>

LEMMA OthersRest ==
    ASSUME CharterInv, NEW o \in Operators, Acts(o), NEW x \in Operators, x # o
    PROVE  RunUnchanged(x)
<1>p. ASSUME NEW nested, NEW t, NEW how, Skips(o, nested) \/ Throws(o, how) \/ Makes(o, t, nested),
             UNCHANGED Rest
      PROVE  RunUnchanged(x)
  BY <1>p DEF RunUnchanged, Skips, Throws, Makes, GoesOn, CharterInv, RunTyped, Rest
<1>u. ASSUME NEW kind, NEW p, NEW c, NEW next, NEW valid, NEW nested,
             Updates(o, kind, p, c, next, valid, nested), UNCHANGED Rest
      PROVE  RunUnchanged(x)
  BY <1>p, <1>u, UpdatesWhat
<1>1. CASE mkTxnUpgradeIfNeeded(o) \/ (\E p \in Policies : InstallsPolicy(o, p))
  BY <1>1 DEF mkTxnUpgradeIfNeeded, InstallsPolicy, OpensPage, RunUnchanged, CharterInv, RunTyped
<1>2. CASE loadUpgradeTxns(o) \/ ReadsCharter(o)
  BY <1>2 DEF loadUpgradeTxns, ReadsCharter, RunUnchanged, CharterInv, RunTyped, Rest
<1>3. CASE checkForUpdates(o)
  BY <1>3, <1>p DEF checkForUpdates
<1>4. CASE mkTxnInstallPolicyDelegate(o)
  BY <1>4, <1>p, <1>u DEF mkTxnInstallPolicyDelegate
<1>5. CASE mkRefScriptTxn(o)
  BY <1>5, <1>p DEF mkRefScriptTxn
<1>6. CASE mkTxnCommittingPendingChanges(o)
  BY <1>6, <1>p, <1>u DEF mkTxnCommittingPendingChanges
<1>7. CASE createSettingsRecord(o)
  BY <1>7, <1>p DEF createSettingsRecord
<1>8. CASE mkTxnAddManifestEntry(o)
  BY <1>8, <1>u DEF mkTxnAddManifestEntry
<1>9. CASE Lands(o) \/ AfloatLands(o)
  BY <1>9 DEF Lands, AfloatLands, RunUnchanged, CharterInv, RunTyped, LeftTyped
<1>10. CASE Rejects(o) \/ RunEnds(o) \/ PageCloses(o)
  BY <1>10 DEF Rejects, RunEnds, PageCloses, RunUnchanged, CharterInv, RunTyped, LeftTyped, Rest
<1> QED
  BY <1>1, <1>2, <1>3, <1>4, <1>5, <1>6, <1>7, <1>8, <1>9, <1>10 DEF Acts

LEMMA ChainRests ==
    ASSUME CharterInv, NEW o \in Operators, Acts(o), ~Lands(o), ~AfloatLands(o)
    PROVE  UNCHANGED <<chainVars, damaged>>
BY DEF Acts, mkTxnUpgradeIfNeeded, InstallsPolicy, OpensPage, loadUpgradeTxns, PageCloses, ReadsCharter,
       checkForUpdates, mkTxnInstallPolicyDelegate, mkRefScriptTxn, mkTxnCommittingPendingChanges,
       createSettingsRecord, mkTxnAddManifestEntry, Rejects, RunEnds, Rest

LEMMA OwnSound ==
    ASSUME CharterAssumption, CharterInv, CharterInv', NEW o \in Operators, RunSound(o), Acts(o)
    PROVE  RunSound(o)'
<1>c. charter \in Charters
  BY DEF CharterInv, ChainTyped
<1>1. CASE mkTxnUpgradeIfNeeded(o)
  <2> DEFINE items == Append(addTxnBootstrappingSettings(charter), Item("check", Settings))
  <2>1. OpensPage(o, items, {Settings} \cap Older(charter))
    BY <1>1 DEF mkTxnUpgradeIfNeeded
  <2>2. items \in Seq(Items) /\ Ordered(items) /\ items # <<>> /\ Head(items).step # "register"
    BY <1>c, BootstrappingOrdered
  <2> HIDE DEF items
  <2> QED BY <2>1, <2>2, OpensSound
<1>2. ASSUME NEW p \in Policies, InstallsPolicy(o, p) PROVE RunSound(o)'
  <2> DEFINE item == Install(p, charter)
  <2>1. OpensPage(o, <<item>>, {})
    BY <1>2 DEF InstallsPolicy
  <2>2. item \in Items /\ item.step = "install"
    BY <1>c, ItemType DEF Install, Item
  <2> HIDE DEF item
  <2>3. <<item>> \in Seq(Items) /\ DOMAIN <<item>> = {1} /\ <<item>>[1] = item /\ Head(<<item>>) = item
    BY <2>2, FewItems
  <2>4. Ordered(<<item>>)
    BY <2>3 DEF Ordered
  <2> QED BY <2>1, <2>2, <2>3, <2>4, OpensSound
<1> QED
  BY <1>1, <1>2, LoadSound, CheckSound, ReadsSound, InstallSound, PlainSound, CommitSound, EntrySound,
     LandsSound, AfloatLandsSound, ClosesSound DEF Acts

LEMMA StepAdvances ==
    ASSUME CharterAssumption, CharterInv, CharterInv', NEW o \in Operators, RunSound(o), Acts(o)
    PROVE  LedgerAdvances
<1>1. CASE Lands(o) \/ AfloatLands(o)
  BY <1>1, LandsSound, AfloatLandsSound
<1>2. CASE ~(Lands(o) \/ AfloatLands(o))
  BY <1>2, ChainRests DEF LedgerAdvances, Advances, chainVars
<1> QED BY <1>1, <1>2

LEMMA EverySound ==
    ASSUME CharterAssumption, CharterInv, CharterInv', NEW o \in Operators, Acts(o),
           \A x \in Operators : RunSound(x)
    PROVE  \A x \in Operators : RunSound(x)'
<1> SUFFICES ASSUME NEW x \in Operators PROVE RunSound(x)'
  OBVIOUS
<1>1. CASE x = o
  BY <1>1, OwnSound
<1>2. CASE x # o
  <2>1. RunUnchanged(x) /\ LedgerAdvances
    BY <1>2, OthersRest, StepAdvances
  <2> QED BY <2>1, OtherSound DEF RunUnchanged
<1> QED BY <1>1, <1>2

-----------------------------------------------------------------------------
(* What the charter and the tokens have in common                             *)

\* A policy has a new token if it has its present script or is about to; an old one if
\* it still has that script.
TokensFit(c, new, old, recorded) ==
    /\ \A p \in Policies : new[p] = IF c.manifest[p] = "new" \/ Pends(c, p) THEN 1 ELSE 0
    /\ \A p \in Policies : p \in old <=> c.manifest[p] = "old"
    /\ Proper(c)
    /\ c.settings => recorded
ChainSound == TokensFit(charter, newTokens, oldTokens, settingsRecord)

LEMMA QueueTokens ==
    ASSUME NEW t \in Txs, Fits(t), t.kind = "queue", ~t.stale,
           NEW new \in [Policies -> Nat], NEW old, NEW recorded, TokensFit(t.on, new, old, recorded)
    PROVE  TokensFit(t.leaves, [new EXCEPT ![t.policy] = @ + 1], old, recorded)
<1> DEFINE u == t.on
           w == t.leaves
           p == t.policy
<1>1. /\ u.pending = <<>> /\ u.manifest[p] # "new"
      /\ w.pending = <<[policy |-> p, action |-> ActionFor(u, p)]>>
      /\ w.manifest = u.manifest /\ w.settings = u.settings
  BY DEF Fits
<1>2. u \in Charters /\ w \in Charters /\ p \in Policies
  BY DEF Txs
<1>3. \A r \in Policies : ~Pends(u, r)
  BY <1>1, <1>2, ProperNone
<1>4. w.manifest[p] # "new" /\ ActionFor(w, p) = ActionFor(u, p)
  BY <1>1 DEF ActionFor
<1>5. Proper(w)
  BY <1>1, <1>2, <1>4 DEF Proper
<1>6. \A r \in Policies : Pends(w, r) <=> r = p
  BY <1>1, <1>2, <1>4, ProperOne
<1> HIDE DEF u, w, p
<1> USE DEF TokensFit
<1>7. TokensFit(u, new, old, recorded)
  BY DEF u
<1>8. ASSUME NEW r \in Policies
      PROVE  [new EXCEPT ![p] = @ + 1][r] = IF w.manifest[r] = "new" \/ Pends(w, r) THEN 1 ELSE 0
  <2>1. CASE r = p
    BY <1>1, <1>3, <1>6, <1>7, <2>1
  <2>2. CASE r # p
    BY <1>1, <1>3, <1>6, <1>7, <2>2
  <2> QED BY <2>1, <2>2
<1> QED BY <1>1, <1>5, <1>7, <1>8 DEF w, p

LEMMA CommitTokens ==
    ASSUME NEW t \in Txs, Fits(t), t.kind = "commit",
           NEW new, NEW old, NEW recorded, TokensFit(t.on, new, old, recorded)
    PROVE  TokensFit(t.leaves, new, old \ t.burns, recorded)
<1> DEFINE u == t.on
           w == t.leaves
<1>1. /\ w.manifest = Committed(u) /\ w.settings = u.settings /\ w.pending = <<>>
      /\ t.burns = Replaced(u) /\ u \in Charters /\ w \in Charters
  BY DEF Fits, Txs
<1>2. \A r \in Policies : ~Pends(w, r)
  BY <1>1, ProperNone
<1>3. Proper(w)
  BY <1>1 DEF Proper
<1>m. \A r \in Policies : Committed(u)[r] \in Scripts
  BY <1>1, CommittedType DEF Manifests
<1> HIDE DEF u, w
<1>4. TokensFit(u, new, old, recorded)
  BY DEF u
<1>5. CASE u.pending = <<>>
  <2>1. Committed(u) = u.manifest /\ Replaced(u) = {} /\ \A p \in Policies : ~Pends(u, p)
    BY <1>1, <1>5, ProperNone
  <2> QED BY <1>1, <1>2, <1>3, <1>4, <2>1 DEF TokensFit, w
<1>6. CASE u.pending # <<>>
  <2>1. PICK p \in Policies : /\ u.pending = <<[policy |-> p, action |-> ActionFor(u, p)]>>
                              /\ u.manifest[p] # "new"
    BY <1>4, <1>6 DEF TokensFit, Proper
  <2>2. /\ \A r \in Policies : Pends(u, r) <=> r = p
        /\ Replaced(u) = IF u.manifest[p] = "old" THEN {p} ELSE {}
        /\ \A r \in Policies : Committed(u)[r] = IF r = p THEN "new" ELSE u.manifest[r]
    BY <1>1, <2>1, ProperOne
  <2>3. \A r \in Policies : new[r] = IF Committed(u)[r] = "new" THEN 1 ELSE 0
    BY <1>4, <2>2 DEF TokensFit
  <2>4. \A r \in Policies : r \in old \ Replaced(u) <=> Committed(u)[r] = "old"
    BY <1>4, <2>2 DEF TokensFit
  <2> QED BY <1>1, <1>2, <1>3, <1>4, <2>3, <2>4 DEF TokensFit, w
<1> QED BY <1>5, <1>6

LEMMA EntryTokens ==
    ASSUME NEW c, NEW w, w.manifest = c.manifest, w.pending = c.pending,
           NEW new, NEW old, TokensFit(c, new, old, TRUE)
    PROVE  TokensFit(w, new, old, TRUE)
<1>1. \A p \in Policies : ActionFor(w, p) = ActionFor(c, p) /\ (Pends(w, p) <=> Pends(c, p))
  BY DEF ActionFor, Pends
<1> QED BY <1>1 DEF TokensFit, Proper

\* An entry that is the first to land fits.
LEMMA FirstEntry ==
    ASSUME NEW q \in Seq(Txs), q # <<>>, TxsSound(q)
    PROVE  Head(q) \in Txs /\ Fits(Head(q))
           /\ (Head(q).kind = "entry" =>
                 Head(q).leaves.pending = Head(q).on.pending /\ settingsRecord)
<1>1. Head(q) = q[1] /\ 1 \in DOMAIN q /\ Head(q) \in Txs
  OBVIOUS
<1>2. 1..(1 - 1) = {}
  OBVIOUS
<1>3. Fits(Head(q))
  BY <1>1 DEF TxsSound
<1>4. ASSUME Head(q).kind = "entry"
      PROVE  Head(q).leaves.pending = Head(q).on.pending /\ settingsRecord
  <2>1. EntryFits(q, 1, charter, settingsRecord)
    BY <1>1, <1>4 DEF TxsSound, EntriesFit
  <2> QED BY <1>1, <1>2, <2>1 DEF EntryFits
<1> QED BY <1>1, <1>3, <1>4

LEMMA TakesSound ==
    ASSUME CharterInv, ChainSound, NEW t \in Txs, Fits(t), CanLand(t), Takes(t), ~damaged',
           t.kind = "entry" => t.leaves.pending = t.on.pending /\ settingsRecord
    PROVE  ChainSound'
<1>1. /\ newTokens \in [Policies -> Nat] /\ settingsRecord \in BOOLEAN
      /\ TokensFit(charter, newTokens, oldTokens, settingsRecord)
  BY DEF CharterInv, ChainTyped, ChainSound
<1>2. CASE t.kind = "queue"
  <2>1. /\ t.on = charter /\ charter' = t.leaves /\ ~t.stale /\ t.burns = {}
        /\ newTokens' = [newTokens EXCEPT ![t.policy] = @ + 1]
        /\ oldTokens' = oldTokens /\ (settingsRecord' <=> settingsRecord)
    BY <1>2 DEF CanLand, Takes, Fits, Spending
  <2>2. TokensFit(charter', newTokens', oldTokens', settingsRecord)
    BY <1>1, <1>2, <2>1, QueueTokens
  <2> QED BY <2>1, <2>2 DEF ChainSound, TokensFit
<1>3. CASE t.kind = "commit"
  <2>1. /\ t.on = charter /\ charter' = t.leaves /\ newTokens' = newTokens
        /\ oldTokens' = oldTokens \ t.burns /\ (settingsRecord' <=> settingsRecord)
    BY <1>3 DEF CanLand, Takes, Fits, Spending
  <2>2. TokensFit(charter', newTokens', oldTokens', settingsRecord)
    BY <1>1, <1>3, <2>1, CommitTokens
  <2> QED BY <2>1, <2>2 DEF ChainSound, TokensFit
<1>4. CASE t.kind = "entry"
  <2>1. /\ t.on = charter /\ charter' = t.leaves /\ newTokens' = newTokens /\ t.burns = {}
        /\ oldTokens' = oldTokens /\ settingsRecord' /\ t.leaves.manifest = t.on.manifest
        /\ t.leaves.pending = t.on.pending
    BY <1>4 DEF CanLand, Takes, Fits, Spending
  <2>2. TokensFit(charter, newTokens, oldTokens, TRUE)
    BY <1>1 DEF TokensFit
  <2>3. TokensFit(charter', newTokens', oldTokens', TRUE)
    BY <2>1, <2>2, EntryTokens
  <2> QED BY <2>1, <2>3 DEF ChainSound, TokensFit
<1>5. CASE t.kind \notin Spending
  <2>1. /\ charter' = charter /\ newTokens' = newTokens /\ t.burns = {} /\ oldTokens' = oldTokens
        /\ (settingsRecord => settingsRecord')
    BY <1>5 DEF Takes, Fits, Spending
  <2> QED BY <1>1, <2>1 DEF ChainSound, TokensFit
<1> QED BY <1>2, <1>3, <1>4, <1>5 DEF Spending

LEMMA ChainStays ==
    ASSUME CharterInv, NEW o \in Operators, Acts(o), RunSound(o), ChainSound, ~damaged'
    PROVE  ChainSound'
<1>1. CASE Lands(o)
  <2>1. /\ txs[o] \in Seq(Txs) /\ txs[o] # <<>> /\ TxsSound(txs[o])
        /\ CanLand(Head(txs[o])) /\ Takes(Head(txs[o]))
    BY <1>1 DEF Lands, CharterInv, RunTyped, RunSound
  <2> QED BY <2>1, FirstEntry, TakesSound
<1>2. CASE AfloatLands(o)
  <2>1. /\ afloat[o] \in Seq(Txs) /\ afloat[o] # <<>> /\ TxsSound(afloat[o])
        /\ CanLand(Head(afloat[o])) /\ Takes(Head(afloat[o]))
    BY <1>2 DEF AfloatLands, CharterInv, LeftTyped, RunSound
  <2> QED BY <2>1, FirstEntry, TakesSound
<1>3. CASE ~Lands(o) /\ ~AfloatLands(o)
  <2>1. UNCHANGED <<charter, newTokens, oldTokens, settingsRecord>>
    BY <1>3, ChainRests DEF chainVars
  <2> QED BY <2>1 DEF ChainSound
<1> QED BY <1>1, <1>2, <1>3

-----------------------------------------------------------------------------
(* A run that nobody crosses                                                  *)

\* What its chain builder shows to be stored, and to be done
Stored(o) == {p \in Policies : RefScriptSeen(o, p)}
Planned(o) == Plan(todo[o], CharterSeen(o), outdated[o], Stored(o), RecordSeen(o), txs[o] = <<>>)

\* The page connected the settings policy when it was opened.
SettingsConnected(o) == CharterSeen(o).manifest[Settings] = "old" => Settings \in cached[o]

\* Its txs lead from the charter on chain to the one that it sees, its items from there
\* to one that is deployed, and what it has read is still so.
RunRecovers(o) ==
    /\ Links(txs[o], charter, CharterSeen(o))
    /\ page[o] \in {"loaded", "building"} => Planned(o) /\ SettingsConnected(o)
    /\ page[o] = "building" => work[o] \in {NoCharter, CharterSeen(o)}
    /\ page[o] \in {"loaded", "away", "done"} => txs[o] = <<>>
    /\ page[o] = "failed" => Blocked(o)
    /\ page[o] = "done" => Deployed(o)

SeenAsLinked ==
    \A o \in Operators, v \in Charters : Links(txs[o], charter, v) => CharterSeen(o) = v
SeenAlone ==
    \A o \in Operators : txs[o] = <<>> =>
      CharterSeen(o) = charter /\ Stored(o) = refScripts /\ (RecordSeen(o) <=> settingsRecord)

LEMMA SeenThen == CharterInv => SeenAsLinked /\ SeenAlone
<1> SUFFICES ASSUME CharterInv PROVE SeenAsLinked /\ SeenAlone
  OBVIOUS
<1>1. SeenAsLinked
  BY LinksSeen DEF SeenAsLinked
<1>2. SeenAlone
  <2> SUFFICES ASSUME NEW o \in Operators, txs[o] = <<>>
               PROVE  CharterSeen(o) = charter /\ Stored(o) = refScripts /\ (RecordSeen(o) <=> settingsRecord)
    BY DEF SeenAlone
  <2>1. DOMAIN <<>> = {}
    OBVIOUS
  <2>2. MadeBy(o) = {}
    BY <2>1 DEF MadeBy
  <2>3. refScripts \subseteq Policies
    BY DEF CharterInv, ChainTyped
  <2> QED BY <2>2, <2>3 DEF CharterSeen, Spent, Left, Stored, RefScriptSeen, RecordSeen
<1> QED BY <1>1, <1>2

LEMMA SeenThenNext == CharterInv' => SeenAsLinked' /\ SeenAlone'
BY SeenThen, PTL

LEMMA RecordType == ASSUME CharterInv, NEW o \in Operators PROVE RecordSeen(o) \in BOOLEAN
BY DEF RecordSeen, CharterInv, ChainTyped

\* What the connections of delegates leave as it was
LEMMA PlainlyConnected ==
    ASSUME CharterInv, NEW o \in Operators, NEW policies, ConnectsPlainly(o, policies)
    PROVE  outdated'[o] = outdated[o] /\ cached[o] \subseteq cached'[o]
BY DEF ConnectsPlainly, CharterInv, DelegatesTyped

LEMMA ForTxConnected ==
    ASSUME CharterInv, NEW o \in Operators, NEW policies, ConnectsForTx(o, policies), UNCHANGED Rest
    PROVE  /\ outdated'[o] = outdated[o] \cup (policies \cap Detectable(o))
           /\ cached[o] \subseteq cached'[o] /\ Detectable(o)' \subseteq Detectable(o)
<1>1. /\ outdated'[o] = outdated[o] \cup (policies \cap Detectable(o))
      /\ cached[o] \subseteq cached'[o]
  BY DEF ConnectsForTx, CharterInv, DelegatesTyped
<1>2. oldScripts' = oldScripts
  BY DEF Rest, chainVars
<1> QED BY <1>1, <1>2 DEF Detectable

LEMMA BlockedStays ==
    ASSUME NEW o \in Operators, Blocked(o), CharterSeen(o)' = CharterSeen(o),
           UNCHANGED <<cached[o], outdated[o], oldScripts>>
    PROVE  Blocked(o)'
<1>1. Detectable(o)' = Detectable(o) /\ outdated'[o] = outdated[o]
  BY DEF Detectable
<1>2. Replaced(CharterSeen(o))' = Replaced(CharterSeen(o))
  BY DEF Replaced
<1> QED BY <1>1, <1>2 DEF Blocked

\* Steps of others that leave the charter
LEMMA StillRecovers ==
    ASSUME CharterInv, CharterInv', NEW o \in Operators, RunRecovers(o),
           UNCHANGED <<page[o], todo[o], work[o], txs[o], cached[o], outdated[o]>>,
           UNCHANGED <<charter, newTokens, oldTokens, oldScripts>>, refScripts \subseteq refScripts',
           settingsRecord => settingsRecord'
    PROVE  RunRecovers(o)'
<1>1. CharterSeen(o)' = CharterSeen(o)
  BY SeenStays
<1>2. Stored(o) \subseteq Stored(o)' /\ (RecordSeen(o) => RecordSeen(o)')
  BY DEF Stored, RefScriptSeen, RecordSeen, MadeBy
<1>3. RecordSeen(o) \in BOOLEAN /\ RecordSeen(o)' \in BOOLEAN
  BY DEF RecordSeen, CharterInv, ChainTyped
<1>4. /\ Links(txs[o], charter, CharterSeen(o))
      /\ page[o] \in {"loaded", "building"} => Planned(o) /\ SettingsConnected(o)
      /\ page[o] = "building" => work[o] \in {NoCharter, CharterSeen(o)}
      /\ page[o] \in {"loaded", "away", "done"} => txs[o] = <<>>
      /\ page[o] = "failed" => Blocked(o)
      /\ page[o] = "done" => Deployed(o)
  BY DEF RunRecovers
<1>5. /\ page'[o] = page[o] /\ todo'[o] = todo[o] /\ work'[o] = work[o] /\ txs'[o] = txs[o]
      /\ outdated'[o] = outdated[o] /\ cached'[o] = cached[o]
  OBVIOUS
<1>6. Planned(o) => Planned(o)'
  BY <1>1, <1>2, <1>3, <1>5, PlanMore DEF Planned
<1>7. Blocked(o) => Blocked(o)'
  BY <1>1, BlockedStays
<1>8. Deployed(o) => Deployed(o)'
  BY <1>5 DEF Deployed
<1>9. SettingsConnected(o) => SettingsConnected(o)'
  BY <1>1, <1>5 DEF SettingsConnected
<1> QED BY <1>1, <1>4, <1>5, <1>6, <1>7, <1>8, <1>9 DEF RunRecovers

LEMMA HeadFits ==
    ASSUME CharterInv, NEW o \in Operators, RunRecovers(o), page[o] = "building", todo[o] # <<>>
    PROVE  /\ todo[o] \in Seq(Items) /\ todo[o][1] = Head(todo[o]) /\ 1 \in DOMAIN todo[o]
           /\ \A s : ~Before(todo[o], 1, s)
           /\ Planned(o) /\ SettingsConnected(o) /\ CharterSeen(o) \in Charters
           /\ RecordSeen(o) \in BOOLEAN /\ work[o] \in {NoCharter, CharterSeen(o)}
<1>1. todo[o] \in Seq(Items)
  BY DEF CharterInv, RunTyped
<1>2. 1..(1 - 1) = {}
  OBVIOUS
<1> QED BY <1>1, <1>2, SeenType, RecordType DEF RunRecovers, Before

LEMMA SkipRecovers ==
    ASSUME CharterInv, NEW o \in Operators, RunRecovers(o), page[o] = "building", todo[o] # <<>>,
           NEW nested \in Seq(Items), Skips(o, nested), UNCHANGED Rest,
           outdated'[o] = outdated[o], cached[o] \subseteq cached'[o],
           MovesOn(Head(todo[o]), nested, CharterSeen(o), CharterSeen(o), outdated[o], outdated[o],
                   Stored(o), Stored(o), RecordSeen(o), RecordSeen(o))
    PROVE  RunRecovers(o)'
<1>0. Plan(nested \o Tail(todo[o]), CharterSeen(o), outdated[o], Stored(o), RecordSeen(o), txs[o] = <<>>)
  <2>1. todo[o] \in Seq(Items) /\ RecordSeen(o) \in BOOLEAN
    BY HeadFits
  <2>2. Plan(todo[o], CharterSeen(o), outdated[o], Stored(o), RecordSeen(o), txs[o] = <<>>)
    BY HeadFits DEF Planned
  <2> QED BY <2>1, <2>2, PlanMoves
<1>1. /\ page'[o] = "building" /\ txs'[o] = txs[o] /\ todo'[o] = nested \o Tail(todo[o])
      /\ work'[o] = NoCharter /\ UNCHANGED <<charter, refScripts, settingsRecord>>
  BY DEF Skips, GoesOn, CharterInv, RunTyped, Rest, chainVars
<1>2. CharterSeen(o)' = CharterSeen(o)
  BY <1>1, SeenStays
<1>3. Stored(o)' = Stored(o) /\ RecordSeen(o)' = RecordSeen(o)
  BY <1>1 DEF Stored, RefScriptSeen, RecordSeen, MadeBy
<1>4. Links(txs[o], charter, CharterSeen(o))
  BY DEF RunRecovers
<1>5. Planned(o)'
  BY <1>0, <1>1, <1>2, <1>3 DEF Planned
<1>6. SettingsConnected(o)'
  BY <1>2, HeadFits DEF SettingsConnected
<1> QED BY <1>1, <1>2, <1>4, <1>5, <1>6 DEF RunRecovers

LEMMA SeenMore ==
    ASSUME CharterInv, NEW o \in Operators, NEW t \in Txs, txs'[o] = Append(txs[o], t),
           UNCHANGED <<refScripts, settingsRecord>>
    PROVE  /\ Stored(o)' = Stored(o) \cup (IF t.kind = "ref" THEN {t.policy} ELSE {})
           /\ \A known \in BOOLEAN :
                (known <=> RecordSeen(o) \/ t.kind = "record") => RecordSeen(o)' = known
<1>1. MadeBy(o)' = MadeBy(o) \cup {t}
  BY MadeAppend
<1>2. t.policy \in Policies
  BY DEF Txs
<1>3. \A p \in Policies : RefScriptSeen(o, p)' <=> RefScriptSeen(o, p) \/ (t.kind = "ref" /\ t.policy = p)
  BY <1>1 DEF RefScriptSeen
<1>4. RecordSeen(o)' <=> RecordSeen(o) \/ t.kind = "record"
  BY <1>1 DEF RecordSeen
<1>5. RecordSeen(o)' \in BOOLEAN
  BY DEF RecordSeen, CharterInv, ChainTyped
<1>6. \A known \in BOOLEAN :
        (known <=> RecordSeen(o) \/ t.kind = "record") => RecordSeen(o)' = known
  BY <1>4, <1>5
<1>7. Stored(o)' = Stored(o) \cup (IF t.kind = "ref" THEN {t.policy} ELSE {})
  BY <1>2, <1>3 DEF Stored
<1> QED BY <1>6, <1>7

LEMMA MakeRecovers ==
    ASSUME CharterInv, CharterInv', NEW o \in Operators, RunRecovers(o), page[o] = "building",
           todo[o] # <<>>, NEW nested \in Seq(Items), NEW t \in Txs, NEW w \in Charters,
           Passes(t, CharterSeen(o), w), Onward(CharterSeen(o), w),
           Makes(o, t, nested), UNCHANGED Rest, cached[o] \subseteq cached'[o],
           NEW more, more = Stored(o) \cup (IF t.kind = "ref" THEN {t.policy} ELSE {}),
           NEW known \in BOOLEAN, known <=> RecordSeen(o) \/ t.kind = "record",
           NEW found, found = outdated'[o],
           MovesOn(Head(todo[o]), nested, CharterSeen(o), w, outdated[o], found, Stored(o), more,
                   RecordSeen(o), known)
    PROVE  RunRecovers(o)'
<1>0. Plan(nested \o Tail(todo[o]), w, found, more, known, txs'[o] = <<>>)
  <2>1. todo[o] \in Seq(Items) /\ RecordSeen(o) \in BOOLEAN
    BY HeadFits
  <2>2. Plan(todo[o], CharterSeen(o), outdated[o], Stored(o), RecordSeen(o), txs[o] = <<>>)
    BY HeadFits DEF Planned
  <2> QED BY <2>1, <2>2, PlanMoves
<1>1. /\ page'[o] = "building" /\ txs'[o] = Append(txs[o], t) /\ todo'[o] = nested \o Tail(todo[o])
      /\ work'[o] = NoCharter /\ UNCHANGED <<charter, refScripts, settingsRecord>>
  BY DEF Makes, GoesOn, CharterInv, RunTyped, Rest, chainVars
<1>2. txs[o] \in Seq(Txs) /\ charter \in Charters /\ CharterSeen(o) \in Charters
  BY SeenType DEF CharterInv, RunTyped, ChainTyped
<1>3. Links(txs[o], charter, CharterSeen(o))
  BY DEF RunRecovers
<1>4. Links(Append(txs[o], t), charter, w)
  BY <1>2, <1>3, LinksAppend
<1>5. Links(txs'[o], charter', w)
  BY <1>1, <1>4
<1>6. CharterSeen(o)' = w
  BY <1>5, SeenThenNext DEF SeenAsLinked
<1>7. Stored(o)' = more /\ RecordSeen(o)' = known
  BY <1>1, SeenMore
<1>8. Planned(o)'
  BY <1>0, <1>1, <1>6, <1>7 DEF Planned
<1>9. SettingsConnected(o)'
  <2>1. SettingsConnected(o) /\ Settings \in Policies
    BY HeadFits, CharterAssumption DEF CharterAssumption
  <2>2. w.manifest[Settings] = "old" => Settings \in cached[o]
    BY <2>1 DEF SettingsConnected, Onward
  <2>3. w.manifest[Settings] = "old" => Settings \in cached'[o]
    BY <2>2
  <2> QED BY <1>6, <2>3 DEF SettingsConnected
<1> QED BY <1>1, <1>2, <1>5, <1>6, <1>8, <1>9 DEF RunRecovers

LEMMA ThrowRecovers ==
    ASSUME CharterInv, NEW o \in Operators, RunRecovers(o), NEW how \in {"failed", "no funds"},
           how = "failed" => Blocked(o)', Throws(o, how), UNCHANGED Rest
    PROVE  RunRecovers(o)'
<1>1. page'[o] = how /\ txs'[o] = txs[o] /\ UNCHANGED charter
  BY DEF Throws, CharterInv, RunTyped, Rest, chainVars
<1>2. CharterSeen(o)' = CharterSeen(o)
  BY <1>1, SeenStays
<1>4. Links(txs[o], charter, CharterSeen(o))
  BY DEF RunRecovers
<1> QED BY <1>1, <1>2, <1>4 DEF RunRecovers

-----------------------------------------------------------------------------
(* Its steps                                                                  *)

LEMMA LoadRecovers ==
    ASSUME CharterInv, NEW o \in Operators, RunSound(o), RunRecovers(o), loadUpgradeTxns(o)
    PROVE  RunRecovers(o)'
<1>1. /\ page[o] = "loaded" /\ page'[o] = "building" /\ work[o] = NoCharter
      /\ UNCHANGED <<todo, work, txs, charter, refScripts, settingsRecord, cached, outdated>>
  BY DEF loadUpgradeTxns, CharterInv, RunTyped, Rest, chainVars, delegateVars, RunSound, AtRest
<1>2. CharterSeen(o)' = CharterSeen(o)
  BY <1>1, SeenStays
<1>3. Stored(o)' = Stored(o) /\ RecordSeen(o)' = RecordSeen(o)
  BY <1>1 DEF Stored, RefScriptSeen, RecordSeen, MadeBy
<1>4. Planned(o)' /\ SettingsConnected(o)'
  BY <1>1, <1>2, <1>3 DEF RunRecovers, Planned, SettingsConnected
<1> QED BY <1>1, <1>2, <1>4 DEF RunRecovers

LEMMA ReadsRecovers ==
    ASSUME CharterInv, NEW o \in Operators, RunRecovers(o), ReadsCharter(o)
    PROVE  RunRecovers(o)'
<1>1. /\ page[o] = "building" /\ todo[o] # <<>> /\ page'[o] = "building"
      /\ UNCHANGED <<todo, txs, charter, refScripts, settingsRecord, cached, outdated>>
      /\ work'[o] = IF Head(todo[o]).step = "install" THEN Head(todo[o]).data ELSE CharterSeen(o)
  BY DEF ReadsCharter, Doing, Rest, chainVars, delegateVars, CharterInv, RunTyped
<1>2. CharterSeen(o)' = CharterSeen(o)
  BY <1>1, SeenStays
<1>3. Stored(o)' = Stored(o) /\ RecordSeen(o)' = RecordSeen(o)
  BY <1>1 DEF Stored, RefScriptSeen, RecordSeen, MadeBy
<1>4. Head(todo[o]).step = "install" => Head(todo[o]).data = CharterSeen(o)
  BY <1>1, HeadFits DEF Planned, Plan, InstallFits
<1>5. Planned(o)' /\ SettingsConnected(o)'
  BY <1>1, <1>2, <1>3 DEF RunRecovers, Planned, SettingsConnected
<1> QED BY <1>1, <1>2, <1>4, <1>5 DEF RunRecovers

LEMMA CheckRecovers ==
    ASSUME CharterAssumption, CharterInv, NEW o \in Operators, RunRecovers(o), checkForUpdates(o)
    PROVE  RunRecovers(o)'
<1> DEFINE items == <<CommitIfNeeded>> \o SetupEach \o <<CommitIfNeeded>>
           v == CharterSeen(o)
           h == Head(todo[o])
<1>1. /\ page[o] = "building" /\ todo[o] # <<>> /\ h.step = "check"
      /\ Skips(o, items) /\ UNCHANGED Rest
  BY DEF checkForUpdates, Doing
<1>2. /\ items \in Seq(Items) /\ Without(items, {"install", "record", "register"})
      /\ \A p \in Policies : Has(items, "setup", p)
      /\ \E k \in DOMAIN items : items[k].step = "commit" /\ ~Before(items, k, "setup")
  BY CheckItems DEF Unsettling
<1>3. Plan(todo[o], v, outdated[o], Stored(o), RecordSeen(o), txs[o] = <<>>)
  BY <1>1, HeadFits DEF Planned
<1>4. Proper(v)
  BY <1>3 DEF Plan
<1>5. outdated'[o] = outdated[o] /\ cached[o] \subseteq cached'[o]
  BY PlainlyConnected DEF checkForUpdates
<1> HIDE DEF items, v
<1>m. MovesOn(h, items, v, v, outdated[o], outdated[o], Stored(o), Stored(o), RecordSeen(o), RecordSeen(o))
  BY <1>1, <1>2, <1>4 DEF MovesOn
<1> HIDE DEF h
<1> QED BY <1>1, <1>2, <1>5, <1>m, SkipRecovers DEF v, h

LEMMA QueueValid ==
    ASSUME NEW c \in Charters, NEW p \in Policies, c.pending = <<>>
    PROVE  ValidQueue(c, Queued(c, p))
<1> DEFINE change == [policy |-> p, action |-> ActionFor(c, p)]
           next == Queued(c, p)
<1>1. next.manifest = c.manifest /\ Tail(next.pending) = c.pending
  BY QueuedType
<1>2. next.pending = <<change>> \o <<>>
  BY DEF Queued, Charters
<1>3. Head(next.pending) = change
  <2> HIDE DEF next, change
  <2>1. Head(<<change>> \o <<>>) = change
    OBVIOUS
  <2> QED BY <1>2, <2>1
<1>4. change.policy = p /\ change.action = ActionFor(c, p)
  OBVIOUS
<1> HIDE DEF change, next
<1> QED BY <1>1, <1>3, <1>4 DEF ValidQueue, ActionFor, next

\* What an operator with charter data that is up to date makes of it
LEMMA QueueLeads ==
    ASSUME CharterInv, NEW o \in Operators, NEW p \in Policies,
           ~NotNeeded(o, CharterSeen(o), p), CharterSeen(o).pending = <<>>
    PROVE  LET v == CharterSeen(o)
               t == UpdateTx(o, "queue", p, v, Queued(v, p))
               w == t.leaves
           IN /\ t \in Txs /\ t.kind = "queue" /\ w \in Charters /\ Passes(t, v, w) /\ Onward(v, w)
              /\ Proper(w) /\ (\A r \in Policies : Pends(w, r) <=> r = p)
              /\ w.manifest = v.manifest /\ w.settings = v.settings
              /\ \A r \in Policies : ~Pends(v, r)
<1> DEFINE v == CharterSeen(o)
           t == UpdateTx(o, "queue", p, v, Queued(v, p))
           w == t.leaves
<1>1. v \in Charters
  BY SeenType
<1>2. t \in Txs /\ Fits(t) /\ t.kind = "queue" /\ t.policy = p /\ t.on = v /\ ~t.stale
  BY <1>1, QueueValid, QueueFits
<1> HIDE DEF v, t
<1>3. w \in Charters
  BY <1>2 DEF Txs
<1>4. Proper(v)
  BY DEF Proper, v
<1>5. Passes(t, v, w) /\ Onward(v, w) /\ Proper(w)
  BY <1>2, <1>4, FitsLeads DEF Spending
<1>6. /\ w.pending = <<[policy |-> p, action |-> ActionFor(v, p)]>> /\ v.manifest[p] # "new"
      /\ w.manifest = v.manifest /\ w.settings = v.settings
  BY <1>2 DEF Fits
<1>7. ActionFor(v, p) = ActionFor(w, p)
  BY <1>6 DEF ActionFor
<1>8. \A r \in Policies : Pends(w, r) <=> r = p
  BY <1>3, <1>6, <1>7, ProperOne
<1>9. \A r \in Policies : ~Pends(v, r)
  BY <1>1, ProperNone DEF v
<1> QED BY <1>2, <1>3, <1>5, <1>6, <1>8, <1>9 DEF v, t

LEMMA NotNeededWhy ==
    ASSUME NEW o, NEW v \in Charters, Proper(v), NEW p \in Policies, NotNeeded(o, v, p)
    PROVE  Settled(v, p, outdated[o])
BY DEF NotNeeded, Pends, Settled

LEMMA InstallRecovers ==
    ASSUME CharterAssumption, CharterInv, CharterInv', NEW o \in Operators, RunRecovers(o),
           mkTxnInstallPolicyDelegate(o)
    PROVE  RunRecovers(o)'
<1> DEFINE h == Head(todo[o])
           td == todo[o]
           p == h.policy
           v == CharterSeen(o)
           script == <<Item("ref script", p)>>
           items == Append(script, CommitIfNeeded)
           t == UpdateTx(o, "queue", p, v, Queued(v, p))
           w == t.leaves
           valid == ValidQueue(v, Queued(v, p))
<1>1. /\ page[o] = "building" /\ td # <<>> /\ h.step \in {"install", "setup"} /\ UNCHANGED Rest
      /\ work[o] # NoCharter
  BY DEF mkTxnInstallPolicyDelegate, Doing, Ready
<1>2. /\ td \in Seq(Items) /\ td[1] = h /\ 1 \in DOMAIN td /\ v \in Charters /\ work[o] = v
      /\ RecordSeen(o) \in BOOLEAN /\ Plan(td, v, outdated[o], Stored(o), RecordSeen(o), txs[o] = <<>>)
  BY <1>1, HeadFits DEF Planned
<1>3. p \in Policies
  BY <1>1, HeadItem
<1>4. /\ script \in Seq(Items) /\ Without(script, {"install", "record", "register"})
      /\ Without(script, {"setup"}) /\ Has(script, "ref script", p)
  <2>1. /\ script \in Seq(Items) /\ Without(script, Unsettling \cup {"setup"}) /\ Has(script, "ref script", p)
    BY <1>3, ScriptItem
  <2> HIDE DEF script
  <2> QED BY <2>1, WithoutFewer DEF Unsettling
<1>5. /\ items \in Seq(Items) /\ Without(items, {"install", "record", "register"})
      /\ Has(items, "ref script", p)
      /\ \E k \in DOMAIN items : items[k].step = "commit" /\ ~Before(items, k, "setup")
  <2>1. /\ items \in Seq(Items) /\ Without(items, Unsettling \cup {"setup"}) /\ Has(items, "ref script", p)
        /\ \E k \in DOMAIN items : items[k].step = "commit" /\ ~Before(items, k, "setup")
    BY <1>3, InstallItems
  <2> HIDE DEF items
  <2> QED BY <2>1, WithoutFewer DEF Unsettling
<1>6. \/ NotNeeded(o, v, p) /\ Skips(o, IF h.step = "setup" /\ ~RefScriptSeen(o, p) THEN script ELSE <<>>)
      \/ ~NotNeeded(o, v, p) /\ Updates(o, "queue", p, v, Queued(v, p), valid, items)
  BY <1>2 DEF mkTxnInstallPolicyDelegate
<1>7. /\ Proper(v)
      /\ h.step = "install" => p = Settings /\ txs[o] = <<>> /\ v.manifest[Settings] = "none"
      /\ h.step = "setup" => v.pending = <<>> \/ \E k \in DOMAIN td : k # 1 /\ ~Before(td, k, "setup")
  BY <1>1, <1>2 DEF Plan, InstallFits, ChangeComes
<1>8. h.step = "setup" => v.pending = <<>>
  <2>1. ASSUME NEW k \in DOMAIN td, k # 1, h.step = "setup" PROVE Before(td, k, "setup")
    <3>1. 1 \in 1..(k - 1)
      BY <1>2, <2>1
    <3> QED BY <1>2, <2>1, <3>1 DEF Before
  <2> QED BY <1>7, <2>1
<1>9. <<>> \in Seq(Items) /\ \A steps : Without(<<>>, steps)
  BY NoItems
<1>10. p \notin Stored(o) => ~RefScriptSeen(o, p)
  BY <1>3 DEF Stored
<1>11. (p \in Stored(o)) <=> RefScriptSeen(o, p)
  BY <1>3 DEF Stored
<1>c. outdated'[o] = outdated[o] /\ cached[o] \subseteq cached'[o]
  BY PlainlyConnected DEF mkTxnInstallPolicyDelegate
<1>12. CASE NotNeeded(o, v, p) /\ Skips(o, IF h.step = "setup" /\ ~RefScriptSeen(o, p) THEN script ELSE <<>>)
  <2> DEFINE nested == IF h.step = "setup" /\ ~RefScriptSeen(o, p) THEN script ELSE <<>>
  <2>1. /\ nested \in Seq(Items) /\ Without(nested, {"install", "record", "register"})
        /\ Without(nested, {"setup"})
        /\ h.step = "setup" => p \in Stored(o) \/ Has(nested, "ref script", p)
    BY <1>4, <1>9, <1>11
  <2>2. Settled(v, p, outdated[o])
    BY <1>2, <1>3, <1>7, <1>12, NotNeededWhy
  <2>3. Skips(o, nested)
    BY <1>12
  <2>4. h.step = "install" => Pends(v, Settings)
    BY <1>7, <2>2 DEF Settled
  <2> HIDE DEF nested, v, td, h, script
  <2>5. p = h.policy /\ h = Head(td) /\ UNCHANGED Rest
    BY <1>1 DEF h, td
  <2> HIDE DEF p
  <2>n. MovesOn(h, nested, v, v, outdated[o], outdated[o], Stored(o), Stored(o), RecordSeen(o), RecordSeen(o))
    BY <1>1, <1>7, <2>1, <2>2, <2>4, <2>5 DEF MovesOn
  <2> QED BY <1>1, <1>c, <2>1, <2>3, <2>5, <2>n, SkipRecovers DEF v, td
<1>13. CASE ~NotNeeded(o, v, p) /\ Updates(o, "queue", p, v, Queued(v, p), valid, items)
  <2>1. CASE v.pending = <<>>
    <3>1. valid
      BY <1>2, <1>3, <2>1, QueueValid
    <3>2. Makes(o, t, items)
      BY <1>13, <3>1, UpdatesWhat
    <3>3. /\ t \in Txs /\ t.kind = "queue" /\ w \in Charters /\ Passes(t, v, w) /\ Onward(v, w)
          /\ Proper(w) /\ (\A r \in Policies : Pends(w, r) <=> r = p)
          /\ w.manifest = v.manifest /\ w.settings = v.settings
          /\ \A r \in Policies : ~Pends(v, r)
      BY <1>3, <1>13, <2>1, QueueLeads
    <3>4. Settings \in Policies /\ p = h.policy /\ h = Head(td)
      BY DEF CharterAssumption
    <3> HIDE DEF t, items, v, td, h, p
    <3>6. \A r \in Policies : Settled(v, r, outdated[o]) => Settled(w, r, outdated[o])
      BY <3>3 DEF Settled
    <3>7. Settled(w, p, outdated[o])
      BY <1>3, <3>3 DEF Settled
    <3>n. MovesOn(h, items, v, w, outdated[o], outdated[o], Stored(o), Stored(o), RecordSeen(o), RecordSeen(o))
      BY <1>1, <1>3, <1>5, <1>7, <3>3, <3>4, <3>6, <3>7 DEF MovesOn
    <3>5. /\ Stored(o) = Stored(o) \cup (IF t.kind = "ref" THEN {t.policy} ELSE {})
          /\ RecordSeen(o) <=> RecordSeen(o) \/ t.kind = "record"
      BY <3>3
    <3> QED BY <1>1, <1>2, <1>5, <1>c, <3>2, <3>3, <3>4, <3>5, <3>n, MakeRecovers DEF v, td
  <2>2. CASE v.pending # <<>>
    <3>1. h.step = "install"
      BY <1>1, <1>8, <2>2
    <3>2. v.manifest[Settings] = "none"
      BY <1>7, <3>1
    <3>5. ~valid
      BY <2>2 DEF ValidQueue
    <3>6. Throws(o, "failed")
      BY <1>13, <3>5, UpdatesWhat
    <3>3. CharterSeen(o)' = v
      <4>1. txs'[o] = txs[o] /\ UNCHANGED charter
        BY <1>1, <3>6 DEF Throws, Rest, chainVars
      <4> QED BY <4>1, SeenStays
    <3> HIDE DEF v
    <3>4. Blocked(o)'
      BY <2>2, <3>2, <3>3 DEF Blocked
    <3> QED BY <1>1, <3>4, <3>6, ThrowRecovers
  <2> QED BY <2>1, <2>2
<1> QED BY <1>6, <1>12, <1>13

\* What is "old" in the charter that is seen has its token.
LEMMA LinksOnward == ASSUME NEW q \in Seq(Txs), NEW c, NEW v, Links(q, c, v) PROVE Onward(c, v)
<1>1. 0 \in 0..Len(q)
  OBVIOUS
<1> QED BY <1>1 DEF Links, Path

LEMMA CommitCan ==
    ASSUME CharterInv, ChainSound, NEW o \in Operators, NEW v \in Charters, Onward(charter, v), Proper(v),
           v.pending # <<>>,
           \A p \in Replaced(v) : v.manifest[p] = "old" => p \in outdated[o] \cup Detectable(o)
    PROVE  CanCommit(o, v)
<1>1. PICK p \in Policies : /\ v.pending = <<[policy |-> p, action |-> ActionFor(v, p)]>>
                            /\ v.manifest[p] # "new"
  BY DEF Proper
<1>2. /\ DOMAIN v.pending = {1} /\ v.pending[1].policy = p /\ v.pending[1].action = ActionFor(v, p)
      /\ v.manifest[p] = "old" => p \in Replaced(v)
  BY <1>1, ProperOne
<1>3. v.manifest[p] \in Scripts
  BY DEF Charters, Manifests
<1>4. ASSUME ActionFor(v, p) = "Replace" PROVE v.manifest[p] = "old" /\ FindsToken(o, p)
  <2>1. v.manifest[p] = "old"
    BY <1>1, <1>3, <1>4 DEF ActionFor, Scripts
  <2>2. charter.manifest[p] = "old"
    BY <2>1 DEF Onward
  <2>3. p \in oldTokens
    BY <2>2 DEF ChainSound, TokensFit
  <2> QED BY <1>2, <2>1, <2>3 DEF FindsToken
<1> QED BY <1>2, <1>4 DEF CanCommit

LEMMA CommitRecovers ==
    ASSUME CharterAssumption, CharterInv, CharterInv', ChainSound, NEW o \in Operators, RunRecovers(o),
           mkTxnCommittingPendingChanges(o)
    PROVE  RunRecovers(o)'
<1> DEFINE h == Head(todo[o])
           v == CharterSeen(o)
           next == [v EXCEPT !.manifest = Committed(v), !.pending = <<>>]
           burned == {<<p, v.manifest[p]>> : p \in Replaced(v)}
           found == outdated[o] \cup ((Replaced(v) \cap Older(v)) \cap Detectable(o))
           valid == CanCommit(o, v) /\ ValidCommit(v, next, burned)
           t == UpdateTx(o, "commit", Settings, v, next)
           w == t.leaves
<1>1. /\ page[o] = "building" /\ todo[o] # <<>> /\ h.step = "commit" /\ UNCHANGED Rest
      /\ work[o] # NoCharter
  BY DEF mkTxnCommittingPendingChanges, Doing, Ready
<1>2. /\ v \in Charters /\ work[o] = v /\ Settings \in Policies
      /\ Plan(todo[o], v, outdated[o], Stored(o), RecordSeen(o), txs[o] = <<>>)
  BY <1>1, HeadFits DEF Planned, CharterAssumption
<1>3. Proper(v) /\ RecordSeen(o) \in BOOLEAN
  BY <1>2, RecordType DEF Plan
<1>4. <<>> \in Seq(Items) /\ \A steps : Without(<<>>, steps)
  BY NoItems
<1>5. \/ v.pending = <<>> /\ Skips(o, <<>>)
      \/ v.pending # <<>> /\ Updates(o, "commit", Settings, v, next, valid, <<>>)
  BY <1>2 DEF mkTxnCommittingPendingChanges
<1>c. /\ outdated'[o] = found /\ cached[o] \subseteq cached'[o] /\ Detectable(o)' \subseteq Detectable(o)
  <2>1. ConnectsForTx(o, Replaced(v) \cap Older(v))
    BY <1>2 DEF mkTxnCommittingPendingChanges
  <2> HIDE DEF v
  <2> QED BY <1>1, <2>1, ForTxConnected
<1>6. CASE v.pending = <<>> /\ Skips(o, <<>>)
  <2>1. (\A p \in Policies : ~Pends(v, p)) /\ Replaced(v) = {}
    BY <1>2, <1>6, ProperNone
  <2>3. outdated'[o] = outdated[o]
    BY <1>c, <2>1
  <2> HIDE DEF v, h, found
  <2>2. MovesOn(h, <<>>, v, v, outdated[o], outdated[o], Stored(o), Stored(o), RecordSeen(o), RecordSeen(o))
    BY <1>1, <1>2, <1>3, <1>4, <1>6, <2>1 DEF MovesOn
  <2> QED BY <1>1, <1>4, <1>6, <1>c, <2>2, <2>3, SkipRecovers DEF v, h
<1> DEFINE findable == \A p \in Replaced(v) : v.manifest[p] = "old" => p \in outdated[o] \cup Detectable(o)
<1>8. CASE /\ v.pending # <<>> /\ Updates(o, "commit", Settings, v, next, valid, <<>>)
           /\ ~findable
  <2>1. PICK p \in Replaced(v) : v.manifest[p] = "old" /\ p \notin outdated[o] \cup Detectable(o)
    BY <1>8
  <2>2. p \in Policies
    BY <1>2, <2>1, ReplacedType
  <2>3. ~CanCommit(o, v)
    <3>1. PICK i \in DOMAIN v.pending : v.pending[i].policy = p /\ v.pending[i].action = "Replace"
      BY <2>1 DEF Replaced
    <3> HIDE DEF v
    <3> QED BY <2>1, <3>1 DEF CanCommit, FindsToken
  <2>4. Throws(o, "failed")
    BY <1>8, <2>3, UpdatesWhat
  <2>5. CharterSeen(o)' = v
    <3>1. txs'[o] = txs[o] /\ UNCHANGED charter
      BY <1>1, <2>4 DEF Throws, Rest, chainVars
    <3> QED BY <3>1, SeenStays
  <2>6. p \notin (outdated'[o] \cup Detectable(o)')
    BY <1>c, <2>1
  <2>7. p \in Replaced(CharterSeen(o))' /\ CharterSeen(o)'.manifest[p] = "old"
    <3>1. Replaced(CharterSeen(o))' = Replaced(v)
      BY <2>5 DEF Replaced
    <3> HIDE DEF v
    <3> QED BY <2>1, <2>5, <3>1
  <2> HIDE DEF v, found, h
  <2>8. Blocked(o)'
    BY <2>6, <2>7 DEF Blocked
  <2> QED BY <1>1, <2>4, <2>8, ThrowRecovers
<1>7. CASE /\ v.pending # <<>> /\ Updates(o, "commit", Settings, v, next, valid, <<>>)
           /\ findable
  <2>1. next \in Charters
    BY <1>2, NextType
  <2>2. CanCommit(o, v)
    <3>1. Links(txs[o], charter, v) /\ txs[o] \in Seq(Txs)
      BY DEF RunRecovers, CharterInv, RunTyped
    <3> HIDE DEF v
    <3> QED BY <1>2, <1>3, <1>7, <3>1, LinksOnward, CommitCan
  <2>3. next.pending = <<>> /\ next.manifest = Committed(v) /\ next.settings = v.settings
    BY <1>2 DEF Charters
  <2>4. ValidCommit(v, next, burned)
    BY <2>3 DEF ValidCommit, Same
  <2>5. Makes(o, t, <<>>)
    BY <1>7, <2>2, <2>4, UpdatesWhat
  <2>6. t \in Txs /\ Fits(t) /\ t.kind = "commit" /\ t.on = v /\ ~t.stale
    BY <1>2, <2>1, <2>4, CommitFits
  <2>f. \A p \in found : p \in outdated[o] \/ p \in Replaced(v)
    OBVIOUS
  <2>p. \A p \in Replaced(v) : Pends(v, p)
    BY DEF Replaced, Pends
  <2> HIDE DEF t, next, v, h, valid, burned, found, findable
  <2>7. /\ w.manifest = Committed(v) /\ w.settings = v.settings /\ w.pending = <<>> /\ w \in Charters
    BY <2>6 DEF Fits, Txs
  <2>8. Proper(w) /\ Onward(v, w) /\ Passes(t, v, w)
    BY <1>3, <2>6, FitsLeads DEF Spending
  <2>9. /\ \A p \in Policies : v.manifest[p] = "new" \/ Pends(v, p) => w.manifest[p] = "new"
        /\ \A p \in Policies : ~Pends(v, p) => w.manifest[p] = v.manifest[p]
        /\ v.manifest[Settings] # "none" => w.manifest[Settings] # "none"
    BY <1>2, <2>7 DEF Committed, Pends
  <2>s. \A p \in Policies : Settled(v, p, outdated[o]) => Settled(w, p, found)
    BY <2>9, <2>f, <2>p DEF Settled
  <2>q. Pends(v, Settings) => w.manifest[Settings] # "none"
    BY <1>2, <2>9
  <2> HIDE DEF w
  <2>10. MovesOn(h, <<>>, v, w, outdated[o], found, Stored(o), Stored(o), RecordSeen(o), RecordSeen(o))
    BY <1>1, <1>2, <1>3, <1>4, <2>7, <2>8, <2>9, <2>q, <2>s DEF MovesOn
  <2>11. /\ Stored(o) = Stored(o) \cup (IF t.kind = "ref" THEN {t.policy} ELSE {})
         /\ RecordSeen(o) <=> RecordSeen(o) \/ t.kind = "record"
    BY <2>6
  <2> QED BY <1>1, <1>3, <1>4, <1>c, <2>5, <2>6, <2>7, <2>8, <2>10, <2>11, MakeRecovers DEF v, h
<1> QED BY <1>5, <1>6, <1>7, <1>8

LEMMA EntryRecovers ==
    ASSUME CharterAssumption, CharterInv, CharterInv', NEW o \in Operators, RunRecovers(o),
           mkTxnAddManifestEntry(o)
    PROVE  RunRecovers(o)'
<1> DEFINE h == Head(todo[o])
           v == CharterSeen(o)
           next == [v EXCEPT !.settings = TRUE]
           valid == /\ RecordSeen(o) /\ v.manifest[Settings] # "none"
                    /\ ValidEntry(v, next)
           t == UpdateTx(o, "entry", Settings, v, next)
           w == t.leaves
<1>1. /\ page[o] = "building" /\ todo[o] # <<>> /\ h.step = "register" /\ UNCHANGED Rest
      /\ work[o] # NoCharter
  BY DEF mkTxnAddManifestEntry, Doing, Ready
<1>2. /\ todo[o][1] = h /\ 1 \in DOMAIN todo[o] /\ \A s : ~Before(todo[o], 1, s)
      /\ v \in Charters /\ work[o] = v /\ Settings \in Policies /\ RecordSeen(o) \in BOOLEAN
      /\ Plan(todo[o], v, outdated[o], Stored(o), RecordSeen(o), txs[o] = <<>>)
  BY <1>1, HeadFits DEF Planned, CharterAssumption
<1>3. Proper(v) /\ ~v.settings /\ RecordSeen(o) /\ v.manifest[Settings] # "none"
  BY <1>1, <1>2 DEF Plan, RegisterFits, RecordFits
<1>4. Updates(o, "entry", Settings, v, next, valid, <<CommitIfNeeded>>)
  BY <1>2 DEF mkTxnAddManifestEntry
<1>5. next \in Charters /\ next.pending = v.pending /\ next.manifest = v.manifest /\ next.settings
  BY <1>2, NextType DEF Charters
<1>6. ValidEntry(v, next)
  BY <1>3, <1>5 DEF ValidEntry, Same
<1>7. Makes(o, t, <<CommitIfNeeded>>)
  BY <1>3, <1>4, <1>6, UpdatesWhat
<1>8. /\ t \in Txs /\ Fits(t) /\ t.kind = "entry" /\ t.on = v /\ ~t.stale
      /\ t.leaves.pending = next.pending /\ t.leaves.settings
  BY <1>2, <1>5, <1>6, EntryTxFits
<1> HIDE DEF t, next, v, h, valid
<1>9. w \in Charters /\ w.manifest = v.manifest /\ w.pending = v.pending /\ w.settings
  BY <1>5, <1>8 DEF Txs, Fits
<1>10. Proper(w) /\ Onward(v, w) /\ Passes(t, v, w)
  BY <1>3, <1>8, <1>9, FitsLeads DEF Spending
<1> HIDE DEF w
<1>11. \A p \in Policies : Pends(w, p) <=> Pends(v, p)
  BY <1>9 DEF Pends
<1>12. /\ <<CommitIfNeeded>> \in Seq(Items)
       /\ Without(<<CommitIfNeeded>>, {"install", "record", "register"})
       /\ Without(<<CommitIfNeeded>>, {"setup"})
  BY CommitItem, WithoutFewer DEF Unsettling
<1>s. \A p \in Policies : Settled(v, p, outdated[o]) => Settled(w, p, outdated[o])
  BY <1>9, <1>11 DEF Settled
<1>13. MovesOn(h, <<CommitIfNeeded>>, v, w, outdated[o], outdated[o], Stored(o), Stored(o),
               RecordSeen(o), RecordSeen(o))
  BY <1>1, <1>2, <1>3, <1>9, <1>10, <1>11, <1>12, <1>s DEF MovesOn
<1>14. /\ Stored(o) = Stored(o) \cup (IF t.kind = "ref" THEN {t.policy} ELSE {})
       /\ RecordSeen(o) <=> RecordSeen(o) \/ t.kind = "record"
  BY <1>8
<1>c. outdated'[o] = outdated[o] /\ cached[o] \subseteq cached'[o]
  BY DEF mkTxnAddManifestEntry, delegateVars
<1> QED BY <1>1, <1>2, <1>7, <1>8, <1>9, <1>10, <1>12, <1>13, <1>14, <1>c, MakeRecovers DEF v, h

LEMMA PlainRecovers ==
    ASSUME CharterAssumption, CharterInv, CharterInv', ChainSound, NEW o \in Operators, RunRecovers(o),
           mkRefScriptTxn(o) \/ createSettingsRecord(o)
    PROVE  RunRecovers(o)'
<1> DEFINE h == Head(todo[o])
           v == CharterSeen(o)
<1>1. page[o] = "building" /\ todo[o] # <<>> /\ UNCHANGED Rest /\ h.step \in {"ref script", "record"}
  BY DEF mkRefScriptTxn, createSettingsRecord, Doing
<1>2. /\ todo[o][1] = h /\ 1 \in DOMAIN todo[o] /\ \A s : ~Before(todo[o], 1, s)
      /\ v \in Charters /\ Settings \in Policies /\ RecordSeen(o) \in BOOLEAN /\ h.policy \in Policies
      /\ Plan(todo[o], v, outdated[o], Stored(o), RecordSeen(o), txs[o] = <<>>)
  BY <1>1, HeadFits, HeadItem DEF Planned, CharterAssumption
<1>3. Proper(v) /\ (h.step = "record" => v.manifest[Settings] # "none")
  BY <1>1, <1>2 DEF Plan, RecordFits
<1>4. <<>> \in Seq(Items) /\ \A steps : Without(<<>>, steps)
  BY NoItems
<1>c. outdated'[o] = outdated[o] /\ cached[o] \subseteq cached'[o] /\ Detectable(o)' \subseteq Detectable(o)
  <2>1. CASE mkRefScriptTxn(o)
    BY <2>1 DEF mkRefScriptTxn, delegateVars, Detectable, Rest, chainVars
  <2>2. CASE createSettingsRecord(o)
    <3>1. ConnectsForTx(o, {Settings} \cap Older(v))
      BY <2>2 DEF createSettingsRecord
    <3>2. ({Settings} \cap Older(v)) \cap Detectable(o) = {}
      BY <1>1, HeadFits DEF SettingsConnected, Older, Detectable
    <3> DEFINE policies == {Settings} \cap Older(v)
    <3>3. ConnectsForTx(o, policies) /\ policies \cap Detectable(o) = {}
      BY <3>1, <3>2
    <3> HIDE DEF v, policies
    <3>4. outdated'[o] = outdated[o] \cup (policies \cap Detectable(o))
      BY <1>1, <3>3, ForTxConnected
    <3>5. cached[o] \subseteq cached'[o] /\ Detectable(o)' \subseteq Detectable(o)
      BY <1>1, <3>3, ForTxConnected
    <3> QED BY <3>3, <3>4, <3>5
  <2> QED BY <2>1, <2>2
<1>5. ASSUME NEW kind \in {"ref", "record"}, NEW p \in Policies, Makes(o, Plain(kind, p, v), <<>>),
             h.step = IF kind = "ref" THEN "ref script" ELSE "record", kind = "ref" => p = h.policy
      PROVE  RunRecovers(o)'
  <2> DEFINE t == Plain(kind, p, v)
             more == Stored(o) \cup (IF t.kind = "ref" THEN {t.policy} ELSE {})
             known == RecordSeen(o) \/ t.kind = "record"
  <2>1. t \in Txs /\ t.kind = kind /\ t.policy = p /\ t.on = v /\ t.kind \notin Spending
    BY <1>2, PlainFits
  <2>2. Passes(t, v, v) /\ Onward(v, v)
    BY <1>2, <2>1, OnwardSelf DEF Passes
  <2>3. /\ Stored(o) \subseteq more /\ (kind = "ref" => p \in more) /\ known \in BOOLEAN
        /\ (RecordSeen(o) => known) /\ (kind = "record" => known)
    BY <2>1
  <2>4. more = Stored(o) \cup (IF t.kind = "ref" THEN {t.policy} ELSE {})
        /\ (known <=> RecordSeen(o) \/ t.kind = "record")
    OBVIOUS
  <2>5. Makes(o, t, <<>>)
    BY <1>5
  <2> HIDE DEF t, more, known, v, h
  <2>6. MovesOn(h, <<>>, v, v, outdated[o], outdated[o], Stored(o), more, RecordSeen(o), known)
    BY <1>1, <1>2, <1>3, <1>4, <1>5, <2>1, <2>3 DEF MovesOn
  <2> QED BY <1>1, <1>2, <1>4, <1>c, <2>1, <2>2, <2>3, <2>4, <2>5, <2>6, MakeRecovers DEF v, h
<1>6. CASE mkRefScriptTxn(o)
  <2>1. h.step = "ref script" /\ (Makes(o, Plain("ref", h.policy, v), <<>>) \/ Throws(o, "no funds"))
    BY <1>6 DEF mkRefScriptTxn, Doing
  <2> HIDE DEF v, h
  <2> QED BY <1>1, <1>2, <1>5, <2>1, ThrowRecovers
<1>7. CASE createSettingsRecord(o)
  <2>1. h.step = "record"
    BY <1>7 DEF createSettingsRecord, Doing
  <2> DEFINE possible == v.manifest[Settings] = "new" \/ (v.manifest[Settings] = "old" /\ FindsToken(o, Settings))
  <2>2. CASE possible
    <3>1. Makes(o, Plain("record", Settings, v), <<>>)
      BY <1>7, <2>2 DEF createSettingsRecord
    <3> HIDE DEF v, h
    <3> QED BY <1>2, <1>5, <2>1, <3>1
  <2>3. CASE ~possible
    <3>1. Throws(o, "failed")
      BY <1>7, <2>3 DEF createSettingsRecord
    <3>2. CharterSeen(o)' = v
      <4>1. txs'[o] = txs[o] /\ UNCHANGED charter
        BY <1>1, <3>1 DEF Throws, Rest, chainVars
      <4> QED BY <4>1, SeenStays
    <3>3. v.manifest[Settings] = "old" /\ ~FindsToken(o, Settings)
      <4>1. v.manifest[Settings] \in Scripts
        BY <1>2 DEF Charters, Manifests
      <4> QED BY <1>3, <2>1, <2>3, <4>1 DEF Scripts
    <3>4. Settings \in oldTokens
      <4>1. Links(txs[o], charter, v) /\ txs[o] \in Seq(Txs)
        BY DEF RunRecovers, CharterInv, RunTyped
      <4> HIDE DEF v
      <4>2. Onward(charter, v)
        BY <4>1, LinksOnward
      <4>3. charter.manifest[Settings] = "old"
        BY <1>2, <3>3, <4>2 DEF Onward
      <4> QED BY <1>2, <4>3 DEF ChainSound, TokensFit
    <3>5. Settings \notin (outdated'[o] \cup Detectable(o)')
      BY <1>c, <3>3, <3>4 DEF FindsToken
    <3>6. ~v.settings
      <4>1. \E i \in DOMAIN todo[o] : todo[o][i].step = "register"
        BY <1>2, <2>1 DEF Plan, RecordLeads
      <4> QED BY <1>2, <4>1 DEF Plan, RegisterFits
    <3> HIDE DEF v, h
    <3>7. Blocked(o)'
      BY <3>2, <3>3, <3>5, <3>6 DEF Blocked
    <3> QED BY <1>1, <3>1, <3>7, ThrowRecovers
  <2> QED BY <2>2, <2>3
<1> QED BY <1>6, <1>7

LEMMA EndRecovers ==
    ASSUME CharterInv, ChainSound, NEW o \in Operators, RunRecovers(o), RunEnds(o)
    PROVE  RunRecovers(o)'
<1>1. /\ page[o] = "building" /\ todo[o] = <<>> /\ txs[o] = <<>> /\ page'[o] = "done"
      /\ txs'[o] = <<>> /\ UNCHANGED chainVars /\ UNCHANGED outdated
  BY DEF RunEnds, CharterInv, RunTyped, Rest, delegateVars
<1>2. CharterSeen(o) = charter /\ Stored(o) = refScripts
  BY <1>1, SeenThen DEF SeenAlone
<1>3. Plan(<<>>, charter, outdated[o], refScripts, RecordSeen(o), txs[o] = <<>>)
  BY <1>1, <1>2 DEF RunRecovers, Planned
<1>4. /\ charter.pending = <<>> /\ charter.settings /\ \A p \in Policies : ~Pends(charter, p)
      /\ \A p \in Policies :
           charter.manifest[p] = "new" \/ (charter.manifest[p] = "old" /\ p \notin outdated[o])
      /\ \A p \in Policies : p \in refScripts
  BY <1>3, PlanDone
<1>5. settingsRecord
  BY <1>4 DEF ChainSound, TokensFit
<1>6. \A p \in Policies :
        \/ charter.manifest[p] = "new" /\ newTokens[p] = 1 /\ p \notin oldTokens
        \/ charter.manifest[p] = "old" /\ newTokens[p] = 0 /\ p \in oldTokens /\ p \notin outdated[o]
  BY <1>4 DEF ChainSound, TokensFit
<1>d. Deployed(o)
  BY <1>4, <1>5, <1>6 DEF Deployed
<1>7. Deployed(o)'
  BY <1>1, <1>d DEF Deployed, chainVars
<1>8. CharterSeen(o)' = CharterSeen(o)
  BY <1>1, SeenStays DEF chainVars
<1>9. Links(txs[o], charter, CharterSeen(o))
  BY DEF RunRecovers
<1> QED BY <1>1, <1>7, <1>8, <1>9 DEF RunRecovers, chainVars

\* A page that is closed, and one that is opened
LEMMA CloseRecovers ==
    ASSUME CharterInv, CharterInv', NEW o \in Operators, PageCloses(o)
    PROVE  RunRecovers(o)'
<1>1. page'[o] = "away" /\ txs'[o] = <<>>
  BY DEF PageCloses, CharterInv, RunTyped
<1>2. CharterSeen(o)' = charter'
  BY <1>1, SeenThenNext DEF SeenAlone
<1>3. charter' \in Charters
  BY DEF CharterInv, ChainTyped
<1> QED BY <1>1, <1>2, <1>3, LinksNone DEF RunRecovers

LEMMA OpenRecovers ==
    ASSUME CharterAssumption, CharterInv, CharterInv', ChainSound, NEW o \in Operators, RunSound(o),
           mkTxnUpgradeIfNeeded(o)
    PROVE  RunRecovers(o)'
<1> DEFINE items == Append(addTxnBootstrappingSettings(charter), Item("check", Settings))
<1>1. /\ page[o] = "away" /\ page'[o] = "loaded" /\ todo'[o] = items
      /\ UNCHANGED <<txs, charter, refScripts, settingsRecord>>
  BY DEF mkTxnUpgradeIfNeeded, OpensPage, CharterInv, RunTyped, chainVars
<1>c. {Settings} \cap Older(charter) \subseteq cached'[o]
  BY DEF mkTxnUpgradeIfNeeded, OpensPage, CharterInv, DelegatesTyped
<1>2. txs[o] = <<>>
  BY <1>1 DEF RunSound, AtRest
<1>3. CharterSeen(o)' = charter /\ Stored(o)' = refScripts
  BY <1>1, <1>2, SeenThenNext DEF SeenAlone
<1>4. charter \in Charters /\ Proper(charter)
  BY DEF CharterInv, ChainTyped, ChainSound, TokensFit
<1>5. Plan(items, charter, outdated'[o], refScripts, RecordSeen(o)', TRUE)
  BY <1>4, PlanBegins
<1> HIDE DEF items
<1>6. (txs'[o] = <<>>) = TRUE
  BY <1>1, <1>2
<1>7. Planned(o)'
  BY <1>1, <1>3, <1>5, <1>6 DEF Planned
<1>8. SettingsConnected(o)'
  BY <1>3, <1>c DEF SettingsConnected, Older, CharterAssumption
<1> QED BY <1>1, <1>2, <1>3, <1>4, <1>7, <1>8, LinksNone DEF RunRecovers

\* No tx of the run is rejected, and each that lands leaves the others as they were.
LEMMA NoneRejected ==
    ASSUME CharterInv, NEW o \in Operators, RunRecovers(o)
    PROVE  ~Rejects(o)
<1> SUFFICES ASSUME Rejects(o) PROVE FALSE
  OBVIOUS
<1>1. txs[o] \in Seq(Txs) /\ txs[o] # <<>> /\ ~CanLand(Head(txs[o]))
  BY DEF Rejects, CharterInv, RunTyped
<1>2. Links(txs[o], charter, CharterSeen(o)) /\ charter \in Charters /\ CharterSeen(o) \in Charters
  BY SeenType DEF RunRecovers, CharterInv, ChainTyped
<1>3. Head(txs[o]).kind # "ref" => Head(txs[o]).on = charter
  BY <1>1, <1>2, LinksTail
<1> QED BY <1>1, <1>3 DEF CanLand

LEMMA SeenTail ==
    ASSUME NEW q \in Seq(Txs), q # <<>>
    PROVE  \A i \in DOMAIN q : q[i] = Head(q) \/ \E j \in DOMAIN Tail(q) : Tail(q)[j] = q[i]
<1>1. /\ Len(q) \in Nat /\ Len(q) > 0 /\ DOMAIN q = 1..Len(q) /\ DOMAIN Tail(q) = 1..(Len(q) - 1)
      /\ Head(q) = q[1] /\ \A i \in 1..(Len(q) - 1) : Tail(q)[i] = q[i + 1]
  OBVIOUS
<1> SUFFICES ASSUME NEW i \in DOMAIN q, i # 1
             PROVE  \E j \in DOMAIN Tail(q) : Tail(q)[j] = q[i]
  BY <1>1
<1>2. i - 1 \in 1..(Len(q) - 1) /\ (i - 1) + 1 = i
  BY <1>1
<1> QED BY <1>1, <1>2

LEMMA LandRecovers ==
    ASSUME CharterInv, CharterInv', NEW o \in Operators, RunRecovers(o), Lands(o)
    PROVE  RunRecovers(o)'
<1> DEFINE t == Head(txs[o])
           q == txs[o]
           v == CharterSeen(o)
<1>1. /\ q \in Seq(Txs) /\ q # <<>> /\ Takes(t) /\ txs'[o] = Tail(q)
      /\ UNCHANGED <<page, todo, work, cached, outdated, oldScripts>>
  BY DEF Lands, Takes, delegateVars, CharterInv, RunTyped
<1>2. Links(q, charter, v) /\ charter \in Charters /\ v \in Charters
  BY SeenType DEF RunRecovers, CharterInv, ChainTyped
<1>3. PICK d \in Charters : Passes(t, charter, d) /\ Links(Tail(q), d, v)
  BY <1>1, <1>2, LinksTail
<1>4. charter' = d
  BY <1>1, <1>3 DEF Passes, Takes
<1>5. Links(txs'[o], charter', v)
  BY <1>1, <1>3, <1>4
<1>6. CharterSeen(o)' = v
  BY <1>2, <1>5, SeenThenNext DEF SeenAsLinked
<1>7. \A i \in DOMAIN q : q[i] = t \/ \E j \in DOMAIN Tail(q) : Tail(q)[j] = q[i]
  BY <1>1, SeenTail
<1>8. \A x \in MadeBy(o) : x = t \/ x \in MadeBy(o)'
  BY <1>1, <1>7 DEF MadeBy
<1>9. Stored(o) \subseteq Stored(o)' /\ (RecordSeen(o) => RecordSeen(o)')
  <2>1. /\ refScripts' = refScripts \cup (IF t.kind = "ref" THEN {t.policy} ELSE {})
        /\ (settingsRecord' <=> settingsRecord \/ t.kind = "record")
    BY <1>1 DEF Takes
  <2> HIDE DEF t
  <2>2. \A p \in Policies : RefScriptSeen(o, p) => RefScriptSeen(o, p)'
    BY <1>8, <2>1 DEF RefScriptSeen
  <2>3. RecordSeen(o) => RecordSeen(o)'
    BY <1>8, <2>1 DEF RecordSeen
  <2> QED BY <2>2, <2>3 DEF Stored
<1>10. RecordSeen(o) \in BOOLEAN /\ RecordSeen(o)' \in BOOLEAN
  BY DEF RecordSeen, CharterInv, ChainTyped
<1>11. Planned(o) => Planned(o)'
  <2> SUFFICES ASSUME Plan(todo[o], v, outdated[o], Stored(o), RecordSeen(o), q = <<>>) PROVE Planned(o)'
    BY DEF Planned
  <2> HIDE DEF q, v
  <2>1. Plan(todo[o], v, outdated[o], Stored(o)', RecordSeen(o)', txs'[o] = <<>>)
    BY <1>1, <1>9, <1>10, PlanMore
  <2> QED BY <1>1, <1>6, <2>1 DEF Planned
<1>12. /\ page[o] \notin {"loaded", "away", "done"}
       /\ page[o] = "building" => Planned(o) /\ SettingsConnected(o)
       /\ page[o] = "building" => work[o] \in {NoCharter, v}
       /\ page[o] = "failed" => Blocked(o)
  BY <1>1 DEF RunRecovers
<1>13. Blocked(o) => Blocked(o)'
  BY <1>1, <1>6, BlockedStays
<1>14. SettingsConnected(o) => SettingsConnected(o)'
  BY <1>1, <1>6 DEF SettingsConnected
<1> HIDE DEF v, q, t
<1> QED BY <1>1, <1>5, <1>6, <1>11, <1>12, <1>13, <1>14 DEF RunRecovers

-----------------------------------------------------------------------------
(* Every upgrade that nobody crosses                                          *)

\* The invariant: what is so of every run, and of those that nobody has crossed
RecoverInv == damaged \/ (ChainSound /\ \A o \in clean : RunRecovers(o))
SoundInv == CharterInv /\ (\A o \in Operators : RunSound(o)) /\ RecoverInv

\* Who is still not crossed
LEMMA CleanStays ==
    ASSUME CharterInv, NEW o \in Operators, Acts(o), NEW x \in clean'
    PROVE  x \in clean \/ (x = o /\ mkTxnUpgradeIfNeeded(o))
<1>1. CASE mkTxnUpgradeIfNeeded(o) \/ \E p \in Policies : InstallsPolicy(o, p)
  BY <1>1 DEF mkTxnUpgradeIfNeeded, InstallsPolicy
<1>2. CASE Lands(o) \/ AfloatLands(o)
  BY <1>2 DEF Lands, AfloatLands, Crosses
<1>3. CASE /\ ~mkTxnUpgradeIfNeeded(o) /\ ~(\E p \in Policies : InstallsPolicy(o, p))
           /\ ~Lands(o) /\ ~AfloatLands(o)
  BY <1>3 DEF Acts, loadUpgradeTxns, PageCloses, ReadsCharter, checkForUpdates,
     mkTxnInstallPolicyDelegate, mkRefScriptTxn, mkTxnCommittingPendingChanges,
     createSettingsRecord, mkTxnAddManifestEntry, Rejects, RunEnds, Rest
<1> QED BY <1>1, <1>2, <1>3

LEMMA DamageStays ==
    ASSUME CharterInv, NEW o \in Operators, Acts(o), damaged
    PROVE  damaged'
<1>1. CASE Lands(o) \/ AfloatLands(o)
  BY <1>1 DEF Lands, AfloatLands, Takes
<1>2. CASE ~Lands(o) /\ ~AfloatLands(o)
  BY <1>2, ChainRests
<1> QED BY <1>1, <1>2

\* Nobody connects the delegates of another's page.
LEMMA OthersDelegates ==
    ASSUME CharterInv, NEW o \in Operators, Acts(o), NEW x \in Operators, x # o
    PROVE  cached'[x] = cached[x] /\ outdated'[x] = outdated[x]
<1>1. ASSUME NEW policies, ConnectsPlainly(o, policies) \/ ConnectsForTx(o, policies)
      PROVE  cached'[x] = cached[x] /\ outdated'[x] = outdated[x]
  BY <1>1 DEF ConnectsPlainly, ConnectsForTx, CharterInv, DelegatesTyped
<1>2. CASE \/ checkForUpdates(o) \/ mkTxnInstallPolicyDelegate(o) \/ mkTxnCommittingPendingChanges(o)
           \/ createSettingsRecord(o)
  BY <1>1, <1>2 DEF checkForUpdates, mkTxnInstallPolicyDelegate, mkTxnCommittingPendingChanges,
                    createSettingsRecord
<1>3. CASE mkTxnUpgradeIfNeeded(o) \/ (\E p \in Policies : InstallsPolicy(o, p)) \/ PageCloses(o)
  BY <1>3 DEF mkTxnUpgradeIfNeeded, InstallsPolicy, OpensPage, PageCloses, CharterInv, DelegatesTyped
<1>4. CASE \/ loadUpgradeTxns(o) \/ ReadsCharter(o) \/ mkRefScriptTxn(o) \/ mkTxnAddManifestEntry(o)
           \/ Rejects(o) \/ RunEnds(o) \/ Lands(o) \/ AfloatLands(o)
  <2>1. UNCHANGED delegateVars
    BY <1>4 DEF loadUpgradeTxns, ReadsCharter, mkRefScriptTxn, mkTxnAddManifestEntry, Rejects, RunEnds,
                Lands, AfloatLands, Takes
  <2> QED BY <2>1 DEF delegateVars
<1> QED BY <1>2, <1>3, <1>4 DEF Acts

LEMMA ScriptsStay ==
    ASSUME CharterInv, NEW o \in Operators, Acts(o)
    PROVE  oldScripts' = oldScripts
<1>1. CASE Lands(o) \/ AfloatLands(o)
  BY <1>1 DEF Lands, AfloatLands, Takes
<1>2. CASE ~Lands(o) /\ ~AfloatLands(o)
  BY <1>2, ChainRests DEF chainVars
<1> QED BY <1>1, <1>2

\* A tx that others made leaves the charter of a run that it does not cross.
LEMMA TakesPlainly ==
    ASSUME NEW t \in Txs, Fits(t), t.kind \notin Spending, Takes(t)
    PROVE  /\ UNCHANGED <<charter, newTokens, oldTokens>> /\ refScripts \subseteq refScripts'
           /\ (settingsRecord => settingsRecord')
<1>1. t.burns = {} /\ t.kind # "queue"
  BY DEF Fits, Spending
<1> QED BY <1>1 DEF Takes

LEMMA OthersRecover ==
    ASSUME CharterInv, CharterInv', NEW o \in Operators, Acts(o), RunSound(o),
           NEW x \in clean', x \in clean, RunRecovers(x), x # o
    PROVE  RunRecovers(x)'
<1>1. x \in Operators
  BY DEF CharterInv, LeftTyped
<1>2. UNCHANGED <<page[x], todo[x], work[x], txs[x], cached[x], outdated[x]>> /\ UNCHANGED oldScripts
  BY <1>1, OthersRest, OthersDelegates, ScriptsStay DEF RunUnchanged
<1>3. /\ UNCHANGED <<charter, newTokens, oldTokens>> /\ refScripts \subseteq refScripts'
      /\ (settingsRecord => settingsRecord')
  <2>1. CASE Lands(o)
    <3>1. /\ txs[o] \in Seq(Txs) /\ txs[o] # <<>> /\ TxsSound(txs[o]) /\ Takes(Head(txs[o]))
      BY <2>1 DEF Lands, CharterInv, RunTyped, RunSound
    <3>2. Head(txs[o]).kind \notin Spending
      BY <1>1, <2>1 DEF Lands, Crosses
    <3> QED BY <3>1, <3>2, FirstEntry, TakesPlainly
  <2>2. CASE AfloatLands(o)
    <3>1. /\ afloat[o] \in Seq(Txs) /\ afloat[o] # <<>> /\ TxsSound(afloat[o]) /\ Takes(Head(afloat[o]))
      BY <2>2 DEF AfloatLands, CharterInv, LeftTyped, RunSound
    <3>2. Head(afloat[o]).kind \notin Spending
      BY <1>1, <2>2 DEF AfloatLands, Crosses
    <3> QED BY <3>1, <3>2, FirstEntry, TakesPlainly
  <2>3. CASE ~Lands(o) /\ ~AfloatLands(o)
    BY <2>3, ChainRests DEF chainVars
  <2> QED BY <2>1, <2>2, <2>3
<1> QED BY <1>1, <1>2, <1>3, StillRecovers

\* A tx of an earlier run of its own that lands
LEMMA LeftRecovers ==
    ASSUME CharterInv, CharterInv', NEW o \in Operators, RunSound(o), RunRecovers(o), o \in clean',
           AfloatLands(o)
    PROVE  RunRecovers(o)'
<1>1. /\ afloat[o] \in Seq(Txs) /\ afloat[o] # <<>> /\ TxsSound(afloat[o]) /\ Takes(Head(afloat[o]))
  BY DEF AfloatLands, CharterInv, LeftTyped, RunSound
<1>2. Head(afloat[o]).kind \notin Spending
  BY DEF AfloatLands, Crosses
<1>3. /\ UNCHANGED <<charter, newTokens, oldTokens>> /\ refScripts \subseteq refScripts'
      /\ (settingsRecord => settingsRecord')
  BY <1>1, <1>2, FirstEntry, TakesPlainly
<1>4. UNCHANGED <<page[o], todo[o], work[o], txs[o], cached[o], outdated[o]>> /\ UNCHANGED oldScripts
  BY DEF AfloatLands, Takes, delegateVars
<1> QED BY <1>3, <1>4, StillRecovers

LEMMA OwnRecovers ==
    ASSUME CharterAssumption, CharterInv, CharterInv', ChainSound, NEW o \in Operators, RunSound(o),
           o \in clean', o \in clean => RunRecovers(o), Acts(o)
    PROVE  RunRecovers(o)'
<1>1. CASE mkTxnUpgradeIfNeeded(o)
  BY <1>1, OpenRecovers
<1>2. CASE ~mkTxnUpgradeIfNeeded(o)
  <2>1. RunRecovers(o)
    BY <1>2, CleanStays
  <2>2. ~(\E p \in Policies : InstallsPolicy(o, p))
    BY DEF InstallsPolicy
  <2> QED
    BY <1>2, <2>1, <2>2, LoadRecovers, CheckRecovers, ReadsRecovers, InstallRecovers, PlainRecovers,
       CommitRecovers, EntryRecovers, LandRecovers, LeftRecovers, NoneRejected, EndRecovers,
       CloseRecovers DEF Acts
<1> QED BY <1>1, <1>2

LEMMA RecoverStep ==
    ASSUME CharterAssumption, CharterInv, CharterInv', \A x \in Operators : RunSound(x), RecoverInv,
           NEW o \in Operators, Acts(o)
    PROVE  RecoverInv'
<1> SUFFICES ASSUME ~damaged' PROVE RecoverInv'
  BY DEF RecoverInv
<1>1. ChainSound /\ \A x \in clean : RunRecovers(x)
  BY DamageStays DEF RecoverInv
<1>2. ChainSound'
  BY <1>1, ChainStays
<1>3. ASSUME NEW x \in clean' PROVE RunRecovers(x)'
  <2>1. CASE x = o
    BY <1>1, <1>3, <2>1, OwnRecovers
  <2>2. CASE x # o
    <3>1. x \in clean
      BY <2>2, CleanStays
    <3> QED BY <1>1, <2>2, <3>1, OthersRecover
  <2> QED BY <2>1, <2>2
<1> QED BY <1>2, <1>3 DEF RecoverInv

LEMMA SoundInitially == CharterAssumption /\ CharterInit => SoundInv
<1> SUFFICES ASSUME CharterAssumption, CharterInit PROVE SoundInv
  OBVIOUS
<1>1. CharterInv
  BY Initially
<1>2. ASSUME NEW o \in Operators PROVE RunSound(o)
  <2>1. page[o] = "away" /\ todo[o] = <<>> /\ work[o] = NoCharter /\ txs[o] = <<>> /\ afloat[o] = <<>>
    BY DEF CharterInit
  <2> QED BY <2>1, NoneSound, OrderedNone DEF RunSound, RegisterSound, AtRest
<1>3. ChainSound
  <2>1. /\ charter.pending = <<>> /\ (charter.settings => settingsRecord) /\ oldTokens \subseteq Policies
        /\ \A p \in Policies : charter.manifest[p] = IF p \in oldTokens THEN "old" ELSE "none"
        /\ \A p \in Policies : newTokens[p] = 0
    BY DEF CharterInit
  <2>2. \A p \in Policies : ~Pends(charter, p)
    BY <1>1, <2>1, ProperNone DEF CharterInv, ChainTyped
  <2> QED BY <2>1, <2>2 DEF ChainSound, TokensFit, Proper
<1>4. clean = {}
  BY DEF CharterInit
<1> QED BY <1>1, <1>2, <1>3, <1>4 DEF SoundInv, RecoverInv

LEMMA SoundInductive == CharterAssumption /\ SoundInv /\ [CharterNext]_charterVars => SoundInv'
<1> SUFFICES ASSUME CharterAssumption, SoundInv, [CharterNext]_charterVars PROVE SoundInv'
  OBVIOUS
<1>1. CharterInv /\ CharterInv' /\ (\A o \in Operators : RunSound(o)) /\ RecoverInv
  BY Inductive DEF SoundInv
<1>2. CASE UNCHANGED charterVars
  <2>1. UNCHANGED <<charter, oldTokens, newTokens, refScripts, oldScripts, settingsRecord, page, todo,
                    work, txs, afloat, clean, damaged, cached, outdated>>
    BY <1>2 DEF charterVars, chainVars, runVars, delegateVars
  <2>2. \A o \in Operators : CharterSeen(o)' = CharterSeen(o)
    BY <2>1, SeenStays
  <2>3. \A o \in Operators : RunSound(o)'
    BY <1>1, <2>1, <2>2 DEF RunSound, TxsSound, RegisterSound, AtRest
  <2>4. \A o \in Operators : RunRecovers(o) => RunRecovers(o)'
    BY <1>1, <2>1, StillRecovers
  <2>5. ChainSound => ChainSound'
    BY <2>1 DEF ChainSound
  <2>6. clean \subseteq Operators
    BY <1>1 DEF CharterInv, LeftTyped
  <2> QED BY <1>1, <2>1, <2>3, <2>4, <2>5, <2>6 DEF SoundInv, RecoverInv
<1>3. CASE CharterNext
  <2>1. PICK o \in Operators : Acts(o)
    BY <1>3, NextActs
  <2>2. \A x \in Operators : RunSound(x)'
    BY <1>1, <2>1, EverySound
  <2>3. RecoverInv'
    BY <1>1, <2>1, RecoverStep
  <2> QED BY <1>1, <2>2, <2>3 DEF SoundInv
<1> QED BY <1>2, <1>3

\* Wherever earlier runs were left and whatever of them is still afloat: as long as no
\* change landed that was queued from an older manifest, an upgrade that nobody crosses
\* fails only where a policy was pending before there were settings, or where it needs
\* the token of a policy that its page has not found to be outdated; and when it ends,
\* every policy that was missing or found outdated has its present script, one token, a
\* stored copy and no old token, and every other is as it was, with a copy stored.
THEOREM UpgradesRecover == CharterSpec => []RunsRecover
<1>1. SoundInv => RunsRecover
  BY DEF SoundInv, RecoverInv, RunRecovers, RunsRecover
<1> QED
  BY <1>1, SoundInitially, SoundInductive, CharterAssumption, PTL DEF CharterSpec
=============================================================================
