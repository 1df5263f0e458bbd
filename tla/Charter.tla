------------------------------- MODULE Charter -------------------------------
(***************************************************************************)
(* The Capo's charter, and operators who bring it up to date with          *)
(* mkTxnUpgradeIfNeeded(): for each data policy that is missing or has a   *)
(* new script, a transaction queues the change in the charter's datum, one *)
(* stores the script, and one commits the change to the manifest.          *)
(* That a policy on chain has an older script is only found when the page  *)
(* first connects its delegate, if that is to make a tx (onchain: true);   *)
(* what it found then stays, as the delegate is cached.                    *)
(*                                                                         *)
(* Each transaction is made when its turn in the pipeline comes, on what   *)
(* the batch's chain builder shows, from charter data read before; it is   *)
(* validated by the scripts on the charter UTxO it then finds.  What every *)
(* transaction of this kind holds (the gov authority, the delegates with a *)
(* matching activity) is left out, with the checks that it is there.       *)
(***************************************************************************)
EXTENDS Naturals, SequencesExt

CONSTANTS
    Upgraders,  \* dapps that run mkTxnUpgradeIfNeeded(), and
    Installers, \* dapps that install one policy, all with the gov authority
    PolicySeq,  \* the data policies of delegateRoles, in their order
    Settings,   \* the policy that is named "settings"
    MaxRuns     \* bound: runs

Operators == Upgraders \cup Installers
Policies == ToSet(PolicySeq)

ASSUME CharterAssumption ==
    /\ PolicySeq \in Seq(Policies)
    /\ Settings \in Policies
    /\ MaxRuns \in Nat

VARIABLES
    charter,        \* the charter UTxO
    oldTokens,      \* policies whose first token was not burned
    newTokens,      \* how many tokens of each policy were minted by runs
    refScripts,     \* policies whose present script is in a ref-script UTxO
    oldScripts,     \* policies whose older script is in one
    settingsRecord, \* there is a settings record
    page,           \* how far each operator's run is
    cached,         \* policies with an older script whose delegate the page connected,
    outdated,       \* and those of them that it found to have one (previousOnchainScript)
    todo,           \* additional txns to be made, nested ones first
    work,           \* charter data read for the first of them
    txs,            \* txs of the batch that are made and not yet on chain
    afloat,         \* txs submitted by a run that was left
    runs,           \* runs so far
    clean,          \* history: upgrades during which nobody else changed the charter
    damaged         \* history: a change landed that was queued from an older manifest

chainVars == <<charter, oldTokens, newTokens, refScripts, oldScripts, settingsRecord>>
delegateVars == <<cached, outdated>>
runVars == <<page, todo, work, txs, afloat, runs, clean>>
charterVars == <<chainVars, runVars, delegateVars, damaged>>

Scripts == {"none", "old", "new"}
NoCharter == [depth |-> 0]
Steps == {"install", "commit", "record", "register", "check", "setup", "ref script"}
Pages == {"away", "loaded", "building", "done", "failed", "no funds"}

CharterTypeOK ==
    /\ charter.manifest \in [Policies -> Scripts]
    /\ \A i \in DOMAIN charter.pending :
         charter.pending[i] \in [policy : Policies, action : {"Add", "Replace"}]
    /\ oldTokens \subseteq Policies /\ refScripts \subseteq Policies /\ oldScripts \subseteq Policies
    /\ cached \in [Operators -> SUBSET Policies] /\ outdated \in [Operators -> SUBSET Policies]
    /\ newTokens \in [Policies -> Nat]
    /\ settingsRecord \in BOOLEAN /\ damaged \in BOOLEAN
    /\ page \in [Operators -> Pages]
    /\ \A o \in Operators : \A i \in DOMAIN todo[o] : todo[o][i].step \in Steps
    /\ runs \in 0..MaxRuns
    /\ clean \subseteq Operators

\* A charter just minted, or one that upgrades to an earlier release came to.  Its
\* scripts were stored by later txs of those upgrades, if these got that far.
CharterInit ==
    /\ oldTokens \in SUBSET Policies
    /\ settingsRecord \in BOOLEAN
    /\ settingsRecord => Settings \in oldTokens
    /\ charter = [manifest |-> [p \in Policies |-> IF p \in oldTokens THEN "old" ELSE "none"],
                  settings |-> settingsRecord,  \* the "currentSettings" entry
                  pending |-> <<>>,
                  depth |-> 1, by |-> "nobody"]
    /\ newTokens = [p \in Policies |-> 0]
    /\ refScripts = {}
    /\ oldScripts \in SUBSET oldTokens
    /\ cached = [o \in Operators |-> {}]
    /\ outdated = [o \in Operators |-> {}]
    /\ page = [o \in Operators |-> "away"]
    /\ todo = [o \in Operators |-> <<>>]
    /\ work = [o \in Operators |-> NoCharter]
    /\ txs = [o \in Operators |-> <<>>]
    /\ afloat = [o \in Operators |-> <<>>]
    /\ runs = 0
    /\ clean = {}
    /\ damaged = FALSE

-----------------------------------------------------------------------------
(* The scripts.  "u" is the charter spent, "next" the one put in its place. *)

Same(u, next, fields) == \A f \in fields : u[f] = next[f]

\* mutant: what is replaced is taken out, and not put back with its new script
CommittedAdds(c) ==
    [p \in Policies |->
       IF [policy |-> p, action |-> "Add"] \in ToSet(c.pending) THEN "new"
       ELSE IF [policy |-> p, action |-> "Replace"] \in ToSet(c.pending) THEN "none"
       ELSE c.manifest[p]]

\* CharterData's manifest with the pending changes made
Committed(c) ==
    [p \in Policies |->
       IF \E i \in DOMAIN c.pending : c.pending[i].policy = p THEN "new" ELSE c.manifest[p]]

Replaced(c) ==
    {c.pending[i].policy : i \in {j \in DOMAIN c.pending : c.pending[j].action = "Replace"}}

\* queuePendingChange, in the mint delegate.  The change's "replacesDgt" is the
\* token that the writer's manifest names.  The rest of the datum is not looked at.
ValidQueue(u, next) ==
    LET change == Head(next.pending) IN
    /\ Tail(next.pending) = u.pending
    /\ u.pending = <<>>
    /\ change.action = "Add" => u.manifest[change.policy] = "none"
    /\ change.action = "Replace" =>
         /\ u.manifest[change.policy] # "none"
         /\ u.manifest[change.policy] = next.manifest[change.policy]

\* commitPendingChanges: the manifest in the spend delegate, the burned tokens in
\* the mint delegate
ValidCommit(u, next, burned) ==
    /\ next.pending = <<>>
    /\ next.manifest = Committed(u) /\ Same(u, next, {"settings"})
    /\ burned = {<<p, u.manifest[p]>> : p \in Replaced(u)}

\* updatingManifest.addingEntry, in the spend delegate.  The pending changes are not
\* looked at.
ValidEntry(u, next) ==
    /\ next.settings /\ ~u.settings
    /\ Same(u, next, {"manifest"})

-----------------------------------------------------------------------------
(* What an operator's chain builder shows *)

Spending == {"queue", "commit", "entry"}
MadeBy(o) == {txs[o][i] : i \in DOMAIN txs[o]}
Spent(o) == {t.on : t \in {x \in MadeBy(o) : x.kind \in Spending}}
Left(o) == {t.leaves : t \in {x \in MadeBy(o) : x.kind \in Spending}} \ Spent(o)

\* mustFindCharterUtxo(): one of the network's UTxOs that the batch does not spend, or
\* else one the batch has left.  (It has left several if the network's has changed
\* meanwhile, and then it is lost.)
CharterSeen(o) ==
    IF charter \in Spent(o) /\ Left(o) # {} THEN CHOOSE c \in Left(o) : TRUE ELSE charter

RefScriptSeen(o, p) == p \in refScripts \/ \E t \in MadeBy(o) : t.kind = "ref" /\ t.policy = p
RecordSeen(o) == settingsRecord \/ \E t \in MadeBy(o) : t.kind = "record"

-----------------------------------------------------------------------------
(* Delegates: connectDelegateWithOnchainRDLink()                              *)

Older(c) == {p \in Policies : c.manifest[p] = "old"}

\* onchain: false
ConnectsPlainly(o, policies) ==
    /\ cached' = [cached EXCEPT ![o] = @ \cup policies]
    /\ UNCHANGED outdated

\* onchain: true.  The older script must be stored: else this throws, and caches nothing.
Detectable(o) == oldScripts \ cached[o]

ConnectsForTx(o, policies) ==
    /\ cached' = [cached EXCEPT ![o] = @ \cup (policies \cap oldScripts)]
    /\ outdated' = [outdated EXCEPT ![o] = @ \cup (policies \cap Detectable(o))]

\* A delegate whose script is not known to be older looks for its token at the address
\* of the present one.
FindsToken(o, p) == p \in oldTokens /\ p \in outdated[o] \cup Detectable(o)

-----------------------------------------------------------------------------
(* The pipeline *)

Item(step, p) == [step |-> step, policy |-> p, data |-> NoCharter]
Install(p, c) == [Item("install", p) EXCEPT !.data = c]
CommitIfNeeded == Item("commit", Settings)

Doing(o, steps) == page[o] = "building" /\ todo[o] # <<>> /\ Head(todo[o]).step \in steps
Ready(o) == work[o] # NoCharter

\* The next items: the nested ones, then the rest.
GoesOn(o, nested) ==
    /\ todo' = [todo EXCEPT ![o] = nested \o Tail(@)]
    /\ work' = [work EXCEPT ![o] = NoCharter]

\* An error ends the pipeline; the txs made before stay in the batch.
Throws(o, how) ==
    /\ page' = [page EXCEPT ![o] = how]
    /\ todo' = [todo EXCEPT ![o] = <<>>]
    /\ work' = [work EXCEPT ![o] = NoCharter]
    /\ UNCHANGED txs

Makes(o, tx, nested) ==
    /\ txs' = [txs EXCEPT ![o] = Append(@, tx)]
    /\ GoesOn(o, nested)
    /\ UNCHANGED page

\* TxNotNeededError
Skips(o, nested) == GoesOn(o, nested) /\ UNCHANGED <<page, txs>>

Rest == <<afloat, runs, clean, damaged, chainVars>>

\* txnUpdateCharterUtxo(): a tx that puts "next", written from "c", in the place of
\* the charter found now, when the scripts allow it
Updates(o, kind, p, c, next, valid, nested) ==
    IF valid
    THEN Makes(o, [kind |-> kind, policy |-> p, on |-> CharterSeen(o),
                   leaves |-> [next EXCEPT !.depth = CharterSeen(o).depth + 1, !.by = o],
                   stale |-> kind = "queue" /\ ~Same(CharterSeen(o), c, {"manifest", "settings"}),
                   burns |-> IF kind = "commit" THEN Replaced(c) ELSE {}],
               nested)
    ELSE Throws(o, "failed")

Plain(kind, p, u) ==
    [kind |-> kind, policy |-> p, on |-> u, leaves |-> u, stale |-> FALSE, burns |-> {}]

addTxnBootstrappingSettings(c) ==
    (IF c.manifest[Settings] = "none"
     THEN <<Install(Settings, c), CommitIfNeeded>> ELSE <<>>)
    \o (IF ~c.settings THEN <<Item("record", Settings), Item("register", Settings)>> ELSE <<>>)

\* What else the page does may have connected delegates before.
OpensPage(o, items, connected) ==
    /\ page[o] = "away" /\ runs < MaxRuns
    /\ runs' = runs + 1
    /\ page' = [page EXCEPT ![o] = "loaded"]
    /\ todo' = [todo EXCEPT ![o] = items]
    /\ \E forTx \in SUBSET (Older(charter) \cap oldScripts), plain \in SUBSET Older(charter) :
         /\ cached' = [cached EXCEPT ![o] = forTx \cup plain \cup connected]
         /\ outdated' = [outdated EXCEPT ![o] = forTx]
    /\ UNCHANGED <<work, txs, afloat, damaged, chainVars>>

\* When the page is opened: the settings policy is connected to see if there is one.
mkTxnUpgradeIfNeeded(o) ==
    /\ OpensPage(o, Append(addTxnBootstrappingSettings(charter), Item("check", Settings)),
                 {Settings} \cap Older(charter))
    /\ clean' = clean \cup {o}

\* An application installs a policy: mkTxnInstallPolicyDelegate(), given charter data.
InstallsPolicy(o, p) ==
    /\ OpensPage(o, <<Install(p, charter)>>, {})
    /\ clean' = clean \ {o}

\* "Review & Submit"
loadUpgradeTxns(o) ==
    /\ page[o] = "loaded"
    /\ page' = [page EXCEPT ![o] = "building"]
    /\ UNCHANGED <<todo, work, txs, Rest, delegateVars>>

SetupEach == [i \in DOMAIN PolicySeq |-> Item("setup", PolicySeq[i])]

\* mutant: pending changes of a run that was left are not committed first
CheckWithoutCommit(o) ==
    /\ Doing(o, {"check"})
    /\ Skips(o, Append(SetupEach, CommitIfNeeded))
    /\ ConnectsPlainly(o, Older(CharterSeen(o)))
    /\ UNCHANGED Rest

\* setupCapoPolicy() of each policy connects the delegate to see if there is one.
checkForUpdates(o) ==
    /\ Doing(o, {"check"})
    /\ Skips(o, <<CommitIfNeeded>> \o SetupEach \o <<CommitIfNeeded>>)
    /\ ConnectsPlainly(o, Older(CharterSeen(o)))
    /\ UNCHANGED Rest

\* The settings policy is installed with charter data of the time the page was
\* opened; the others read it anew.
ReadsCharter(o) ==
    /\ Doing(o, {"install", "setup", "commit", "register"}) /\ ~Ready(o)
    /\ work' = [work EXCEPT ![o] =
                  IF Head(todo[o]).step = "install" THEN Head(todo[o]).data ELSE CharterSeen(o)]
    /\ UNCHANGED <<page, todo, txs, Rest, delegateVars>>

\* mkTxnInstallingPolicyDelegate()
ActionFor(c, p) == IF c.manifest[p] = "none" THEN "Add" ELSE "Replace"

Queued(c, p) == [c EXCEPT !.pending = <<[policy |-> p, action |-> ActionFor(c, p)]>> \o @]

\* No older script was found (TxNotNeededError), or the change is pending
\* (AlreadyPendingError).
NotNeeded(o, c, p) ==
    \/ c.manifest[p] = "new"
    \/ c.manifest[p] = "old" /\ p \notin outdated[o]
    \/ \E i \in DOMAIN c.pending : c.pending[i] = [policy |-> p, action |-> ActionFor(c, p)]

\* mkTxnQueuingDelegateChange() connects the delegate with onchain: false.
\* setupCapoPolicy() stores a script that is missing although nothing is needed.
mkTxnInstallPolicyDelegate(o) ==
    /\ Doing(o, {"install", "setup"}) /\ Ready(o)
    /\ LET p == Head(todo[o]).policy
           c == work[o]
           refScript == <<Item("ref script", p)>>
       IN /\ ConnectsPlainly(o, {p} \cap Older(c))
          /\ \/ /\ NotNeeded(o, c, p)
                /\ Skips(o, IF Head(todo[o]).step = "setup" /\ ~RefScriptSeen(o, p)
                            THEN refScript ELSE <<>>)
             \/ /\ ~NotNeeded(o, c, p)
                /\ Updates(o, "queue", p, c, Queued(c, p), ValidQueue(CharterSeen(o), Queued(c, p)),
                           Append(refScript, CommitIfNeeded))
    /\ UNCHANGED Rest

mkRefScriptTxn(o) ==
    /\ Doing(o, {"ref script"})
    /\ \/ Makes(o, Plain("ref", Head(todo[o]).policy, CharterSeen(o)), <<>>)
       \/ Throws(o, "no funds")
    /\ UNCHANGED <<Rest, delegateVars>>

\* commitPendingChangesIfNeeded(), mkTxnCommittingPendingChanges().  A token that is
\* to be burned must be found, and its delegate is connected for that.
CanCommit(o, c) ==
    \A i \in DOMAIN c.pending :
      LET p == c.pending[i].policy IN
      /\ c.pending[i].action = ActionFor(c, p)
      /\ c.pending[i].action = "Replace" =>
           IF c.manifest[p] = "old" THEN FindsToken(o, p) ELSE newTokens[p] > 0

mkTxnCommittingPendingChanges(o) ==
    /\ Doing(o, {"commit"}) /\ Ready(o)
    /\ LET c == work[o]
           next == [c EXCEPT !.manifest = Committed(c), !.pending = <<>>]
           burned == {<<p, c.manifest[p]>> : p \in Replaced(c)}
       IN /\ ConnectsForTx(o, Replaced(c) \cap Older(c))
          /\ \/ c.pending = <<>> /\ Skips(o, <<>>)
             \/ /\ c.pending # <<>>
                /\ Updates(o, "commit", Settings, c, next,
                           CanCommit(o, c) /\ ValidCommit(CharterSeen(o), next, burned), <<>>)
    /\ UNCHANGED Rest

\* "createSettingsRecord": a record is made with the charter as a reference input, and
\* the token of the settings policy.
createSettingsRecord(o) ==
    /\ Doing(o, {"record"})
    /\ LET script == CharterSeen(o).manifest[Settings] IN
       IF script = "new" \/ (script = "old" /\ FindsToken(o, Settings))
       THEN Makes(o, Plain("record", Settings, CharterSeen(o)), <<>>)
       ELSE Throws(o, "failed")
    /\ ConnectsForTx(o, {Settings} \cap Older(CharterSeen(o)))
    /\ UNCHANGED Rest

\* "addCurrentSettings": mkTxnAddManifestEntry()
mkTxnAddManifestEntry(o) ==
    /\ Doing(o, {"register"}) /\ Ready(o)
    /\ LET c == work[o]
           next == [c EXCEPT !.settings = TRUE]
       IN Updates(o, "entry", Settings, c, next,
                  /\ RecordSeen(o) /\ c.manifest[Settings] # "none"
                  /\ ValidEntry(CharterSeen(o), next),
                  <<CommitIfNeeded>>)
    /\ UNCHANGED <<Rest, delegateVars>>

-----------------------------------------------------------------------------
(* The chain.  A batch is signed, tx by tx, once it is made.  Its txs land in  *)
(* their order: each spends change of the one before.                          *)

CanLand(t) == t.kind = "ref" \/ t.on = charter

Takes(t) ==
    /\ charter' = IF t.kind \in Spending THEN t.leaves ELSE charter
    /\ newTokens' = IF t.kind = "queue" THEN [newTokens EXCEPT ![t.policy] = @ + 1] ELSE newTokens
    /\ oldTokens' = oldTokens \ t.burns
    /\ refScripts' = refScripts \cup (IF t.kind = "ref" THEN {t.policy} ELSE {})
    /\ settingsRecord' = (settingsRecord \/ t.kind = "record")
    /\ damaged' = (damaged \/ t.stale)
    /\ UNCHANGED <<oldScripts, delegateVars>>

Crosses(t, others) == clean' = IF t.kind \in Spending THEN clean \ others ELSE clean

Signed(o) == page[o] # "building" \/ todo[o] = <<>>

Lands(o) ==
    /\ Signed(o) /\ txs[o] # <<>> /\ CanLand(Head(txs[o]))
    /\ Takes(Head(txs[o])) /\ Crosses(Head(txs[o]), Operators \ {o})
    /\ txs' = [txs EXCEPT ![o] = Tail(@)]
    /\ UNCHANGED <<page, todo, work, afloat, runs>>

AfloatLands(o) ==
    /\ afloat[o] # <<>> /\ CanLand(Head(afloat[o]))
    /\ Takes(Head(afloat[o])) /\ Crosses(Head(afloat[o]), Operators)
    /\ afloat' = [afloat EXCEPT ![o] = Tail(@)]
    /\ UNCHANGED <<page, todo, work, txs, runs>>

\* The charter a tx needs was spent by another: it and those after it are lost.
Rejects(o) ==
    /\ Signed(o) /\ txs[o] # <<>> /\ ~CanLand(Head(txs[o]))
    /\ page' = [page EXCEPT ![o] = "failed"]
    /\ todo' = [todo EXCEPT ![o] = <<>>]
    /\ work' = [work EXCEPT ![o] = NoCharter]
    /\ txs' = [txs EXCEPT ![o] = <<>>]
    /\ UNCHANGED <<Rest, delegateVars>>

RunEnds(o) ==
    /\ page[o] = "building" /\ todo[o] = <<>> /\ txs[o] = <<>>
    /\ page' = [page EXCEPT ![o] = "done"]
    /\ UNCHANGED <<todo, work, txs, Rest, delegateVars>>

\* The page is closed or loaded again, before or after txs of the batch were
\* submitted.
PageCloses(o) ==
    /\ page[o] # "away"
    /\ page' = [page EXCEPT ![o] = "away"]
    /\ cached' = [cached EXCEPT ![o] = {}]
    /\ outdated' = [outdated EXCEPT ![o] = {}]
    /\ todo' = [todo EXCEPT ![o] = <<>>]
    /\ work' = [work EXCEPT ![o] = NoCharter]
    /\ txs' = [txs EXCEPT ![o] = <<>>]
    /\ \E n \in 0..1 :
         /\ n = 1 => Signed(o) /\ txs[o] # <<>>
         /\ afloat' = [afloat EXCEPT ![o] = SubSeq(txs[o], 1, n)]
    /\ UNCHANGED <<runs, clean, damaged, chainVars>>

CharterNext ==
    \/ \E o \in Upgraders : mkTxnUpgradeIfNeeded(o)
    \/ \E o \in Installers, p \in Policies : InstallsPolicy(o, p)
    \/ \E o \in Operators :
      \/ loadUpgradeTxns(o) \/ checkForUpdates(o) \/ ReadsCharter(o)
      \/ mkTxnInstallPolicyDelegate(o) \/ mkRefScriptTxn(o) \/ mkTxnCommittingPendingChanges(o)
      \/ createSettingsRecord(o) \/ mkTxnAddManifestEntry(o)
      \/ Lands(o) \/ AfloatLands(o) \/ Rejects(o) \/ RunEnds(o) \/ PageCloses(o)

CharterSpec == CharterInit /\ [][CharterNext]_charterVars

-----------------------------------------------------------------------------
(* Properties *)

Rank(script) == CASE script = "none" -> 0 [] script = "old" -> 1 [] script = "new" -> 2

\* A tx that loses a policy of the manifest, or goes back to an older script of one,
\* queues a change, and some change was queued from a manifest that was no longer the
\* one it replaced.  No commit and no new entry does so, whatever was queued before.
PoliciesKept ==
    [][\/ \A p \in Policies : Rank(charter.manifest[p]) <= Rank(charter'.manifest[p])
       \/ damaged' /\ Len(charter'.pending) > Len(charter.pending)
      ]_charterVars

\* Every policy has a stored copy of its present script and one token: with its present
\* script if it was missing, or the page had found it outdated; else as it was.
Deployed(o) ==
    /\ charter.pending = <<>> /\ charter.settings /\ settingsRecord
    /\ \A p \in Policies :
         /\ p \in refScripts
         /\ \/ charter.manifest[p] = "new" /\ newTokens[p] = 1 /\ p \notin oldTokens
            \/ /\ charter.manifest[p] = "old" /\ newTokens[p] = 0 /\ p \in oldTokens
               /\ p \notin outdated[o]

\* What stops an upgrade: a policy queued before there were settings, whose run was left
\* (the settings policy is queued before what is pending is committed); a queued
\* replacement of a policy, or a missing record of a settings policy, that the page
\* has not found to be outdated.
Blocked(o) ==
    LET c == CharterSeen(o) IN
    \/ c.manifest[Settings] = "none" /\ c.pending # <<>>
    \/ \E p \in Replaced(c) : c.manifest[p] = "old" /\ p \notin outdated[o] \cup Detectable(o)
    \/ ~c.settings /\ c.manifest[Settings] = "old" /\ Settings \notin outdated[o] \cup Detectable(o)

\* Wherever earlier runs were left, an upgrade that nobody crosses fails nowhere else,
\* and leaves no policy half deployed when it ends.
RunsRecover ==
    damaged \/ \A o \in clean :
                 /\ page[o] = "failed" => Blocked(o)
                 /\ page[o] = "done" => Deployed(o)

=============================================================================
