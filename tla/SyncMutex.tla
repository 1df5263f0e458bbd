----------------------------- MODULE SyncMutex -----------------------------
(***************************************************************************)
(* Browser tabs that share one IndexedDB elect the one that syncs the UTxO *)
(* index: the syncMutex row of DexieUtxoStore.ts, and the code of          *)
(* CachedUtxoIndex.ts that takes, freshens, loses and releases it.         *)
(*                                                                         *)
(* A tab is one CachedUtxoIndex: its constructor's syncNow(), the polls of *)
(* startPeriodicRefresh() and the sync cycle are concurrent activities     *)
(* that share its fields.  A Dexie transaction and the code that follows   *)
(* it up to the next await are one step.  Time is counted in poll          *)
(* intervals (5 s); what a cycle writes is left out.                       *)
(***************************************************************************)
EXTENDS Naturals

CONSTANTS
    Tabs,            \* each has a random pid of its own; a reload is a new tab
    NoTab,
    Staleness,       \* mutexStalenessMs, in poll intervals
    MaxWait,         \* the 120 s of waitForInitialSyncDone(), in poll intervals
    MaxTips,         \* bound: polls of one tab that await the chain tip
    InitiallyDone,   \* an earlier session has left initialSyncDone in the store
    Faults           \* what may go wrong in the environment

FaultKinds == {"stall",        \* timers of a tab run late (a throttled tab)
               "crash",        \* a tab is closed without notice
               "lateRefresh",  \* startPeriodicRefresh() is called later than syncNow()
               "stop",         \* stopPeriodicRefresh()
               "fail"}         \* the initial sync throws

ASSUME SyncAssumption ==
    /\ NoTab \notin Tabs
    /\ Staleness \in Nat /\ Staleness > 0
    /\ MaxWait \in Nat /\ MaxWait > Staleness
    /\ MaxTips \in Nat
    /\ InitiallyDone \in BOOLEAN
    /\ Faults \subseteq FaultKinds

VARIABLES
    mutex,            \* the syncMutex row: whose, and how old its timestamp is
    tab,              \* the fields and activities of each tab
    initialSyncDone,  \* metadata
    hasBlocks         \* getLatestBlock() finds a block

vars == <<mutex, tab, initialSyncDone, hasBlocks>>

\* syncNow() at: its first try for the mutex, the loop of
\* waitForInitialSyncDone(), the release inside it and the recursive call, the
\* choice by cached blocks, the first cycle, the full sync, the closing writes
InitialSyncStages == {"loading", "waiting", "tookOver", "reloading", "owned",
                      "cycling", "fullSync", "marking"}

TabStates ==
    [ pc : {"closed", "crashed", "ready", "failed"} \cup InitialSyncStages,
      isSyncOwner : BOOLEAN,
      refresh : {"no", "on", "stopped"},
      poll : {"none", "freshening", "acquiring"},
      polled : BOOLEAN,               \* the poll of this interval has looked
      tips : 0 .. MaxTips,            \* polls that await checkBlockTip()
      cycle : {"none", "initial", "poll"},  \* _syncInProgress, and its caller
      waited : 0 .. MaxWait,
      releasing : BOOLEAN ]           \* stopPeriodicRefresh() awaits its release

ClosedTab ==
    [ pc |-> "closed", isSyncOwner |-> FALSE, refresh |-> "no", poll |-> "none",
      polled |-> FALSE, tips |-> 0, cycle |-> "none", waited |-> 0, releasing |-> FALSE ]

NoMutex == [pid |-> NoTab, age |-> 0]

Init ==
    /\ mutex = NoMutex
    /\ tab = [t \in Tabs |-> ClosedTab]
    /\ initialSyncDone = InitiallyDone
    /\ hasBlocks = InitiallyDone

Put(t, s) == tab' = [tab EXCEPT ![t] = s]
Alive(t) == tab[t].pc \notin {"closed", "crashed"}

-----------------------------------------------------------------------------
(* The store: three atomic transactions on the row *)

Stale == mutex.age > Staleness

\* mutants: a row that is not of this very moment is taken; no row is ever stale
AcquirableEarly(t) == mutex.pid = NoTab \/ mutex.pid = t \/ mutex.age > 0
AcquirableNever(t) == mutex.pid = NoTab \/ mutex.pid = t

\* tryAcquireSyncMutex(): absent, ours, or stale
Acquirable(t) == mutex.pid = NoTab \/ mutex.pid = t \/ Stale

\* mutant: the row has no timestamp, and is older than any
AcquireUntimed(t) == mutex' = [pid |-> t, age |-> Staleness + 2]

Acquire(t) == mutex' = [pid |-> t, age |-> 0]

\* mutant: the row keeps its old timestamp
FreshenInVain(t) == UNCHANGED mutex

\* freshenSyncMutex() of the tab that has it
Freshen(t) == mutex' = [pid |-> t, age |-> 0]

\* releaseSyncMutex()
ReleaseMutex(t) == mutex' = IF mutex.pid = t THEN NoMutex ELSE mutex

-----------------------------------------------------------------------------
(* syncNow() *)

\* the constructor; enableUtxoCache() starts the polls at once, the index made
\* from the bundle's config has them started later
Open(t) ==
    /\ tab[t].pc = "closed"
    /\ \E refresh \in {"on"} \cup (IF "lateRefresh" \in Faults THEN {"no"} ELSE {}) :
         Put(t, [tab[t] EXCEPT !.pc = "loading", !.refresh = refresh])
    /\ UNCHANGED <<mutex, initialSyncDone, hasBlocks>>

FirstTry(t) ==
    /\ tab[t].pc \in {"loading", "reloading"}
    /\ \/ /\ Acquirable(t)
          /\ Acquire(t)
          /\ Put(t, [tab[t] EXCEPT !.pc = "owned", !.isSyncOwner = TRUE])
       \/ /\ ~Acquirable(t)
          /\ Put(t, [tab[t] EXCEPT !.pc = "waiting"])
          /\ UNCHANGED mutex
    /\ UNCHANGED <<initialSyncDone, hasBlocks>>

\* With cached blocks: a first cycle, unless a poll's cycle is running, which
\* the guard of runSyncCycle() takes for this one
ChooseSync(t) ==
    /\ tab[t].pc = "owned"
    /\ \/ /\ ~hasBlocks
          /\ Put(t, [tab[t] EXCEPT !.pc = "fullSync"])
       \/ /\ hasBlocks /\ tab[t].cycle = "none"
          /\ Put(t, [tab[t] EXCEPT !.pc = "cycling", !.cycle = "initial"])
       \/ /\ hasBlocks /\ tab[t].cycle # "none"
          /\ Put(t, [tab[t] EXCEPT !.pc = "marking"])
    /\ UNCHANGED <<mutex, initialSyncDone, hasBlocks>>

FullSyncDone(t) ==
    /\ tab[t].pc = "fullSync"
    /\ hasBlocks' = TRUE
    /\ Put(t, [tab[t] EXCEPT !.pc = "marking"])
    /\ UNCHANGED <<mutex, initialSyncDone>>

\* mutant: syncReady is not resolved
MarkDoneUnresolved(t) ==
    /\ tab[t].pc = "marking"
    /\ initialSyncDone' = TRUE
    /\ UNCHANGED <<mutex, tab, hasBlocks>>

\* markInitialSyncDone(), syncReadyResolve()
MarkDone(t) ==
    /\ tab[t].pc = "marking"
    /\ initialSyncDone' = TRUE
    /\ Put(t, [tab[t] EXCEPT !.pc = "ready"])
    /\ UNCHANGED <<mutex, hasBlocks>>

\* the catch of syncNow(); a cycle that a poll runs goes on
InitialSyncFails(t) ==
    /\ "fail" \in Faults
    /\ tab[t].pc \in {"owned", "cycling", "fullSync", "marking"}
    /\ ReleaseMutex(t)
    /\ Put(t, [tab[t] EXCEPT !.pc = "failed", !.isSyncOwner = FALSE,
              !.cycle = IF tab[t].cycle = "initial" THEN "none" ELSE tab[t].cycle])
    /\ UNCHANGED <<initialSyncDone, hasBlocks>>

\* One turn of the loop of waitForInitialSyncDone(): done, or out of patience;
\* otherwise a try for the mutex, which the tab may own through a poll
WaitTurn(t) ==
    /\ tab[t].pc = "waiting"
    /\ \/ /\ initialSyncDone \/ tab[t].waited = MaxWait
          /\ Put(t, [tab[t] EXCEPT !.pc = "ready", !.waited = 0])
          /\ UNCHANGED mutex
       \/ /\ ~initialSyncDone /\ tab[t].waited < MaxWait
          /\ Acquirable(t)
          /\ Acquire(t)
          /\ Put(t, [tab[t] EXCEPT !.pc = "tookOver", !.waited = 0,
                                  !.isSyncOwner = TRUE])
    /\ UNCHANGED <<initialSyncDone, hasBlocks>>

\* "Remove our mutex so the recursive call can re-acquire cleanly"
StartOver(t) ==
    /\ tab[t].pc = "tookOver"
    /\ ReleaseMutex(t)
    /\ Put(t, [tab[t] EXCEPT !.pc = "reloading", !.isSyncOwner = FALSE])
    /\ UNCHANGED <<initialSyncDone, hasBlocks>>

-----------------------------------------------------------------------------
(* startPeriodicRefresh(), stopPeriodicRefresh() *)

\* once: polls are stopped when the page's component goes, and not restarted
StartRefresh(t) ==
    /\ Alive(t) /\ tab[t].refresh = "no"
    /\ Put(t, [tab[t] EXCEPT !.refresh = "on"])
    /\ UNCHANGED <<mutex, initialSyncDone, hasBlocks>>

\* the page may go before its polls have started; they start all the same
StopRefresh(t) ==
    /\ "stop" \in Faults
    /\ Alive(t) /\ tab[t].refresh # "stopped"
    /\ Put(t, [tab[t] EXCEPT !.refresh = IF tab[t].refresh = "on" THEN "stopped" ELSE "no",
                             !.releasing = tab[t].releasing \/ tab[t].isSyncOwner])
    /\ UNCHANGED <<mutex, initialSyncDone, hasBlocks>>

StopReleases(t) ==
    /\ tab[t].releasing
    /\ ReleaseMutex(t)
    /\ Put(t, [tab[t] EXCEPT !.releasing = FALSE, !.isSyncOwner = FALSE])
    /\ UNCHANGED <<initialSyncDone, hasBlocks>>

\* The timer fires: what the poll does depends on isSyncOwner as it is now.
Poll(t) ==
    /\ Alive(t) /\ tab[t].refresh = "on"
    /\ ~tab[t].polled /\ tab[t].poll = "none"
    /\ Put(t, [tab[t] EXCEPT !.poll =
                 IF tab[t].isSyncOwner THEN "freshening" ELSE "acquiring"])
    /\ UNCHANGED <<mutex, initialSyncDone, hasBlocks>>

\* mutant: the poll does not look at the answer
LosesUnnoticed(t) == [tab[t] EXCEPT !.poll = "none", !.polled = TRUE]

\* the mutex has gone to another tab, or is gone
LosesOwnership(t) == [tab[t] EXCEPT !.poll = "none", !.polled = TRUE, !.isSyncOwner = FALSE]

PollFreshens(t) ==
    /\ tab[t].poll = "freshening"
    /\ \/ /\ mutex.pid = t /\ tab[t].tips < MaxTips
          /\ Freshen(t)
          /\ Put(t, [tab[t] EXCEPT !.poll = "none", !.polled = TRUE, !.tips = @ + 1])
       \/ /\ mutex.pid # t
          /\ Put(t, LosesOwnership(t))
          /\ UNCHANGED mutex
    /\ UNCHANGED <<initialSyncDone, hasBlocks>>

PollAcquires(t) ==
    /\ tab[t].poll = "acquiring"
    /\ \/ /\ Acquirable(t) /\ tab[t].tips < MaxTips
          /\ Acquire(t)
          /\ Put(t, [tab[t] EXCEPT !.poll = "none", !.polled = TRUE,
                                  !.tips = @ + 1, !.isSyncOwner = TRUE])
       \/ /\ ~Acquirable(t)
          /\ Put(t, [tab[t] EXCEPT !.poll = "none", !.polled = TRUE])
          /\ UNCHANGED mutex
    /\ UNCHANGED <<initialSyncDone, hasBlocks>>

\* checkBlockTip() answers; a new block starts a cycle, unless one is running
TipAnswered(t) ==
    /\ tab[t].tips > 0
    /\ \E newBlock \in BOOLEAN :
         Put(t, [tab[t] EXCEPT !.tips = @ - 1,
                   !.cycle = IF newBlock /\ tab[t].cycle = "none"
                               THEN "poll" ELSE tab[t].cycle])
    /\ UNCHANGED <<mutex, initialSyncDone, hasBlocks>>

\* the finally of runSyncCycle()
CycleEnds(t) ==
    /\ tab[t].cycle # "none"
    /\ Put(t, [tab[t] EXCEPT !.cycle = "none",
              !.pc = IF tab[t].cycle = "initial" THEN "marking" ELSE tab[t].pc])
    /\ UNCHANGED <<mutex, initialSyncDone, hasBlocks>>

-----------------------------------------------------------------------------
(* The environment *)

LongerWait(t) ==
    IF tab[t].pc = "waiting" /\ tab[t].waited < MaxWait THEN tab[t].waited + 1
                                                        ELSE tab[t].waited

\* One poll interval passes.  Unless timers stall, every poll that was due has
\* had its look at the mutex.
Tick ==
    /\ "stall" \in Faults
         \/ \A t \in Tabs : Alive(t) /\ tab[t].refresh = "on" => tab[t].polled
    /\ mutex' = IF mutex.pid # NoTab /\ ~Stale
                  THEN [pid |-> mutex.pid, age |-> mutex.age + 1] ELSE mutex
    /\ tab' = [t \in Tabs |-> [tab[t] EXCEPT !.polled = FALSE, !.waited = LongerWait(t)]]
    /\ UNCHANGED <<initialSyncDone, hasBlocks>>

Crash(t) ==
    /\ "crash" \in Faults
    /\ Alive(t)
    /\ Put(t, [ClosedTab EXCEPT !.pc = "crashed"])
    /\ UNCHANGED <<mutex, initialSyncDone, hasBlocks>>

InitialSync(t) == FirstTry(t) \/ ChooseSync(t) \/ FullSyncDone(t) \/ MarkDone(t)
                    \/ WaitTurn(t) \/ StartOver(t)
Refresh(t) == Poll(t) \/ PollFreshens(t) \/ PollAcquires(t)

Next ==
    \/ Tick
    \/ \E t \in Tabs :
         \/ Open(t) \/ InitialSync(t) \/ InitialSyncFails(t)
         \/ StartRefresh(t) \/ StopRefresh(t) \/ StopReleases(t)
         \/ Refresh(t) \/ TipAnswered(t) \/ CycleEnds(t)
         \/ Crash(t)

Spec == Init /\ [][Next]_vars

\* Time passes; the event loop of a live tab runs what is due; the network
\* answers, if only with an error.  Who opens, stops or crashes is free.
Fairness ==
    /\ WF_vars(Tick)
    /\ \A t \in Tabs :
         /\ WF_vars(InitialSync(t))
         /\ WF_vars(Refresh(t))
         /\ WF_vars(StopReleases(t))
         /\ WF_vars(TipAnswered(t))
         /\ WF_vars(CycleEnds(t))

FairSpec == Spec /\ Fairness

-----------------------------------------------------------------------------
(* Properties *)

TypeOK ==
    /\ mutex \in [pid : Tabs \cup {NoTab}, age : 0 .. Staleness + 1]
    /\ tab \in [Tabs -> TabStates]
    /\ initialSyncDone \in BOOLEAN
    /\ hasBlocks \in BOOLEAN

Syncing(t) == tab[t].cycle # "none" \/ tab[t].pc = "fullSync"

\* The row is a lease: it implements the abstract one.
LeaseHolder == INSTANCE Lease WITH
    Clients <- Tabs, Nobody <- NoTab,
    holder <- mutex.pid, expired <- Stale
ImplementsLease == LeaseHolder!Spec

\* Two tabs never sync at once.
OneSyncer == \A t, u \in Tabs : Syncing(t) /\ Syncing(u) => t = u

\* A tab that takes itself for the owner when it is not finds out: one of its
\* polls corrects it, unless it has no polls any more.
Mistaken(t) == Alive(t) /\ tab[t].refresh = "on" /\ tab[t].isSyncOwner /\ mutex.pid # t
MistakenOwnerFindsOut == \A t \in Tabs : Mistaken(t) ~> ~Mistaken(t)

\* While some tab keeps polling, the mutex does not stay with a tab that is
\* gone, or with one that has stopped.
Polls(t) == Alive(t) /\ tab[t].refresh = "on"
SomeoneSyncs ==
    \A t \in Tabs : <>[]Polls(t) => []<>(\E u \in Tabs : Polls(u) /\ mutex.pid = u)

\* Every initial sync comes to an end, that of a tab that waits for another
\* one's included: syncReady resolves, or syncNow() throws.
InitialSyncEnds ==
    \A t \in Tabs : tab[t].pc = "loading" ~> tab[t].pc \in {"ready", "failed", "crashed"}
=============================================================================
