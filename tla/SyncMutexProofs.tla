-------------------------- MODULE SyncMutexProofs --------------------------
(***************************************************************************)
(* Theorems about SyncMutex, for any number of tabs and any staleness: the *)
(* type invariant, the refinement of Lease under every fault, and that two *)
(* tabs never sync at once while timers are on time.                       *)
(***************************************************************************)
EXTENDS SyncMutex, TLAPS

LEMMA InitTypes == Init => TypeOK
<1>1. ClosedTab \in TabStates
  BY SyncAssumption DEF TabStates, ClosedTab, InitialSyncStages
<1>2. NoMutex \in [pid : Tabs \cup {NoTab}, age : 0 .. Staleness + 1]
  BY SyncAssumption DEF NoMutex
<1> QED BY <1>1, <1>2, SyncAssumption DEF Init, TypeOK

\* A step that gives one tab a state of the type keeps the tabs in theirs.
LEMMA OneTab ==
  ASSUME TypeOK, NEW t \in Tabs, NEW s \in TabStates, Put(t, s)
  PROVE  tab' \in [Tabs -> TabStates]
BY DEF TypeOK, Put

LEMMA Zeros == 0 \in 0 .. MaxWait /\ 0 \in 0 .. MaxTips
BY SyncAssumption

\* A row that is acquired, freshened or removed is of the type.
LEMMA RowTypes ==
  /\ NoMutex \in [pid : Tabs \cup {NoTab}, age : 0 .. Staleness + 1]
  /\ \A t \in Tabs :
       [pid |-> t, age |-> 0] \in [pid : Tabs \cup {NoTab}, age : 0 .. Staleness + 1]
BY SyncAssumption DEF NoMutex

\* Every action gives a tab a state of the type.
LEMMA StepTypes == TypeOK /\ [Next]_vars => TypeOK'
<1> SUFFICES ASSUME TypeOK, [Next]_vars PROVE TypeOK'
  OBVIOUS
<1>a. ASSUME NEW t \in Tabs PROVE tab[t] \in TabStates
  BY DEF TypeOK
<1>b. mutex \in [pid : Tabs \cup {NoTab}, age : 0 .. Staleness + 1]
  BY DEF TypeOK
<1>1. CASE Tick
  <2>1. mutex' \in [pid : Tabs \cup {NoTab}, age : 0 .. Staleness + 1]
    <3>1. CASE mutex.pid # NoTab /\ ~Stale
      <4>1. mutex.age + 1 \in 0 .. Staleness + 1 /\ mutex.pid \in Tabs \cup {NoTab}
        BY <1>b, <3>1, SyncAssumption DEF Stale
      <4> QED BY <4>1, <3>1, <1>1 DEF Tick
    <3> QED BY <3>1, <1>1, <1>b DEF Tick
  <2>2. ASSUME NEW t \in Tabs
        PROVE  [tab[t] EXCEPT !.polled = FALSE, !.waited = LongerWait(t)] \in TabStates
    <3>1. LongerWait(t) \in 0 .. MaxWait
      BY <1>a, SyncAssumption DEF TabStates, LongerWait
    <3> QED BY <1>a, <3>1 DEF TabStates
  <2> QED BY <1>1, <2>1, <2>2 DEF Tick, TypeOK
<1>2. ASSUME NEW t \in Tabs, Open(t) PROVE TypeOK'
  <2>1. PICK r \in {"on", "no"} :
          Put(t, [tab[t] EXCEPT !.pc = "loading", !.refresh = r])
    BY <1>2 DEF Open
  <2>2. [tab[t] EXCEPT !.pc = "loading", !.refresh = r] \in TabStates
    BY <1>a DEF TabStates, InitialSyncStages
  <2> QED BY <1>2, <2>1, <2>2, OneTab, Zenon DEF Open, TypeOK
<1>3. ASSUME NEW t \in Tabs, FirstTry(t) PROVE TypeOK'
  <2>1. [tab[t] EXCEPT !.pc = "owned", !.isSyncOwner = TRUE] \in TabStates
    BY <1>a, SyncAssumption DEF TabStates, InitialSyncStages
  <2>2. [tab[t] EXCEPT !.pc = "waiting"] \in TabStates
    BY <1>a, SyncAssumption DEF TabStates, InitialSyncStages
  <2> QED BY <1>3, <1>b, <2>1, <2>2, OneTab, RowTypes DEF FirstTry, TypeOK, Acquire
<1>4. ASSUME NEW t \in Tabs, ChooseSync(t) PROVE TypeOK'
  <2>1. [tab[t] EXCEPT !.pc = "fullSync"] \in TabStates
    BY <1>a, SyncAssumption DEF TabStates, InitialSyncStages
  <2>2. [tab[t] EXCEPT !.pc = "cycling", !.cycle = "initial"] \in TabStates
    BY <1>a, SyncAssumption DEF TabStates, InitialSyncStages
  <2>3. [tab[t] EXCEPT !.pc = "marking"] \in TabStates
    BY <1>a, SyncAssumption DEF TabStates, InitialSyncStages
  <2> QED BY <1>4, <1>b, <2>1, <2>2, <2>3, OneTab, RowTypes DEF ChooseSync, TypeOK
<1>5. ASSUME NEW t \in Tabs, FullSyncDone(t) PROVE TypeOK'
  <2>1. [tab[t] EXCEPT !.pc = "marking"] \in TabStates
    BY <1>a, SyncAssumption DEF TabStates, InitialSyncStages
  <2> QED BY <1>5, <1>b, <2>1, OneTab, RowTypes DEF FullSyncDone, TypeOK
<1>6. ASSUME NEW t \in Tabs, MarkDone(t) PROVE TypeOK'
  <2>1. [tab[t] EXCEPT !.pc = "ready"] \in TabStates
    BY <1>a, SyncAssumption DEF TabStates, InitialSyncStages
  <2> QED BY <1>6, <1>b, <2>1, OneTab, RowTypes DEF MarkDone, TypeOK
<1>7. ASSUME NEW t \in Tabs, WaitTurn(t) PROVE TypeOK'
  <2>1. [tab[t] EXCEPT !.pc = "ready", !.waited = 0] \in TabStates
    BY <1>a, Zeros DEF TabStates, InitialSyncStages
  <2>2. [tab[t] EXCEPT !.pc = "tookOver", !.waited = 0, !.isSyncOwner = TRUE] \in TabStates
    BY <1>a, Zeros DEF TabStates, InitialSyncStages
  <2> QED BY <1>7, <1>b, <2>1, <2>2, OneTab, RowTypes DEF WaitTurn, TypeOK, Acquire
<1>8. ASSUME NEW t \in Tabs, StartOver(t) PROVE TypeOK'
  <2>1. [tab[t] EXCEPT !.pc = "reloading", !.isSyncOwner = FALSE] \in TabStates
    BY <1>a, SyncAssumption DEF TabStates, InitialSyncStages
  <2> QED BY <1>8, <1>b, <2>1, OneTab, RowTypes DEF StartOver, TypeOK, ReleaseMutex
<1>9. ASSUME NEW t \in Tabs, StartRefresh(t) PROVE TypeOK'
  <2>1. [tab[t] EXCEPT !.refresh = "on"] \in TabStates
    BY <1>a, SyncAssumption DEF TabStates, InitialSyncStages
  <2> QED BY <1>9, <1>b, <2>1, OneTab, RowTypes DEF StartRefresh, TypeOK
<1>10. ASSUME NEW t \in Tabs, StopRefresh(t) PROVE TypeOK'
  <2> DEFINE r == IF tab[t].refresh = "on" THEN "stopped" ELSE "no"
             w == tab[t].releasing \/ tab[t].isSyncOwner
  <2>1. Put(t, [tab[t] EXCEPT !.refresh = r, !.releasing = w])
    BY <1>10 DEF StopRefresh
  <2>2. r \in {"no", "stopped"} /\ w \in BOOLEAN
    BY Zenon
  <2> HIDE DEF r, w
  <2>3. [tab[t] EXCEPT !.refresh = r, !.releasing = w] \in TabStates
    BY <1>a, <2>2 DEF TabStates
  <2> QED BY <1>10, <2>1, <2>3, OneTab DEF StopRefresh, TypeOK
<1>11. ASSUME NEW t \in Tabs, StopReleases(t) PROVE TypeOK'
  <2>1. [tab[t] EXCEPT !.releasing = FALSE, !.isSyncOwner = FALSE] \in TabStates
    BY <1>a, SyncAssumption DEF TabStates, InitialSyncStages
  <2> QED BY <1>11, <1>b, <2>1, OneTab, RowTypes DEF StopReleases, TypeOK, ReleaseMutex
<1>12. ASSUME NEW t \in Tabs, Poll(t) PROVE TypeOK'
  <2>1. [tab[t] EXCEPT !.poll = IF tab[t].isSyncOwner THEN "freshening" ELSE "acquiring"] \in TabStates
    BY <1>a, SyncAssumption DEF TabStates, InitialSyncStages
  <2> QED BY <1>12, <1>b, <2>1, OneTab, RowTypes DEF Poll, TypeOK
<1>13. ASSUME NEW t \in Tabs, InitialSyncFails(t) PROVE TypeOK'
  <2> DEFINE c == IF tab[t].cycle = "initial" THEN "none" ELSE tab[t].cycle
  <2>1. c \in {"none", "initial", "poll"}
    BY <1>a DEF TabStates
  <2>2. Put(t, [tab[t] EXCEPT !.pc = "failed", !.isSyncOwner = FALSE, !.cycle = c])
    BY <1>13 DEF InitialSyncFails
  <2> HIDE DEF c
  <2>3. [tab[t] EXCEPT !.pc = "failed", !.isSyncOwner = FALSE, !.cycle = c] \in TabStates
    BY <1>a, <2>1 DEF TabStates
  <2> QED BY <1>13, <1>b, <2>2, <2>3, OneTab, RowTypes
     DEF InitialSyncFails, ReleaseMutex, TypeOK
<1>14. ASSUME NEW t \in Tabs, PollFreshens(t) PROVE TypeOK'
  <2>1. CASE tab[t].tips < MaxTips
    <3> DEFINE n == tab[t].tips + 1
    <3>1. n \in 0 .. MaxTips
      BY <1>a, <2>1, SyncAssumption DEF TabStates
    <3> HIDE DEF n
    <3>2. [tab[t] EXCEPT !.poll = "none", !.polled = TRUE, !.tips = n] \in TabStates
      BY <1>a, <3>1 DEF TabStates
    <3>3. [tab[t] EXCEPT !.poll = "none", !.polled = TRUE, !.isSyncOwner = FALSE] \in TabStates
      BY <1>a DEF TabStates
    <3>4. [tab[t] EXCEPT !.poll = "none", !.polled = TRUE, !.tips = @ + 1] \in TabStates
      BY <3>2 DEF n
    <3> QED BY <1>14, <1>b, <3>3, <3>4, OneTab, RowTypes
       DEF PollFreshens, Freshen, TypeOK, LosesOwnership
  <2>2. CASE ~(tab[t].tips < MaxTips)
    <3>1. [tab[t] EXCEPT !.poll = "none", !.polled = TRUE, !.isSyncOwner = FALSE] \in TabStates
      BY <1>a DEF TabStates
    <3> QED BY <1>14, <1>b, <2>2, <3>1, OneTab, RowTypes
       DEF PollFreshens, Freshen, TypeOK, LosesOwnership
  <2> QED BY <2>1, <2>2
<1>15. ASSUME NEW t \in Tabs, PollAcquires(t) PROVE TypeOK'
  <2>1. CASE tab[t].tips < MaxTips
    <3> DEFINE n == tab[t].tips + 1
    <3>1. n \in 0 .. MaxTips
      BY <1>a, <2>1, SyncAssumption DEF TabStates
    <3> HIDE DEF n
    <3>2. [tab[t] EXCEPT !.poll = "none", !.polled = TRUE, !.tips = n, !.isSyncOwner = TRUE] \in TabStates
      BY <1>a, <3>1 DEF TabStates
    <3>3. [tab[t] EXCEPT !.poll = "none", !.polled = TRUE] \in TabStates
      BY <1>a DEF TabStates
    <3>4. [tab[t] EXCEPT !.poll = "none", !.polled = TRUE, !.tips = @ + 1, !.isSyncOwner = TRUE] \in TabStates
      BY <3>2 DEF n
    <3> QED BY <1>15, <1>b, <3>3, <3>4, OneTab, RowTypes DEF PollAcquires, Acquire, TypeOK
  <2>2. CASE ~(tab[t].tips < MaxTips)
    <3>1. [tab[t] EXCEPT !.poll = "none", !.polled = TRUE] \in TabStates
      BY <1>a DEF TabStates
    <3> QED BY <1>15, <1>b, <2>2, <3>1, OneTab, RowTypes DEF PollAcquires, Acquire, TypeOK
  <2> QED BY <2>1, <2>2
<1>16. ASSUME NEW t \in Tabs, TipAnswered(t) PROVE TypeOK'
  <2>1. PICK newBlock \in BOOLEAN :
          Put(t, [tab[t] EXCEPT !.tips = @ - 1,
                     !.cycle = IF newBlock /\ tab[t].cycle = "none" THEN "poll" ELSE tab[t].cycle])
    BY <1>16 DEF TipAnswered
  <2> DEFINE n == tab[t].tips - 1
             c == IF newBlock /\ tab[t].cycle = "none" THEN "poll" ELSE tab[t].cycle
  <2>2. n \in 0 .. MaxTips /\ c \in {"none", "initial", "poll"}
    BY <1>a, <1>16, SyncAssumption DEF TabStates, TipAnswered
  <2>3. Put(t, [tab[t] EXCEPT !.tips = n, !.cycle = c])
    BY <2>1
  <2> HIDE DEF n, c
  <2>4. [tab[t] EXCEPT !.tips = n, !.cycle = c] \in TabStates
    BY <1>a, <2>2 DEF TabStates
  <2> QED BY <1>16, <2>3, <2>4, OneTab DEF TipAnswered, TypeOK
<1>17. ASSUME NEW t \in Tabs, CycleEnds(t) PROVE TypeOK'
  <2> DEFINE p == IF tab[t].cycle = "initial" THEN "marking" ELSE tab[t].pc
  <2>1. Put(t, [tab[t] EXCEPT !.cycle = "none", !.pc = p])
    BY <1>17 DEF CycleEnds
  <2>2. p \in {"closed", "crashed", "ready", "failed"} \cup InitialSyncStages
    BY <1>a DEF TabStates, InitialSyncStages
  <2> HIDE DEF p
  <2>3. [tab[t] EXCEPT !.cycle = "none", !.pc = p] \in TabStates
    BY <1>a, <2>2 DEF TabStates
  <2> QED BY <1>17, <2>1, <2>3, OneTab DEF CycleEnds, TypeOK
<1>18. ASSUME NEW t \in Tabs, Crash(t) PROVE TypeOK'
  <2>1. [ClosedTab EXCEPT !.pc = "crashed"] \in TabStates
    BY Zeros DEF TabStates, ClosedTab, InitialSyncStages
  <2> QED BY <1>18, <2>1, OneTab DEF Crash, TypeOK
<1>19. CASE UNCHANGED vars
  BY <1>19 DEF vars, TypeOK
<1> QED BY <1>1, <1>2, <1>3, <1>4, <1>5, <1>6, <1>7, <1>8, <1>9, <1>10, <1>11, <1>12, <1>13, <1>14, <1>15, <1>16, <1>17, <1>18, <1>19
   DEF Next, InitialSync, Refresh

\* The type invariant of SyncMutex.
THEOREM TypeCorrect == Spec => []TypeOK
BY InitTypes, StepTypes, PTL DEF Spec

-----------------------------------------------------------------------------
(* The row is a lease *)

Granting(t) == mutex' = [pid |-> t, age |-> 0] /\ Acquirable(t)
Removing    == mutex' = NoMutex /\ mutex.pid # NoTab
Ageing      == mutex' = [pid |-> mutex.pid, age |-> mutex.age + 1] /\ mutex.pid # NoTab /\ ~Stale

\* The four things that can happen to the row in a step.
LEMMA RowSteps ==
  [Next]_vars => \/ UNCHANGED mutex
                 \/ \E t \in Tabs : Granting(t)
                 \/ Removing
                 \/ Ageing
<1> SUFFICES ASSUME [Next]_vars
             PROVE  UNCHANGED mutex \/ (\E t \in Tabs : Granting(t)) \/ Removing \/ Ageing
  OBVIOUS
<1>a. ASSUME NEW t \in Tabs, ReleaseMutex(t) PROVE UNCHANGED mutex \/ Removing
  BY <1>a, SyncAssumption DEF ReleaseMutex, Removing
<1>1. CASE Tick
  BY <1>1 DEF Tick, Ageing
<1>2. ASSUME NEW t \in Tabs, InitialSync(t) PROVE UNCHANGED mutex \/ Granting(t) \/ Removing
  <2>1. CASE FirstTry(t) \/ WaitTurn(t)
    BY <2>1 DEF FirstTry, WaitTurn, Acquire, Granting
  <2>2. CASE StartOver(t)
    BY <2>2, <1>a DEF StartOver
  <2>3. CASE ChooseSync(t) \/ FullSyncDone(t) \/ MarkDone(t)
    BY <2>3, Zenon DEF ChooseSync, FullSyncDone, MarkDone
  <2> QED BY <1>2, <2>1, <2>2, <2>3 DEF InitialSync
<1>3. ASSUME NEW t \in Tabs, InitialSyncFails(t) \/ StopReleases(t)
      PROVE  UNCHANGED mutex \/ Removing
  BY <1>3, <1>a DEF InitialSyncFails, StopReleases
<1>4. ASSUME NEW t \in Tabs, Refresh(t) PROVE UNCHANGED mutex \/ Granting(t)
  <2>1. CASE Poll(t)
    BY <2>1, Zenon DEF Poll
  <2>2. CASE PollFreshens(t)
    BY <2>2 DEF PollFreshens, Freshen, Granting, Acquirable
  <2>3. CASE PollAcquires(t)
    BY <2>3 DEF PollAcquires, Acquire, Granting
  <2> QED BY <1>4, <2>1, <2>2, <2>3 DEF Refresh
<1>5. ASSUME NEW t \in Tabs,
             Open(t) \/ StartRefresh(t) \/ StopRefresh(t) \/ TipAnswered(t) \/ CycleEnds(t)
               \/ Crash(t)
      PROVE  UNCHANGED mutex
  BY <1>5, Zenon DEF Open, StartRefresh, StopRefresh, TipAnswered, CycleEnds, Crash
<1>6. CASE UNCHANGED vars
  BY <1>6 DEF vars
<1> QED BY <1>1, <1>2, <1>3, <1>4, <1>5, <1>6 DEF Next

LEMMA LeaseSteps ==
  TypeOK /\ [Next]_vars => [LeaseHolder!Next]_<<mutex.pid, Stale>>
<1> SUFFICES ASSUME TypeOK, [Next]_vars
             PROVE  [LeaseHolder!Next]_<<mutex.pid, Stale>>
  OBVIOUS
<1>a. mutex.age \in 0 .. Staleness + 1 /\ mutex.pid \in Tabs \cup {NoTab}
  BY DEF TypeOK
<1>1. CASE UNCHANGED mutex
  BY <1>1 DEF Stale
<1>2. ASSUME NEW t \in Tabs, Granting(t) PROVE LeaseHolder!Next
  <2>1. mutex'.pid = t /\ ~Stale'
    BY <1>2, SyncAssumption DEF Granting, Stale
  <2>2. CASE mutex.pid = NoTab \/ Stale
    <3>1. LeaseHolder!Take(t)
      BY <2>1, <2>2 DEF LeaseHolder!Take
    <3> QED BY <3>1 DEF LeaseHolder!Next
  <2>3. CASE mutex.pid = t
    <3>1. LeaseHolder!Renew
      BY <2>1, <2>3, SyncAssumption DEF LeaseHolder!Renew
    <3> QED BY <3>1 DEF LeaseHolder!Next
  <2> QED BY <1>2, <2>2, <2>3 DEF Granting, Acquirable
<1>3. CASE Removing
  <2>1. mutex'.pid = NoTab /\ ~Stale'
    BY <1>3, SyncAssumption DEF Removing, NoMutex, Stale
  <2>2. LeaseHolder!Release
    BY <1>3, <2>1 DEF LeaseHolder!Release, Removing
  <2> QED BY <2>2 DEF LeaseHolder!Next
<1>4. CASE Ageing
  <2>1. mutex'.pid = mutex.pid /\ mutex.pid # NoTab /\ ~Stale
    BY <1>4 DEF Ageing
  <2>2. CASE Stale'
    <3>1. LeaseHolder!Expire
      BY <2>1, <2>2 DEF LeaseHolder!Expire
    <3> QED BY <3>1 DEF LeaseHolder!Next
  <2>3. CASE ~Stale'
    BY <2>1, <2>3 DEF Stale
  <2> QED BY <2>2, <2>3
<1> QED BY <1>1, <1>2, <1>3, <1>4, RowSteps

\* The syncMutex row implements the abstract lease, whatever goes wrong with
\* the tabs: two tabs never have it, and a tab that has it and is not stale
\* loses it by its own release only.
THEOREM MutexIsLease == Spec => ImplementsLease
<1>1. Init => LeaseHolder!Init
  BY SyncAssumption DEF Init, NoMutex, Stale, LeaseHolder!Init
<1> QED BY <1>1, TypeCorrect, LeaseSteps, PTL DEF Spec, ImplementsLease, LeaseHolder!Spec

-----------------------------------------------------------------------------
(* Two tabs never sync at once *)

\* What timers that are on time, and tabs that neither stop, fail nor start
\* their polls late, amount to; a tab may crash once an earlier session has
\* finished the initial sync.
Prompt == Faults \subseteq {"crash"} /\ ("crash" \in Faults => InitiallyDone)

\* A tab that syncs, or is about to, without asking the row again
Busy(t) ==
    \/ tab[t].isSyncOwner \/ tab[t].tips > 0 \/ tab[t].cycle # "none"
    \/ tab[t].pc \in {"owned", "cycling", "fullSync", "marking"}

Granted(t)  == Busy(t) => mutex.pid = t
Quiet(t)    == ~Alive(t) => ~Busy(t) /\ tab[t].poll = "none"
KeepsOn(t)  == (Alive(t) => tab[t].refresh = "on") /\ ~tab[t].releasing /\ tab[t].pc # "tookOver"
Fresh(t)    == mutex.pid = t => /\ tab[t].pc # "closed"
                                /\ Alive(t) => mutex.age <= IF tab[t].polled THEN 0 ELSE 1
Attended(t) == ~InitiallyDone => /\ mutex.pid = t => Alive(t)
                                 /\ tab[t].pc = "waiting" => mutex.pid \notin {t, NoTab}

TabInv(t) == Granted(t) /\ Quiet(t) /\ KeepsOn(t) /\ Fresh(t) /\ Attended(t)

\* OneSyncer is not inductive: it needs that whatever leads to a cycle is done
\* under the mutex (Granted), and that the mutex of a live tab never gets stale
\* (Fresh), for its polls never stop (KeepsOn).
SyncInv ==
    /\ TypeOK
    /\ InitiallyDone => initialSyncDone
    /\ \A t \in Tabs : TabInv(t)

LEMMA Unchanged ==
  ASSUME TypeOK, NEW t \in Tabs, NEW s, Put(t, s)
  PROVE  tab'[t] = s /\ \A u \in Tabs \ {t} : tab'[u] = tab[u]
BY DEF TypeOK, Put

\* A tab has the mutex to itself as long as it lives.
LEMMA NotStale ==
  ASSUME SyncInv, NEW u \in Tabs, mutex.pid = u, Alive(u)
  PROVE  ~Stale
<1>1. mutex.age <= 1 /\ mutex.age \in Nat
  BY SyncAssumption DEF SyncInv, TabInv, Fresh, TypeOK
<1> QED BY <1>1, SyncAssumption DEF Stale

\* A step of one tab that leaves the row alone, or is granted it, leaves the
\* other tabs as they were.
LEMMA OtherTabs ==
  ASSUME SyncInv, NEW t \in Tabs, NEW u \in Tabs \ {t}, tab'[u] = tab[u],
         UNCHANGED mutex \/ Granting(t)
  PROVE  TabInv(u)'
<1>a. TabInv(u)
  BY DEF SyncInv
<1>b. Busy(u)' = Busy(u) /\ Alive(u)' = Alive(u)
  BY DEF Busy, Alive
<1>1. CASE UNCHANGED mutex
  BY <1>a, <1>b, <1>1, Zenon DEF TabInv, Granted, Quiet, KeepsOn, Fresh, Attended
<1>2. CASE Granting(t)
  <2>1. ~Busy(u)
    <3>1. SUFFICES ASSUME Busy(u) PROVE FALSE
      OBVIOUS
    <3>2. mutex.pid = u /\ Alive(u)
      BY <1>a, <3>1 DEF TabInv, Granted, Quiet
    <3>3. Stale
      BY <1>2, <3>2, SyncAssumption DEF Granting, Acquirable
    <3> QED BY <3>2, <3>3, NotStale
  <2>2. mutex'.pid = t /\ t # u /\ t # NoTab
    BY <1>2, SyncAssumption DEF Granting
  <2> QED BY <1>a, <1>b, <2>1, <2>2 DEF TabInv, Granted, Quiet, KeepsOn, Fresh, Attended
<1> QED BY <1>1, <1>2

\* One step of one tab: its own part is all there is to show.
LEMMA OneTabMoves ==
  ASSUME SyncInv, TypeOK', NEW t \in Tabs, NEW s, Put(t, s),
         UNCHANGED mutex \/ Granting(t), initialSyncDone => initialSyncDone',
         TabInv(t)'
  PROVE  SyncInv'
<1>1. ASSUME NEW u \in Tabs \ {t} PROVE TabInv(u)'
  <2>1. tab'[u] = tab[u]
    BY Unchanged DEF SyncInv
  <2> QED BY <2>1, OtherTabs
<1> QED BY <1>1 DEF SyncInv

LEMMA SyncInvStep ==
  ASSUME Prompt, SyncInv, [Next]_vars
  PROVE  SyncInv'
<1>a. TypeOK /\ TypeOK'
  BY StepTypes DEF SyncInv
<1>b. ASSUME NEW t \in Tabs PROVE TabInv(t) /\ tab[t] \in TabStates
  BY DEF SyncInv, TypeOK
<1>c. mutex \in [pid : Tabs \cup {NoTab}, age : 0 .. Staleness + 1]
  BY DEF SyncInv, TypeOK
<1>d. Faults \cap {"stall", "lateRefresh", "stop", "fail"} = {}
  BY DEF Prompt
<1>e. DOMAIN tab = Tabs
  BY <1>a DEF TypeOK
<1>1. CASE Tick
  <2>1. \A t \in Tabs : Alive(t) => tab[t].polled
    BY <1>1, <1>b, <1>d DEF Tick, TabInv, KeepsOn
  <2>2. ASSUME NEW t \in Tabs PROVE TabInv(t)'
    <3> DEFINE w == LongerWait(t)
    <3>1. tab'[t] = [tab[t] EXCEPT !.polled = FALSE, !.waited = w]
      BY <1>1 DEF Tick
    <3> HIDE DEF w
    <3>2. /\ tab'[t].pc = tab[t].pc /\ tab'[t].isSyncOwner = tab[t].isSyncOwner
          /\ tab'[t].tips = tab[t].tips /\ tab'[t].cycle = tab[t].cycle
          /\ tab'[t].refresh = tab[t].refresh /\ tab'[t].releasing = tab[t].releasing
          /\ tab'[t].poll = tab[t].poll /\ tab'[t].polled = FALSE
      BY <1>b, <3>1 DEF TabStates
    <3>3. mutex'.pid = mutex.pid /\ mutex'.age <= mutex.age + 1
      <4>1. mutex.age \in 0 .. Staleness + 1
        BY <1>c
      <4>2. mutex' = mutex \/ mutex' = [pid |-> mutex.pid, age |-> mutex.age + 1]
        BY <1>1 DEF Tick
      <4> QED BY <4>1, <4>2, SyncAssumption
    <3>4. Fresh(t)'
      <4>1. mutex.pid = t /\ Alive(t) => mutex.age <= 0
        BY <2>1, <1>b DEF TabInv, Fresh
      <4>2. mutex'.age \in 0 .. Staleness + 1
        BY <1>a DEF TypeOK
      <4> QED BY <4>1, <4>2, <3>2, <3>3, <1>b, <1>c DEF TabInv, Fresh, Alive
    <3>5. Busy(t)' = Busy(t) /\ Alive(t)' = Alive(t)
      BY <3>2 DEF Busy, Alive
    <3> QED BY <1>b, <3>2, <3>3, <3>4, <3>5, Zenon
       DEF TabInv, Granted, Quiet, KeepsOn, Attended
  <2> QED BY <1>1, <1>a, <2>2 DEF Tick, SyncInv
<1>2. ASSUME NEW t \in Tabs, Open(t) PROVE SyncInv'
  <2>1. Put(t, [tab[t] EXCEPT !.pc = "loading", !.refresh = "on"])
    BY <1>2, <1>d DEF Open
  <2>2. tab'[t] = [tab[t] EXCEPT !.pc = "loading", !.refresh = "on"]
    BY <1>a, <2>1, Unchanged
  <2>3. TabInv(t)'
    BY <1>2, <1>b, <2>2
       DEF Open, TabStates, TabInv, Granted, Quiet, KeepsOn, Fresh, Attended, Busy, Alive
  <2> QED BY <1>2, <1>a, <2>1, <2>3, OneTabMoves DEF Open
<1>3. ASSUME NEW t \in Tabs, FirstTry(t) PROVE SyncInv'
  <2>1. CASE Acquirable(t)
    <3>1. Put(t, [tab[t] EXCEPT !.pc = "owned", !.isSyncOwner = TRUE]) /\ Granting(t)
      BY <1>3, <2>1 DEF FirstTry, Acquire, Granting
    <3>2. tab'[t] = [tab[t] EXCEPT !.pc = "owned", !.isSyncOwner = TRUE]
      BY <1>a, <3>1, Unchanged
    <3>3. TabInv(t)'
      BY <1>3, <1>b, <3>1, <3>2
         DEF FirstTry, Granting, TabStates, TabInv, Granted, Quiet, KeepsOn, Fresh,
             Attended, Busy, Alive
    <3> QED BY <1>3, <1>a, <3>1, <3>3, OneTabMoves DEF FirstTry
  <2>2. CASE ~Acquirable(t)
    <3>1. Put(t, [tab[t] EXCEPT !.pc = "waiting"]) /\ UNCHANGED mutex
      BY <1>3, <2>2 DEF FirstTry
    <3>2. tab'[t] = [tab[t] EXCEPT !.pc = "waiting"]
      BY <1>a, <3>1, Unchanged
    <3>3. TabInv(t)'
      BY <1>3, <1>b, <2>2, <3>1, <3>2
         DEF FirstTry, Acquirable, TabStates, TabInv, Granted, Quiet, KeepsOn, Fresh,
             Attended, Busy, Alive
    <3> QED BY <1>3, <1>a, <3>1, <3>3, OneTabMoves DEF FirstTry
  <2> QED BY <2>1, <2>2
<1>4. ASSUME NEW t \in Tabs, ChooseSync(t) PROVE SyncInv'
  <2>1. PICK p \in {"fullSync", "cycling", "marking"}, c \in {tab[t].cycle, "initial"} :
          Put(t, [tab[t] EXCEPT !.pc = p, !.cycle = c])
    <3>1. [tab[t] EXCEPT !.pc = "fullSync"] = [tab[t] EXCEPT !.pc = "fullSync", !.cycle = tab[t].cycle]
      BY <1>b DEF TabStates
    <3>2. [tab[t] EXCEPT !.pc = "marking"] = [tab[t] EXCEPT !.pc = "marking", !.cycle = tab[t].cycle]
      BY <1>b DEF TabStates
    <3> QED BY <1>4, <3>1, <3>2 DEF ChooseSync
  <2>2. tab'[t] = [tab[t] EXCEPT !.pc = p, !.cycle = c]
    BY <1>a, <2>1, Unchanged
  <2>3. TabInv(t)'
    BY <1>4, <1>b, <2>2
       DEF ChooseSync, TabStates, TabInv, Granted, Quiet, KeepsOn, Fresh, Attended, Busy,
           Alive
  <2> QED BY <1>4, <1>a, <2>1, <2>3, OneTabMoves DEF ChooseSync
<1>5. ASSUME NEW t \in Tabs, FullSyncDone(t) PROVE SyncInv'
  <2>1. tab'[t] = [tab[t] EXCEPT !.pc = "marking"]
    BY <1>5, <1>a, Unchanged DEF FullSyncDone
  <2>2. TabInv(t)'
    BY <1>5, <1>b, <2>1
       DEF FullSyncDone, TabStates, TabInv, Granted, Quiet, KeepsOn, Fresh, Attended, Busy,
           Alive
  <2> QED BY <1>5, <1>a, <2>2, OneTabMoves DEF FullSyncDone
<1>6. ASSUME NEW t \in Tabs, MarkDone(t) PROVE SyncInv'
  <2>1. tab'[t] = [tab[t] EXCEPT !.pc = "ready"]
    BY <1>6, <1>a, Unchanged DEF MarkDone
  <2>2. TabInv(t)'
    BY <1>6, <1>b, <2>1
       DEF MarkDone, TabStates, TabInv, Granted, Quiet, KeepsOn, Fresh, Attended, Busy,
           Alive
  <2> QED BY <1>6, <1>a, <2>2, OneTabMoves DEF MarkDone
<1>7. ASSUME NEW t \in Tabs, WaitTurn(t) PROVE SyncInv'
  <2>1. ~(~initialSyncDone /\ Acquirable(t))
    <3>1. SUFFICES ASSUME ~initialSyncDone, Acquirable(t) PROVE FALSE
      OBVIOUS
    <3>2. ~InitiallyDone
      BY <3>1 DEF SyncInv
    <3>3. mutex.pid \in Tabs \ {t} /\ Stale
      BY <1>7, <1>b, <1>c, <3>1, <3>2 DEF WaitTurn, Acquirable, TabInv, Attended
    <3>4. Alive(mutex.pid)
      BY <1>b, <3>2, <3>3 DEF TabInv, Attended
    <3> QED BY <3>3, <3>4, NotStale
  <2>2. Put(t, [tab[t] EXCEPT !.pc = "ready", !.waited = 0]) /\ UNCHANGED mutex
    BY <1>7, <2>1 DEF WaitTurn
  <2>3. tab'[t] = [tab[t] EXCEPT !.pc = "ready", !.waited = 0]
    BY <1>a, <2>2, Unchanged
  <2>4. TabInv(t)'
    BY <1>7, <1>b, <2>2, <2>3
       DEF WaitTurn, TabStates, TabInv, Granted, Quiet, KeepsOn, Fresh, Attended, Busy,
           Alive
  <2> QED BY <1>7, <1>a, <2>2, <2>4, OneTabMoves DEF WaitTurn
<1>8. ASSUME NEW t \in Tabs, StartOver(t) \/ InitialSyncFails(t) \/ StopRefresh(t) \/ StopReleases(t)
                               \/ StartRefresh(t)
      PROVE SyncInv'
  <2>1. tab[t].pc # "tookOver" /\ ~tab[t].releasing /\ (Alive(t) => tab[t].refresh = "on")
    BY <1>b DEF TabInv, KeepsOn
  <2> QED BY <1>8, <1>d, <2>1, Zenon
     DEF StartOver, InitialSyncFails, StopRefresh, StopReleases, StartRefresh
<1>9. ASSUME NEW t \in Tabs, Poll(t) PROVE SyncInv'
  <2> DEFINE p == IF tab[t].isSyncOwner THEN "freshening" ELSE "acquiring"
  <2>1. Put(t, [tab[t] EXCEPT !.poll = p])
    BY <1>9 DEF Poll
  <2> HIDE DEF p
  <2>2. tab'[t] = [tab[t] EXCEPT !.poll = p]
    BY <1>a, <2>1, Unchanged
  <2>3. TabInv(t)'
    BY <1>9, <1>b, <2>2
       DEF Poll, TabStates, TabInv, Granted, Quiet, KeepsOn, Fresh, Attended, Busy, Alive
  <2> QED BY <1>9, <1>a, <2>1, <2>3, OneTabMoves DEF Poll
<1>10. ASSUME NEW t \in Tabs, PollFreshens(t) PROVE SyncInv'
  <2>a. Alive(t)
    BY <1>10, <1>b DEF PollFreshens, TabInv, Quiet
  <2>1. CASE mutex.pid = t
    <3> DEFINE n == tab[t].tips + 1
    <3>1. Put(t, [tab[t] EXCEPT !.poll = "none", !.polled = TRUE, !.tips = n]) /\ Granting(t)
      BY <1>10, <2>1 DEF PollFreshens, Freshen, Granting, Acquirable
    <3> HIDE DEF n
    <3>2. tab'[t] = [tab[t] EXCEPT !.poll = "none", !.polled = TRUE, !.tips = n]
      BY <1>a, <3>1, Unchanged
    <3>3. TabInv(t)'
      BY <1>b, <2>a, <2>1, <3>1, <3>2
         DEF Granting, TabStates, TabInv, Granted, Quiet, KeepsOn, Fresh, Attended, Busy,
             Alive
    <3> QED BY <1>10, <1>a, <3>1, <3>3, OneTabMoves DEF PollFreshens
  <2>2. CASE mutex.pid # t
    <3>1. Put(t, [tab[t] EXCEPT !.poll = "none", !.polled = TRUE, !.isSyncOwner = FALSE])
            /\ UNCHANGED mutex
      BY <1>10, <2>2 DEF PollFreshens, LosesOwnership
    <3>2. tab'[t] = [tab[t] EXCEPT !.poll = "none", !.polled = TRUE, !.isSyncOwner = FALSE]
      BY <1>a, <3>1, Unchanged
    <3>3. TabInv(t)'
      BY <1>b, <2>a, <2>2, <3>1, <3>2
         DEF TabStates, TabInv, Granted, Quiet, KeepsOn, Fresh, Attended, Busy, Alive
    <3> QED BY <1>10, <1>a, <3>1, <3>3, OneTabMoves DEF PollFreshens
  <2> QED BY <2>1, <2>2
<1>11. ASSUME NEW t \in Tabs, PollAcquires(t) PROVE SyncInv'
  <2>a. Alive(t)
    BY <1>11, <1>b DEF PollAcquires, TabInv, Quiet
  <2>1. CASE Acquirable(t)
    <3> DEFINE n == tab[t].tips + 1
    <3>1. Put(t, [tab[t] EXCEPT !.poll = "none", !.polled = TRUE, !.tips = n, !.isSyncOwner = TRUE])
            /\ Granting(t)
      BY <1>11, <2>1 DEF PollAcquires, Acquire, Granting
    <3> HIDE DEF n
    <3>2. tab'[t] = [tab[t] EXCEPT !.poll = "none", !.polled = TRUE, !.tips = n, !.isSyncOwner = TRUE]
      BY <1>a, <3>1, Unchanged
    <3>3. /\ tab'[t].pc = tab[t].pc /\ tab'[t].refresh = tab[t].refresh
          /\ tab'[t].releasing = tab[t].releasing /\ tab'[t].polled
      BY <1>b, <3>2 DEF TabStates
    <3>4. mutex'.pid = t /\ mutex'.age = 0 /\ t # NoTab
      BY <3>1, SyncAssumption DEF Granting
    <3>5. Alive(t)' /\ KeepsOn(t)' /\ tab'[t].pc # "closed"
      BY <1>b, <2>a, <3>3 DEF TabInv, KeepsOn, Alive
    <3>6. tab'[t].pc = "waiting" => InitiallyDone
      <4>1. tab[t].pc = "waiting" /\ ~InitiallyDone => mutex.pid \in Tabs \ {t} /\ Stale
        BY <1>b, <1>c, <2>1 DEF TabInv, Attended, Acquirable
      <4>2. mutex.pid \in Tabs /\ ~InitiallyDone => Alive(mutex.pid)
        BY <1>b DEF TabInv, Attended
      <4> QED BY <3>3, <4>1, <4>2, NotStale
    <3>7. TabInv(t)'
      BY <3>3, <3>4, <3>5, <3>6 DEF TabInv, Granted, Quiet, Fresh, Attended
    <3> QED BY <1>11, <1>a, <3>1, <3>7, OneTabMoves DEF PollAcquires
  <2>2. CASE ~Acquirable(t)
    <3>1. Put(t, [tab[t] EXCEPT !.poll = "none", !.polled = TRUE]) /\ UNCHANGED mutex
      BY <1>11, <2>2 DEF PollAcquires
    <3>2. tab'[t] = [tab[t] EXCEPT !.poll = "none", !.polled = TRUE]
      BY <1>a, <3>1, Unchanged
    <3>3. mutex.pid # t
      BY <2>2 DEF Acquirable
    <3>4. TabInv(t)'
      BY <1>b, <2>a, <3>1, <3>2, <3>3
         DEF TabStates, TabInv, Granted, Quiet, KeepsOn, Fresh, Attended, Busy, Alive
    <3> QED BY <1>11, <1>a, <3>1, <3>4, OneTabMoves DEF PollAcquires
  <2> QED BY <2>1, <2>2
<1>12. ASSUME NEW t \in Tabs, TipAnswered(t) PROVE SyncInv'
  <2>1. PICK newBlock \in BOOLEAN :
          Put(t, [tab[t] EXCEPT !.tips = @ - 1,
                     !.cycle = IF newBlock /\ tab[t].cycle = "none" THEN "poll" ELSE tab[t].cycle])
    BY <1>12 DEF TipAnswered
  <2> DEFINE n == tab[t].tips - 1
             c == IF newBlock /\ tab[t].cycle = "none" THEN "poll" ELSE tab[t].cycle
  <2>2. Put(t, [tab[t] EXCEPT !.tips = n, !.cycle = c])
    BY <2>1
  <2> HIDE DEF n, c
  <2>3. tab'[t] = [tab[t] EXCEPT !.tips = n, !.cycle = c]
    BY <1>a, <2>2, Unchanged
  <2>4. Busy(t)
    BY <1>12 DEF TipAnswered, Busy
  <2>5. TabInv(t)'
    BY <1>12, <1>b, <2>3, <2>4
       DEF TipAnswered, TabStates, TabInv, Granted, Quiet, KeepsOn, Fresh, Attended, Busy,
           Alive
  <2> QED BY <1>12, <1>a, <2>2, <2>5, OneTabMoves DEF TipAnswered
<1>13. ASSUME NEW t \in Tabs, CycleEnds(t) PROVE SyncInv'
  <2> DEFINE p == IF tab[t].cycle = "initial" THEN "marking" ELSE tab[t].pc
  <2>1. Put(t, [tab[t] EXCEPT !.cycle = "none", !.pc = p])
    BY <1>13 DEF CycleEnds
  <2>2. p \in {"marking", tab[t].pc}
    OBVIOUS
  <2> HIDE DEF p
  <2>3. tab'[t] = [tab[t] EXCEPT !.cycle = "none", !.pc = p]
    BY <1>a, <2>1, Unchanged
  <2>4. Busy(t)
    BY <1>13 DEF CycleEnds, Busy
  <2>5. TabInv(t)'
    BY <1>13, <1>b, <2>2, <2>3, <2>4
       DEF CycleEnds, TabStates, TabInv, Granted, Quiet, KeepsOn, Fresh, Attended, Busy,
           Alive
  <2> QED BY <1>13, <1>a, <2>1, <2>5, OneTabMoves DEF CycleEnds
<1>14. ASSUME NEW t \in Tabs, Crash(t) PROVE SyncInv'
  <2>1. InitiallyDone
    BY <1>14 DEF Crash, Prompt
  <2>2. tab'[t] = [ClosedTab EXCEPT !.pc = "crashed"]
    BY <1>14, <1>a, Unchanged DEF Crash
  <2>3. TabInv(t)'
    BY <2>1, <2>2
       DEF ClosedTab, TabInv, Granted, Quiet, KeepsOn, Fresh, Attended, Busy, Alive
  <2> QED BY <1>14, <1>a, <2>3, OneTabMoves DEF Crash
<1>15. CASE UNCHANGED vars
  <2>1. ASSUME NEW t \in Tabs PROVE TabInv(t)'
    BY <1>b, <1>15, Zenon
       DEF vars, TabInv, Granted, Quiet, KeepsOn, Fresh, Attended, Busy, Alive
  <2> QED BY <1>a, <1>15, <2>1 DEF vars, SyncInv
<1> QED BY <1>1, <1>2, <1>3, <1>4, <1>5, <1>6, <1>7, <1>8, <1>9, <1>10, <1>11, <1>12, <1>13, <1>14, <1>15
        DEF Next, InitialSync, Refresh

\* While timers are on time, and no tab stops, fails or starts its polls late,
\* two tabs never sync at once, however many tabs there are.
THEOREM OneSyncerAtATime ==
  ASSUME Prompt
  PROVE  Spec => []OneSyncer
<1>1. Init => SyncInv
  <2> SUFFICES ASSUME Init PROVE SyncInv
    OBVIOUS
  <2>1. ASSUME NEW t \in Tabs PROVE TabInv(t)
    <3>1. tab[t] = ClosedTab /\ mutex.pid # t
      BY SyncAssumption DEF Init, NoMutex
    <3> QED BY <3>1
       DEF ClosedTab, TabInv, Granted, Quiet, KeepsOn, Fresh, Attended, Busy, Alive
  <2> QED BY <2>1, InitTypes DEF Init, SyncInv
<1>2. SyncInv /\ [Next]_vars => SyncInv'
  BY SyncInvStep
<1>3. SyncInv => OneSyncer
  BY DEF SyncInv, TabInv, Granted, Busy, OneSyncer, Syncing
<1> QED BY <1>1, <1>2, <1>3, PTL DEF Spec
=============================================================================
