------------------------------ MODULE WriteLock ------------------------------
(***************************************************************************)
(* DexieUtxoStore.withWriteLock(): a row of the metadata table that the    *)
(* tabs use as a lock, and the transaction of IndexedDB the caller's writes *)
(* are made in.  That transaction covers the metadata table too, so that   *)
(* the store runs no other step on the row meanwhile.                      *)
(***************************************************************************)
EXTENDS Naturals, FiniteSets

CONSTANTS
    Writers,  \* calls of withWriteLock()
    TabOf,    \* the tab each call is made in, whose pid it gives
    StaleAge  \* WRITE_LOCK_STALE_MS, in ticks

NoTab == "none"
LockTabs == {TabOf[w] : w \in Writers}

ASSUME WriteLockAssumption ==
    /\ StaleAge \in Nat
    /\ NoTab \notin LockTabs

VARIABLES
    row,      \* the "writeLock" row: whose it is, and its age
    call,     \* how far each call is
    stale,    \* history: a row was taken over as stale
    overlaps  \* history: two calls of one tab had the row at once

lockVars == <<row, call, stale, overlaps>>

NoRow == [pid |-> NoTab, age |-> 0]
Stages == {"idle", "acquiring", "locked", "writing", "written", "done", "dead"}

LockTypeOK ==
    /\ row \in [pid : LockTabs \cup {NoTab}, age : 0..StaleAge + 1]
    /\ call \in [Writers -> Stages]
    /\ stale \in BOOLEAN
    /\ overlaps \in BOOLEAN

LockInit ==
    /\ row = NoRow
    /\ call = [w \in Writers |-> "idle"]
    /\ stale = FALSE
    /\ overlaps = FALSE

-----------------------------------------------------------------------------
\* Between acquireWriteLock() and releaseWriteLock().
Holding == {w \in Writers : call[w] \in {"locked", "writing", "written"}}
Writing == {w \in Writers : call[w] = "writing"}
MetadataFree == Writing = {}
Goes(w, stage) == call' = [call EXCEPT ![w] = stage]

\* mutant: a row is never too old
StaleNever == row.age > StaleAge + 1

StaleRow == row.age > StaleAge

withWriteLock(w) ==
    /\ call[w] = "idle"
    /\ Goes(w, "acquiring")
    /\ UNCHANGED <<row, stale, overlaps>>

\* mutant: another tab's row is not looked at
acquireAnyRow(w) ==
    /\ call[w] = "acquiring" /\ MetadataFree
    /\ row' = [pid |-> TabOf[w], age |-> 0]
    /\ overlaps' = (overlaps \/ \E v \in Holding : TabOf[v] = TabOf[w])
    /\ Goes(w, "locked")
    /\ UNCHANGED stale

\* The row is absent, this tab's own, or too old.  Otherwise the call comes
\* back after WRITE_LOCK_RETRY_MS.
acquireWriteLock(w) ==
    /\ call[w] = "acquiring" /\ MetadataFree
    /\ row.pid \in {NoTab, TabOf[w]} \/ StaleRow
    /\ row' = [pid |-> TabOf[w], age |-> 0]
    /\ stale' = (stale \/ (row.pid \notin {NoTab, TabOf[w]} /\ StaleRow))
    /\ overlaps' = (overlaps \/ \E v \in Holding : TabOf[v] = TabOf[w])
    /\ Goes(w, "locked")

\* The transaction begins, and ends by committing or by an error of the callback.
Begins(w) ==
    /\ call[w] = "locked" /\ MetadataFree
    /\ Goes(w, "writing")
    /\ UNCHANGED <<row, stale, overlaps>>

Ends(w) ==
    /\ call[w] = "writing"
    /\ Goes(w, "written")
    /\ UNCHANGED <<row, stale, overlaps>>

releaseWriteLock(w) ==
    /\ call[w] = "written" /\ MetadataFree
    /\ row' = IF row.pid = TabOf[w] THEN NoRow ELSE row
    /\ Goes(w, "done")
    /\ UNCHANGED <<stale, overlaps>>

\* The tab is closed: the store aborts its transaction, and the row stays.
LockTabCloses(t) ==
    /\ \E w \in Writers : TabOf[w] = t /\ call[w] # "dead"
    /\ call' = [w \in Writers |-> IF TabOf[w] = t THEN "dead" ELSE call[w]]
    /\ UNCHANGED <<row, stale, overlaps>>

LockTick ==
    /\ row.pid # NoTab /\ row.age <= StaleAge
    /\ row' = [row EXCEPT !.age = @ + 1]
    /\ UNCHANGED <<call, stale, overlaps>>

Writes(w) == Begins(w) \/ Ends(w) \/ releaseWriteLock(w)

LockNext ==
    \/ LockTick
    \/ \E w \in Writers : withWriteLock(w) \/ acquireWriteLock(w) \/ Writes(w)
    \/ \E t \in LockTabs : LockTabCloses(t)

LockSpec == LockInit /\ [][LockNext]_lockVars

\* Time passes; a transaction ends; a waiting call tries again and again.
LockFairness ==
    /\ WF_lockVars(LockTick)
    /\ \A w \in Writers : WF_lockVars(acquireWriteLock(w)) /\ WF_lockVars(Writes(w))

-----------------------------------------------------------------------------
(* Properties *)

\* The row alone keeps two tabs from being between acquire and release at once,
\* as long as none is taken over as stale and no two calls of a tab overlap.
RowExclusive ==
    ~stale /\ ~overlaps => \A v, w \in Holding : TabOf[v] = TabOf[w]

\* Every call that waits gets in and ends, or its tab is closed: a row left behind
\* by a tab that was closed stops nobody.
WriterGetsIn == <>[](\A w \in Writers : call[w] \in {"idle", "done", "dead"})

=============================================================================
