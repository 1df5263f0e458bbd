--------------------------- MODULE ServicesProofs ----------------------------
(* Proofs about the write lock, the rate limiter and the compile cache, for  *)
(* any number of calls, requests and processes, and about MCServices, which  *)
(* runs them beside the batches and the charter.                             *)
EXTENDS MCServices, TxBatchProofs, CharterProofs

-----------------------------------------------------------------------------
(* The write lock *)

\* Type correctness of the write lock.
THEOREM LockTypeCorrect == LockSpec => []LockTypeOK
<1>1. LockInit => LockTypeOK
  <2> SUFFICES ASSUME LockInit PROVE LockTypeOK
    OBVIOUS
  <2>1. row \in [pid : LockTabs \cup {NoTab}, age : 0..StaleAge + 1]
    BY WriteLockAssumption DEF LockInit, NoRow
  <2>2. call \in [Writers -> Stages]
    BY DEF LockInit, Stages
  <2> QED BY <2>1, <2>2 DEF LockInit, LockTypeOK
<1>2. LockTypeOK /\ [LockNext]_lockVars => LockTypeOK'
  <2> SUFFICES ASSUME LockTypeOK, [LockNext]_lockVars PROVE LockTypeOK'
    OBVIOUS
  <2> USE WriteLockAssumption DEF LockTypeOK, LockTabs, Stages, Goes
  <2>1. CASE LockTick
    BY <2>1 DEF LockTick
  <2>2. ASSUME NEW w \in Writers, withWriteLock(w) PROVE LockTypeOK'
    BY <2>2 DEF withWriteLock
  <2>3. ASSUME NEW w \in Writers, acquireWriteLock(w) PROVE LockTypeOK'
    <3>1. row' \in [pid : LockTabs \cup {NoTab}, age : 0..StaleAge + 1]
      BY <2>3 DEF acquireWriteLock
    <3>2. stale' \in BOOLEAN /\ overlaps' \in BOOLEAN
      BY <2>3 DEF acquireWriteLock
    <3> QED BY <2>3, <3>1, <3>2 DEF acquireWriteLock
  <2>4. ASSUME NEW w \in Writers, Begins(w) PROVE LockTypeOK'
    BY <2>4 DEF Begins
  <2>5. ASSUME NEW w \in Writers, Ends(w) PROVE LockTypeOK'
    BY <2>5 DEF Ends
  <2>6. ASSUME NEW w \in Writers, releaseWriteLock(w) PROVE LockTypeOK'
    BY <2>6 DEF releaseWriteLock, NoRow
  <2>7. ASSUME NEW t \in LockTabs, LockTabCloses(t) PROVE LockTypeOK'
    BY <2>7 DEF LockTabCloses
  <2>8. CASE UNCHANGED lockVars
    BY <2>8 DEF lockVars
  <2> QED
    BY <2>1, <2>2, <2>3, <2>4, <2>5, <2>6, <2>7, <2>8 DEF LockNext, Writes
<1> QED BY <1>1, <1>2, PTL DEF LockSpec

\* As long as no row was taken over and no calls of a tab overlapped, whoever is
\* between acquire and release has the row, and is the only one of its tab there.
RowOfHolder ==
    ~stale /\ ~overlaps =>
        /\ \A w \in Holding : row.pid = TabOf[w]
        /\ \A v, w \in Holding : TabOf[v] = TabOf[w] => v = w

\* Two tabs are never between acquire and release at once, as long as no row was
\* taken over as stale and no two calls of one tab overlapped.
THEOREM RowExclusion == LockSpec => []RowExclusive
<1>1. LockInit => RowOfHolder
  BY DEF LockInit, RowOfHolder, Holding
<1>2. LockTypeOK /\ RowOfHolder /\ [LockNext]_lockVars => RowOfHolder'
  <2> SUFFICES ASSUME LockTypeOK, RowOfHolder, [LockNext]_lockVars,
                      ~stale', ~overlaps'
               PROVE  /\ \A w \in Holding' : row'.pid = TabOf[w]
                      /\ \A v, w \in Holding' : TabOf[v] = TabOf[w] => v = w
    BY DEF RowOfHolder
  <2> USE DEF LockTypeOK, RowOfHolder, Holding, Goes
  <2>1. CASE LockTick
    BY <2>1 DEF LockTick
  <2>2. ASSUME NEW w \in Writers, withWriteLock(w) PROVE RowOfHolder'
    BY <2>2 DEF withWriteLock
  <2>3. ASSUME NEW w \in Writers, acquireWriteLock(w) PROVE RowOfHolder'
    <3>1. ~stale /\ ~overlaps /\ \A v \in Holding : TabOf[v] # TabOf[w]
      BY <2>3 DEF acquireWriteLock
    <3>2. row.pid \in {NoTab, TabOf[w]}
      BY <2>3 DEF acquireWriteLock
    <3>3. Holding = {}
      BY <3>1, <3>2, WriteLockAssumption DEF LockTabs
    <3>4. Holding' = {w}
      BY <2>3, <3>3 DEF acquireWriteLock
    <3>5. row'.pid = TabOf[w]
      BY <2>3 DEF acquireWriteLock
    <3> QED BY <3>4, <3>5
  <2>4. ASSUME NEW w \in Writers, Begins(w) PROVE RowOfHolder'
    BY <2>4 DEF Begins
  <2>5. ASSUME NEW w \in Writers, Ends(w) PROVE RowOfHolder'
    BY <2>5 DEF Ends
  <2>6. ASSUME NEW w \in Writers, releaseWriteLock(w) PROVE RowOfHolder'
    <3>1. w \in Holding /\ Holding' = Holding \ {w} /\ ~stale /\ ~overlaps
      BY <2>6 DEF releaseWriteLock
    <3>2. Holding = {w}
      BY <3>1
    <3> QED BY <3>1, <3>2
  <2>7. ASSUME NEW t \in LockTabs, LockTabCloses(t) PROVE RowOfHolder'
    BY <2>7 DEF LockTabCloses
  <2>8. CASE UNCHANGED lockVars
    BY <2>8 DEF lockVars
  <2> QED
    BY <2>1, <2>2, <2>3, <2>4, <2>5, <2>6, <2>7, <2>8 DEF LockNext, Writes
<1>3. RowOfHolder => RowExclusive
  BY DEF RowOfHolder, RowExclusive
<1> QED BY <1>1, <1>2, <1>3, LockTypeCorrect, PTL DEF LockSpec

-----------------------------------------------------------------------------
(* The rate limiter *)

\* Type correctness, the bounds of rate and bucket, and the ownership of a hold,
\* which depend on one another.
RateInvariant == RateTypeOK /\ RateBounds /\ HoldHasOwner

LEMMA RateInitially == RateInit => RateInvariant
<1> SUFFICES ASSUME RateInit PROVE RateInvariant
  OBVIOUS
<1>1. RateBounds
  BY RateAssumption DEF RateInit, RateBounds
<1>2. rejections \in 0..MaxRejections /\ availableBurst \in Nat /\ rate \in Nat
  BY RateAssumption DEF RateInit
<1>3. request \in [Requests -> RequestStages] /\ onHold \in BOOLEAN /\ recovering \in BOOLEAN
  BY DEF RateInit, RequestStages
<1>4. HoldHasOwner
  BY DEF RateInit, HoldHasOwner
<1> QED BY <1>1, <1>2, <1>3, <1>4 DEF RateInvariant, RateTypeOK

\* The lowered rate: a quotient by a constant, or the least rate.
LEMMA LoweredRate ==
    ASSUME rate \in MinRate..BaseRate
    PROVE  AtLeast((rate * 100) \div 161, MinRate) \in MinRate..BaseRate
<1>1. rate \in Nat
  BY RateAssumption
<1>2. (rate * 100) \div 161 \in Int /\ (rate * 100) \div 161 <= rate
  BY <1>1
<1> QED BY <1>1, <1>2, RateAssumption DEF AtLeast

LEMMA BoundsStep == RateBounds /\ [RateNext]_rateVars => RateBounds'
<1> SUFFICES ASSUME RateBounds, [RateNext]_rateVars PROVE RateBounds'
  OBVIOUS
<1>n. rate \in Nat /\ availableBurst \in Nat
  BY RateAssumption DEF RateBounds
<1>1. CASE refillTokens
  BY <1>n, <1>1, RateAssumption DEF RateBounds, refillTokens, AtMost
<1>2. CASE Recovers
  <2>1. UNCHANGED availableBurst
    BY <1>2 DEF Recovers
  <2>2. rate' = BaseRate \/ (rate' = rate + 10 /\ rate + 10 < BaseRate)
    BY <1>2 DEF Recovers
  <2>3. rate' \in MinRate..BaseRate
    BY <1>n, <2>2, RateAssumption DEF RateBounds
  <2> QED BY <2>1, <2>3 DEF RateBounds
<1>3. ASSUME NEW r \in Requests, acquireToken(r) PROVE RateBounds'
  BY <1>n, <1>3, RateAssumption DEF RateBounds, acquireToken
<1>4. ASSUME NEW r \in Requests, Rejected(r) PROVE RateBounds'
  <2>1. availableBurst' = 0 /\ rate' = rate
    BY <1>4 DEF Rejected
  <2> QED BY <1>n, <2>1, RateAssumption DEF RateBounds
<1>5. ASSUME NEW r \in Requests, Wakes(r) PROVE RateBounds'
  BY <1>5, LoweredRate DEF RateBounds, Wakes
<1>6. ASSUME NEW r \in Requests, fetch(r) \/ Answered(r) PROVE RateBounds'
  BY <1>6 DEF RateBounds, fetch, Answered
<1>7. CASE UNCHANGED rateVars
  BY <1>7 DEF rateVars, RateBounds
<1> QED BY <1>1, <1>2, <1>3, <1>4, <1>5, <1>6, <1>7 DEF RateNext

\* The stages of the requests, and the hold, without the numbers
HoldTypes ==
    /\ onHold \in BOOLEAN /\ recovering \in BOOLEAN
    /\ request \in [Requests -> RequestStages]

LEMMA HoldStep ==
    HoldTypes /\ HoldHasOwner /\ [RateNext]_rateVars
        => HoldTypes' /\ HoldHasOwner'
<1> SUFFICES ASSUME HoldTypes, HoldHasOwner, [RateNext]_rateVars
             PROVE  HoldTypes' /\ HoldHasOwner'
  OBVIOUS
<1> USE DEF HoldTypes, HoldHasOwner, RequestStages, Becomes
<1>1. CASE refillTokens
  BY <1>1 DEF refillTokens
<1>2. CASE Recovers
  BY <1>2 DEF Recovers
<1>3. ASSUME NEW r \in Requests, fetch(r) PROVE HoldTypes' /\ HoldHasOwner'
  BY <1>3 DEF fetch
<1>4. ASSUME NEW r \in Requests, acquireToken(r) PROVE HoldTypes' /\ HoldHasOwner'
  BY <1>4 DEF acquireToken
<1>5. ASSUME NEW r \in Requests, Answered(r) PROVE HoldTypes' /\ HoldHasOwner'
  BY <1>5 DEF Answered
<1>6. ASSUME NEW r \in Requests, Rejected(r) PROVE HoldTypes' /\ HoldHasOwner'
  BY <1>6 DEF Rejected
<1>7. ASSUME NEW r \in Requests, Wakes(r) PROVE HoldTypes' /\ HoldHasOwner'
  BY <1>7 DEF Wakes
<1>8. CASE UNCHANGED rateVars
  BY <1>8 DEF rateVars
<1> QED BY <1>1, <1>2, <1>3, <1>4, <1>5, <1>6, <1>7, <1>8 DEF RateNext

LEMMA RejectionsStep ==
    rejections \in 0..MaxRejections /\ [RateNext]_rateVars => rejections' \in 0..MaxRejections
<1> SUFFICES ASSUME rejections \in 0..MaxRejections, [RateNext]_rateVars
             PROVE  rejections' \in 0..MaxRejections
  OBVIOUS
<1>1. ASSUME NEW r \in Requests, Rejected(r) PROVE rejections' \in 0..MaxRejections
  <2>1. rejections < MaxRejections /\ rejections' = rejections + 1
    BY <1>1 DEF Rejected
  <2> QED BY <2>1, RateAssumption
<1>2. CASE UNCHANGED rejections
  BY <1>2
<1> QED
  BY <1>1, <1>2 DEF RateNext, rateVars, refillTokens, Recovers, fetch, acquireToken,
     Answered, Wakes

LEMMA RateStep == RateInvariant /\ [RateNext]_rateVars => RateInvariant'
<1> SUFFICES ASSUME RateInvariant, [RateNext]_rateVars PROVE RateInvariant'
  OBVIOUS
<1>1. HoldTypes /\ rejections \in 0..MaxRejections /\ RateBounds /\ HoldHasOwner
  BY DEF RateInvariant, RateTypeOK, HoldTypes
<1>2. HoldTypes' /\ HoldHasOwner' /\ rejections' \in 0..MaxRejections /\ RateBounds'
  BY <1>1, HoldStep, RejectionsStep, BoundsStep
<1>3. rate' \in Nat /\ availableBurst' \in Nat
  BY <1>2, RateAssumption DEF RateBounds
<1> QED BY <1>2, <1>3 DEF RateInvariant, RateTypeOK, HoldTypes

\* Type correctness of the rate limiter.
THEOREM RateTypeCorrect == RateSpec => []RateTypeOK
<1>1. RateInvariant => RateTypeOK
  BY DEF RateInvariant
<1> QED BY <1>1, RateInitially, RateStep, PTL DEF RateSpec

\* However many requests are rejected, and whenever, the rate stays between its
\* bounds, and the bucket is neither overdrawn nor overfilled.
THEOREM RateBounded == RateSpec => []RateBounds
<1>1. RateInvariant => RateBounds
  BY DEF RateInvariant
<1> QED BY <1>1, RateInitially, RateStep, PTL DEF RateSpec

\* A hold always has a request that will release it.
THEOREM HoldOwned == RateSpec => []HoldHasOwner
<1>1. RateInvariant => HoldHasOwner
  BY DEF RateInvariant
<1> QED BY <1>1, RateInitially, RateStep, PTL DEF RateSpec

-----------------------------------------------------------------------------
(* The compile cache *)

\* As long as no stale lock was taken over, whoever is at work has the lock; and
\* the lock's holder, in any case, is at work or was killed.
LockOfBusy ==
    /\ CompileTypeOK
    /\ ~takenOver => \A p \in Busy : flock.holder = p
    /\ NoLockLeft

LEMMA CompileInitially == CompileInit => LockOfBusy
<1> SUFFICES ASSUME CompileInit PROVE LockOfBusy
  OBVIOUS
<1> USE CompileAssumption DEF CompileInit, FreeLock
<1>1. flock \in [holder : Compilers \cup {NoCompiler}, age : 0..Stale]
  OBVIOUS
<1>2. CompileTypeOK
  <2>1. waited \in [Compilers -> 0..Patience]
    OBVIOUS
  <2>2. compiler \in [Compilers -> CompilerStages]
    BY DEF CompilerStages
  <2> QED BY <1>1, <2>1, <2>2 DEF CompileTypeOK
<1>3. Busy = {} /\ NoLockLeft
  BY DEF Busy, NoLockLeft
<1> QED BY <1>2, <1>3 DEF LockOfBusy

\* A process that takes the lock, and says so when it was another's.
LEMMA TakesLockStep ==
    ASSUME LockOfBusy, NEW p \in Compilers, TakesLock(p),
           To(p, "checking") \/ To(p, "compiling"),
           takenOver' = (takenOver \/ flock.holder # NoCompiler),
           UNCHANGED <<file, waited>>
    PROVE  LockOfBusy'
<1> USE DEF LockOfBusy, To
<1>1. flock' \in [holder : Compilers \cup {NoCompiler}, age : 0..Stale]
  BY CompileAssumption DEF TakesLock
<1>2. takenOver' \in BOOLEAN
  OBVIOUS
<1>3. compiler' \in [Compilers -> CompilerStages]
  BY DEF CompileTypeOK, CompilerStages
<1>4. CompileTypeOK'
  BY <1>1, <1>2, <1>3 DEF CompileTypeOK
<1>5. flock'.holder = p /\ p \in Busy'
  BY DEF TakesLock, Busy, CompileTypeOK
<1>6. ASSUME ~takenOver' PROVE \A q \in Busy' : flock'.holder = q
  <2>1. ~takenOver /\ flock.holder = NoCompiler
    BY <1>6
  <2>2. Busy = {}
    BY <2>1, CompileAssumption DEF Busy
  <2> QED BY <1>5, <2>2 DEF Busy, CompileTypeOK
<1> QED BY <1>4, <1>5, <1>6 DEF NoLockLeft

LEMMA CompileStep == LockOfBusy /\ [CompileNext]_compileVars => LockOfBusy'
<1> SUFFICES ASSUME LockOfBusy, [CompileNext]_compileVars PROVE LockOfBusy'
  OBVIOUS
<1> USE CompileAssumption
    DEF LockOfBusy, CompileTypeOK, NoLockLeft, Busy, CompilerStages, At, To,
        FreeLock, Releases, TakesLock
<1>1. CASE CompileTick
  <2>1. flock' \in [holder : Compilers \cup {NoCompiler}, age : 0..Stale]
    BY <1>1 DEF CompileTick
  <2>2. waited' \in [Compilers -> 0..Patience]
    BY <1>1 DEF CompileTick
  <2>3. flock'.holder = flock.holder
    BY <1>1 DEF CompileTick
  <2> QED BY <1>1, <2>1, <2>2, <2>3 DEF CompileTick
<1>2. ASSUME NEW p \in Compilers, compileWithCache(p) PROVE LockOfBusy'
  BY <1>2 DEF compileWithCache
<1>3. ASSUME NEW p \in Compilers, getFromCache(p) PROVE LockOfBusy'
  BY <1>3 DEF getFromCache
<1>4. ASSUME NEW p \in Compilers, LooksForFile(p) PROVE LockOfBusy'
  BY <1>4 DEF LooksForFile
<1>5. ASSUME NEW p \in Compilers, CreatesFile(p) PROVE LockOfBusy'
  BY <1>5 DEF CreatesFile
<1>6. ASSUME NEW p \in Compilers, acquireImmediateLock(p) PROVE LockOfBusy'
  <2>1. CASE At(p, "locking") /\ TakesLock(p) /\ To(p, "compiling")
             /\ takenOver' = (takenOver \/ flock.holder # NoCompiler)
             /\ UNCHANGED <<file, waited>>
    BY <2>1, TakesLockStep
  <2>2. CASE UNCHANGED <<flock, takenOver>>
    BY <1>6, <2>2 DEF acquireImmediateLock
  <2> QED BY <1>6, <2>1, <2>2 DEF acquireImmediateLock
<1>7. ASSUME NEW p \in Compilers, acquireLock(p) PROVE LockOfBusy'
  BY <1>7, TakesLockStep DEF acquireLock
<1>8. ASSUME NEW p \in Compilers, GivesUp(p) PROVE LockOfBusy'
  BY <1>8 DEF GivesUp
<1>9. ASSUME NEW p \in Compilers, waitForCaching(p) PROVE LockOfBusy'
  BY <1>9 DEF waitForCaching
<1>10. ASSUME NEW p \in Compilers, compile(p) PROVE LockOfBusy'
  BY <1>10 DEF compile
<1>11. ASSUME NEW p \in Compilers, CompileError(p) PROVE LockOfBusy'
  BY <1>11 DEF CompileError
<1>12. ASSUME NEW p \in Compilers, cacheStore(p) PROVE LockOfBusy'
  BY <1>12 DEF cacheStore
<1>13. ASSUME NEW p \in Compilers, releaseLock(p) PROVE LockOfBusy'
  BY <1>13 DEF releaseLock
<1>14. ASSUME NEW p \in Compilers, Dies(p) PROVE LockOfBusy'
  BY <1>14 DEF Dies, Ended
<1>15. CASE UNCHANGED compileVars
  BY <1>15 DEF compileVars
<1> QED
  BY <1>1, <1>2, <1>3, <1>4, <1>5, <1>6, <1>7, <1>8, <1>9, <1>10, <1>11, <1>12,
     <1>13, <1>14, <1>15 DEF CompileNext, CompilerSteps

\* Type correctness of the compile cache.
THEOREM CompileTypeCorrect == CompileSpec => []CompileTypeOK
<1>1. LockOfBusy => CompileTypeOK
  BY DEF LockOfBusy
<1> QED BY <1>1, CompileInitially, CompileStep, PTL DEF CompileSpec

\* One process at a time compiles or stores, among any number of them, as long as
\* no stale lock was taken over.
THEOREM OneCompiler == CompileSpec => []OneCompiles
<1>1. LockOfBusy => OneCompiles
  BY DEF LockOfBusy, OneCompiles
<1> QED BY <1>1, CompileInitially, CompileStep, PTL DEF CompileSpec

\* A call that ends, in any way, leaves no lock behind.
THEOREM NoLockLeftBehind == CompileSpec => []NoLockLeft
<1>1. LockOfBusy => NoLockLeft
  BY DEF LockOfBusy
<1> QED BY <1>1, CompileInitially, CompileStep, PTL DEF CompileSpec

-----------------------------------------------------------------------------
(* All that MCServices runs side by side *)

\* What shares no state interferes with nothing: a step of one component leaves
\* the others where they are, so that each behaves as it does alone.
LEMMA EachAsAlone ==
    Spec => /\ LockSpec /\ RateSpec /\ CompileSpec /\ BatchSpec /\ CharterSpec
<1> DEFINE v == <<subject, lockVars, rateVars, compileVars, submitVars, charterVars>>
<1>1. Init => LockInit /\ RateInit /\ CompileInit /\ BatchInit /\ CharterInit
  BY DEF Init
<1>2. [Next]_v => [LockNext]_lockVars
  BY DEF Next
<1>3. [Next]_v => [RateNext]_rateVars
  BY DEF Next
<1>4. [Next]_v => [CompileNext]_compileVars
  BY DEF Next
<1>5. [Next]_v => [BatchNext]_submitVars
  BY DEF Next
<1>6. [Next]_v => [CharterNext]_charterVars
  BY DEF Next
<1> QED
  BY <1>1, <1>2, <1>3, <1>4, <1>5, <1>6, PTL
     DEF Spec, LockSpec, RateSpec, CompileSpec, BatchSpec, CharterSpec

\* The types of all of them, whichever of them moves.
THEOREM ServicesTyped == Spec => []ServicesTypeOK
<1>1. LockTypeOK /\ RateTypeOK /\ CompileTypeOK /\ BatchTypeOK /\ CharterTypeOK => ServicesTypeOK
  BY DEF ServicesTypeOK
<1> QED
  BY <1>1, EachAsAlone, LockTypeCorrect, RateTypeCorrect, CompileTypeCorrect,
     BatchTypeCorrect, CharterTypeCorrect, PTL

=============================================================================
