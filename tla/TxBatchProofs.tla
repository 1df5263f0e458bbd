----------------------------- MODULE TxBatchProofs -----------------------------
(***************************************************************************)
(* What TxBatch promises, for any transactions, submitters and number of   *)
(* batches.                                                                *)
(*                                                                         *)
(* BatchInv has a part for each tx (TxsInv: its tracker and its managers   *)
(* agree), and one for the batches (Numbered, Rotated, ChainBuilderKept).  *)
(* What is hard is the failure of a manager: the others are told of it one *)
(* after the other, each may notify the tracker, and the tracker may throw *)
(* at any of them.  Troubled(m) is what every stage of that keeps.         *)
(***************************************************************************)
EXTENDS TxBatch, FiniteSetTheorems, WellFoundedInduction, TLAPS

-----------------------------------------------------------------------------
(* Induction and recursion along the naturals, with sets and functions: a     *)
(* property is named by the set of its counterexamples, a recursive function  *)
(* by its steps.                                                              *)

\* Every non-empty set of naturals has a least element: there is no infinite
\* descent among the finite sets 1..n.
LEMMA LeastElement ==
    ASSUME NEW T \in SUBSET Nat, T # {}
    PROVE  \E n \in T : \A m \in T : n <= m
<1> DEFINE U == {1..n : n \in T}
<1>1. U \subseteq FiniteSubsetsOf(Nat)
  <2> SUFFICES ASSUME NEW n \in T PROVE 1..n \in FiniteSubsetsOf(Nat)
    OBVIOUS
  <2>1. IsFiniteSet(1..n)
    BY FS_Interval
  <2> QED BY <2>1 DEF FiniteSubsetsOf
<1>2. PICK x \in U : \A y \in U : <<y, x>> \notin StrictSubsetOrdering(Nat)
  <2>1. U # {}
    OBVIOUS
  <2>2. IsWellFoundedOn(StrictSubsetOrdering(Nat), FiniteSubsetsOf(Nat))
    BY FS_StrictSubsetOrderingWellFounded
  <2> HIDE DEF U
  <2> QED BY <1>1, <2>1, <2>2, WFMin
<1>3. PICK n \in T : x = 1..n
  OBVIOUS
<1>4. ASSUME NEW m \in T, ~(n <= m) PROVE FALSE
  <2>1. m < n /\ m \in Nat /\ n \in Nat
    BY <1>4
  <2>2. n \in 1..n /\ n \notin 1..m /\ 1..m \subseteq 1..n
    BY <2>1
  <2>3. <<1..m, 1..n>> \in StrictSubsetOrdering(Nat)
    BY <2>1, <2>2 DEF StrictSubsetOrdering
  <2> QED BY <1>2, <1>3, <2>3
<1> QED BY <1>4

\* The sequence of values from base, each a step from the one before
StepFns(n, T) == [1..n -> [T -> T]]
Iterates(f, n, T, base, step) ==
    /\ f \in [0..n -> T]
    /\ f[0] = base
    /\ \A k \in 1..n : f[k] = step[k][f[k - 1]]

\* Recursion along an interval is well-defined.
LEMMA Recursion ==
    ASSUME NEW n \in Nat, NEW T, NEW base \in T, NEW step \in StepFns(n, T)
    PROVE  \E f : Iterates(f, n, T, base, step)
<1> USE DEF StepFns, Iterates
<1> DEFINE Works(f, k) == f[0] = base /\ \A j \in 1..k : f[j] = step[j][f[j - 1]]
           Bad == {k \in 0..n : ~\E f \in [0..k -> T] : Works(f, k)}
<1>1. SUFFICES ASSUME Bad # {} PROVE FALSE
  <2>1. n \in 0..n
    OBVIOUS
  <2> QED BY <2>1
<1>2. PICK k \in Bad : \A j \in Bad : k <= j
  <2> HIDE DEF Works
  <2>1. Bad \in SUBSET Nat
    OBVIOUS
  <2> HIDE DEF Bad
  <2> QED BY <1>1, <2>1, LeastElement
<1>3. CASE k = 0
  <2>1. [j \in 0..0 |-> base] \in [0..k -> T]
    BY <1>3
  <2>2. Works([j \in 0..0 |-> base], k)
    BY <1>3
  <2> QED BY <2>1, <2>2, <1>3
<1>4. CASE k # 0
  <2>1. k - 1 \in 0..n /\ k \in 1..n /\ k - 1 \notin Bad
    BY <1>2, <1>4
  <2>2. PICK f \in [0..(k - 1) -> T] : Works(f, k - 1)
    BY <2>1
  <2> DEFINE g == [j \in 0..k |-> IF j = k THEN step[k][f[k - 1]] ELSE f[j]]
  <2>3. g \in [0..k -> T]
    BY <2>1
  <2>4. Works(g, k)
    <3>1. g[0] = base
      BY <2>1, <2>2, <1>4
    <3>2. ASSUME NEW j \in 1..k PROVE g[j] = step[j][g[j - 1]]
      <4>1. CASE j = k
        BY <4>1, <2>1
      <4>2. CASE j # k
        <5>1. j \in 1..(k - 1) /\ j - 1 \in 0..k /\ j \in 0..k /\ j - 1 # k
          BY <4>2, <2>1
        <5> QED BY <2>2, <5>1, <4>2
      <4> QED BY <4>1, <4>2
    <3> QED BY <3>1, <3>2
  <2> HIDE DEF g, Works
  <2> QED BY <2>3, <2>4
<1> QED BY <1>3, <1>4

-----------------------------------------------------------------------------
(* The managers and what they add up to                                       *)

Tracked == [tracker : InFlight, mgrs : [TxMgrs -> MgrStates \ {"none"}], recheck : SUBSET TxMgrs]

\* There is a manager, and one is one.
LEMMA MgrsFinite == TxMgrs # {} /\ \A m \in TxMgrs : IsFiniteSet({m}) /\ Cardinality({m}) = 1
<1>1. 1 \in DOMAIN SubmitterSeq
  BY BatchAssumption
<1> QED BY <1>1, FS_Singleton DEF TxMgrs

LEMMA BatchBound == MaxBatches \in Nat
BY BatchAssumption

LEMMA SubmitterType ==
  /\ Len(SubmitterSeq) \in Nat /\ Len(SubmitterSeq) >= 1
  /\ \A k \in 1..Len(SubmitterSeq) : SubmitterSeq[k] \in TxMgrs
BY BatchAssumption

UnderWay == {"submitting", "confirming", "mostly confirmed"}
Ahead(ms) == {a \in UnderWay : \A b \in UnderWay \ {a} : Count(ms, a) > Count(ms, b)}

\* Aggregate, with its local definitions spelled out.
LEMMA AggregateIs ==
  ASSUME NEW ms
  PROVE  Aggregate(ms) = IF \E r \in {"confirmed", "failed"} : \A m \in TxMgrs : ms[m] = r
                         THEN ms[SubmitterSeq[1]]
                         ELSE IF Ahead(ms) = {} THEN "tie" ELSE CHOOSE a \in Ahead(ms) : TRUE
BY DEF Aggregate, Ahead, UnderWay

\* Aggregate gives "confirmed" or "failed" only when all managers agree on it.
LEMMA AggregateType ==
  ASSUME NEW ms
  PROVE /\ Aggregate(ms) \in UnderWay \cup {"tie", "confirmed", "failed"}
        /\ \A r \in {"confirmed", "failed"} : Aggregate(ms) = r <=> \A m \in TxMgrs : ms[m] = r
<1>1. SubmitterSeq[1] \in TxMgrs
  BY SubmitterType
<1>2. CASE \E r \in {"confirmed", "failed"} : \A m \in TxMgrs : ms[m] = r
  <2>1. Aggregate(ms) = ms[SubmitterSeq[1]]
    BY <1>2, AggregateIs
  <2> QED BY <1>1, <1>2, <2>1
<1>3. CASE ~\E r \in {"confirmed", "failed"} : \A m \in TxMgrs : ms[m] = r
  <2>1. Aggregate(ms) = IF Ahead(ms) = {} THEN "tie" ELSE CHOOSE a \in Ahead(ms) : TRUE
    BY <1>3, AggregateIs
  <2>2. Ahead(ms) # {} => (CHOOSE a \in Ahead(ms) : TRUE) \in UnderWay
    BY DEF Ahead
  <2>3. Aggregate(ms) \in UnderWay \cup {"tie"}
    BY <2>1, <2>2
  <2> QED BY <1>3, <2>3 DEF UnderWay
<1> QED BY <1>2, <1>3

\* One of the failed managers has moved on: the tracker follows it.
LEMMA OneMovesOn ==
  ASSUME NEW ms, NEW m \in TxMgrs, ms[m] \in {"submitting", "confirming"},
         \A o \in TxMgrs \ {m} : ms[o] = "failed"
  PROVE  Aggregate(ms) = ms[m]
<1>1. \A a \in UnderWay : {o \in TxMgrs : ms[o] \in Counted(a)} = IF a = ms[m] THEN {m} ELSE {}
  BY DEF Counted, UnderWay
<1>2. \A a \in UnderWay : Count(ms, a) = IF a = ms[m] THEN 1 ELSE 0
  BY <1>1, FS_EmptySet, MgrsFinite DEF Count
<1>3. Ahead(ms) = {ms[m]}
  <2>1. ms[m] \in UnderWay
    BY DEF UnderWay
  <2>2. \A a \in UnderWay : a \in Ahead(ms) <=> a = ms[m]
    BY <1>2, <2>1 DEF Ahead
  <2>3. Ahead(ms) \subseteq UnderWay
    BY DEF Ahead
  <2> QED BY <2>1, <2>2, <2>3
<1>4. ~\E r \in {"confirmed", "failed"} : \A o \in TxMgrs : ms[o] = r
  OBVIOUS
<1> QED BY <1>3, <1>4, AggregateIs

\* What is true of a tracker and its managers while one of these has failed
Troubled(m) == {s \in Tracked : /\ s.mgrs[m] = "failed" /\ s.tracker # "confirmed"
                                /\ s.tracker = "failed" => \A o \in TxMgrs : s.mgrs[o] = "failed"}

\* An update leaves the managers alone, and follows them when the table lets it.
LEMMA UpdateTracked ==
  ASSUME NEW s \in Tracked
  PROVE  /\ Update(s) \in Tracked
         /\ Update(s).mgrs = s.mgrs /\ Update(s).recheck = s.recheck
         /\ Update(s).tracker = IF NoTransition(s) THEN s.tracker ELSE Aggregate(s.mgrs)
<1>1. \A t \in InFlight : Rows(t) \subseteq InFlight
  BY DEF Rows, InFlight
<1>2. ~NoTransition(s) => Aggregate(s.mgrs) \in InFlight
  BY <1>1 DEF NoTransition, Tracked
<1> QED BY <1>2 DEF Update, Tracked

\* An update amid a failure leads to no state that belies the failed manager.
LEMMA UpdateTroubled ==
  ASSUME NEW m \in TxMgrs, NEW s \in Tracked, s.mgrs[m] = "failed", s.tracker # "confirmed",
         s.tracker = "failed" =>
           \/ \A o \in TxMgrs : s.mgrs[o] = "failed"
           \/ \E o \in TxMgrs : /\ s.mgrs[o] \in {"submitting", "confirming"}
                                /\ \A p \in TxMgrs \ {o} : s.mgrs[p] = "failed"
  PROVE  Update(s) \in Troubled(m)
<1>1. Aggregate(s.mgrs) # "confirmed" /\ (Aggregate(s.mgrs) = "failed" => \A o \in TxMgrs : s.mgrs[o] = "failed")
  BY AggregateType
<1>2. ASSUME s.tracker = "failed", NEW o \in TxMgrs, s.mgrs[o] \in {"submitting", "confirming"},
             \A p \in TxMgrs \ {o} : s.mgrs[p] = "failed"
      PROVE  ~NoTransition(s) /\ Aggregate(s.mgrs) # "failed"
  <2>1. Aggregate(s.mgrs) = s.mgrs[o]
    BY <1>2, OneMovesOn
  <2> QED BY <1>2, <2>1 DEF NoTransition, Rows
<1> QED BY <1>1, <1>2, UpdateTracked DEF Troubled

\* Nor does telling another manager of the failure, whatever state that one is in.
LEMMA TellTroubled ==
  ASSUME NEW m \in TxMgrs, NEW o \in TxMgrs \ {m}, NEW s \in Troubled(m)
  PROVE  Tell(s, o) \in Troubled(m)
<1>1. s \in Tracked
  BY DEF Troubled
<1>2. CASE s.mgrs[o] \in {"submitting", "confirming"}
  <2>1. Update(s) \in Troubled(m)
    BY <1>1, UpdateTroubled DEF Troubled
  <2> QED BY <1>2, <2>1 DEF Tell
<1>3. CASE s.mgrs[o] = "failed"
  <2> DEFINE t == [s EXCEPT !.mgrs[o] = "confirming"]
  <2>1. /\ t \in Tracked /\ t.tracker = s.tracker
        /\ t.mgrs = [s.mgrs EXCEPT ![o] = "confirming"]
    BY <1>1 DEF Tracked, MgrStates
  <2>2. /\ t.mgrs[m] = "failed" /\ t.mgrs[o] = "confirming"
        /\ \A p \in TxMgrs \ {o} : t.mgrs[p] = s.mgrs[p]
    BY <1>1, <2>1 DEF Tracked, Troubled
  <2> HIDE DEF t
  <2>3. t.tracker = "failed" => \A p \in TxMgrs \ {o} : t.mgrs[p] = "failed"
    BY <2>1, <2>2 DEF Troubled
  <2>4. t.tracker # "confirmed"
    BY <2>1 DEF Troubled
  <2>5. Update(t) \in Troubled(m)
    BY <2>1, <2>2, <2>3, <2>4, UpdateTroubled
  <2> QED BY <1>3, <2>5 DEF Tell, t
<1>4. CASE s.mgrs[o] = "confirmed"
  <2>1. [s EXCEPT !.recheck = @ \cup {o}] \in Troubled(m)
    BY <1>1 DEF Troubled, Tracked
  <2> QED BY <1>4, <2>1 DEF Tell
<1>5. CASE s.mgrs[o] = "softConfirmed"
  BY <1>5 DEF Tell
<1> QED BY <1>1, <1>2, <1>3, <1>4, <1>5 DEF Tracked, MgrStates

\* The fold of Told is defined, and stays within what is true of a failure.
LEMMA ToldTroubled ==
  ASSUME NEW m \in TxMgrs, NEW s, Update(s) \in Troubled(m), NEW k \in 0..Len(SubmitterSeq)
  PROVE  Told(s, m)[k] \in Troubled(m)
<1> DEFINE n == Len(SubmitterSeq)
           After(t, j) == IF SubmitterSeq[j] = m THEN t ELSE Tell(t, SubmitterSeq[j])
           step == [j \in 1..n |-> [t \in Troubled(m) |-> After(t, j)]]
           Is(f) == f = [j \in 0..n |-> IF j = 0 THEN Update(s)
                                        ELSE IF SubmitterSeq[j] = m THEN f[j - 1]
                                        ELSE Tell(f[j - 1], SubmitterSeq[j])]
<1>1. \A j \in 1..n, t \in Troubled(m) : After(t, j) \in Troubled(m)
  BY SubmitterType, TellTroubled
<1>2. step \in [1..n -> [Troubled(m) -> Troubled(m)]]
  BY <1>1
<1>3. PICK f : Iterates(f, n, Troubled(m), Update(s), step)
  <2>1. step \in StepFns(n, Troubled(m)) /\ n \in Nat
    BY <1>2, SubmitterType DEF StepFns
  <2> HIDE DEF step, n
  <2> QED BY <2>1, Recursion
<1>4. Is(f)
  <2>1. f \in [0..n -> Troubled(m)] /\ f[0] = Update(s)
    BY <1>3 DEF Iterates
  <2>2. ASSUME NEW j \in 1..n PROVE f[j] = After(f[j - 1], j)
    <3>1. j - 1 \in 0..n
      BY SubmitterType
    <3>2. f[j - 1] \in Troubled(m)
      BY <2>1, <3>1
    <3>3. f[j] = step[j][f[j - 1]]
      BY <1>3 DEF Iterates
    <3> HIDE DEF After
    <3> QED BY <3>2, <3>3
  <2>3. \A j \in 0..n : f[j] = IF j = 0 THEN Update(s)
                               ELSE IF SubmitterSeq[j] = m THEN f[j - 1]
                               ELSE Tell(f[j - 1], SubmitterSeq[j])
    BY <2>1, <2>2, SubmitterType
  <2> QED BY <2>1, <2>3
<1>5. Told(s, m) = CHOOSE g : Is(g)
  BY DEF Told
<1>6. Is(Told(s, m))
  BY <1>4, <1>5
<1> DEFINE Bad == {j \in 0..n : Told(s, m)[j] \notin Troubled(m)}
<1>7. SUFFICES ASSUME Bad # {} PROVE FALSE
  OBVIOUS
<1>8. PICK j \in Bad : \A i \in Bad : j <= i
  <2>1. Bad \in SUBSET Nat
    BY SubmitterType
  <2> HIDE DEF Bad
  <2> QED BY <1>7, <2>1, LeastElement
<1>9. CASE j = 0
  BY <1>6, <1>8, <1>9, SubmitterType
<1>10. CASE j # 0
  <2>1. j - 1 \in 0..n /\ j \in 1..n /\ j - 1 \notin Bad
    BY <1>8, <1>10, SubmitterType
  <2>2. Told(s, m)[j] = After(Told(s, m)[j - 1], j)
    BY <1>6, <2>1, <1>10
  <2> QED BY <1>1, <1>8, <2>1, <2>2
<1> QED BY <1>9, <1>10

-----------------------------------------------------------------------------
(* The invariant *)

AllAre(s, state) == \A m \in TxMgrs : s.mgrs[m] = state

\* What a tracker says of its managers
Agrees(s) ==
    /\ s.tracker = "failed" => AllAre(s, "failed")
    /\ s.tracker = "confirmed" => AllAre(s, "confirmed") /\ s.recheck = {}
    /\ AllAre(s, "confirmed") => s.tracker \in {"confirmed", "submitting"}

\* A tx has a batch from when it has a tracker, and is prompted for once it is built.
Placed(x) ==
    /\ tracker[x] = "none" <=> batchOf[x] = NoBatch
    /\ x \in prompting => tracker[x] = "built"

\* A tx that is submitted has its managers, and one that is not has none.
Follows(x) ==
    IF tracker[x] \in InFlight
    THEN /\ x \notin destroyed /\ ownedBy[x] = "globalTracker"
         /\ Together(x) \in Tracked /\ Agrees(Together(x))
    ELSE \A m \in TxMgrs : mgrState[x][m] = "none"

TxsTyped ==
    /\ tracker \in [BatchTxs -> TrackerStates]
    /\ batchOf \in [BatchTxs -> Batches \cup {NoBatch}]
    /\ ownedBy \in [BatchTxs -> {"batch", "globalTracker"}]
    /\ destroyed \subseteq BatchTxs /\ prompting \subseteq BatchTxs
    /\ mgrState \in [BatchTxs -> [TxMgrs -> MgrStates]]
    /\ recheck \in [BatchTxs -> SUBSET TxMgrs]

TxsInv == TxsTyped /\ \A x \in BatchTxs : Placed(x) /\ Follows(x)

\* Batches are numbered as they are made.
Numbered ==
    /\ made \in 0..MaxBatches
    /\ current \in 0..made /\ previous \in 0..made /\ chainBuilder \in 0..made
    /\ gone \subseteq 1..made /\ complete \subseteq 1..made
    /\ early \in BOOLEAN
    /\ \A x \in BatchTxs : batchOf[x] \in 0..made

\* A batch that is neither the current one nor destroyed was rotated out, and was
\* confirmed by then.
Rotated == ~early => \A b \in 1..made : b = current \/ b \in gone \/ AllDone(b)

BatchInv == TxsInv /\ Numbered /\ Rotated /\ ChainBuilderKept

\* What the numbers of batches amount to.
LEMMA NumberedRange ==
    Numbered => /\ made \in Nat /\ NoBatch \in 0..made
                /\ \A n \in 0..made : n # NoBatch => n \in 1..made
                /\ \A n \in 1..(made + 1) : n # made + 1 => n \in 1..made
                /\ 1..made \subseteq 1..(made + 1) /\ 0..made \subseteq 0..(made + 1)
<1> SUFFICES ASSUME Numbered PROVE made \in Nat
  BY DEF NoBatch
<1> QED BY BatchBound DEF Numbered

-----------------------------------------------------------------------------
(* The managers of a tx *)

\* A manager that moves on, or looks again, leaves a tracker that agrees with all.
LEMMA MgrMoves ==
    ASSUME NEW s \in Tracked, Agrees(s), NEW m \in TxMgrs, NEW state \in MgrStates,
           NEW left \in SUBSET s.recheck,
           \/ /\ state \in Moves(s.mgrs[m]) /\ left = s.recheck
              /\ state = "confirmed" => s.recheck = {}
           \/ m \in s.recheck /\ state = "confirming"
    PROVE  LET t == [s EXCEPT !.mgrs[m] = state, !.recheck = left]
           IN  Update(t) \in Tracked /\ Agrees(Update(t))
<1> DEFINE t == [s EXCEPT !.mgrs[m] = state, !.recheck = left]
<1>1. state # "none" /\ s.tracker # "confirmed"
  BY DEF Moves, Agrees, AllAre
<1>2. /\ t \in Tracked /\ t.tracker = s.tracker /\ t.recheck = left
      /\ t.mgrs = [s.mgrs EXCEPT ![m] = state]
  BY <1>1 DEF Tracked
<1>3. /\ t.mgrs[m] = state
      /\ \A o \in TxMgrs \ {m} : t.mgrs[o] = s.mgrs[o]
  BY <1>2 DEF Tracked
<1> HIDE DEF t
<1>4. \A r \in {"confirmed", "failed"} : Aggregate(t.mgrs) = r <=> AllAre(t, r)
  BY AggregateType DEF AllAre
<1>5. ASSUME s.tracker = "failed"
      PROVE  ~NoTransition(t) /\ ~AllAre(t, "failed") /\ ~AllAre(t, "confirmed")
  <2>1. \A o \in TxMgrs : s.mgrs[o] = "failed"
    BY <1>5 DEF Agrees, AllAre
  <2>2. state \in {"submitting", "confirming"}
    BY <2>1 DEF Moves
  <2>3. Aggregate(t.mgrs) = state
    BY <1>3, <2>1, <2>2, OneMovesOn
  <2> QED BY <1>2, <1>3, <1>5, <2>2, <2>3 DEF NoTransition, Rows, AllAre
<1>6. AllAre(t, "confirmed") => t.recheck = {}
  BY <1>2, <1>3 DEF AllAre
<1>7. /\ Update(t) \in Tracked /\ Update(t).recheck = t.recheck
      /\ \A r \in MgrStates : AllAre(Update(t), r) <=> AllAre(t, r)
      /\ Update(t).tracker = IF NoTransition(t) THEN s.tracker ELSE Aggregate(t.mgrs)
  BY <1>2, UpdateTracked DEF AllAre
<1>8. CASE NoTransition(t)
  <2>1. s.tracker \notin {"failed", "confirmed"}
    BY <1>1, <1>5, <1>8
  <2>2. AllAre(t, "confirmed") => s.tracker = "submitting"
    <3>1. AllAre(t, "confirmed") => "confirmed" \notin Rows(s.tracker)
      BY <1>2, <1>4, <1>8 DEF NoTransition
    <3>2. s.tracker \in InFlight
      BY DEF Tracked
    <3> QED BY <2>1, <3>1, <3>2 DEF Rows, InFlight
  <2> QED BY <1>7, <1>8, <2>1, <2>2 DEF Agrees, MgrStates, t
<1>9. CASE ~NoTransition(t)
  BY <1>4, <1>6, <1>7, <1>9 DEF Agrees, MgrStates, t
<1> QED BY <1>8, <1>9

\* One notification of a failure, wherever it stops, stays within what is true of it.
LEMMA ReportsTroubled ==
    ASSUME NEW m \in TxMgrs, NEW s \in Tracked, Update(s) \in Troubled(m)
    PROVE  Reports(s, m) \subseteq Troubled(m)
<1>1. CASE NoTransition(s)
  BY <1>1 DEF Reports, Update
<1>2. CASE ~NoTransition(s)
  BY <1>2, ToldTroubled DEF Reports
<1> QED BY <1>1, <1>2

\* A failure and both its notifications leave a tracker that agrees with its managers.
LEMMA FailureTroubles ==
    ASSUME NEW m \in TxMgrs, NEW s \in Tracked, Agrees(s), s.mgrs[m] # "confirmed"
    PROVE  LET f == [s EXCEPT !.mgrs[m] = "failed"]
           IN  \A r \in Reports(f, m) : \A t \in Reports(r, m) : t \in Tracked /\ Agrees(t)
<1> DEFINE f == [s EXCEPT !.mgrs[m] = "failed"]
<1>1. /\ f \in Tracked /\ f.tracker = s.tracker
      /\ f.mgrs = [s.mgrs EXCEPT ![m] = "failed"]
  BY DEF Tracked, MgrStates
<1>2. f.mgrs[m] = "failed" /\ \A o \in TxMgrs \ {m} : f.mgrs[o] = s.mgrs[o]
  BY <1>1 DEF Tracked
<1> HIDE DEF f
<1>3. s.tracker # "confirmed" /\ (s.tracker = "failed" => \A o \in TxMgrs : f.mgrs[o] = "failed")
  BY <1>2 DEF Agrees, AllAre
<1>4. Update(f) \in Troubled(m)
  BY <1>1, <1>2, <1>3, UpdateTroubled
<1>5. ASSUME NEW r \in Reports(f, m), NEW t \in Reports(r, m)
      PROVE  t \in Tracked /\ Agrees(t)
  <2>1. r \in Troubled(m)
    BY <1>1, <1>4, ReportsTroubled
  <2>2. r \in Tracked /\ Update(r) \in Troubled(m)
    BY <2>1, UpdateTroubled DEF Troubled
  <2>3. t \in Troubled(m)
    BY <2>2, ReportsTroubled
  <2> QED BY <2>3 DEF Troubled, Agrees, AllAre
<1> QED BY <1>5 DEF f

-----------------------------------------------------------------------------
(* The steps of one tx *)

\* The managers have told the tracker something.
LEMMA GetsKeeps ==
    ASSUME TxsInv, NEW x \in BatchTxs, Working(x), NEW s \in Tracked, Agrees(s), Gets(x, s)
    PROVE  TxsInv'
<1> USE DEF TxsInv, TxsTyped
<1>0. InFlight \subseteq TrackerStates /\ "none" \notin InFlight /\ "built" \notin InFlight
  BY DEF InFlight, TrackerStates
<1>1. /\ tracker' = [tracker EXCEPT ![x] = s.tracker]
      /\ mgrState' = [mgrState EXCEPT ![x] = s.mgrs]
      /\ recheck' = [recheck EXCEPT ![x] = s.recheck]
      /\ UNCHANGED <<batchOf, ownedBy, destroyed, prompting>>
  BY DEF Gets, TrackerBecomes
<1>2. s.tracker \in InFlight /\ s.mgrs \in [TxMgrs -> MgrStates] /\ s.recheck \subseteq TxMgrs
  BY DEF Tracked
<1>3. TxsTyped'
  BY <1>0, <1>1, <1>2
<1>4. s = [tracker |-> s.tracker, mgrs |-> s.mgrs, recheck |-> s.recheck]
  BY DEF Tracked
<1>5. Together(x)' = s
  BY <1>1, <1>4 DEF Together
<1>6. Placed(x)' /\ Follows(x)'
  BY <1>0, <1>1, <1>2, <1>5 DEF Placed, Follows, Working
<1>7. ASSUME NEW y \in BatchTxs, y # x PROVE Placed(y)' /\ Follows(y)'
  BY <1>1, <1>7 DEF Placed, Follows, Together
<1> QED BY <1>3, <1>6, <1>7

\* A step of a manager keeps what is true of the txs, and no done tx takes one.
LEMMA MgrStepKeeps ==
    ASSUME TxsInv, NEW x \in BatchTxs, NEW m \in TxMgrs,
           MgrEnters(x, m) \/ MgrLooksAgain(x, m) \/ MgrFails(x, m)
    PROVE  /\ TxsInv' /\ tracker[x] \notin {"none", "built", "confirmed", "not needed"}
           /\ \E s \in Tracked : Gets(x, s)
<1>1. Working(x)
  BY DEF MgrEnters, MgrLooksAgain, MgrFails
<1>2. Together(x) \in Tracked /\ Agrees(Together(x))
  BY <1>1 DEF TxsInv, Follows, Working
<1>3. mgrState[x] = Together(x).mgrs /\ recheck[x] = Together(x).recheck
      /\ tracker[x] = Together(x).tracker
  BY DEF Together
<1>4. tracker[x] \notin {"none", "built", "not needed"}
  BY <1>1 DEF Working, InFlight
<1>5. Together(x).recheck \subseteq TxMgrs /\ Together(x).mgrs[m] \in MgrStates
  BY <1>2 DEF Tracked
<1>6. CASE MgrEnters(x, m)
  <2>1. PICK state \in Moves(mgrState[x][m]) :
          /\ state = "confirmed" => recheck[x] = {}
          /\ Gets(x, Update([Together(x) EXCEPT !.mgrs[m] = state]))
    BY <1>6 DEF MgrEnters
  <2>2. state \in MgrStates
    BY <1>3, <1>5 DEF Moves, MgrStates
  <2>3. [Together(x) EXCEPT !.mgrs[m] = state]
          = [Together(x) EXCEPT !.mgrs[m] = state, !.recheck = Together(x).recheck]
    BY <1>2 DEF Tracked
  <2> DEFINE s == Update([Together(x) EXCEPT !.mgrs[m] = state])
  <2>4. s \in Tracked /\ Agrees(s)
    <3> DEFINE now == Together(x)
    <3>1. /\ now \in Tracked /\ Agrees(now) /\ state \in Moves(now.mgrs[m])
          /\ state = "confirmed" => now.recheck = {}
      BY <1>2, <1>3, <2>1
    <3>2. s = Update([now EXCEPT !.mgrs[m] = state, !.recheck = now.recheck])
      BY <2>3
    <3> HIDE DEF s, now
    <3> QED BY <2>2, <3>1, <3>2, MgrMoves
  <2>5. TxsInv'
    BY <1>1, <2>1, <2>4, GetsKeeps
  <2>6. tracker[x] # "confirmed"
    BY <1>2, <1>3, <2>1 DEF Agrees, AllAre, Moves
  <2> QED BY <1>4, <2>1, <2>4, <2>5, <2>6
<1>7. CASE MgrLooksAgain(x, m)
  <2> DEFINE left == Together(x).recheck \ {m}
             s == Update([Together(x) EXCEPT !.mgrs[m] = "confirming", !.recheck = left])
  <2>1. m \in Together(x).recheck
    BY <1>3, <1>7 DEF MgrLooksAgain
  <2>2. s \in Tracked /\ Agrees(s)
    BY <1>2, <2>1, MgrMoves DEF MgrStates
  <2>3. Gets(x, s)
    BY <1>7 DEF MgrLooksAgain
  <2>4. tracker[x] # "confirmed"
    BY <1>2, <1>3, <2>1 DEF Agrees
  <2> QED BY <1>1, <1>4, <2>2, <2>3, <2>4, GetsKeeps
<1>8. CASE MgrFails(x, m)
  <2>1. Together(x).mgrs[m] # "confirmed"
    BY <1>3, <1>8 DEF MgrFails
  <2>2. PICK s \in Reports([Together(x) EXCEPT !.mgrs[m] = "failed"], m) :
          \E t \in Reports(s, m) : Gets(x, t)
    BY <1>8 DEF MgrFails
  <2>3. PICK t \in Reports(s, m) : Gets(x, t)
    BY <2>2
  <2>4. t \in Tracked /\ Agrees(t)
    BY <1>2, <2>1, FailureTroubles
  <2>5. tracker[x] # "confirmed"
    BY <1>2, <1>3, <2>1 DEF Agrees, AllAre
  <2> QED BY <1>1, <1>4, <2>3, <2>4, <2>5, GetsKeeps
<1> QED BY <1>6, <1>7, <1>8

\* Building, and asking the wallet, do not concern the managers.
LEMMA BuildStepKeeps ==
    ASSUME TxsInv, Numbered, NEW x \in BatchTxs,
           addTxDescr(x) \/ Resolve(x) \/ signAndSubmit(x) \/ Refused(x)
    PROVE  TxsInv'
<1> USE DEF TxsInv, TxsTyped
<1>1. /\ UNCHANGED <<ownedBy, destroyed, mgrVars>>
      /\ tracker[x] \notin InFlight
      /\ tracker' = tracker \/ \E state \in TrackerStates \ (InFlight \cup {"none"}) :
                                tracker' = [tracker EXCEPT ![x] = state]
  <2>1. CASE addTxDescr(x)
    BY <2>1 DEF addTxDescr, TrackerBecomes, TrackerStates, InFlight
  <2>2. CASE Resolve(x)
    BY <2>2 DEF Resolve, TrackerBecomes, TrackerStates, InFlight
  <2>3. CASE signAndSubmit(x)
    BY <2>3 DEF signAndSubmit, InFlight
  <2>4. CASE Refused(x)
    BY <2>4 DEF Refused, Placed, InFlight
  <2> QED BY <2>1, <2>2, <2>3, <2>4
<1>2. /\ batchOf' \in [BatchTxs -> Batches \cup {NoBatch}]
      /\ \A y \in BatchTxs \ {x} : batchOf'[y] = batchOf[y]
  <2>1. CASE addTxDescr(x)
    <3>1. batchOf' = [batchOf EXCEPT ![x] = current] /\ current \in Batches \cup {NoBatch}
      BY <2>1, BatchBound DEF addTxDescr, Numbered, Batches, NoBatch
    <3> QED BY <3>1
  <2>2. CASE Resolve(x) \/ signAndSubmit(x) \/ Refused(x)
    BY <2>2 DEF Resolve, signAndSubmit, Refused
  <2> QED BY <2>1, <2>2
<1>3. prompting' \subseteq BatchTxs /\ \A y \in BatchTxs \ {x} : y \in prompting' <=> y \in prompting
  BY DEF addTxDescr, Resolve, signAndSubmit, Refused
<1>4. TxsTyped'
  BY <1>1, <1>2, <1>3 DEF mgrVars
<1>5. ASSUME NEW y \in BatchTxs PROVE Follows(y)'
  <2>1. CASE y = x
    BY <1>1, <2>1 DEF Follows, mgrVars
  <2>2. CASE y # x
    <3>1. tracker'[y] = tracker[y]
      BY <1>1, <2>2
    <3> QED BY <1>1, <3>1 DEF Follows, Together, mgrVars
  <2> QED BY <2>1, <2>2
<1>6. \A y \in BatchTxs \ {x} : Placed(y)'
  BY <1>1, <1>2, <1>3 DEF Placed
<1>7. Placed(x)'
  <2>1. CASE addTxDescr(x)
    <3>1. current # NoBatch /\ x \notin prompting
      BY <2>1 DEF addTxDescr, Placed
    <3> QED BY <2>1, <3>1 DEF addTxDescr, TrackerBecomes, Placed
  <2>2. CASE Resolve(x)
    BY <2>2 DEF Resolve, TrackerBecomes, Placed
  <2>3. CASE signAndSubmit(x)
    BY <2>3 DEF signAndSubmit, Placed
  <2>4. CASE Refused(x)
    BY <2>4 DEF Refused, Placed
  <2> QED BY <2>1, <2>2, <2>3, <2>4
<1> QED BY <1>4, <1>5, <1>6, <1>7

\* A signed tx gets all its managers, which are submitting as it is.
LEMMA SignedKeeps ==
    ASSUME TxsInv, NEW x \in BatchTxs, didSignTx(x)
    PROVE  TxsInv'
<1> USE DEF TxsInv, TxsTyped
<1>1. CASE x \in destroyed
  BY <1>1 DEF didSignTx, Placed, Follows, Together
<1>2. CASE x \notin destroyed
  <2>1. /\ tracker' = [tracker EXCEPT ![x] = "submitting"]
        /\ ownedBy' = [ownedBy EXCEPT ![x] = "globalTracker"]
        /\ mgrState' = [mgrState EXCEPT ![x] = [m \in TxMgrs |-> "submitting"]]
        /\ prompting' = prompting \ {x}
        /\ UNCHANGED <<batchOf, destroyed, recheck>>
    BY <1>2 DEF didSignTx, TrackerBecomes
  <2>2. TxsTyped'
    BY <2>1 DEF TrackerStates, MgrStates
  <2>3. Placed(x)'
    BY <2>1 DEF Placed, didSignTx
  <2>4. Follows(x)'
    <3>1. Together(x)' \in Tracked
      BY <2>1 DEF Together, Tracked, InFlight, MgrStates
    <3>2. Agrees(Together(x))'
      BY <2>1, MgrsFinite DEF Together, Agrees, AllAre
    <3> QED BY <1>2, <2>1, <3>1, <3>2 DEF Follows, InFlight
  <2>5. ASSUME NEW y \in BatchTxs, y # x PROVE Placed(y)' /\ Follows(y)'
    BY <2>1, <2>5 DEF Placed, Follows, Together
  <2> QED BY <2>2, <2>3, <2>4, <2>5
<1> QED BY <1>1, <1>2

\* Batches come and go.
LEMMA BatchStepKeeps ==
    ASSUME TxsInv, GetCurrent \/ NewTxnContext \/ Close \/ cancel
    PROVE  TxsInv'
<1>1. /\ UNCHANGED <<tracker, batchOf, ownedBy, prompting, mgrVars>>
      /\ destroyed' = destroyed \/
           \E bs : destroyed' = destroyed \cup
                      {x \in BatchTxs : batchOf[x] \in bs \ {NoBatch} /\ ownedBy[x] = "batch"}
  BY DEF GetCurrent, NewTxnContext, Close, cancel, rotate, destroy, txVars
<1>2. /\ destroyed' \subseteq BatchTxs
      /\ \A x \in BatchTxs : ownedBy[x] = "globalTracker" /\ x \in destroyed' => x \in destroyed
  BY <1>1 DEF TxsInv, TxsTyped
<1>3. \A x \in BatchTxs : Placed(x)' /\ Follows(x)'
  BY <1>1, <1>2 DEF TxsInv, Placed, Follows, Together, mgrVars
<1> QED BY <1>1, <1>2, <1>3 DEF TxsInv, TxsTyped, mgrVars

-----------------------------------------------------------------------------
(* The batches *)

\* what updateAggregateState() may do to the batches
MayComplete(b) ==
    \/ UNCHANGED <<complete, chainBuilder>>
    \/ b \notin gone /\ complete' = complete \cup {b} /\ chainBuilder' = NoBatch

\* A tracker of batch b changes that was not done: of the batches only b may be
\* confirmed by it, and the chain builder goes only with the batch it was made for.
LEMMA AggregateKeeps ==
    ASSUME TxsInv, Numbered, Rotated, ChainBuilderKept, NEW x \in BatchTxs,
           UNCHANGED <<made, current, previous, gone, early>>,
           tracker[x] \notin {"confirmed", "not needed"},
           \A y \in BatchTxs \ {x} : tracker'[y] = tracker[y],
           \A y \in BatchTxs \ {x} : batchOf'[y] = batchOf[y],
           \/ batchOf'[x] = batchOf[x] /\ batchOf[x] \in 1..made
           \/ batchOf[x] = NoBatch /\ batchOf'[x] = current /\ current # NoBatch,
           MayComplete(batchOf'[x])
    PROVE  Numbered' /\ Rotated' /\ ChainBuilderKept'
<1> DEFINE b == batchOf'[x]
<1>1. b \in 1..made
  <2>1. current \in 0..made
    BY DEF Numbered
  <2> QED BY <2>1, NumberedRange
<1>2. complete' \subseteq 1..made /\ complete \subseteq complete' /\ chainBuilder' \in {chainBuilder, NoBatch}
  BY <1>1 DEF MayComplete, Numbered
<1>3. Numbered'
  <2>1. NoBatch \in 0..made
    BY NumberedRange
  <2>2. \A y \in BatchTxs : batchOf'[y] \in 0..made
    BY DEF Numbered
  <2> QED BY <1>2, <2>1, <2>2 DEF Numbered
<1>4. ASSUME NEW c \in 1..made, c # current, AllDone(c)
      PROVE  AllDone(c)' /\ c # b
  <2>1. x \notin Members(c)
    BY <1>4 DEF AllDone
  <2>2. batchOf[x] # c
    BY <2>1 DEF Members
  <2>3. c # b
    BY <1>4, <2>2
  <2>4. Members(c)' = Members(c)
    BY <2>2, <2>3 DEF Members
  <2>5. \A y \in Members(c) : tracker'[y] = tracker[y]
    BY <2>1 DEF Members
  <2> QED BY <1>4, <2>3, <2>4, <2>5 DEF AllDone
<1>5. Rotated'
  BY <1>4 DEF Rotated
<1>6. ChainBuilderKept'
  <2> SUFFICES ASSUME current # NoBatch, current \notin complete', ~early
               PROVE  chainBuilder' = current
    BY DEF ChainBuilderKept
  <2>1. chainBuilder = current
    BY <1>2 DEF ChainBuilderKept
  <2>2. CASE UNCHANGED chainBuilder
    BY <2>1, <2>2
  <2>3. CASE ~(UNCHANGED chainBuilder)
    <3>1. b \notin gone /\ b \in complete'
      BY <2>3 DEF MayComplete
    <3>2. AllDone(b)
      BY <1>1, <3>1 DEF Rotated
    <3> QED BY <1>1, <1>4, <3>1, <3>2
  <2> QED BY <2>2, <2>3
<1> QED BY <1>3, <1>5, <1>6

\* A new batch, after the present one was rotated out or cancelled.
LEMMA NewBatchKeeps ==
    ASSUME TxsInv, Numbered, Rotated, ChainBuilderKept,
           GetCurrent \/ NewTxnContext \/ Close \/ cancel
    PROVE  Numbered' /\ Rotated' /\ ChainBuilderKept'
<1>1. UNCHANGED <<tracker, batchOf, complete>>
  BY DEF GetCurrent, NewTxnContext, Close, cancel, rotate, txVars
<1>2. \A b : AllDone(b)' <=> AllDone(b)
  BY <1>1 DEF AllDone, Members
<1>3. CASE GetCurrent
  <2>1. made + 1 \in 1..MaxBatches
    BY <1>3, BatchBound DEF GetCurrent, MakesBatch, Numbered
  <2>2. /\ made' = made + 1 /\ current' = made + 1 /\ chainBuilder' = made + 1
        /\ UNCHANGED <<previous, gone, early>> /\ current = NoBatch
    BY <1>3 DEF GetCurrent, MakesBatch
  <2>3. Numbered'
    BY <1>1, <2>1, <2>2 DEF Numbered
  <2>4. Rotated'
    BY <1>2, <2>2 DEF Rotated, NoBatch, Numbered
  <2> QED BY <2>2, <2>3, <2>4 DEF ChainBuilderKept
<1>4. CASE NewTxnContext
  <2>1. made + 1 \in 1..MaxBatches
    BY <1>4, BatchBound DEF NewTxnContext, MakesBatch, Numbered
  <2>2. /\ made' = made + 1 /\ current' = made + 1 /\ chainBuilder' = made + 1
        /\ previous' = current /\ gone' = gone \cup ({previous} \ {NoBatch})
        /\ early' = (early \/ (current # NoBatch /\ ~AllDone(current)))
    BY <1>4 DEF NewTxnContext, MakesBatch, rotate, destroy
  <2>3. Numbered'
    <3>1. gone' \subseteq 1..made'
      BY <2>2 DEF Numbered, NoBatch
    <3> QED BY <1>1, <2>1, <2>2, <3>1 DEF Numbered
  <2>4. Rotated'
    <3> SUFFICES ASSUME ~early', NEW b \in 1..(made + 1), b # made + 1, b \notin gone'
                 PROVE  AllDone(b)
      BY <1>2, <2>2 DEF Rotated
    <3>1. b \in 1..made /\ b # NoBatch /\ b \notin gone
      BY <2>2, NumberedRange DEF NoBatch
    <3>2. ~early /\ (current # NoBatch => AllDone(current))
      BY <2>2
    <3>3. CASE b = current
      BY <3>1, <3>2, <3>3
    <3>4. CASE b # current
      BY <3>1, <3>2, <3>4 DEF Rotated
    <3> QED BY <3>3, <3>4
  <2> QED BY <2>2, <2>3, <2>4 DEF ChainBuilderKept
<1>5. CASE Close
  <2>1. /\ current' = NoBatch /\ chainBuilder' = NoBatch /\ made' = made
        /\ previous' = current /\ gone' = gone \cup ({previous} \ {NoBatch})
        /\ early' = (early \/ (current # NoBatch /\ ~AllDone(current)))
    BY <1>5 DEF Close, rotate, destroy
  <2>2. Numbered'
    BY <1>1, <2>1 DEF Numbered, NoBatch
  <2>3. Rotated'
    BY <1>2, <2>1 DEF Rotated, NoBatch, Numbered
  <2> QED BY <2>1, <2>2, <2>3 DEF ChainBuilderKept
<1>6. CASE cancel
  <2>1. /\ current' = NoBatch /\ chainBuilder' = NoBatch /\ previous' = NoBatch
        /\ UNCHANGED <<made, early>> /\ gone' = gone \cup ({previous, current} \ {NoBatch})
    BY <1>6 DEF cancel, destroy
  <2>2. Numbered'
    BY <1>1, <2>1 DEF Numbered, NoBatch
  <2>3. Rotated'
    BY <1>2, <2>1 DEF Rotated, NoBatch, Numbered
  <2> QED BY <2>1, <2>2, <2>3 DEF ChainBuilderKept
<1> QED BY <1>3, <1>4, <1>5, <1>6

\* Every step of a tx keeps the invariant.
LEMMA TxStepKeeps ==
    ASSUME BatchInv, NEW x \in BatchTxs,
           \/ addTxDescr(x) \/ Resolve(x) \/ signAndSubmit(x) \/ Refused(x) \/ didSignTx(x)
           \/ \E m \in TxMgrs : MgrEnters(x, m) \/ MgrLooksAgain(x, m) \/ MgrFails(x, m)
    PROVE  BatchInv'
<1> USE DEF BatchInv
<1>0. Placed(x) /\ Follows(x) /\ batchOf[x] \in 0..made /\ TxsTyped
  BY DEF TxsInv, Numbered
<1>1. CASE UNCHANGED <<tracker, batchOf, batchVars>> /\ TxsInv'
  BY <1>1 DEF batchVars, Numbered, Rotated, AllDone, Members, ChainBuilderKept
<1>2. CASE addTxDescr(x)
  <2>1. TxsInv'
    BY <1>2, BuildStepKeeps
  <2>2. /\ tracker[x] = "none" /\ current # NoBatch
        /\ UNCHANGED <<made, current, previous, gone, early>>
        /\ \E state \in {"registered", "built"} : tracker' = [tracker EXCEPT ![x] = state]
        /\ batchOf' = [batchOf EXCEPT ![x] = current]
        /\ MayComplete(current)
    BY <1>2 DEF addTxDescr, TrackerBecomes, MayComplete, updateAggregateState
  <2>3. /\ batchOf[x] = NoBatch /\ batchOf'[x] = current
        /\ \A y \in BatchTxs \ {x} : batchOf'[y] = batchOf[y] /\ tracker'[y] = tracker[y]
    BY <1>0, <2>2 DEF Placed, TxsTyped
  <2> QED BY <2>1, <2>2, <2>3, AggregateKeeps
<1>3. CASE Resolve(x)
  <2>1. TxsInv'
    BY <1>3, BuildStepKeeps
  <2>2. /\ tracker[x] \in {"registered", "building"} /\ batchOf[x] = current
        /\ UNCHANGED <<made, current, previous, gone, early, batchOf>>
        /\ \E state \in TrackerStates : tracker' = [tracker EXCEPT ![x] = state]
        /\ MayComplete(current)
    BY <1>3 DEF Resolve, TrackerBecomes, TrackerStates, MayComplete, updateAggregateState
  <2>3. /\ batchOf[x] \in 1..made /\ batchOf'[x] = batchOf[x]
        /\ \A y \in BatchTxs \ {x} : batchOf'[y] = batchOf[y] /\ tracker'[y] = tracker[y]
    BY <1>0, <2>2 DEF Placed, TxsTyped, NoBatch, Numbered
  <2> QED BY <2>1, <2>2, <2>3, AggregateKeeps
<1>4. CASE signAndSubmit(x) \/ Refused(x)
  BY <1>1, <1>4, BuildStepKeeps DEF signAndSubmit, Refused
<1>5. CASE didSignTx(x)
  <2>1. TxsInv'
    BY <1>5, SignedKeeps
  <2>2. CASE x \in destroyed
    BY <1>1, <1>5, <2>1, <2>2 DEF didSignTx
  <2>3. CASE x \notin destroyed
    <3>1. /\ UNCHANGED <<made, current, previous, gone, early, batchOf>>
          /\ tracker' = [tracker EXCEPT ![x] = "submitting"]
          /\ MayComplete(batchOf[x])
          /\ tracker[x] = "built"
      BY <1>0, <1>5, <2>3 DEF didSignTx, TrackerBecomes, Placed, MayComplete, updateAggregateState
    <3>2. /\ batchOf[x] \in 1..made /\ batchOf'[x] = batchOf[x]
          /\ \A y \in BatchTxs \ {x} : batchOf'[y] = batchOf[y] /\ tracker'[y] = tracker[y]
      BY <1>0, <3>1 DEF Placed, TxsTyped, NoBatch, Numbered
    <3> QED BY <2>1, <3>1, <3>2, AggregateKeeps
  <2> QED BY <2>2, <2>3
<1>6. ASSUME NEW m \in TxMgrs, MgrEnters(x, m) \/ MgrLooksAgain(x, m) \/ MgrFails(x, m)
      PROVE  BatchInv'
  <2>1. TxsInv' /\ tracker[x] \notin {"none", "built", "confirmed", "not needed"}
    BY <1>6, MgrStepKeeps
  <2>2. PICK s \in Tracked : Gets(x, s)
    BY <1>6, MgrStepKeeps
  <2>3. /\ UNCHANGED <<made, current, previous, gone, early, batchOf>>
        /\ tracker' = [tracker EXCEPT ![x] = s.tracker]
        /\ MayComplete(batchOf[x])
    BY <2>2 DEF Gets, TrackerBecomes, MayComplete, updateAggregateState
  <2>4. /\ batchOf[x] \in 1..made /\ batchOf'[x] = batchOf[x]
        /\ \A y \in BatchTxs \ {x} : batchOf'[y] = batchOf[y] /\ tracker'[y] = tracker[y]
    BY NumberedRange, <1>0, <2>1, <2>3 DEF Placed, TxsTyped, Numbered
  <2> QED BY <2>1, <2>3, <2>4, AggregateKeeps
<1> QED BY <1>2, <1>3, <1>4, <1>5, <1>6

\* The invariant holds at first,
LEMMA BatchInitOK == BatchInit => BatchInv
<1> SUFFICES ASSUME BatchInit PROVE BatchInv
  OBVIOUS
<1>1. TxsTyped
  BY DEF BatchInit, TxsTyped, TrackerStates, MgrStates
<1>2. ASSUME NEW x \in BatchTxs PROVE Placed(x) /\ Follows(x)
  BY DEF BatchInit, Placed, Follows, InFlight
<1>3. Numbered
  <2>1. 0 \in 0..MaxBatches /\ 0 \in 0..0
    BY BatchBound
  <2> QED BY <2>1 DEF BatchInit, Numbered, NoBatch
<1>4. Rotated /\ ChainBuilderKept
  BY DEF BatchInit, Rotated, ChainBuilderKept
<1> QED BY <1>1, <1>2, <1>3, <1>4 DEF BatchInv, TxsInv

\* every step keeps it,
LEMMA BatchNextKeeps == BatchInv /\ [BatchNext]_submitVars => BatchInv'
<1> SUFFICES ASSUME BatchInv, [BatchNext]_submitVars PROVE BatchInv'
  OBVIOUS
<1>1. CASE GetCurrent \/ NewTxnContext \/ Close \/ cancel
  <2>1. TxsInv'
    BY <1>1, BatchStepKeeps DEF BatchInv
  <2>2. Numbered' /\ Rotated' /\ ChainBuilderKept'
    BY <1>1, NewBatchKeeps DEF BatchInv
  <2> QED BY <2>1, <2>2 DEF BatchInv
<1>2. ASSUME NEW x \in BatchTxs,
             \/ addTxDescr(x) \/ Resolve(x) \/ signAndSubmit(x) \/ Refused(x) \/ didSignTx(x)
             \/ \E m \in TxMgrs : MgrEnters(x, m) \/ MgrLooksAgain(x, m) \/ MgrFails(x, m)
      PROVE  BatchInv'
  BY <1>2, TxStepKeeps
<1>3. CASE UNCHANGED submitVars
  <2>1. UNCHANGED <<tracker, batchOf, ownedBy, destroyed, prompting, mgrState, recheck, made, current,
                    previous, gone, complete, chainBuilder, early>>
    BY <1>3 DEF submitVars, txVars, mgrVars, batchVars
  <2>2. TxsInv'
    BY <2>1 DEF BatchInv, TxsInv, TxsTyped, Placed, Follows, Together
  <2>3. Numbered' /\ Rotated' /\ ChainBuilderKept'
    BY <2>1 DEF BatchInv, Numbered, Rotated, AllDone, Members, ChainBuilderKept
  <2> QED BY <2>2, <2>3 DEF BatchInv
<1> QED BY <1>1, <1>2, <1>3 DEF BatchNext

\* and so it holds always.
LEMMA BatchInvariant == BatchSpec => []BatchInv
BY BatchInitOK, BatchNextKeeps, PTL DEF BatchSpec

\* What the invariant says of the properties.
LEMMA InvSays ==
    ASSUME BatchInv
    PROVE  /\ BatchTypeOK /\ LiveTrackersSurvive /\ ConfirmedMeansConfirmed /\ TrackerFollows
<1>1. BatchTypeOK
  <2>1. 0..made \subseteq Batches \cup {NoBatch} /\ 1..made \subseteq Batches /\ made \in 0..made
    BY BatchBound DEF BatchInv, Numbered, Batches, NoBatch
  <2> QED BY <2>1 DEF BatchInv, TxsInv, TxsTyped, Numbered, BatchTypeOK
<1>2. ASSUME NEW x \in BatchTxs, tracker[x] \in InFlight
      PROVE  /\ x \notin destroyed /\ ownedBy[x] = "globalTracker"
             /\ \A m \in TxMgrs : mgrState[x][m] # "none"
             /\ Agrees(Together(x))
  BY <1>2 DEF BatchInv, TxsInv, Follows, Together, Tracked
<1>3. LiveTrackersSurvive
  BY <1>2 DEF LiveTrackersSurvive
<1>4. ConfirmedMeansConfirmed
  <2> SUFFICES ASSUME NEW x \in BatchTxs, tracker[x] = "confirmed"
               PROVE  \A m \in TxMgrs : mgrState[x][m] = "confirmed"
    BY DEF ConfirmedMeansConfirmed
  <2>1. Agrees(Together(x))
    BY <1>2 DEF InFlight
  <2> QED BY <2>1 DEF Agrees, AllAre, Together
<1>5. TrackerFollows
  <2> SUFFICES ASSUME NEW x \in BatchTxs, \A m \in TxMgrs : mgrState[x][m] = "confirmed"
               PROVE  tracker[x] \in {"confirmed", "submitting"}
    BY DEF TrackerFollows
  <2>1. tracker[x] \in InFlight
    BY MgrsFinite DEF BatchInv, TxsInv, Follows
  <2>2. Agrees(Together(x))
    BY <1>2, <2>1
  <2> QED BY <2>2 DEF Agrees, AllAre, Together
<1> QED BY <1>1, <1>3, <1>4, <1>5

\* The "close" button only looks at the current batch: it is the one canRotate asks about.
LEMMA CloseRotates == CloseButtonWorks
<1> SUFFICES ASSUME CanClose, previous = NoBatch,
                    \A x \in Members(current) : tracker[x] \notin {"nested batch", "not needed"}
             PROVE  canRotate
  BY DEF CloseButtonWorks
<1>1. CASE \E x \in Members(current) : tracker[x] = "failed"
  <2>1. ~AllDone(current)
    BY <1>1 DEF AllDone
  <2> QED BY <1>1, <2>1 DEF canRotate, Failed
<1>2. CASE Only(current, {"confirmed", "mostly confirmed"})
  BY <1>2 DEF canRotate, MostlyConfirmed, CanClose
<1> QED BY <1>1, <1>2 DEF CanClose, Only

-----------------------------------------------------------------------------
(* The theorems *)

\* Every variable of the batches and of their trackers has its type.
THEOREM BatchTypeCorrect == BatchSpec => []BatchTypeOK
BY BatchInvariant, InvSays, PTL

\* No rotation, close or cancel destroys the tracker of a tx that is being submitted.
THEOREM TrackersSurvive == BatchSpec => []LiveTrackersSurvive
BY BatchInvariant, InvSays, PTL

\* A confirmation takes away no other batch's chain builder, unless one was rotated
\* out before it was confirmed.
THEOREM ChainBuilderStays == BatchSpec => []ChainBuilderKept
<1>1. BatchInv => ChainBuilderKept
  BY DEF BatchInv
<1> QED BY <1>1, BatchInvariant, PTL

\* However failures and re-checks interleave, a tx shown as confirmed has only
\* confirmed managers.
THEOREM ConfirmedIsConfirmed == BatchSpec => []ConfirmedMeansConfirmed
BY BatchInvariant, InvSays, PTL

\* When all managers have confirmed, the tracker says so, or ties have kept it in
\* "submitting".
THEOREM TrackerFollowsManagers == BatchSpec => []TrackerFollows
BY BatchInvariant, InvSays, PTL

\* The "close" button works where it is shown, under the conditions of the property.
THEOREM CloseWorks == BatchSpec => []CloseButtonWorks
BY CloseRotates, PTL

================================================================================
