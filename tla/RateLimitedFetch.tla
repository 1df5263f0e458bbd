-------------------------- MODULE RateLimitedFetch --------------------------
(***************************************************************************)
(* RateLimitedFetch: a token bucket before the block service, and what it  *)
(* does when the service answers 429 all the same: a hold that all new     *)
(* requests wait for, a lower rate after it, and a slow recovery.          *)
(*                                                                         *)
(* Tokens and rates are counted in tenths; a tick is the second in which   *)
(* the bucket is refilled.  The longer waits have no fixed length here.    *)
(***************************************************************************)
EXTENDS Integers

CONSTANTS
    Requests,       \* requests made
    BaseRate,       \* refillRate: tokens a second
    MinRate,        \* MIN_REFILL_RATE
    MaxBurst,       \* tokens the bucket holds
    MaxRejections   \* bound: answers with status 429

ASSUME RateAssumption ==
    /\ BaseRate \in Nat /\ MinRate \in Nat /\ MaxBurst \in Nat /\ MaxRejections \in Nat
    /\ 0 < MinRate /\ MinRate <= BaseRate
    /\ 10 <= MaxBurst

VARIABLES
    availableBurst, \* the bucket
    rate,           \* currentRefillRate
    onHold,         \* there is a hold, and resolveHold to release it
    recovering,     \* recoveryInterval is running
    request,        \* how far each request is
    rejections      \* answers with status 429 so far

rateVars == <<availableBurst, rate, onHold, recovering, request, rejections>>

RequestStages == {"new", "held", "waiting", "sent", "backing off", "answered"}

RateTypeOK ==
    /\ availableBurst \in Nat /\ rate \in Nat
    /\ onHold \in BOOLEAN /\ recovering \in BOOLEAN
    /\ request \in [Requests -> RequestStages]
    /\ rejections \in 0..MaxRejections

RateInit ==
    /\ availableBurst = MaxBurst
    /\ rate = BaseRate
    /\ onHold = FALSE
    /\ recovering = FALSE
    /\ request = [r \in Requests |-> "new"]
    /\ rejections = 0

-----------------------------------------------------------------------------
AtMost(n, cap) == IF n < cap THEN n ELSE cap
AtLeast(n, floor) == IF n > floor THEN n ELSE floor
Becomes(r, stage) == request' = [request EXCEPT ![r] = stage]

\* fetch(): a hold is waited for once.
fetch(r) ==
    /\ request[r] = "new"
    /\ Becomes(r, IF onHold THEN "held" ELSE "waiting")
    /\ UNCHANGED <<availableBurst, rate, onHold, recovering, rejections>>

\* mutant: a token is taken that is not there
acquireNoToken(r) ==
    /\ request[r] = "waiting"
    /\ availableBurst' = availableBurst - 10
    /\ Becomes(r, "sent")
    /\ UNCHANGED <<rate, onHold, recovering, rejections>>

acquireToken(r) ==
    /\ request[r] = "waiting"
    /\ availableBurst >= 10
    /\ availableBurst' = availableBurst - 10
    /\ Becomes(r, "sent")
    /\ UNCHANGED <<rate, onHold, recovering, rejections>>

refillTokens ==
    /\ availableBurst' = AtMost(availableBurst + rate, MaxBurst)
    /\ UNCHANGED <<rate, onHold, recovering, request, rejections>>

Answered(r) ==
    /\ request[r] = "sent"
    /\ Becomes(r, "answered")
    /\ UNCHANGED <<availableBurst, rate, onHold, recovering, rejections>>

\* handleExternalRateLimit(), before its wait and after it.  The first request
\* to wake releases the hold, and all that wait for it; it fetches again.
Rejected(r) ==
    /\ request[r] = "sent"
    /\ rejections < MaxRejections
    /\ rejections' = rejections + 1
    /\ availableBurst' = 0
    /\ onHold' = TRUE
    /\ Becomes(r, "backing off")
    /\ UNCHANGED <<rate, recovering>>

\* mutant: the hold is not released
WakesUnreleasing(r) ==
    /\ request[r] = "backing off"
    /\ rate' = AtLeast((rate * 100) \div 161, MinRate)
    /\ recovering' = TRUE
    /\ Becomes(r, IF onHold THEN "held" ELSE "waiting")
    /\ UNCHANGED <<availableBurst, onHold, rejections>>

Wakes(r) ==
    /\ request[r] = "backing off"
    /\ rate' = AtLeast((rate * 100) \div 161, MinRate)
    /\ onHold' = FALSE
    /\ recovering' = TRUE
    /\ request' = [q \in Requests |->
                     IF q = r \/ request[q] = "held" THEN "waiting" ELSE request[q]]
    /\ UNCHANGED <<availableBurst, rejections>>

\* mutants: the rate may pass its base; the recovery ends before the base rate
RecoversPast ==
    /\ recovering
    /\ rate' = rate + 10
    /\ recovering' = (rate' < BaseRate)
    /\ UNCHANGED <<availableBurst, onHold, request, rejections>>
RecoversOnce ==
    /\ recovering
    /\ rate' = AtMost(rate + 10, BaseRate)
    /\ recovering' = FALSE
    /\ UNCHANGED <<availableBurst, onHold, request, rejections>>

\* One more a second, every 10 s, up to the base rate.
Recovers ==
    /\ recovering
    /\ \/ /\ rate + 10 < BaseRate
          /\ rate' = rate + 10
          /\ UNCHANGED recovering
       \/ /\ rate + 10 >= BaseRate
          /\ rate' = BaseRate
          /\ recovering' = FALSE
    /\ UNCHANGED <<availableBurst, onHold, request, rejections>>

RateNext ==
    \/ refillTokens \/ Recovers
    \/ \E r \in Requests :
         fetch(r) \/ acquireToken(r) \/ Answered(r) \/ Rejected(r) \/ Wakes(r)

RateSpec == RateInit /\ [][RateNext]_rateVars

\* Timers fire, and the service answers.
RateFairness ==
    /\ WF_rateVars(refillTokens) /\ WF_rateVars(Recovers)
    /\ \A r \in Requests :
         WF_rateVars(acquireToken(r)) /\ WF_rateVars(Answered(r)) /\ WF_rateVars(Wakes(r))

-----------------------------------------------------------------------------
(* Properties *)

\* From any number of overlapping rejections and recoveries the rate stays
\* between its bounds, and the bucket is neither overdrawn nor overfilled.
RateBounds ==
    /\ rate \in MinRate..BaseRate
    /\ availableBurst \in 0..MaxBurst

\* A hold has a request that will release it, and nobody waits for a hold that
\* is gone.
HoldHasOwner ==
    /\ onHold => \E r \in Requests : request[r] = "backing off"
    /\ (\E r \in Requests : request[r] = "held") => onHold

\* A lowered rate always comes back to its base.
RateComesBack == <>[](rate = BaseRate)

\* Every request that is made is answered in the end, however often it and others
\* are rejected: none is left waiting for a hold, a token or its back-off.
RequestsAnswered == <>[](\A r \in Requests : request[r] \in {"new", "answered"})

=============================================================================
