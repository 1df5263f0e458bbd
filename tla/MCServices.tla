----------------------------- MODULE MCServices ------------------------------
(* The small services and the charter, which share no state and never call    *)
(* one another: each behaviour is one of "subject", and the others stay as    *)
(* they began.                                                                *)
EXTENDS WriteLock, RateLimitedFetch, CompileCache, TxBatch, Charter

VARIABLE subject

CONSTANTS a1, a2, b1, bf, og

MCTabOf == [w \in Writers |-> IF w = b1 THEN "t2" ELSE "t1"]
MCSubmitterSeq == <<bf, og>>
MCPolicySeq == <<"settings", "market">>

Init ==
    /\ subject \in {"WriteLock", "RateLimitedFetch", "CompileCache", "TxBatch", "Charter"}
    /\ LockInit /\ RateInit /\ CompileInit /\ BatchInit /\ CharterInit
    /\ subject # "CompileCache" => file = "absent"
    /\ subject # "Charter" => oldTokens = {} /\ ~settingsRecord

Next ==
    /\ UNCHANGED subject
    /\ \/ /\ subject = "WriteLock" /\ LockNext
          /\ UNCHANGED <<rateVars, compileVars, submitVars, charterVars>>
       \/ /\ subject = "RateLimitedFetch" /\ RateNext
          /\ UNCHANGED <<lockVars, compileVars, submitVars, charterVars>>
       \/ /\ subject = "CompileCache" /\ CompileNext
          /\ UNCHANGED <<lockVars, rateVars, submitVars, charterVars>>
       \/ /\ subject = "TxBatch" /\ BatchNext
          /\ UNCHANGED <<lockVars, rateVars, compileVars, charterVars>>
       \/ /\ subject = "Charter" /\ CharterNext
          /\ UNCHANGED <<lockVars, rateVars, compileVars, submitVars>>

\* A service that does not move has no fair action to take.
Spec ==
    /\ Init /\ [][Next]_<<subject, lockVars, rateVars, compileVars, submitVars, charterVars>>
    /\ LockFairness /\ RateFairness /\ CompileFairness

\* The types of all their variables
ServicesTypeOK == LockTypeOK /\ RateTypeOK /\ CompileTypeOK /\ BatchTypeOK /\ CharterTypeOK
=============================================================================
