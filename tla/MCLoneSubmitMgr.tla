--------------------------- MODULE MCLoneSubmitMgr ---------------------------
(* Small thresholds for LoneSubmitMgr; the .cfg files give the scenario.      *)
EXTENDS LoneSubmitMgr
=============================================================================
