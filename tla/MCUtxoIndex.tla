---------------------------- MODULE MCUtxoIndex -----------------------------
(* Values for UtxoIndex: p spends u, q spends the output of p, and c, which  *)
(* comes from elsewhere, contends for u.                                     *)
EXTENDS UtxoIndex, TLC

CONSTANTS p, q, c, u, t1, t2

MCInput == [T \in Txs |-> IF T = q THEN p ELSE u]
MCLastValid == [T \in Txs |-> IF T = q THEN 3 ELSE 2]
Symmetry == Permutations(Tabs)
=============================================================================
