---------------------------- MODULE MCSyncMutex ----------------------------
(* Model values for SyncMutex, and the symmetry of its tabs.                 *)
EXTENDS SyncMutex, TLC

Symmetry == Permutations(Tabs)
=============================================================================
