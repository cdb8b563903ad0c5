---------------------------- MODULE MCSyncWorker ----------------------------
(* Instances of SyncWorker for TLC.                                          *)
EXTENDS SyncWorkerInvariant, TLC
NodeSymmetry == Permutations(Nodes)
=============================================================================
