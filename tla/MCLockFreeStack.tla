-------------------------- MODULE MCLockFreeStack --------------------------
(* Small instances of LockFreeStack for TLC.                               *)
EXTENDS LockFreeStack, TLC

Interchangeable == Permutations(Threads) \cup Permutations(Cells)
=============================================================================
