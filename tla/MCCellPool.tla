----------------------------- MODULE MCCellPool -----------------------------
(* Small instances of CellPool for TLC.                                    *)
EXTENDS CellPool, TLC

Interchangeable == Permutations(Threads)
=============================================================================
