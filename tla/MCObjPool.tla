------------------------------ MODULE MCObjPool ------------------------------
(* Small instances of ObjPool for TLC.                                     *)
EXTENDS ObjPool, TLC

Interchangeable == Permutations(Threads) \cup Permutations(Objs)
=============================================================================
