------------------------------ MODULE CellPool ------------------------------
(***************************************************************************)
(* A conc::CellPool and the program around it, which may call anything at  *)
(* any time as long as it returns only cells it holds: any number of       *)
(* threads take, return and expand, and clear_all is called when nobody    *)
(* else is inside and every cell has come back.                            *)
(***************************************************************************)
EXTENDS CellPoolSteps

CONSTANT ExpandSizes  \* the numbers of cells expand_to is called with

ASSUME SizesAssumption == ExpandSizes \subseteq Nat \ {0}

VARIABLE client       \* the cells in the hands of the users of the pool

vars == <<poolVars, client>>

Init == /\ zone_list = [z \in ZoneIndex |-> FALSE]
        /\ nbr_zones = 0 /\ nbr_avail = 0
        /\ free = {}
        /\ NobodyInside
        /\ client = {}

(***************************************************************************)
(* clear_all (), not thread-safe: no call is in progress and every cell    *)
(* has come back.  Only the zones counted by _nbr_zones are freed.         *)
(***************************************************************************)
Quiescent == /\ \A t \in Threads : pc[t] = "idle"
             /\ client = {}

ClearAll ==
  /\ Quiescent
  /\ free' = {}
  /\ zone_list' = [z \in ZoneIndex |-> zone_list[z] /\ z >= nbr_zones]
  /\ nbr_zones' = 0
  /\ nbr_avail' = 0
  /\ UNCHANGED <<mutex, pc, locals, client>>

(***************************************************************************)
(* The pool and the program around it, which may call anything at any time *)
(***************************************************************************)
Step(t) == PoolStep(t) /\ UNCHANGED client

(* The caller goes on, with the cell if take_cell found one.               *)
Resume(t) == Receive(t) /\ client' = client \cup ({got[t]} \cap Cells)

Call(t) ==
  \/ \E autogrow \in BOOLEAN : CallTake(t, autogrow) /\ UNCHANGED client
  \/ \E n \in ExpandSizes : CallExpand(t, n) /\ UNCHANGED client
  \/ \E c \in client : CallReturn(t, c) /\ client' = client \ {c}

Next == ClearAll \/ \E t \in Threads : Call(t) \/ Step(t) \/ Resume(t)

Spec == Init /\ [][Next]_vars

(* A thread inside the pool goes on running, also in the mutex queue.      *)
FairSpec == Spec /\ \A t \in Threads : WF_vars(Step(t)) /\ WF_vars(Resume(t))

(***************************************************************************)
(* What the pool must keep true                                            *)
(***************************************************************************)
(* The variables hold values of the types the class declares.              *)
TypeOK == PoolTypeOK /\ client \in SUBSET Cells

(* No cell is handed out twice, given back into two places or forgotten,   *)
(* whichever threads allocate, fill, take and return at the same time, and *)
(* also when an allocation throws.                                         *)
Conserved == HeldOnce(client)

(* _nbr_avail_cells lags behind the stack by the pushes and pops not       *)
(* counted yet.  It may pass below zero, and then wraps.                   *)
AvailExact == nbr_avail =
  (Cardinality(free) + Cardinality({t \in Threads : pc[t] = "take_count"})
     - Cardinality({t \in Threads : pc[t] \in {"fill_count", "ret_count"}})) % SizeMod

(* The zones in the list have no gap, and _nbr_zones counts only zones in  *)
(* the list, although no thread writes the two together.                   *)
ZonesDense ==
  /\ \A z \in ZoneIndex : z < nbr_zones => zone_list[z]
  /\ \A y, z \in ZoneIndex : y < z /\ zone_list[z] => zone_list[y]

(* The assertion of clear_all, at every moment clear_all may be called;    *)
(* and the zones it does not count, it does not free, so there are none.   *)
ClearAssert == Quiescent =>
  /\ nbr_avail = TotalSize[nbr_zones] % SizeMod
  /\ \A z \in ZoneIndex : zone_list[z] => z < nbr_zones

(* expand_to, return_cell and a take_cell that does not grow end, however  *)
(* the threads contend for the mutex and the zones.                        *)
OthersReturn == \A t \in Threads :
  fn[t] \in {"take", "expand", "return"} ~> pc[t] = "done"

(* A growing take_cell that never ends has been overtaken: the number of   *)
(* zones it read before its loop stays behind _nbr_zones for ever.         *)
SpinsOnlyWhenStale == \A t \in Threads :
  <>[](fn[t] = "take_grow") => <>[](zones_seen[t] < nbr_zones)
=============================================================================
