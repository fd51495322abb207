--------------------------- MODULE CellPoolSteps ---------------------------
(***************************************************************************)
(* conc::CellPool (plugins/fmtconv/src/conc/CellPool.hpp): cells handed    *)
(* out from zones of memory that are allocated on demand.  This module has *)
(* the state of a pool and what a thread does inside take_cell, expand_to  *)
(* and return_cell, whoever calls them: CellPool adds a program that may   *)
(* call anything at any time, ObjPool the one program fmtconv has.         *)
(*                                                                         *)
(* Free cells are on a LockFreeStack; the list of zones, the number of     *)
(* zones and the number of available cells are atomic words, and a mutex   *)
(* is held while one zone is allocated and filled.                         *)
(*                                                                         *)
(* push and pop are single steps here, which Implements of                 *)
(* LockFreeStackProofs justifies; which free cell pop returns is left open.*)
(* The counters change by atomic read-modify-write (AtomicIntOp::exec).    *)
(***************************************************************************)
EXTENDS Integers, FiniteSets

CONSTANTS
  Threads,       \* the threads that use the pool
  MAX_NBR_ZONES, \* length of the zone list
  BASE_SIZE,     \* cells in the first zone
  GROW_RATE_NUM, \* each zone is GROW_RATE_NUM / GROW_RATE_DEN as large
  GROW_RATE_DEN, \*   as the one before
  SizeMod,       \* size_t counts modulo this
  MayThrow,      \* TRUE: the allocation of a zone may throw bad_alloc
  NULL,          \* the null pointer, and nobody
  Thrown         \* the outcome of a call that ends with an exception

ZoneIndex == 0..MAX_NBR_ZONES - 1

ASSUME PoolAssumption ==
  /\ MAX_NBR_ZONES \in Nat \ {0} /\ BASE_SIZE \in Nat \ {0}
  /\ GROW_RATE_NUM \in Nat /\ GROW_RATE_DEN \in Nat \ {0}
  /\ (BASE_SIZE * GROW_RATE_NUM) \div GROW_RATE_DEN > BASE_SIZE
  /\ SizeMod \in Nat \ {0} /\ MayThrow \in BOOLEAN
  /\ NULL \notin Threads /\ IsFiniteSet(Threads)

(* compute_grown_size and compute_total_size_for_zones                     *)
ZoneSize[z \in Nat] ==
  IF z = 0 THEN BASE_SIZE ELSE (ZoneSize[z - 1] * GROW_RATE_NUM) \div GROW_RATE_DEN

TotalSize[n \in Nat] == IF n = 0 THEN 0 ELSE TotalSize[n - 1] + ZoneSize[n - 1]

CellsOf(z) == {z} \X (0..ZoneSize[z] - 1)
Cells == UNION {CellsOf(z) : z \in ZoneIndex}

ASSUME OutcomeAssumption == NULL \notin Cells /\ Thrown \notin Cells

VARIABLES
  zone_list,   \* zone_list[z]: whether _zone_list[z] points to a zone
  nbr_zones,   \* _nbr_zones
  nbr_avail,   \* _nbr_avail_cells, a size_t
  free,        \* the cells on _cell_stack
  mutex,       \* the thread that holds _alloc_mutex
  pc,          \* pc[t]: the shared access thread t makes next
  fn,          \* fn[t]: the public function t is in
  zones_seen,  \* zones_seen[t]: nbr_zones, the local of take_cell
  want,        \* want[t]: nbr_cells, the argument of expand_to
  zi,          \* zi[t]: zone_index, the local of expand_to
  pos,         \* pos[t]: pos, the local of allocate_zone
  got          \* got[t]: the cell popped, then the outcome of the call

shared == <<zone_list, nbr_zones, nbr_avail, free, mutex>>
locals == <<fn, zones_seen, want, zi, pos, got>>
poolVars == <<shared, pc, locals>>

(* No call is in progress.                                                 *)
NobodyInside ==
  /\ mutex = NULL
  /\ pc = [t \in Threads |-> "idle"]
  /\ fn = [t \in Threads |-> "none"]
  /\ zones_seen = [t \in Threads |-> 0]
  /\ want = [t \in Threads |-> 0]
  /\ zi = [t \in Threads |-> 0]
  /\ pos = [t \in Threads |-> 0]
  /\ got = [t \in Threads |-> NULL]

Goto(t, step) == pc' = [pc EXCEPT ![t] = step]

(* The call is over: its locals are gone, its outcome is in got[t].        *)
Return(t, outcome) ==
  /\ Goto(t, "done")
  /\ got' = [got EXCEPT ![t] = outcome]
  /\ fn' = [fn EXCEPT ![t] = "none"]
  /\ zones_seen' = [zones_seen EXCEPT ![t] = 0]
  /\ want' = [want EXCEPT ![t] = 0]
  /\ zi' = [zi EXCEPT ![t] = 0]
  /\ pos' = [pos EXCEPT ![t] = 0]

(***************************************************************************)
(* take_cell (autogrow_flag)                                               *)
(***************************************************************************)
(* The number of zones is read once, before the loop.                      *)
CallTake(t, autogrow) ==
  /\ pc[t] = "idle"
  /\ Goto(t, "take_pop")
  /\ fn' = [fn EXCEPT ![t] = IF autogrow THEN "take_grow" ELSE "take"]
  /\ zones_seen' = [zones_seen EXCEPT ![t] = nbr_zones]
  /\ UNCHANGED <<shared, want, zi, pos, got>>

CanGrow(t) == fn[t] = "take_grow" /\ zones_seen[t] < MAX_NBR_ZONES

TakePop(t) == \E c \in free :
  /\ pc[t] = "take_pop"
  /\ free' = free \ {c}
  /\ got' = [got EXCEPT ![t] = c]
  /\ Goto(t, "take_count")
  /\ UNCHANGED <<zone_list, nbr_zones, nbr_avail, mutex, fn, zones_seen, want, zi, pos>>

TakeGrows(t) ==
  /\ pc[t] = "take_pop"
  /\ free = {} /\ CanGrow(t)
  /\ want' = [want EXCEPT ![t] = TotalSize[zones_seen[t] + 1]]
  /\ zi' = [zi EXCEPT ![t] = 0]
  /\ Goto(t, "exp_zone")
  /\ UNCHANGED <<shared, fn, zones_seen, pos, got>>

TakeFindsNone(t) ==
  /\ pc[t] = "take_pop"
  /\ free = {} /\ ~CanGrow(t)
  /\ Return(t, NULL)
  /\ UNCHANGED shared

TakeCountSigned(t) ==            \* the counter is not a size_t
  /\ pc[t] = "take_count"
  /\ nbr_avail' = nbr_avail - 1
  /\ Return(t, got[t])
  /\ UNCHANGED <<zone_list, nbr_zones, free, mutex>>

TakeCount(t) ==
  /\ pc[t] = "take_count"
  /\ nbr_avail' = (nbr_avail - 1) % SizeMod
  /\ Return(t, got[t])
  /\ UNCHANGED <<zone_list, nbr_zones, free, mutex>>

(***************************************************************************)
(* expand_to (nbr_cells); total_size is TotalSize[zi[t]]                   *)
(***************************************************************************)
CallExpand(t, n) ==
  /\ pc[t] = "idle"
  /\ Goto(t, "exp_zone")
  /\ fn' = [fn EXCEPT ![t] = "expand"]
  /\ want' = [want EXCEPT ![t] = n]
  /\ UNCHANGED <<shared, zones_seen, zi, pos, got>>

MoreZones(t) == TotalSize[zi[t]] < want[t] /\ zi[t] < MAX_NBR_ZONES

ExpandStaysPut(t) ==             \* zone_index does not advance
  pc[t] = "exp_zone" /\ MoreZones(t) /\ zone_list[zi[t]] /\ UNCHANGED poolVars

ExpandSkips(t) ==
  /\ pc[t] = "exp_zone"
  /\ MoreZones(t) /\ zone_list[zi[t]]
  /\ zi' = [zi EXCEPT ![t] = @ + 1]
  /\ UNCHANGED <<shared, pc, fn, zones_seen, want, pos, got>>

ExpandPublishesEarly(t) ==       \* the zone is counted before it exists
  /\ pc[t] = "exp_zone"
  /\ MoreZones(t) /\ ~zone_list[zi[t]]
  /\ nbr_zones' = IF zi[t] + 1 > nbr_zones THEN zi[t] + 1 ELSE nbr_zones
  /\ Goto(t, "alloc_lock")
  /\ UNCHANGED <<zone_list, nbr_avail, free, mutex, locals>>

ExpandAllocates(t) ==
  /\ pc[t] = "exp_zone"
  /\ MoreZones(t) /\ ~zone_list[zi[t]]
  /\ Goto(t, "alloc_lock")
  /\ UNCHANGED <<shared, locals>>

CountZonesByStore(t) == nbr_zones' = zi[t]            \* = in place of max
CountZonesNot(t) == nbr_zones' = nbr_zones            \* no count at all

(* AioMax on _nbr_zones, then back to the loop of take_cell, or the end.   *)
CountZones(t) == nbr_zones' = IF zi[t] > nbr_zones THEN zi[t] ELSE nbr_zones

ExpandDone(t) ==
  /\ pc[t] = "exp_zone"
  /\ ~MoreZones(t)
  /\ CountZones(t)
  /\ UNCHANGED <<zone_list, nbr_avail, free, mutex>>
  /\ \/ /\ fn[t] = "expand"
        /\ Return(t, NULL)
     \/ /\ fn[t] = "take_grow"
        /\ Goto(t, "take_pop")
        /\ want' = [want EXCEPT ![t] = 0]
        /\ zi' = [zi EXCEPT ![t] = 0]
        /\ UNCHANGED <<fn, zones_seen, pos, got>>

(***************************************************************************)
(* allocate_zone, under the mutex.  The zone list is not read again after  *)
(* the mutex is taken: the compare-and-swap tells whether the zone is new. *)
(***************************************************************************)
Lock(t) ==
  /\ pc[t] = "alloc_lock"
  /\ mutex = NULL
  /\ mutex' = t
  /\ Goto(t, "alloc_cas")
  /\ UNCHANGED <<zone_list, nbr_zones, nbr_avail, free, locals>>

(* alloc_cells throws: lock_guard unlocks, the exception leaves the pool.  *)
AllocThrows(t) ==
  /\ pc[t] = "alloc_cas"
  /\ MayThrow
  /\ mutex' = NULL
  /\ Return(t, Thrown)
  /\ UNCHANGED <<zone_list, nbr_zones, nbr_avail, free>>

ZoneIsNew(t) ==
  /\ pc[t] = "alloc_cas"
  /\ ~zone_list[zi[t]]
  /\ zone_list' = [zone_list EXCEPT ![zi[t]] = TRUE]
  /\ Goto(t, "fill_push")
  /\ UNCHANGED <<nbr_zones, nbr_avail, free, mutex, locals>>

NextZone(t) ==
  /\ mutex' = NULL
  /\ zi' = [zi EXCEPT ![t] = @ + 1]
  /\ pos' = [pos EXCEPT ![t] = 0]
  /\ Goto(t, "exp_zone")

ZoneIsFilledAgain(t) ==          \* the outcome of the cas is not looked at
  /\ pc[t] = "alloc_cas"
  /\ zone_list[zi[t]]
  /\ Goto(t, "fill_push")
  /\ UNCHANGED <<shared, locals>>

(* Another thread has allocated the zone meanwhile: dealloc_cells.         *)
ZoneIsTaken(t) ==
  /\ pc[t] = "alloc_cas"
  /\ zone_list[zi[t]]
  /\ NextZone(t)
  /\ UNCHANGED <<zone_list, nbr_zones, nbr_avail, free, fn, zones_seen, want, got>>

FillPush(t) ==
  /\ pc[t] = "fill_push"
  /\ free' = free \cup {<<zi[t], pos[t]>>}
  /\ Goto(t, "fill_count")
  /\ UNCHANGED <<zone_list, nbr_zones, nbr_avail, mutex, locals>>

FillCount(t) ==
  /\ pc[t] = "fill_count"
  /\ nbr_avail' = (nbr_avail + 1) % SizeMod
  /\ UNCHANGED <<zone_list, nbr_zones, free, fn, zones_seen, want, got>>
  /\ \/ /\ pos[t] + 1 < ZoneSize[zi[t]]
        /\ pos' = [pos EXCEPT ![t] = @ + 1]
        /\ Goto(t, "fill_push")
        /\ UNCHANGED <<mutex, zi>>
     \/ /\ pos[t] + 1 = ZoneSize[zi[t]]
        /\ NextZone(t)

(***************************************************************************)
(* return_cell (cell)                                                      *)
(***************************************************************************)
CallReturn(t, c) ==
  /\ pc[t] = "idle"
  /\ free' = free \cup {c}
  /\ fn' = [fn EXCEPT ![t] = "return"]
  /\ Goto(t, "ret_count")
  /\ UNCHANGED <<zone_list, nbr_zones, nbr_avail, mutex, zones_seen, want, zi, pos, got>>

ReturnUncounted(t) ==            \* the counter is not incremented
  /\ pc[t] = "ret_count"
  /\ Return(t, NULL)
  /\ UNCHANGED shared

ReturnCount(t) ==
  /\ pc[t] = "ret_count"
  /\ nbr_avail' = (nbr_avail + 1) % SizeMod
  /\ Return(t, NULL)
  /\ UNCHANGED <<zone_list, nbr_zones, free, mutex>>
(***************************************************************************)
(* A thread inside the pool, and its return                                *)
(***************************************************************************)
PoolStep(t) ==
  \/ TakePop(t) \/ TakeGrows(t) \/ TakeFindsNone(t) \/ TakeCount(t)
  \/ ExpandSkips(t) \/ ExpandAllocates(t) \/ ExpandDone(t)
  \/ Lock(t) \/ AllocThrows(t) \/ ZoneIsNew(t) \/ ZoneIsTaken(t)
  \/ FillPush(t) \/ FillCount(t) \/ ReturnCount(t)

(* The caller goes on with the outcome.                                    *)
Receive(t) ==
  /\ pc[t] = "done"
  /\ Goto(t, "idle")
  /\ got' = [got EXCEPT ![t] = NULL]
  /\ UNCHANGED <<shared, fn, zones_seen, want, zi, pos>>

(***************************************************************************)
(* What the steps keep true, whoever calls                                 *)
(***************************************************************************)
TakePcs == {"take_pop", "take_count"}
ExpandPcs == {"exp_zone", "alloc_lock", "alloc_cas", "fill_push", "fill_count"}

(* The variables hold values of the types the class declares.              *)
PoolTypeOK ==
  /\ zone_list \in [ZoneIndex -> BOOLEAN]
  /\ nbr_zones \in 0..MAX_NBR_ZONES
  /\ nbr_avail \in 0..SizeMod - 1
  /\ free \in SUBSET Cells
  /\ mutex \in Threads \cup {NULL}
  /\ pc \in [Threads -> {"idle", "done", "ret_count"} \cup TakePcs \cup ExpandPcs]
  /\ fn \in [Threads -> {"none", "take", "take_grow", "expand", "return"}]
  /\ zones_seen \in [Threads -> 0..MAX_NBR_ZONES]
  /\ want \in [Threads -> Nat]
  /\ zi \in [Threads -> 0..MAX_NBR_ZONES]
  /\ pos \in [Threads -> Nat]
  /\ got \in [Threads -> Cells \cup {NULL, Thrown}]

(* The cells that have been pushed at least once: those of the zones in    *)
(* the list, less what the thread that fills a zone has still to push.     *)
Stocked == {c \in Cells :
  /\ zone_list[c[1]]
  /\ \A t \in Threads : zi[t] = c[1] =>
       /\ pc[t] = "fill_push" => c[2] < pos[t]
       /\ pc[t] = "fill_count" => c[2] <= pos[t]}

InHand == {t \in Threads : got[t] \in Cells}

(* A cell that has been pushed is on the stack, outside the pool, or in    *)
(* the hands of one thread, and in one of these places only.               *)
HeldOnce(outside) ==
  /\ free \cup outside \cup {got[t] : t \in InHand} = Stocked
  /\ free \cap outside = {}
  /\ \A t \in InHand : got[t] \notin free \cup outside
  /\ \A t, u \in InHand : got[t] = got[u] => t = u

(* A thread fills a zone only with the mutex in hand, and nobody else      *)
(* fills the same zone.                                                    *)
FillAlone == \A t \in Threads :
  pc[t] \in {"alloc_cas", "fill_push", "fill_count"} <=> mutex = t
=============================================================================
