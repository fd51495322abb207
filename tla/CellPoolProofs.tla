--------------------------- MODULE CellPoolProofs ---------------------------
(***************************************************************************)
(* Theorems about CellPool, for every finite set of threads and every      *)
(* number and size of zones.                                               *)
(***************************************************************************)
EXTENDS CellPool, CellPoolStepsProofs

(* expand_to has seen a zone in the list before it looks at the next one.  *)
SeenBelow == \A t \in Threads :
  IF pc[t] \in ExpandPcs THEN \A z \in ZoneIndex : z < zi[t] => zone_list[z]
                         ELSE zi[t] = 0

(* A zone in the list is counted, or the thread that allocated it, or one  *)
(* that has passed it since, will count it.                                *)
WillCount(t, z) == /\ pc[t] \in ExpandPcs
                   /\ z < zi[t] \/ (z = zi[t] /\ pc[t] \in FillPcs)

Counting == \A z \in ZoneIndex :
  zone_list[z] => z < nbr_zones \/ \E t \in Threads : WillCount(t, z)

(* Where an allocation may throw, a call must not allocate a second zone:  *)
(* no call asks for more than one zone beyond those counted.               *)
OneZone == MayThrow => \A n \in ExpandSizes : n <= BASE_SIZE

WantBound == \A t \in Threads :
  /\ zones_seen[t] <= nbr_zones
  /\ pc[t] \in {"idle", "done"} => zones_seen[t] = 0
  /\ pc[t] \in ExpandPcs => want[t] <= TotalSize[nbr_zones + 1]
  /\ pc[t] \in AllocPcs => TotalSize[zi[t]] < want[t]

Zones == ZonesDense /\ SeenBelow /\ Counting /\ (MayThrow => WantBound)

TypeInv == Basic /\ client \in SUBSET Cells

IInv == TypeInv /\ Conserved /\ Zones

-----------------------------------------------------------------------------
(* The zones in the list have no gap, and each is counted in the end.      *)
LEMMA CountingKept ==
  ASSUME Counting, UNCHANGED zone_list, nbr_zones \in Nat, nbr_zones' \in Nat,
         nbr_zones <= nbr_zones',
         \A u \in Threads : \A z \in ZoneIndex :
           WillCount(u, z) => WillCount(u, z)' \/ z < nbr_zones'
  PROVE  Counting'
BY DEF Counting, ZoneIndex

\* No cell exists before the first zone.
LEMMA ZonesInit == Init => Zones
<1>. SUFFICES ASSUME Init PROVE Zones
  OBVIOUS
<1>. USE PoolAssumption DEF Init, NobodyInside
<1>1. ZonesDense /\ SeenBelow /\ Counting
  BY DEF ZonesDense, SeenBelow, Counting, ZoneIndex, ExpandPcs
<1>2. WantBound
  BY DEF WantBound, ExpandPcs, AllocPcs, FillPcs
<1>. QED  BY <1>1, <1>2 DEF Zones

(* A call of the pool begins: it is told of the zones counted so far.      *)
CallBegins(t) == (\E autogrow \in BOOLEAN : CallTake(t, autogrow))
                 \/ \E n \in ExpandSizes : CallExpand(t, n)

\* Each call of the pool begins from an idle thread.
LEMMA CallBeginsIs ==
  ASSUME NEW t \in Threads, CallBegins(t)
  PROVE  Begins(t)
BY SizesAssumption DEF CallBegins, Begins

\* Beginning a call creates no cell and moves none.
LEMMA ZonesBegins ==
  ASSUME Basic, Zones, OneZone, NEW t \in Threads, CallBegins(t)
  PROVE  Zones'
<1>. USE DEF Basic, Zones, CallBegins, CallTake, CallExpand, Goto, shared, PoolTypeOK
<1>1. /\ UNCHANGED <<zone_list, nbr_zones, zi>> /\ pc[t] = "idle"
      /\ \A u \in Threads : u # t => pc'[u] = pc[u] /\ want'[u] = want[u]
                                     /\ zones_seen'[u] = zones_seen[u]
      /\ pc'[t] \in {"take_pop", "exp_zone"}
  OBVIOUS
<1>2. ZonesDense'
  BY <1>1 DEF ZonesDense
<1>3. SeenBelow'
  <2>1. zi[t] = 0
    BY <1>1 DEF SeenBelow, ExpandPcs
  <2>2. \A z \in ZoneIndex : ~(z < 0)
    BY ZoneFacts
  <2>. QED  BY <1>1, <2>1, <2>2 DEF SeenBelow
<1>4. Counting'
  <2>1. \A u \in Threads : \A z \in ZoneIndex : WillCount(u, z) => WillCount(u, z)'
    BY <1>1 DEF WillCount, ExpandPcs, FillPcs
  <2>. QED  BY <1>1, <2>1, CountingKept DEF ZoneIndex
<1>5. ASSUME MayThrow  PROVE WantBound'
  <2>1. zones_seen'[t] <= nbr_zones
    BY <1>1, <1>5 DEF WantBound
  <2>2. pc'[t] \in ExpandPcs => want'[t] <= TotalSize[nbr_zones + 1]
    <3>. SUFFICES ASSUME NEW n \in ExpandSizes, want'[t] = n  PROVE n <= TotalSize[nbr_zones + 1]
      BY DEF ExpandPcs
    <3>1. n \in Nat /\ n <= BASE_SIZE
      BY <1>5, SizesAssumption DEF OneZone
    <3>2. TotalSize[1] = BASE_SIZE
      <4>1. TotalSize[0 + 1] = TotalSize[0] + ZoneSize[0] /\ ZoneSize[0] = BASE_SIZE
        BY TotalSizeType, ZoneSizeType
      <4>. QED  BY <4>1, TotalSizeType, PoolAssumption
    <3>3. TotalSize[1] <= TotalSize[nbr_zones + 1] /\ TotalSize[nbr_zones + 1] \in Nat
      BY TotalSizeMonotone, TotalSizeType, PoolAssumption
    <3>. QED  BY <3>1, <3>2, <3>3, PoolAssumption
  <2>. QED  BY <1>1, <1>5, <2>1, <2>2 DEF WantBound, AllocPcs, FillPcs
<1>. QED  BY <1>2, <1>3, <1>4, <1>5

(* A thread inside the pool: what expand_to has passed is in the list.     *)
LEMMA ZonesDone ==
  ASSUME Basic, Zones, NEW t \in Threads, ExpandDone(t)
  PROVE  Zones'
<1>. USE PoolAssumption DEF Basic, Zones, Goto, PoolTypeOK
<1>1. /\ pc[t] = "exp_zone" /\ UNCHANGED zone_list
      /\ nbr_zones' = IF zi[t] > nbr_zones THEN zi[t] ELSE nbr_zones
      /\ pc'[t] \in {"take_pop", "done"} /\ zi'[t] = 0
      /\ zones_seen'[t] \in {0, zones_seen[t]} /\ (pc'[t] = "done" => zones_seen'[t] = 0)
      /\ \A u \in Threads : u # t => /\ pc'[u] = pc[u] /\ zi'[u] = zi[u]
                                     /\ want'[u] = want[u] /\ zones_seen'[u] = zones_seen[u]
  <2>1. CASE Return(t, NULL) /\ fn[t] = "expand"
    BY <2>1 DEF ExpandDone, CountZones, Return
  <2>2. CASE ~(Return(t, NULL) /\ fn[t] = "expand")
    BY <2>2 DEF ExpandDone, CountZones
  <2>. QED  BY <2>1, <2>2
<1>2. /\ nbr_zones <= nbr_zones' /\ nbr_zones' \in 0..MAX_NBR_ZONES /\ zi[t] <= nbr_zones'
      /\ nbr_zones \in Nat /\ nbr_zones' \in Nat
  BY <1>1
<1>3. ZonesDense'
  BY <1>1 DEF ZonesDense, SeenBelow, ExpandPcs, ZoneIndex
<1>4. SeenBelow'
  BY <1>1 DEF SeenBelow, ExpandPcs
<1>5. Counting'
  <2>1. ASSUME NEW u \in Threads, NEW z \in ZoneIndex, WillCount(u, z)
        PROVE  WillCount(u, z)' \/ z < nbr_zones'
    <3>1. CASE u = t
      BY <1>1, <1>2, <2>1, <3>1 DEF WillCount, FillPcs, ZoneIndex
    <3>2. CASE u # t
      BY <1>1, <2>1, <3>2 DEF WillCount
    <3>. QED  BY <3>1, <3>2
  <2>. QED  BY <1>1, <1>2, <2>1, CountingKept
<1>6. ASSUME MayThrow  PROVE WantBound'
  <2>1. TotalSize[nbr_zones + 1] <= TotalSize[nbr_zones' + 1]
        /\ TotalSize[nbr_zones + 1] \in Nat /\ TotalSize[nbr_zones' + 1] \in Nat
    BY <1>2, NextTotal
  <2>. QED  BY <1>1, <1>2, <1>6, <2>1 DEF WantBound, ExpandPcs, AllocPcs, FillPcs
<1>. QED  BY <1>3, <1>4, <1>5, <1>6

(* The compare-and-swap installs the first zone that is not in the list.   *)
LEMMA ZonesNew ==
  ASSUME Basic, Zones, NEW t \in Threads, ZoneIsNew(t)
  PROVE  Zones'
<1>. USE DEF Basic, Zones, Goto, PoolTypeOK, ZoneIsNew, locals
<1>1. zi[t] \in ZoneIndex /\ \A z \in ZoneIndex : z < zi[t] => zone_list[z]
  BY DEF InZone, SeenBelow, AllocPcs, ExpandPcs
<1>2. /\ \A z \in ZoneIndex : zone_list'[z] <=> zone_list[z] \/ z = zi[t]
      /\ \A u \in Threads : u # t => pc'[u] = pc[u]
      /\ UNCHANGED <<nbr_zones, zi, want, zones_seen>>
      /\ pc[t] = "alloc_cas" /\ pc'[t] = "fill_push"
  BY <1>1
<1>3. ZonesDense'
  BY <1>1, <1>2 DEF ZonesDense, ZoneIndex
<1>4. SeenBelow'
  BY <1>1, <1>2 DEF SeenBelow, ExpandPcs
<1>5. Counting'
  <2>1. ASSUME NEW u \in Threads, NEW z \in ZoneIndex, WillCount(u, z)
        PROVE  WillCount(u, z)'
    BY <1>2, <2>1 DEF WillCount, FillPcs, ExpandPcs
  <2>2. WillCount(t, zi[t])'
    BY <1>2 DEF WillCount, FillPcs, ExpandPcs
  <2>3. ASSUME NEW z \in ZoneIndex, zone_list'[z]
        PROVE  z < nbr_zones' \/ \E u \in Threads : WillCount(u, z)'
    <3>1. CASE z = zi[t]
      BY <1>2, <2>2, <3>1
    <3>2. CASE z # zi[t]
      BY <1>2, <2>1, <2>3, <3>2 DEF Counting
    <3>. QED  BY <3>1, <3>2
  <2>. QED  BY <2>3 DEF Counting
<1>6. ASSUME MayThrow  PROVE WantBound'
  BY <1>2, <1>6 DEF WantBound, ExpandPcs, AllocPcs, FillPcs
<1>. QED  BY <1>3, <1>4, <1>5, <1>6

(* An allocation throws: nothing the thread has passed is left uncounted,  *)
(* because it was at the first zone that is not counted.                   *)
LEMMA ZonesThrows ==
  ASSUME Basic, Zones, NEW t \in Threads, AllocThrows(t)
  PROVE  Zones'
<1>. USE PoolAssumption DEF Basic, Zones, Goto, PoolTypeOK, AllocThrows, Return
<1>1. /\ UNCHANGED <<zone_list, nbr_zones>> /\ pc[t] = "alloc_cas" /\ pc'[t] = "done"
      /\ zi'[t] = 0 /\ zones_seen'[t] = 0
      /\ \A u \in Threads : u # t => /\ pc'[u] = pc[u] /\ zi'[u] = zi[u]
                                     /\ want'[u] = want[u] /\ zones_seen'[u] = zones_seen[u]
  OBVIOUS
<1>2. WantBound
  OBVIOUS
<1>3. zi[t] <= nbr_zones
  <2>1. TotalSize[zi[t]] < want[t] /\ want[t] <= TotalSize[nbr_zones + 1]
    BY <1>1, <1>2 DEF WantBound, ExpandPcs, AllocPcs
  <2>2. TotalSize[zi[t]] \in Nat /\ TotalSize[nbr_zones + 1] \in Nat
    BY TotalSizeType
  <2>3. nbr_zones + 1 <= zi[t] => TotalSize[nbr_zones + 1] <= TotalSize[zi[t]]
    BY TotalSizeMonotone
  <2>. QED  BY <2>1, <2>2, <2>3
<1>4. ZonesDense' /\ SeenBelow'
  BY <1>1 DEF ZonesDense, SeenBelow, ExpandPcs
<1>5. Counting'
  <2>1. ASSUME NEW u \in Threads, NEW z \in ZoneIndex, WillCount(u, z)
        PROVE  WillCount(u, z)' \/ z < nbr_zones'
    BY <1>1, <1>3, <2>1 DEF WillCount, FillPcs, ZoneIndex
  <2>. QED  BY <1>1, <2>1, CountingKept
<1>6. WantBound'
  BY <1>1, <1>2 DEF WantBound, ExpandPcs, AllocPcs, FillPcs
<1>. QED  BY <1>4, <1>5, <1>6

(* The other steps: expand_to goes to the next zone only when this one is  *)
(* in the list, and a popping thread asks for one zone beyond those it saw.*)
LEMMA ZonesOthers ==
  ASSUME Basic, Zones, NEW t \in Threads,
         \/ TakePop(t) \/ TakeGrows(t) \/ TakeFindsNone(t) \/ TakeCount(t) \/ ReturnCount(t)
         \/ ExpandSkips(t) \/ ExpandAllocates(t) \/ Lock(t) \/ ZoneIsTaken(t)
         \/ FillPush(t) \/ FillCount(t) \/ Receive(t) \/ \E c \in client : CallReturn(t, c)
  PROVE  Zones'
<1>. USE PoolAssumption DEF Basic, Zones, Goto, PoolTypeOK
<1>1. /\ UNCHANGED <<zone_list, nbr_zones>>
      /\ \A u \in Threads : u # t => /\ pc'[u] = pc[u] /\ zi'[u] = zi[u]
                                     /\ want'[u] = want[u] /\ zones_seen'[u] = zones_seen[u]
  <2>1. CASE TakePop(t) \/ TakeGrows(t) \/ TakeFindsNone(t) \/ TakeCount(t) \/ ReturnCount(t)
    BY <2>1 DEF TakePop, TakeGrows, TakeFindsNone, TakeCount, ReturnCount, Return, shared
  <2>2. CASE ExpandSkips(t) \/ ExpandAllocates(t) \/ Lock(t) \/ ZoneIsTaken(t)
    BY <2>2 DEF ExpandSkips, ExpandAllocates, Lock, ZoneIsTaken, NextZone, shared, locals
  <2>3. CASE FillPush(t) \/ FillCount(t) \/ Receive(t) \/ \E c \in client : CallReturn(t, c)
    BY <2>3 DEF FillPush, FillCount, NextZone, Receive, CallReturn, shared, locals
  <2>. QED  BY <2>1, <2>2, <2>3
<1>2. ZonesDense'
  BY <1>1 DEF ZonesDense
<1>. DEFINE
  Quiet == /\ pc[t] \notin ExpandPcs /\ pc'[t] \notin ExpandPcs /\ zi'[t] = zi[t]
           /\ zones_seen'[t] \in {0, zones_seen[t]}
           /\ pc'[t] \in {"idle", "done"} => zones_seen'[t] = 0 \/ pc[t] \in {"idle", "done"}
  Grows1 == /\ pc[t] \notin ExpandPcs /\ pc'[t] = "exp_zone" /\ zi'[t] = 0
            /\ zones_seen'[t] = zones_seen[t] /\ want'[t] = TotalSize[zones_seen[t] + 1]
  Stays == /\ pc[t] \in ExpandPcs /\ pc'[t] \in ExpandPcs /\ zi'[t] = zi[t]
           /\ (pc[t] \in FillPcs => pc'[t] \in FillPcs)
           /\ (pc[t] \in AllocPcs \/ TotalSize[zi[t]] < want[t])
           /\ zones_seen'[t] = zones_seen[t] /\ want'[t] = want[t]
  Moves == /\ pc[t] \in ExpandPcs /\ pc'[t] = "exp_zone"
           /\ zi[t] \in ZoneIndex /\ zone_list[zi[t]] /\ zi'[t] = zi[t] + 1
           /\ zones_seen'[t] = zones_seen[t] /\ want'[t] = want[t]
<1>3. Quiet \/ Grows1 \/ Stays \/ Moves
  <2>. USE DEF ExpandPcs, FillPcs, AllocPcs
  <2>1. CASE TakePop(t)
    BY <2>1 DEF TakePop
  <2>2. CASE TakeGrows(t)
    BY <2>2 DEF TakeGrows
  <2>3. CASE TakeFindsNone(t)
    BY <2>3 DEF TakeFindsNone, Return, SeenBelow
  <2>4. CASE TakeCount(t)
    BY <2>4 DEF TakeCount, Return, SeenBelow
  <2>5. CASE ReturnCount(t)
    BY <2>5 DEF ReturnCount, Return, SeenBelow
  <2>6. CASE ExpandSkips(t)
    BY <2>6 DEF ExpandSkips, MoreZones, ZoneIndex
  <2>7. CASE ExpandAllocates(t)
    BY <2>7 DEF ExpandAllocates, MoreZones, locals
  <2>8. CASE Lock(t)
    BY <2>8 DEF Lock, locals
  <2>9. CASE ZoneIsTaken(t)
    BY <2>9 DEF ZoneIsTaken, NextZone, InZone
  <2>10. CASE FillPush(t)
    BY <2>10 DEF FillPush, locals
  <2>11. CASE FillCount(t)
    BY <2>11 DEF FillCount, NextZone, InZone
  <2>12. CASE Receive(t)
    BY <2>12 DEF Receive
  <2>13. CASE \E c \in client : CallReturn(t, c)
    BY <2>13 DEF CallReturn
  <2>. QED  BY <2>1, <2>2, <2>3, <2>4, <2>5, <2>6, <2>7, <2>8, <2>9, <2>10, <2>11, <2>12, <2>13
<1>4. SeenBelow'
  <2>1. \A z \in ZoneIndex : z \in Nat
    BY DEF ZoneIndex
  <2>2. CASE Quiet
    BY <1>1, <2>2 DEF SeenBelow
  <2>3. CASE Grows1
    BY <1>1, <2>1, <2>3 DEF SeenBelow
  <2>4. CASE Stays
    BY <1>1, <2>4 DEF SeenBelow
  <2>5. CASE Moves
    <3>1. \A z \in ZoneIndex : z < zi[t] + 1 => z < zi[t] \/ z = zi[t]
      BY <2>1
    <3>. QED  BY <1>1, <2>5, <3>1 DEF SeenBelow, ExpandPcs
  <2>. HIDE DEF Quiet, Grows1, Stays, Moves
  <2>. QED  BY <1>3, <2>2, <2>3, <2>4, <2>5
<1>5. Counting'
  <2>1. ASSUME NEW u \in Threads, NEW z \in ZoneIndex, WillCount(u, z)
        PROVE  WillCount(u, z)'
    <3>1. CASE u = t
      BY <1>1, <1>3, <2>1, <3>1 DEF WillCount, FillPcs, ExpandPcs, ZoneIndex
    <3>2. CASE u # t
      BY <1>1, <2>1, <3>2 DEF WillCount
    <3>. QED  BY <3>1, <3>2
  <2>. QED  BY <1>1, <2>1, CountingKept
<1>6. ASSUME MayThrow  PROVE WantBound'
  <2>1. WantBound
    BY <1>6
  <2>2. CASE Quiet
    BY <1>1, <2>1, <2>2 DEF WantBound, AllocPcs, FillPcs, ExpandPcs
  <2>3. CASE Grows1
    <3>1. TotalSize[zones_seen[t] + 1] <= TotalSize[nbr_zones + 1]
      BY <2>1, TotalSizeMonotone DEF WantBound
    <3>. QED  BY <1>1, <2>1, <2>3, <3>1 DEF WantBound, AllocPcs, FillPcs
  <2>4. CASE Stays \/ Moves
    BY <1>1, <2>1, <2>4 DEF WantBound, AllocPcs, FillPcs, ExpandPcs
  <2>. QED  BY <1>3, <2>2, <2>3, <2>4
<1>. HIDE DEF Quiet, Grows1, Stays, Moves
<1>. QED  BY <1>2, <1>4, <1>5, <1>6

(* clear_all frees every zone, because every zone in the list is counted   *)
(* by the time nobody is in the pool.                                      *)
LEMMA AllCounted ==
  ASSUME Zones, Quiescent
  PROVE  \A z \in ZoneIndex : zone_list[z] => z < nbr_zones
BY DEF Zones, Counting, Quiescent, WillCount, ExpandPcs

\* clear_all leaves a pool that could be used again.
LEMMA BasicClear ==
  ASSUME Basic, ClearAll
  PROVE  Basic'
<1>. USE PoolAssumption DEF Basic, ClearAll, Quiescent, locals
<1>1. PoolTypeOK'
  BY DEF PoolTypeOK
<1>2. FillAlone' /\ GotByPc'
  BY DEF FillAlone, GotByPc
<1>3. InZone'
  BY DEF InZone, AllocPcs, FillPcs
<1>. QED  BY <1>1, <1>2, <1>3

\* clear_all takes every zone with its cells.
LEMMA InvClear ==
  ASSUME IInv, ClearAll
  PROVE  IInv'
<1>. USE PoolAssumption, OutcomeAssumption DEF IInv, TypeInv, ClearAll, locals
<1>1. Basic'
  BY BasicClear
<1>2. \A z \in ZoneIndex : ~zone_list'[z]
  <2>1. nbr_zones \in Nat /\ \A z \in ZoneIndex : z \in Nat
    BY DEF Basic, PoolTypeOK, ZoneIndex
  <2>2. \A z \in ZoneIndex : ~(zone_list[z] /\ z >= nbr_zones)
    BY <2>1, AllCounted
  <2>. QED  BY <2>2
<1>3. Conserved'
  <2>1. \A c \in Cells : c[1] \in ZoneIndex
    BY DEF Cells, CellsOf
  <2>2. Stocked' = {}
    BY <1>2, <2>1 DEF Stocked
  <2>3. InHand' = {}
    BY DEF InHand, Basic, GotByPc, Quiescent
  <2>. QED  BY <2>2, <2>3 DEF Conserved, HeldOnce, Quiescent
<1>4. ZonesDense' /\ Counting'
  <2>1. \A z \in ZoneIndex : ~(z < 0)
    BY ZoneFacts
  <2>. QED  BY <1>2, <2>1 DEF ZonesDense, Counting
<1>5. SeenBelow'
  BY DEF Zones, SeenBelow, Quiescent, ExpandPcs
<1>6. ASSUME MayThrow  PROVE WantBound'
  BY <1>6 DEF Zones, WantBound, Quiescent, ExpandPcs, AllocPcs, FillPcs
<1>. QED  BY <1>1, <1>3, <1>4, <1>5, <1>6 DEF Zones

\* The pool begins well typed and without cells.
LEMMA TypeInit ==
  ASSUME Init
  PROVE  TypeInv /\ Conserved
<1>1. Basic /\ InHand = {} /\ Stocked = {c \in Cells : zone_list[c[1]]}
  <2>1. zone_list \in [ZoneIndex -> BOOLEAN] /\ free \in SUBSET Cells
        /\ nbr_zones \in 0..MAX_NBR_ZONES /\ nbr_avail \in 0..SizeMod - 1
    BY PoolAssumption DEF Init, NobodyInside
  <2>. QED  BY <2>1, CoreStart DEF Init, NobodyInside
<1>2. Stocked = {}
  <2>1. \A c \in Cells : c[1] \in ZoneIndex
    BY DEF Cells, CellsOf
  <2>. QED  BY <1>1, <2>1 DEF Init, NobodyInside
<1>. QED  BY <1>1, <1>2 DEF Init, TypeInv, Conserved, HeldOnce

\* The invariant holds of the pool as it is constructed.
LEMMA InvInit == Init => IInv
BY TypeInit, ZonesInit DEF IInv, TypeInv

\* The steps of the pool create the cells of one zone after the other.
LEMMA ZonesPoolStep ==
  ASSUME Basic, Zones, NEW t \in Threads, PoolStep(t)
  PROVE  Zones'
BY ZonesDone, ZonesNew, ZonesThrows, ZonesOthers DEF PoolStep

(* The steps of Next, for the proofs that follow.                          *)
LEMMA NextCases ==
  ASSUME Next
  PROVE  \/ ClearAll
         \/ \E t \in Threads :
              \/ CallBegins(t) /\ UNCHANGED client
              \/ \E c \in client : CallReturn(t, c) /\ client' = client \ {c}
              \/ PoolStep(t) /\ UNCHANGED client
              \/ Receive(t) /\ client' = client \cup ({got[t]} \cap Cells)
BY DEF Next, Call, Step, Resume, CallBegins

\* Every step keeps the types, also where two threads fill one zone.
LEMMA TypeStep ==
  ASSUME TypeInv, [Next]_vars
  PROVE  TypeInv'
<1>. USE DEF TypeInv
<1>1. CASE UNCHANGED vars
  BY <1>1 DEF vars, poolVars, shared, locals, Basic, PoolTypeOK, FillAlone, InZone, GotByPc
<1>2. CASE ClearAll
  BY <1>2, BasicClear DEF ClearAll
<1>3. ASSUME NEW t \in Threads, CallBegins(t) /\ UNCHANGED client  PROVE TypeInv'
  BY <1>3, CallBeginsIs, CoreBegins
<1>4. ASSUME NEW t \in Threads, NEW c \in client, CallReturn(t, c), client' = client \ {c}
      PROVE  TypeInv'
  BY <1>4, CoreCallReturn
<1>5. ASSUME NEW t \in Threads, PoolStep(t) /\ UNCHANGED client  PROVE TypeInv'
  BY <1>5, CorePoolStep
<1>6. ASSUME NEW t \in Threads, Receive(t), client' = client \cup ({got[t]} \cap Cells)
      PROVE  TypeInv'
  BY <1>6, CoreReceive
<1>. QED  BY <1>1, <1>2, <1>3, <1>4, <1>5, <1>6, NextCases

\* Every step keeps the invariant while no two threads fill one zone.
LEMMA InvStep ==
  ASSUME IInv, OneZone, [Next]_vars
  PROVE  IInv'
<1>. USE DEF IInv
<1>0. TypeInv' /\ Basic
  BY TypeStep DEF TypeInv
<1>1. CASE UNCHANGED vars
  BY <1>0, <1>1 DEF vars, poolVars, shared, locals,
     Conserved, HeldOnce, Stocked, InHand, Zones, ZonesDense, SeenBelow, Counting, WillCount, WantBound
<1>2. CASE ClearAll
  BY <1>2, InvClear
<1>3. ASSUME NEW t \in Threads, CallBegins(t) /\ UNCHANGED client  PROVE IInv'
  <2>1. Conserved'
    BY <1>0, <1>3, CallBeginsIs, CoreBegins DEF Conserved
  <2>. QED  BY <1>0, <1>3, <2>1, ZonesBegins
<1>4. ASSUME NEW t \in Threads, NEW c \in client, CallReturn(t, c), client' = client \ {c}
      PROVE  IInv'
  <2>1. c \in Cells
    BY DEF TypeInv
  <2>2. Conserved'
    BY <1>0, <1>4, <2>1, CoreCallReturn DEF Conserved
  <2>. QED  BY <1>0, <1>4, <2>2, ZonesOthers
<1>5. ASSUME NEW t \in Threads, PoolStep(t) /\ UNCHANGED client  PROVE IInv'
  <2>1. Conserved'
    BY <1>0, <1>5, CorePoolStep DEF Conserved
  <2>. QED  BY <1>0, <1>5, <2>1, ZonesPoolStep
<1>6. ASSUME NEW t \in Threads, Receive(t), client' = client \cup ({got[t]} \cap Cells)
      PROVE  IInv'
  <2>1. Conserved'
    BY <1>0, <1>6, CoreReceive DEF Conserved
  <2>. QED  BY <1>0, <1>6, <2>1, ZonesOthers
<1>. QED  BY <1>1, <1>2, <1>3, <1>4, <1>5, <1>6, NextCases

(* The words of the pool and the locals of its threads keep their types,   *)
(* whatever is thrown.                                                     *)
THEOREM TypeCorrect == Spec => []TypeOK
<1>1. Init => TypeInv
  BY TypeInit
<1>2. TypeInv => TypeOK
  BY DEF TypeInv, Basic, TypeOK
<1>. QED  BY <1>1, <1>2, TypeStep, PTL DEF Spec

(* A thread fills a zone only with the mutex in hand, alone.               *)
THEOREM ZonesFilledAlone == Spec => []FillAlone
<1>1. Init => TypeInv
  BY TypeInit
<1>2. TypeInv => FillAlone
  BY DEF TypeInv, Basic
<1>. QED  BY <1>1, <1>2, TypeStep, PTL DEF Spec

(* No cell is handed out twice, given back into two places or forgotten,   *)
(* as long as no call allocates a second zone where one may throw.         *)
THEOREM CellsConserved == ASSUME OneZone  PROVE Spec => []Conserved
<1>1. IInv => Conserved
  BY DEF IInv, TypeInv
<1>2. OneZone /\ IInv /\ [Next]_vars => IInv'
  BY InvStep
<1>. QED  BY <1>1, <1>2, InvInit, PTL DEF Spec

(* The list of zones has no gap, and no zone is counted before it is there.*)
THEOREM ZonesStayDense == ASSUME OneZone  PROVE Spec => []ZonesDense
<1>1. IInv => ZonesDense
  BY DEF IInv, TypeInv, Zones
<1>2. OneZone /\ IInv /\ [Next]_vars => IInv'
  BY InvStep
<1>. QED  BY <1>1, <1>2, InvInit, PTL DEF Spec

-----------------------------------------------------------------------------
(* Where zones stay uncounted, clear_all forgets their cells.  They count  *)
(* as cells outside the pool from then on: with them no cell is ever in    *)
(* two places, whatever is asked for and whatever throws.                  *)
Forgotten(lost) == lost \cap client = {} /\ HeldOnce(client \cup lost)

OnceInv == TypeInv /\ \E lost : Forgotten(lost)

\* Nothing is forgotten before the first call.
LEMMA OnceInit == Init => OnceInv
<1>1. ASSUME Init  PROVE OnceInv
  <2>1. TypeInv /\ HeldOnce(client)
    BY <1>1, TypeInit DEF Conserved
  <2>2. client \cup {} = client /\ {} \cap client = {}
    OBVIOUS
  <2>3. Forgotten({})
    BY <2>1, <2>2 DEF Forgotten
  <2>. QED  BY <2>1, <2>3 DEF OnceInv
<1>. QED  BY <1>1

\* What clear_all does not free is forgotten.
LEMMA OnceClear ==
  ASSUME Basic, ClearAll
  PROVE  Forgotten(Stocked)'
<1>1. (free = {})' /\ (client = {})'
  BY DEF ClearAll, Quiescent
<1>2. InHand' = {}
  BY OutcomeAssumption DEF InHand, Basic, GotByPc, ClearAll, Quiescent, locals
<1>. QED  BY <1>1, <1>2 DEF Forgotten, HeldOnce

\* No other step forgets a cell.
LEMMA OnceStep ==
  ASSUME OnceInv, [Next]_vars
  PROVE  OnceInv'
<1>. USE DEF OnceInv
<1>0. TypeInv' /\ Basic
  BY TypeStep DEF TypeInv
<1>1. PICK lost : lost \cap client = {} /\ HeldOnce(client \cup lost)
  BY DEF Forgotten
<1>. SUFFICES \E left : Forgotten(left)'
  BY <1>0
<1>2. CASE UNCHANGED vars
  <2>1. Forgotten(lost)'
    BY <1>1, <1>2 DEF vars, poolVars, shared, locals, Forgotten, HeldOnce, Stocked, InHand
  <2>. QED  BY <2>1
<1>3. CASE ClearAll
  BY <1>0, <1>3, OnceClear
<1>4. ASSUME NEW t \in Threads, CallBegins(t) /\ UNCHANGED client  PROVE Forgotten(lost)'
  <2>1. HeldOnce(client \cup lost)'
    BY <1>0, <1>1, <1>4, CallBeginsIs, CoreBegins
  <2>. QED  BY <1>1, <1>4, <2>1 DEF Forgotten
<1>5. ASSUME NEW t \in Threads, NEW c \in client, CallReturn(t, c), client' = client \ {c}
      PROVE  Forgotten(lost)'
  <2>1. c \in Cells /\ (client \ {c}) \cup lost = (client \cup lost) \ {c}
    BY <1>1 DEF OnceInv, TypeInv
  <2>2. HeldOnce((client \ {c}) \cup lost)'
    BY <1>0, <1>1, <1>5, <2>1, CoreCallReturn
  <2>. QED  BY <1>1, <1>5, <2>2 DEF Forgotten
<1>6. ASSUME NEW t \in Threads, PoolStep(t) /\ UNCHANGED client  PROVE Forgotten(lost)'
  <2>1. HeldOnce(client \cup lost)'
    BY <1>0, <1>1, <1>6, CorePoolStep
  <2>. QED  BY <1>1, <1>6, <2>1 DEF Forgotten
<1>7. ASSUME NEW t \in Threads, Receive(t), client' = client \cup ({got[t]} \cap Cells)
      PROVE  Forgotten(lost)'
  <2>1. got[t] \in Cells => got[t] \notin lost
    BY <1>1 DEF HeldOnce, InHand
  <2>2. client' \cup lost = (client \cup lost) \cup ({got[t]} \cap Cells) /\ lost \cap client' = {}
    BY <1>1, <1>7, <2>1
  <2>3. HeldOnce(client \cup lost)'
    BY <1>0, <1>1, <1>7, <2>2, CoreReceive
  <2>. QED  BY <2>2, <2>3 DEF Forgotten
<1>. QED  BY <1>2, <1>3, <1>4, <1>5, <1>6, <1>7, NextCases

\* A cell on the stack and in use, or in the hands of a thread and elsewhere.
HeldTwice == \/ free \cap client # {}
             \/ \E t \in InHand : got[t] \in free \cup client
             \/ \E t, u \in InHand : t # u /\ got[t] = got[u]

(* No cell is ever handed out twice or given back into two places, also    *)
(* where zones stay uncounted.                                             *)
THEOREM NeverTwice == Spec => []~HeldTwice
<1>1. OnceInv => ~HeldTwice
  BY DEF OnceInv, Forgotten, HeldOnce, HeldTwice
<1>. QED  BY <1>1, OnceInit, OnceStep, PTL DEF Spec

-----------------------------------------------------------------------------
(* The number of available cells, a counter that wraps, keeps in step.     *)
LEMMA ModUnique ==
  ASSUME NEW m \in Nat \ {0}, NEW q \in Int, NEW r \in 0..m - 1
  PROVE  (m * q + r) % m = r
OBVIOUS

\* A number is a multiple of the modulus and a remainder.
LEMMA ModSplit ==
  ASSUME NEW x \in Int, NEW m \in Nat \ {0}
  PROVE  /\ x % m \in 0..m - 1
         /\ \E q \in Int : x = m * q + (x % m)
<1>1. x \div m \in Int /\ x % m \in 0..m - 1 /\ x = m * (x \div m) + (x % m)
  OBVIOUS
<1>. QED  BY <1>1

\* Counting up or down may be reduced before or after.
LEMMA ModNext ==
  ASSUME NEW x \in Int, NEW m \in Nat \ {0}
  PROVE  /\ ((x % m) + 1) % m = (x + 1) % m
         /\ ((x % m) - 1) % m = (x - 1) % m
<1>1. PICK q \in Int : x = m * q + (x % m)
  BY ModSplit
<1>. DEFINE r == x % m
<1>2. r \in 0..m - 1
  BY ModSplit
<1>. HIDE DEF r
<1>3. x = m * q + r
  BY <1>1 DEF r
<1>4. (r + 1) % m = (x + 1) % m
  <2>1. CASE r + 1 < m
    <3>1. (r + 1) % m = r + 1
      BY <1>2, <2>1, ModUnique, m * 0 + (r + 1) = r + 1, 0 \in Int
    <3>2. (m * q + (r + 1)) % m = r + 1
      BY <1>2, <2>1, ModUnique
    <3>. QED  BY <1>2, <1>3, <3>1, <3>2, m * q + (r + 1) = x + 1
  <2>2. CASE r + 1 = m
    <3>1. (m * 1 + 0) % m = 0 /\ m * 1 + 0 = r + 1
      BY <2>2, ModUnique
    <3>2. (m * (q + 1) + 0) % m = 0
      BY <1>2, ModUnique, q + 1 \in Int, 0 \in 0..m - 1
    <3>3. m * (q + 1) + 0 = x + 1
      BY <1>2, <1>3, <2>2
    <3>. QED  BY <3>1, <3>2, <3>3
  <2>. QED  BY <1>2, <2>1, <2>2
<1>5. (r - 1) % m = (x - 1) % m
  <2>1. CASE r > 0
    <3>1. (m * 0 + (r - 1)) % m = r - 1 /\ m * 0 + (r - 1) = r - 1
      BY <1>2, <2>1, ModUnique
    <3>2. (m * q + (r - 1)) % m = r - 1
      BY <1>2, <2>1, ModUnique
    <3>. QED  BY <1>2, <1>3, <3>1, <3>2, m * q + (r - 1) = x - 1
  <2>2. CASE r = 0
    <3>1. (m * (0 - 1) + (m - 1)) % m = m - 1
      BY ModUnique, m - 1 \in 0..m - 1, 0 - 1 \in Int
    <3>2. (m * (q - 1) + (m - 1)) % m = m - 1
      BY ModUnique, q - 1 \in Int, m - 1 \in 0..m - 1
    <3>3. m * (q - 1) + (m - 1) = x - 1 /\ m * (0 - 1) + (m - 1) = r - 1
      BY <1>2, <1>3, <2>2
    <3>. QED  BY <3>1, <3>2, <3>3
  <2>. QED  BY <1>2, <2>1, <2>2
<1>. QED  BY <1>4, <1>5 DEF r

(* compute_total_size_for_zones counts the cells of the first n zones.     *)
CellsBelow(n) == {c \in Cells : c[1] < n}

\* The first n zones have TotalSize[n] cells.
LEMMA CellsBelowCount ==
  ASSUME NEW n \in 0..MAX_NBR_ZONES
  PROVE  Cardinality(CellsBelow(n)) = TotalSize[n]
<1>. DEFINE S == {k \in Nat : k <= MAX_NBR_ZONES =>
                    Cardinality(CellsBelow(k)) = TotalSize[k]}
<1>0. \A c \in Cells : c[1] \in ZoneIndex /\ c[1] \in Nat /\ c \in CellsOf(c[1])
  BY DEF Cells, CellsOf, ZoneIndex
<1>1. 0 \in S
  <2>1. CellsBelow(0) = {}
    BY <1>0 DEF CellsBelow
  <2>. QED  BY <2>1, FS_EmptySet, TotalSizeType
<1>2. ASSUME NEW k \in Nat, k \in S, k + 1 <= MAX_NBR_ZONES
      PROVE  Cardinality(CellsBelow(k + 1)) = TotalSize[k + 1]
  <2>1. k \in ZoneIndex /\ ZoneSize[k] \in Nat \ {0}
    BY <1>2, ZoneSizeType, PoolAssumption DEF ZoneIndex
  <2>2. Cardinality(CellsBelow(k)) = TotalSize[k] /\ IsFiniteSet(CellsBelow(k))
    <3>1. k <= MAX_NBR_ZONES
      BY <1>2, PoolAssumption
    <3>2. CellsBelow(k) \in SUBSET Cells
      BY DEF CellsBelow
    <3>. QED  BY <1>2, <3>1, <3>2, CellsFinite, FS_Subset
  <2>3. CellsBelow(k + 1) = CellsBelow(k) \cup CellsOf(k) /\ CellsBelow(k) \cap CellsOf(k) = {}
    <3>1. \A c \in CellsOf(k) : c \in Cells /\ c[1] = k
      BY <2>1 DEF Cells, CellsOf
    <3>2. \A c \in Cells : c[1] < k + 1 <=> c[1] < k \/ c[1] = k
      BY <1>0
    <3>. QED  BY <1>0, <3>1, <3>2 DEF CellsBelow
  <2>4. IsFiniteSet(CellsOf(k)) /\ Cardinality(CellsOf(k)) = ZoneSize[k]
    <3>1. IsFiniteSet({k}) /\ Cardinality({k}) = 1
      BY FS_Singleton
    <3>2. IsFiniteSet(0..ZoneSize[k] - 1) /\ Cardinality(0..ZoneSize[k] - 1) = ZoneSize[k]
      <4>1. 0 \in Int /\ ZoneSize[k] - 1 \in Int /\ ~(0 > ZoneSize[k] - 1)
            /\ (ZoneSize[k] - 1) - 0 + 1 = ZoneSize[k]
        BY <2>1
      <4>. QED  BY <4>1, FS_Interval
    <3>3. IsFiniteSet(CellsOf(k)) /\ Cardinality(CellsOf(k)) = 1 * ZoneSize[k]
      BY <3>1, <3>2, FS_Product DEF CellsOf
    <3>. QED  BY <2>1, <3>3
  <2>5. Cardinality(CellsBelow(k + 1)) = TotalSize[k] + ZoneSize[k] - 0
    BY <2>2, <2>3, <2>4, FS_Union, FS_EmptySet
  <2>. QED  BY <2>1, <2>5, TotalSizeType
<1>. HIDE DEF S
<1>3. \A k \in Nat : k \in S => k + 1 \in S
  BY <1>2 DEF S
<1>4. n \in S
  BY <1>1, <1>3, NatInd, PoolAssumption
<1>. QED  BY <1>4 DEF S

(* The steps that move or count cells, as changes of three numbers.        *)
Popped == {t \in Threads : pc[t] = "take_count"}
Pushed == {t \in Threads : pc[t] \in {"fill_count", "ret_count"}}

\* What is counted is finite.
LEMMA CountsFinite ==
  ASSUME PoolTypeOK
  PROVE  /\ IsFiniteSet(free) /\ IsFiniteSet(Popped) /\ IsFiniteSet(Pushed)
         /\ Cardinality(free) \in Nat /\ Cardinality(Popped) \in Nat /\ Cardinality(Pushed) \in Nat
<1>1. IsFiniteSet(free)
  BY CellsFinite, FS_Subset DEF PoolTypeOK
<1>2. Popped \in SUBSET Threads /\ Pushed \in SUBSET Threads
  BY DEF Popped, Pushed
<1>3. IsFiniteSet(Popped) /\ IsFiniteSet(Pushed)
  BY <1>2, FS_Subset, PoolAssumption
<1>. QED  BY <1>1, <1>3, FS_CardinalityType

(* Nothing is popped or pushed, and nobody counts.                         *)
LEMMA AvailSame ==
  ASSUME AvailExact, PoolTypeOK, NEW t \in Threads, UNCHANGED <<free, nbr_avail>>,
         \A u \in Threads : u # t => pc'[u] = pc[u],
         pc[t] \notin {"take_count", "fill_count", "ret_count"},
         pc'[t] \notin {"take_count", "fill_count", "ret_count"}
  PROVE  AvailExact'
<1>1. Popped' = Popped /\ Pushed' = Pushed
  BY DEF Popped, Pushed
<1>. QED  BY <1>1 DEF AvailExact, Popped, Pushed

\* A cell popped is one that the counter has still to lose.
LEMMA AvailPop ==
  ASSUME AvailExact, PoolTypeOK, NEW t \in Threads, TakePop(t)
  PROVE  AvailExact'
<1>1. PICK c \in free : free' = free \ {c} /\ pc[t] = "take_pop" /\ nbr_avail' = nbr_avail
        /\ pc' = [pc EXCEPT ![t] = "take_count"]
  BY DEF TakePop, Goto
<1>2. Popped' = Popped \cup {t} /\ t \notin Popped /\ Pushed' = Pushed
  BY <1>1 DEF Popped, Pushed, PoolTypeOK
<1>3. Cardinality(free') = Cardinality(free) - 1
  BY <1>1, CountsFinite, FS_RemoveElement
<1>4. Cardinality(Popped') = Cardinality(Popped) + 1
  BY <1>2, CountsFinite, FS_AddElement
<1>5. Cardinality(free') + Cardinality(Popped') - Cardinality(Pushed')
        = Cardinality(free) + Cardinality(Popped) - Cardinality(Pushed)
  BY <1>2, <1>3, <1>4, CountsFinite
<1>. QED  BY <1>1, <1>5 DEF AvailExact, Popped, Pushed

(* A cell is pushed by the thread that fills a zone, or by return_cell.    *)
LEMMA AvailPush ==
  ASSUME AvailExact, PoolTypeOK, NEW t \in Threads, NEW c, c \notin free, free' = free \cup {c},
         nbr_avail' = nbr_avail, pc[t] \in {"idle", "fill_push"},
         NEW s \in {"fill_count", "ret_count"}, pc' = [pc EXCEPT ![t] = s]
  PROVE  AvailExact'
<1>1. Pushed' = Pushed \cup {t} /\ t \notin Pushed /\ Popped' = Popped
  BY DEF Popped, Pushed, PoolTypeOK
<1>2. Cardinality(free') = Cardinality(free) + 1
  BY CountsFinite, FS_AddElement
<1>3. Cardinality(Pushed') = Cardinality(Pushed) + 1
  BY <1>1, CountsFinite, FS_AddElement
<1>4. Cardinality(free') + Cardinality(Popped') - Cardinality(Pushed')
        = Cardinality(free) + Cardinality(Popped) - Cardinality(Pushed)
  BY <1>1, <1>2, <1>3, CountsFinite
<1>. QED  BY <1>4 DEF AvailExact, Popped, Pushed

\* _nbr_avail_cells loses the cell popped.
LEMMA AvailCountsPop ==
  ASSUME AvailExact, PoolTypeOK, NEW t \in Threads, TakeCount(t)
  PROVE  AvailExact'
<1>1. /\ pc[t] = "take_count" /\ pc' = [pc EXCEPT ![t] = "done"] /\ free' = free
      /\ nbr_avail' = (nbr_avail - 1) % SizeMod
  BY DEF TakeCount, Return, Goto
<1>2. Popped' = Popped \ {t} /\ t \in Popped /\ Pushed' = Pushed
  BY <1>1 DEF Popped, Pushed, PoolTypeOK
<1>3. Cardinality(Popped') = Cardinality(Popped) - 1
  BY <1>2, CountsFinite, FS_RemoveElement
<1>. DEFINE x == Cardinality(free) + Cardinality(Popped) - Cardinality(Pushed)
<1>4. x \in Int /\ Cardinality(free') + Cardinality(Popped') - Cardinality(Pushed') = x - 1
  BY <1>1, <1>2, <1>3, CountsFinite
<1>5. nbr_avail = x % SizeMod
  BY DEF AvailExact, Popped, Pushed
<1>. HIDE DEF x
<1>6. nbr_avail' = (x - 1) % SizeMod
  BY <1>1, <1>4, <1>5, ModNext, PoolAssumption
<1>. QED  BY <1>4, <1>6 DEF AvailExact, Popped, Pushed

\* _nbr_avail_cells gains the cell pushed.
LEMMA AvailCountsPush ==
  ASSUME AvailExact, PoolTypeOK, NEW t \in Threads, FillCount(t) \/ ReturnCount(t)
  PROVE  AvailExact'
<1>1. /\ pc[t] \in {"fill_count", "ret_count"} /\ free' = free
      /\ nbr_avail' = (nbr_avail + 1) % SizeMod
  BY DEF FillCount, ReturnCount
<1>2. PICK s \in {"done", "fill_push", "exp_zone"} : pc' = [pc EXCEPT ![t] = s]
  BY DEF FillCount, ReturnCount, NextZone, Return, Goto
<1>3. Pushed' = Pushed \ {t} /\ t \in Pushed /\ Popped' = Popped
  BY <1>1, <1>2 DEF Popped, Pushed, PoolTypeOK
<1>4. Cardinality(Pushed') = Cardinality(Pushed) - 1
  BY <1>3, CountsFinite, FS_RemoveElement
<1>. DEFINE x == Cardinality(free) + Cardinality(Popped) - Cardinality(Pushed)
<1>5. x \in Int /\ Cardinality(free') + Cardinality(Popped') - Cardinality(Pushed') = x + 1
  BY <1>1, <1>3, <1>4, CountsFinite
<1>6. nbr_avail = x % SizeMod
  BY DEF AvailExact, Popped, Pushed
<1>. HIDE DEF x
<1>7. nbr_avail' = (x + 1) % SizeMod
  BY <1>1, <1>5, <1>6, ModNext, PoolAssumption
<1>. QED  BY <1>5, <1>7 DEF AvailExact, Popped, Pushed

\* An empty pool counts nothing.
LEMMA AvailNone ==
  ASSUME free = {}, nbr_avail = 0, \A t \in Threads : pc[t] = "idle"
  PROVE  AvailExact
<1>1. Popped = {} /\ Pushed = {}
  BY DEF Popped, Pushed
<1>2. 0 % SizeMod = 0
  <2>1. (SizeMod * 0 + 0) % SizeMod = 0
    BY ModUnique, PoolAssumption, 0 \in 0..SizeMod - 1
  <2>. QED  BY <2>1, PoolAssumption
<1>3. Cardinality(free) + Cardinality(Popped) - Cardinality(Pushed) = 0
  BY <1>1, FS_EmptySet
<1>. QED  BY <1>2, <1>3 DEF AvailExact, Popped, Pushed

\* No other step touches the counter or what it counts.
LEMMA AvailStep ==
  ASSUME OnceInv, AvailExact, [Next]_vars
  PROVE  AvailExact'
<1>0. PoolTypeOK
  BY DEF OnceInv, TypeInv, Basic
<1>1. CASE UNCHANGED vars
  BY <1>1 DEF vars, poolVars, shared, AvailExact
<1>2. CASE ClearAll
  <2>1. (free = {})' /\ (nbr_avail = 0)' /\ \A t \in Threads : pc'[t] = "idle"
    BY <1>2 DEF ClearAll, Quiescent
  <2>2. Popped' = {} /\ Pushed' = {}
    BY <2>1 DEF Popped, Pushed
  <2>3. (SizeMod * 0 + 0) % SizeMod = 0
    BY ModUnique, PoolAssumption, 0 \in 0..SizeMod - 1
  <2>4. Cardinality(free') + Cardinality(Popped') - Cardinality(Pushed') = SizeMod * 0 + 0
    BY <2>1, <2>2, FS_EmptySet, PoolAssumption
  <2>. QED  BY <2>1, <2>3, <2>4 DEF AvailExact, Popped, Pushed
<1>3. ASSUME NEW t \in Threads, CallBegins(t)  PROVE AvailExact'
  BY <1>0, <1>3, AvailSame DEF PoolTypeOK, CallBegins, CallTake, CallExpand, Goto, shared
<1>4. ASSUME NEW t \in Threads, NEW c \in client, CallReturn(t, c)  PROVE AvailExact'
  <2>1. c \notin free
    BY DEF OnceInv, Forgotten, HeldOnce
  <2>. QED  BY <1>0, <1>4, <2>1, AvailPush DEF CallReturn, Goto
<1>5. ASSUME NEW t \in Threads, PoolStep(t)  PROVE AvailExact'
  <2>1. CASE FillPush(t)
    <3>1. <<zi[t], pos[t]>> \notin Stocked
      <4>1. pos[t] \in Nat /\ ~(pos[t] < pos[t]) /\ pc[t] = "fill_push"
        BY <1>0, <2>1 DEF PoolTypeOK, FillPush
      <4>. QED  BY <4>1 DEF Stocked
    <3>2. <<zi[t], pos[t]>> \notin free
      BY <3>1 DEF OnceInv, Forgotten, HeldOnce
    <3>. QED  BY <1>0, <2>1, <3>2, AvailPush DEF FillPush, Goto
  <2>2. CASE TakePop(t) \/ TakeCount(t) \/ FillCount(t) \/ ReturnCount(t)
    BY <1>0, <2>2, AvailPop, AvailCountsPop, AvailCountsPush
  <2>3. CASE TakeGrows(t) \/ ExpandSkips(t) \/ ExpandAllocates(t) \/ Lock(t)
    BY <1>0, <2>3, AvailSame
       DEF PoolTypeOK, TakeGrows, ExpandSkips, ExpandAllocates, Lock, Goto, shared
  <2>4. CASE TakeFindsNone(t) \/ AllocThrows(t)
    BY <1>0, <2>4, AvailSame DEF PoolTypeOK, TakeFindsNone, AllocThrows, Return, Goto, shared
  <2>5. CASE ZoneIsNew(t) \/ ZoneIsTaken(t)
    BY <1>0, <2>5, AvailSame DEF PoolTypeOK, ZoneIsNew, ZoneIsTaken, NextZone, Goto
  <2>6. CASE ExpandDone(t)
    <3>1. pc'[t] = "take_pop" \/ pc'[t] = "done"
      BY <1>0, <2>6, ExpandDoneTwoWays
    <3>2. /\ UNCHANGED <<free, nbr_avail>> /\ pc[t] = "exp_zone"
          /\ \A u \in Threads : u # t => pc'[u] = pc[u]
      BY <1>0, <2>6 DEF PoolTypeOK, ExpandDone, Return, Goto
    <3>. QED  BY <1>0, <3>1, <3>2, AvailSame
  <2>. QED  BY <1>5, <2>1, <2>2, <2>3, <2>4, <2>5, <2>6 DEF PoolStep
<1>6. ASSUME NEW t \in Threads, Receive(t)  PROVE AvailExact'
  BY <1>0, <1>6, AvailSame DEF PoolTypeOK, Receive, Goto, shared
<1>. QED  BY <1>1, <1>2, <1>3, <1>4, <1>5, <1>6, NextCases

(* _nbr_avail_cells is the number of cells on the stack, but for the pushes*)
(* and pops still to be counted, also when it passes below zero and wraps. *)
THEOREM CounterExact == Spec => []AvailExact
<1>1. Init => OnceInv /\ AvailExact
  BY OnceInit, AvailNone DEF Init, NobodyInside
<1>2. (OnceInv /\ AvailExact) /\ [Next]_vars => (OnceInv /\ AvailExact)'
  BY OnceStep, AvailStep
<1>. QED  BY <1>1, <1>2, PTL DEF Spec

(* The assertion of clear_all holds whenever clear_all may be called.      *)
THEOREM ClearIsSafe == ASSUME OneZone  PROVE Spec => []ClearAssert
<1>1. ASSUME IInv, AvailExact, Quiescent
      PROVE  /\ nbr_avail = TotalSize[nbr_zones] % SizeMod
             /\ \A z \in ZoneIndex : zone_list[z] => z < nbr_zones
  <2>. USE <1>1 DEF IInv, TypeInv
  <2>1. nbr_zones \in 0..MAX_NBR_ZONES
    BY DEF Basic, PoolTypeOK
  <2>2. \A z \in ZoneIndex : zone_list[z] <=> z < nbr_zones
    BY AllCounted DEF Zones, ZonesDense
  <2>3. \A c \in Cells : c[1] \in ZoneIndex
    BY DEF Cells, CellsOf
  <2>4. Stocked = CellsBelow(nbr_zones)
    BY <2>2, <2>3 DEF Stocked, CellsBelow, Quiescent
  <2>5. InHand = {}
    BY OutcomeAssumption DEF InHand, Basic, GotByPc, Quiescent
  <2>6. free = CellsBelow(nbr_zones)
    BY <2>4, <2>5 DEF Conserved, HeldOnce, Quiescent
  <2>7. Popped = {} /\ Pushed = {}
    BY DEF Popped, Pushed, Quiescent
  <2>8. Cardinality(free) + Cardinality(Popped) - Cardinality(Pushed) = TotalSize[nbr_zones]
    <3>1. Cardinality(free) = TotalSize[nbr_zones] /\ Cardinality({}) = 0
      BY <2>1, <2>6, CellsBelowCount, FS_EmptySet
    <3>2. TotalSize[nbr_zones] \in Nat
      BY <2>1, TotalSizeType, PoolAssumption
    <3>. QED  BY <2>7, <3>1, <3>2
  <2>. QED  BY <2>2, <2>8 DEF AvailExact, Popped, Pushed
<1>2. IInv /\ AvailExact => ClearAssert
  BY <1>1 DEF ClearAssert
<1>3. OneZone /\ IInv /\ [Next]_vars => IInv'
  BY InvStep
<1>. QED  BY <1>2, <1>3, InvInit, CounterExact, PTL DEF Spec
=============================================================================
