------------------------ MODULE CellPoolStepsProofs ------------------------
(***************************************************************************)
(* What the steps inside a pool keep true, whoever calls them: lemmas for  *)
(* CellPoolProofs and ObjPoolProofs.  The cells outside the pool before    *)
(* and after a step are the parameters out and next.                       *)
(***************************************************************************)
EXTENDS CellPoolSteps, FiniteSetTheorems, WellFoundedInduction, TLAPS

FillPcs == {"fill_push", "fill_count"}
AllocPcs == {"alloc_lock", "alloc_cas"} \cup FillPcs

(* A thread in allocate_zone is at a zone that exists, and fills it only   *)
(* when it is in the list.                                                 *)
InZone == \A t \in Threads :
  /\ pc[t] \in AllocPcs => zi[t] \in ZoneIndex
  /\ IF pc[t] \in FillPcs THEN zone_list[zi[t]] /\ pos[t] < ZoneSize[zi[t]]
                          ELSE pos[t] = 0

(* A thread has popped a cell while it counts it, and until it returns.    *)
GotByPc == \A t \in Threads :
  /\ pc[t] = "take_count" => got[t] \in Cells
  /\ pc[t] \notin {"take_count", "done"} => got[t] = NULL

Basic == PoolTypeOK /\ FillAlone /\ InZone /\ GotByPc

-----------------------------------------------------------------------------
(* Facts about the natural numbers: a least element, induction over a set, *)
(* and the existence of a recursive function.  They speak of sets and      *)
(* functions where the library speaks of operators.                        *)

(* Every set of numbers that is not empty has a least element.             *)
LEMMA NatLeast ==
  ASSUME NEW T, T \subseteq Nat, T # {}
  PROVE  \E m \in T : \A n \in T : m <= n
<1>. DEFINE R == OpToRel(<, Nat)
<1>1. IsWellFoundedOn(R, Nat)
  BY NatLessThanWellFounded
<1>2. PICK m \in T : \A n \in T : <<n, m>> \notin R
  BY <1>1, WFMin
<1>3. \A n \in T : ~(n < m)
  BY <1>2 DEF OpToRel
<1>. QED  BY <1>3

(* A set that has 0, and n + 1 with every n, has every number.             *)
LEMMA NatInd ==
  ASSUME NEW S, 0 \in S, \A n \in Nat : n \in S => n + 1 \in S
  PROVE  Nat \subseteq S
<1>. DEFINE T == Nat \ S
<1>. SUFFICES ASSUME T # {} PROVE FALSE
  OBVIOUS
<1>1. PICK m \in T : \A n \in T : m <= n
  BY NatLeast
<1>2. m # 0 /\ m - 1 \in Nat /\ m - 1 \notin T
  BY <1>1
<1>3. m - 1 \in S /\ (m - 1) + 1 = m
  BY <1>2
<1>. QED  BY <1>2, <1>3

IsRec(f, S, a, G) ==
  f \in [Nat -> S] /\ f[0] = a /\ \A n \in Nat : f[n + 1] = G[n][f[n]]

(* The function that starts with a and goes from f[n] to G[n][f[n]] exists:*)
(* the sums and the sizes of CellPool are such functions.                  *)
LEMMA PrimRec ==
  ASSUME NEW S, NEW a \in S, NEW G \in [Nat -> [S -> S]]
  PROVE  \E f : IsRec(f, S, a, G)
<1>. DEFINE Part(n, f) == f[0] = a /\ \A i \in 0..n : i # 0 => f[i] = G[i-1][f[i-1]]
            Goods == {n \in Nat : \E f \in [0..n -> S] : Part(n, f)}
<1>1. 0 \in Goods
  <2>1. [i \in 0..0 |-> a] \in [0..0 -> S] /\ Part(0, [i \in 0..0 |-> a])
    OBVIOUS
  <2>. QED BY <2>1
<1>2. ASSUME NEW n \in Nat, n \in Goods PROVE n + 1 \in Goods
  <2>1. PICK f \in [0..n -> S] : Part(n, f)
    BY <1>2
  <2>. DEFINE g == [i \in 0..n+1 |-> IF i = n + 1 THEN G[n][f[n]] ELSE f[i]]
  <2>2. g \in [0..n+1 -> S]
    OBVIOUS
  <2>3. Part(n+1, g)
    BY <2>1
  <2>. HIDE DEF g
  <2>. QED BY <2>2, <2>3
<1>3. \A n \in Nat : n \in Goods
  <2>. HIDE DEF Goods
  <2>. QED BY <1>1, <1>2, NatInd
<1>. DEFINE F(n) == CHOOSE f \in [0..n -> S] : Part(n, f)
<1>4. \A n \in Nat : F(n) \in [0..n -> S] /\ Part(n, F(n))
  BY <1>3
<1>. HIDE DEF F
<1>5. ASSUME NEW n \in Nat  PROVE \A i \in 0..n : F(n)[i] = F(n+1)[i]
  <2>. DEFINE A == {i \in Nat : i <= n => F(n)[i] = F(n+1)[i]}
  <2>1. 0 \in A
    BY <1>4
  <2>2. ASSUME NEW i \in Nat, i \in A PROVE i + 1 \in A
    <3>. SUFFICES ASSUME i + 1 <= n PROVE F(n)[i+1] = F(n+1)[i+1]
      OBVIOUS
    <3>1. F(n)[i+1] = G[i][F(n)[i]]
      BY <1>4, i + 1 \in 0..n, i + 1 # 0, i + 1 - 1 = i
    <3>2. F(n+1)[i+1] = G[i][F(n+1)[i]]
      BY <1>4, i + 1 \in 0..n+1, i + 1 # 0, i + 1 - 1 = i, n + 1 \in Nat
    <3>. QED BY <2>2, <3>1, <3>2
  <2>. HIDE DEF A
  <2>3. Nat \subseteq A
    BY <2>1, <2>2, NatInd
  <2>. QED BY <2>3 DEF A
<1>. DEFINE h == [n \in Nat |-> F(n)[n]]
<1>6. h \in [Nat -> S]
  BY <1>4
<1>7. h[0] = a
  BY <1>4
<1>8. ASSUME NEW n \in Nat  PROVE h[n + 1] = G[n][h[n]]
  <2>1. F(n + 1)[n + 1] = G[n][F(n + 1)[n]]
    BY <1>4, n + 1 \in 0..n + 1, n + 1 # 0, n + 1 - 1 = n, n + 1 \in Nat
  <2>2. F(n)[n] = F(n + 1)[n]
    BY <1>5
  <2>. QED  BY <2>1, <2>2
<1>. HIDE DEF h
<1>9. IsRec(h, S, a, G)
  BY <1>6, <1>7, <1>8 DEF IsRec
<1>. QED  BY <1>9

-----------------------------------------------------------------------------
(* The zones: each is at least as large as BASE_SIZE, and as many cells are*)
(* in the first n as compute_total_size_for_zones says.                    *)
LEMMA DivFacts ==
  ASSUME NEW a \in Nat, NEW d \in Nat \ {0}
  PROVE  a \div d \in Nat /\ d * (a \div d) <= a /\ a < d * (a \div d) + d
OBVIOUS

\* A zone is at least as large as the one before it.
LEMMA Grows ==
  ASSUME NEW s \in Nat
  PROVE  (s * GROW_RATE_NUM) \div GROW_RATE_DEN \in Nat
         /\ (s * GROW_RATE_NUM) \div GROW_RATE_DEN >= s
<1>. DEFINE num == GROW_RATE_NUM
            den == GROW_RATE_DEN
            b == (BASE_SIZE * num) \div den
            q == (s * num) \div den
<1>. HIDE DEF b, q
<1>1. num \in Nat /\ den \in Nat \ {0} /\ BASE_SIZE \in Nat \ {0}
  BY PoolAssumption
<1>2. BASE_SIZE * num \in Nat /\ s * num \in Nat
  BY <1>1
<1>3. b \in Nat /\ den * b <= BASE_SIZE * num /\ b > BASE_SIZE
  BY <1>1, <1>2, DivFacts, PoolAssumption DEF b
<1>4. q \in Nat /\ s * num < den * q + den
  BY <1>1, <1>2, DivFacts DEF q
<1>5. num > den
  <2>. SUFFICES ASSUME num <= den PROVE FALSE
    BY <1>1
  <2>1. BASE_SIZE * num <= BASE_SIZE * den
    BY <1>1
  <2>2. den * b >= den * (BASE_SIZE + 1)
    BY <1>1, <1>3
  <2>3. den * (BASE_SIZE + 1) = BASE_SIZE * den + den
    BY <1>1
  <2>. QED  BY <1>1, <1>2, <1>3, <2>1, <2>2, <2>3
<1>6. q >= s
  <2>. SUFFICES ASSUME q + 1 <= s PROVE FALSE
    BY <1>4
  <2>1. den * q + den <= den * s
    <3>1. den * q + den = den * (q + 1)
      BY <1>1, <1>4
    <3>. QED  BY <1>1, <1>4, <3>1
  <2>2. den * s <= s * num
    BY <1>1, <1>5
  <2>. QED  BY <1>1, <1>2, <1>4, <2>1, <2>2
<1>. QED  BY <1>4, <1>6 DEF q

\* ZoneSize is the function its equation describes.
LEMMA ZoneSizeIs ==
  ZoneSize = [z \in Nat |-> IF z = 0 THEN BASE_SIZE
                            ELSE (ZoneSize[z - 1] * GROW_RATE_NUM) \div GROW_RATE_DEN]
<1>. DEFINE Grown(s) == (s * GROW_RATE_NUM) \div GROW_RATE_DEN
            G == [n \in Nat |-> [s \in Nat |-> Grown(s)]]
<1>1. BASE_SIZE \in Nat
  BY PoolAssumption
<1>2. \A s \in Nat : Grown(s) \in Nat
  BY Grows
<1>. HIDE DEF Grown
<1>3. G \in [Nat -> [Nat -> Nat]]
  BY <1>2
<1>4. PICK f : IsRec(f, Nat, BASE_SIZE, G)
  <2>. HIDE DEF G
  <2>. QED  BY <1>1, <1>3, PrimRec
<1>5. \A n \in Nat : n # 0 => f[n] = Grown(f[n - 1])
  <2>. TAKE n \in Nat
  <2>. HAVE n # 0
  <2>. n - 1 \in Nat /\ (n - 1) + 1 = n
    OBVIOUS
  <2>. QED  BY <1>4 DEF IsRec
<1>6. f = [n \in Nat |-> IF n = 0 THEN BASE_SIZE ELSE Grown(f[n - 1])]
  BY <1>4, <1>5 DEF IsRec
<1>. QED  BY <1>6 DEF ZoneSize, Grown

\* Every zone has a cell.
LEMMA ZoneSizeType ==
  ASSUME NEW z \in Nat
  PROVE  /\ ZoneSize[z] \in Nat \ {0} /\ ZoneSize[0] = BASE_SIZE
         /\ ZoneSize[z + 1] = (ZoneSize[z] * GROW_RATE_NUM) \div GROW_RATE_DEN
<1>1. ZoneSize[0] = BASE_SIZE
  BY ZoneSizeIs
<1>2. \A n \in Nat : ZoneSize[n + 1] = (ZoneSize[n] * GROW_RATE_NUM) \div GROW_RATE_DEN
  <2>. TAKE n \in Nat
  <2>1. n + 1 \in Nat /\ n + 1 # 0 /\ (n + 1) - 1 = n
    OBVIOUS
  <2>. QED  BY <2>1, ZoneSizeIs
<1>. DEFINE S == {n \in Nat : ZoneSize[n] \in Nat \ {0}}
<1>3. 0 \in S
  BY <1>1, PoolAssumption
<1>4. \A n \in Nat : n \in S => n + 1 \in S
  <2>. SUFFICES ASSUME NEW n \in Nat, ZoneSize[n] \in Nat \ {0}
                PROVE  ZoneSize[n + 1] \in Nat \ {0}
    OBVIOUS
  <2>. QED  BY <1>2, Grows
<1>. HIDE DEF S
<1>5. Nat \subseteq S
  BY <1>3, <1>4, NatInd
<1>. QED  BY <1>1, <1>2, <1>5 DEF S

\* TotalSize adds the sizes up.
LEMMA TotalSizeType ==
  /\ TotalSize \in [Nat -> Nat] /\ TotalSize[0] = 0
  /\ \A n \in Nat : TotalSize[n + 1] = TotalSize[n] + ZoneSize[n]
<1>. DEFINE G == [n \in Nat |-> [s \in Nat |-> s + ZoneSize[n]]]
<1>1. G \in [Nat -> [Nat -> Nat]]
  BY ZoneSizeType
<1>2. PICK f : IsRec(f, Nat, 0, G)
  <2>. HIDE DEF G
  <2>. QED  BY <1>1, PrimRec
<1>3. \A n \in Nat : n # 0 => f[n] = f[n - 1] + ZoneSize[n - 1]
  <2>. TAKE n \in Nat
  <2>. HAVE n # 0
  <2>. n - 1 \in Nat /\ (n - 1) + 1 = n
    OBVIOUS
  <2>. QED  BY <1>2 DEF IsRec
<1>4. f = [n \in Nat |-> IF n = 0 THEN 0 ELSE f[n - 1] + ZoneSize[n - 1]]
  BY <1>2, <1>3 DEF IsRec
<1>5. TotalSize = [n \in Nat |-> IF n = 0 THEN 0 ELSE TotalSize[n - 1] + ZoneSize[n - 1]]
  BY <1>4 DEF TotalSize
<1>6. TotalSize[0] = 0
  BY <1>5
<1>7. \A n \in Nat : TotalSize[n + 1] = TotalSize[n] + ZoneSize[n]
  <2>. TAKE n \in Nat
  <2>1. n + 1 \in Nat /\ n + 1 # 0 /\ (n + 1) - 1 = n
    OBVIOUS
  <2>. QED  BY <2>1, <1>5
<1>. DEFINE S == {n \in Nat : TotalSize[n] \in Nat}
<1>8. Nat \subseteq S
  <2>1. 0 \in S /\ \A n \in Nat : n \in S => n + 1 \in S
    BY <1>6, <1>7, ZoneSizeType
  <2>. HIDE DEF S
  <2>. QED  BY <2>1, NatInd
<1>9. TotalSize \in [Nat -> Nat]
  BY <1>5, <1>8
<1>. QED  BY <1>6, <1>7, <1>9

(* A longer list of zones has more cells.                                  *)
LEMMA TotalSizeMonotone ==
  ASSUME NEW m \in Nat, NEW n \in Nat
  PROVE  m <= n <=> TotalSize[m] <= TotalSize[n]
<1>1. \A i \in Nat : TotalSize[i] < TotalSize[i + 1] /\ TotalSize[i] \in Nat
  BY TotalSizeType, ZoneSizeType
<1>2. ASSUME NEW i \in Nat  PROVE \A k \in Nat : TotalSize[i] < TotalSize[i + k + 1]
  <2>. DEFINE S == {k \in Nat : TotalSize[i] < TotalSize[i + k + 1]}
  <2>1. 0 \in S
    BY <1>1
  <2>2. \A k \in Nat : k \in S => k + 1 \in S
    <3>. SUFFICES ASSUME NEW k \in Nat, TotalSize[i] < TotalSize[i + k + 1]
                  PROVE  TotalSize[i] < TotalSize[i + (k + 1) + 1]
      OBVIOUS
    <3>1. i + k + 1 \in Nat /\ i + (k + 1) + 1 = (i + k + 1) + 1
      OBVIOUS
    <3>. QED  BY <1>1, <3>1
  <2>. HIDE DEF S
  <2>3. Nat \subseteq S
    BY <2>1, <2>2, NatInd
  <2>. QED  BY <2>3 DEF S
<1>3. \A i, j \in Nat : i < j => TotalSize[i] < TotalSize[j]
  <2>. SUFFICES ASSUME NEW i \in Nat, NEW j \in Nat, i < j
                PROVE  TotalSize[i] < TotalSize[j]
    OBVIOUS
  <2>1. j - i - 1 \in Nat /\ i + (j - i - 1) + 1 = j
    OBVIOUS
  <2>2. TotalSize[i] < TotalSize[i + (j - i - 1) + 1]
    BY <1>2, <2>1
  <2>. QED  BY <2>1, <2>2
<1>4. TotalSize[m] \in Nat /\ TotalSize[n] \in Nat
  BY <1>1
<1>5. (m < n => TotalSize[m] < TotalSize[n]) /\ (n < m => TotalSize[n] < TotalSize[m])
  BY <1>3
<1>. QED  BY <1>4, <1>5

\* The cells of fewer zones are fewer.
LEMMA NextTotal ==
  ASSUME NEW m \in Nat, NEW n \in Nat, m <= n
  PROVE  /\ TotalSize[m + 1] <= TotalSize[n + 1]
         /\ TotalSize[m + 1] \in Nat /\ TotalSize[n + 1] \in Nat
<1>1. m + 1 \in Nat /\ n + 1 \in Nat /\ m + 1 <= n + 1
  OBVIOUS
<1>. QED  BY <1>1, TotalSizeMonotone, TotalSizeType

\* What a zone of the list is.
LEMMA ZoneFacts ==
  ASSUME NEW z \in ZoneIndex
  PROVE  z \in Nat /\ z + 1 \in 0..MAX_NBR_ZONES /\ ZoneSize[z] \in Nat \ {0}
<1>1. z \in Nat /\ z + 1 \in 0..MAX_NBR_ZONES
  BY PoolAssumption DEF ZoneIndex
<1>. QED  BY <1>1, ZoneSizeType

(* The cells of the pool are finitely many.                                *)
LEMMA CellsFinite == IsFiniteSet(Cells)
<1>. DEFINE B == ZoneIndex \X (0..TotalSize[MAX_NBR_ZONES])
<1>1. MAX_NBR_ZONES \in Nat /\ TotalSize[MAX_NBR_ZONES] \in Nat
  BY PoolAssumption, TotalSizeType
<1>2. IsFiniteSet(B)
  <2>1. IsFiniteSet(ZoneIndex)
    BY <1>1, FS_Interval, 0 \in Int, MAX_NBR_ZONES - 1 \in Int DEF ZoneIndex
  <2>2. IsFiniteSet(0..TotalSize[MAX_NBR_ZONES])
    BY <1>1, FS_Interval, 0 \in Int, TotalSize[MAX_NBR_ZONES] \in Int
  <2>. QED  BY <2>1, <2>2, FS_Product
<1>3. ASSUME NEW z \in ZoneIndex  PROVE CellsOf(z) \subseteq B
  <2>1. z \in Nat /\ z + 1 \in Nat /\ z + 1 <= MAX_NBR_ZONES /\ ZoneSize[z] \in Nat
    BY ZoneFacts, <1>1
  <2>2. TotalSize[z + 1] = TotalSize[z] + ZoneSize[z] /\ TotalSize[z] \in Nat
        /\ TotalSize[z + 1] <= TotalSize[MAX_NBR_ZONES]
    BY <1>1, <2>1, TotalSizeType, TotalSizeMonotone
  <2>. QED  BY <1>1, <2>1, <2>2 DEF CellsOf
<1>4. Cells \subseteq B
  BY <1>3 DEF Cells
<1>. HIDE DEF B
<1>. QED  BY <1>2, <1>4, FS_Subset

-----------------------------------------------------------------------------
(* One holder for every cell.                                              *)
LEMMA CoreStart ==
  ASSUME NobodyInside, zone_list \in [ZoneIndex -> BOOLEAN], nbr_zones \in 0..MAX_NBR_ZONES,
         nbr_avail \in 0..SizeMod - 1, free \in SUBSET Cells
  PROVE  Basic /\ InHand = {} /\ Stocked = {c \in Cells : zone_list[c[1]]}
<1>. USE PoolAssumption, OutcomeAssumption DEF NobodyInside
<1>1. PoolTypeOK
  BY DEF PoolTypeOK
<1>2. FillAlone
  BY DEF FillAlone
<1>3. InZone /\ GotByPc
  BY DEF InZone, GotByPc, AllocPcs, FillPcs
<1>4. InHand = {} /\ Stocked = {c \in Cells : zone_list[c[1]]}
  BY DEF Stocked, InHand
<1>. QED  BY <1>1, <1>2, <1>3, <1>4 DEF Basic

(* The cells pushed so far depend on the zones and on who fills one.       *)
LEMMA StockedSame ==
  ASSUME UNCHANGED zone_list,
         \A t \in Threads : pc[t] \in FillPcs \/ pc'[t] \in FillPcs =>
           pc'[t] = pc[t] /\ zi'[t] = zi[t] /\ pos'[t] = pos[t]
  PROVE  Stocked' = Stocked
BY DEF Stocked, FillPcs

(* A step that moves no cell.                                              *)
LEMMA HeldSame ==
  ASSUME NEW out, HeldOnce(out), UNCHANGED free, Stocked' = Stocked,
         \A t \in Threads : got[t] \in Cells \/ got'[t] \in Cells => got'[t] = got[t]
  PROVE  HeldOnce(out)'
<1>1. InHand' = InHand
  BY DEF InHand
<1>2. \A t \in InHand : got'[t] = got[t]
  BY DEF InHand
<1>3. {got'[t] : t \in InHand'} = {got[t] : t \in InHand}
  BY <1>1, <1>2
<1>. QED  BY <1>1, <1>2, <1>3 DEF HeldOnce

(* The steps of a thread that move no cell: calls, the loops of take_cell  *)
(* and expand_to, the mutex, and the ends of calls.                        *)
Begins(t) == (\E autogrow \in BOOLEAN : CallTake(t, autogrow))
             \/ \E n \in Nat : CallExpand(t, n)
Loops(t) == TakeGrows(t) \/ ExpandSkips(t) \/ ExpandAllocates(t)
            \/ (ExpandDone(t) /\ pc'[t] = "take_pop") \/ Lock(t) \/ ZoneIsTaken(t)
Ends(t) == TakeFindsNone(t) \/ TakeCount(t) \/ (ExpandDone(t) /\ pc'[t] = "done")
           \/ AllocThrows(t) \/ ReturnCount(t)

\* A call begins: nothing moves.
LEMMA CoreBegins ==
  ASSUME Basic, NEW t \in Threads, Begins(t), NEW out
  PROVE  Basic' /\ (HeldOnce(out) => HeldOnce(out)')
<1>. USE PoolAssumption, OutcomeAssumption
     DEF Basic, Begins, CallTake, CallExpand, Goto, shared
<1>1. PoolTypeOK'
  BY DEF PoolTypeOK, TakePcs, ExpandPcs
<1>2. PICK s \in {"take_pop", "exp_zone"} : pc' = [pc EXCEPT ![t] = s] /\ pc[t] = "idle"
  OBVIOUS
<1>3. UNCHANGED <<zone_list, free, mutex, zi, pos, got>>
  OBVIOUS
<1>4. FillAlone' /\ InZone' /\ GotByPc'
  BY <1>2, <1>3 DEF FillAlone, InZone, GotByPc, AllocPcs, FillPcs, PoolTypeOK
<1>5. ASSUME HeldOnce(out)  PROVE HeldOnce(out)'
  <2>. USE <1>5
  <2>1. Stocked' = Stocked
    BY <1>2, <1>3, StockedSame DEF FillPcs, PoolTypeOK
  <2>. QED  BY <1>3, <2>1, HeldSame
<1>. QED  BY <1>1, <1>4, <1>5

\* A step within a call: nothing moves.
LEMMA CoreLoops ==
  ASSUME Basic, NEW t \in Threads, Loops(t), NEW out
  PROVE  Basic' /\ (HeldOnce(out) => HeldOnce(out)')
<1>. USE PoolAssumption, OutcomeAssumption DEF Basic, Loops, Goto, shared, locals
<1>1. PoolTypeOK'
  <2>. USE DEF PoolTypeOK, TakePcs, ExpandPcs
  <2>1. CASE TakeGrows(t)
    BY <2>1, TotalSizeType DEF TakeGrows
  <2>2. CASE ExpandSkips(t)
    BY <2>2 DEF ExpandSkips, MoreZones
  <2>3. CASE ExpandAllocates(t)
    BY <2>3 DEF ExpandAllocates
  <2>4. CASE ExpandDone(t) /\ pc'[t] = "take_pop"
    BY <2>4 DEF ExpandDone, CountZones, Return
  <2>5. CASE Lock(t)
    BY <2>5 DEF Lock
  <2>6. CASE ZoneIsTaken(t)
    BY <2>6 DEF ZoneIsTaken, NextZone, InZone, AllocPcs, FillPcs, ZoneIndex
  <2>. QED  BY <2>1, <2>2, <2>3, <2>4, <2>5, <2>6
<1>2. FillAlone' /\ InZone'
  <2>. USE DEF FillAlone, InZone, PoolTypeOK, TakePcs, ExpandPcs, AllocPcs, FillPcs, ZoneIndex
  <2>1. CASE TakeGrows(t)
    BY <2>1 DEF TakeGrows
  <2>2. CASE ExpandSkips(t)
    BY <2>2 DEF ExpandSkips
  <2>3. CASE ExpandAllocates(t)
    BY <2>3 DEF ExpandAllocates, MoreZones
  <2>4. CASE ExpandDone(t) /\ pc'[t] = "take_pop"
    <3>1. /\ pc' = [pc EXCEPT ![t] = "take_pop"] /\ pc[t] = "exp_zone"
          /\ zi' = [zi EXCEPT ![t] = 0] /\ UNCHANGED <<zone_list, mutex, pos>>
      BY <2>4 DEF ExpandDone, Return
    <3>. QED  BY <3>1
  <2>5. CASE Lock(t)
    BY <2>5 DEF Lock
  <2>6. CASE ZoneIsTaken(t)
    BY <2>6 DEF ZoneIsTaken, NextZone
  <2>. QED  BY <2>1, <2>2, <2>3, <2>4, <2>5, <2>6
<1>3. /\ UNCHANGED <<zone_list, free, got>>
      /\ pc[t] \notin FillPcs \cup {"take_count", "done"}
      /\ pc'[t] \notin FillPcs \cup {"take_count", "done"}
      /\ \A u \in Threads : u # t => pc'[u] = pc[u] /\ zi'[u] = zi[u] /\ pos'[u] = pos[u]
  BY DEF FillPcs, PoolTypeOK, TakeGrows, ExpandSkips, ExpandAllocates, ExpandDone, Return, Lock,
     ZoneIsTaken, NextZone
<1>4. GotByPc'
  BY <1>3 DEF GotByPc
<1>5. ASSUME HeldOnce(out)  PROVE HeldOnce(out)'
  <2>. USE <1>5
  <2>1. Stocked' = Stocked
    BY <1>3, StockedSame
  <2>. QED  BY <1>3, <2>1, HeldSame
<1>. QED  BY <1>1, <1>2, <1>4, <1>5

\* A call ends, and keeps what it has got.
LEMMA CoreEnds ==
  ASSUME Basic, NEW t \in Threads, Ends(t), NEW out
  PROVE  Basic' /\ (HeldOnce(out) => HeldOnce(out)')
<1>. USE PoolAssumption, OutcomeAssumption DEF Basic, Ends, shared
<1>1. /\ pc[t] \notin FillPcs \cup {"done"}
      /\ UNCHANGED <<zone_list, free>>
      /\ IF pc[t] = "alloc_cas" THEN mutex' = NULL ELSE mutex' = mutex
      /\ nbr_avail' \in 0..SizeMod - 1 /\ nbr_zones' \in 0..MAX_NBR_ZONES
  BY DEF FillPcs, PoolTypeOK, TakeFindsNone, TakeCount, ExpandDone, Return, AllocThrows, ReturnCount,
     CountZones, Goto
<1>2. PICK r \in Cells \cup {NULL, Thrown} :
        /\ Return(t, r)
        /\ IF pc[t] = "take_count" THEN r = got[t] ELSE r \notin Cells
  <2>1. CASE ExpandDone(t) /\ pc'[t] = "done"
    BY <2>1 DEF ExpandDone, Goto, PoolTypeOK
  <2>2. CASE TakeCount(t)
    BY <2>2 DEF TakeCount, PoolTypeOK
  <2>3. CASE TakeFindsNone(t) \/ AllocThrows(t) \/ ReturnCount(t)
    BY <2>3 DEF TakeFindsNone, AllocThrows, ReturnCount
  <2>. QED  BY <2>1, <2>2, <2>3
<1>3. PoolTypeOK'
  BY <1>1, <1>2 DEF PoolTypeOK, Return, Goto
<1>4. FillAlone' /\ InZone' /\ GotByPc'
  BY <1>1, <1>2 DEF FillAlone, InZone, GotByPc, AllocPcs, FillPcs, PoolTypeOK, Return, Goto
<1>5. ASSUME HeldOnce(out)  PROVE HeldOnce(out)'
  <2>. USE <1>5
  <2>1. Stocked' = Stocked
    BY <1>1, <1>2, StockedSame DEF FillPcs, PoolTypeOK, Return, Goto
  <2>2. \A u \in Threads : got[u] \in Cells \/ got'[u] \in Cells => got'[u] = got[u]
    BY <1>1, <1>2 DEF PoolTypeOK, Return, Goto, GotByPc
  <2>. QED  BY <1>1, <2>1, <2>2, HeldSame
<1>. QED  BY <1>3, <1>4, <1>5

(* A pop takes a cell from the stack into the hands of a thread, which     *)
(* gives it to the program when the call returns.                          *)
LEMMA CoreTakePop ==
  ASSUME Basic, NEW t \in Threads, TakePop(t), NEW out
  PROVE  Basic' /\ (HeldOnce(out) => HeldOnce(out)')
<1>. USE PoolAssumption, OutcomeAssumption DEF Basic, Goto
<1>1. PICK c \in free :
        /\ pc[t] = "take_pop" /\ free' = free \ {c} /\ got' = [got EXCEPT ![t] = c]
        /\ pc' = [pc EXCEPT ![t] = "take_count"]
        /\ UNCHANGED <<zone_list, nbr_zones, nbr_avail, mutex, fn, zones_seen, want, zi, pos>>
  BY DEF TakePop
<1>2. c \in Cells /\ got[t] = NULL
  BY <1>1 DEF PoolTypeOK, GotByPc
<1>3. PoolTypeOK'
  BY <1>1, <1>2 DEF PoolTypeOK, TakePcs
<1>4. FillAlone' /\ InZone' /\ GotByPc'
  BY <1>1, <1>2 DEF FillAlone, InZone, GotByPc, AllocPcs, FillPcs, PoolTypeOK
<1>5. ASSUME HeldOnce(out)  PROVE HeldOnce(out)'
  <2>. USE <1>5
  <2>1. Stocked' = Stocked
    BY <1>1, StockedSame DEF FillPcs, PoolTypeOK
  <2>2. InHand' = InHand \cup {t} /\ t \notin InHand
    BY <1>1, <1>2 DEF InHand, PoolTypeOK
  <2>3. got'[t] = c /\ \A u \in InHand : got'[u] = got[u]
    BY <1>1, <2>2 DEF InHand, PoolTypeOK
  <2>4. {got'[u] : u \in InHand'} = {got[u] : u \in InHand} \cup {c}
    BY <2>2, <2>3
  <2>. QED  BY <1>1, <2>1, <2>2, <2>3, <2>4 DEF HeldOnce
<1>. QED  BY <1>3, <1>4, <1>5

\* take_cell returns its cell to the user.
LEMMA CoreReceive ==
  ASSUME Basic, NEW t \in Threads, Receive(t),
         NEW out, NEW next, next = out \cup ({got[t]} \cap Cells)
  PROVE  Basic' /\ (HeldOnce(out) => HeldOnce(next)')
<1>. USE PoolAssumption, OutcomeAssumption DEF Basic, Goto, Receive, shared
<1>1. PoolTypeOK'
  BY DEF PoolTypeOK
<1>2. FillAlone' /\ InZone' /\ GotByPc'
  BY DEF FillAlone, InZone, GotByPc, AllocPcs, FillPcs, PoolTypeOK
<1>3. ASSUME HeldOnce(out)  PROVE HeldOnce(next)'
  <2>. USE <1>3
  <2>1. Stocked' = Stocked
    BY StockedSame DEF FillPcs, PoolTypeOK
  <2>2. InHand' = InHand \ {t} /\ \A u \in InHand \ {t} : got'[u] = got[u]
    BY DEF InHand, PoolTypeOK
  <2>3. {got[u] : u \in InHand} = {got'[u] : u \in InHand'} \cup ({got[t]} \cap Cells)
    BY <2>2 DEF InHand
  <2>4. \A u \in InHand' : got'[u] \notin free \cup next
    BY <2>2 DEF HeldOnce, InHand
  <2>5. \A u, v \in InHand' : got'[u] = got'[v] => u = v
    BY <2>2 DEF HeldOnce
  <2>6. free \cap next = {}
    BY DEF HeldOnce, InHand
  <2>. QED  BY <2>1, <2>3, <2>4, <2>5, <2>6 DEF HeldOnce
<1>. QED  BY <1>1, <1>2, <1>3

(* return_cell receives a cell of the program and pushes it.               *)
LEMMA CoreCallReturn ==
  ASSUME Basic, NEW t \in Threads, NEW c \in Cells, CallReturn(t, c),
         NEW out, NEW next, c \in out, next = out \ {c}
  PROVE  Basic' /\ (HeldOnce(out) => HeldOnce(next)')
<1>. USE PoolAssumption, OutcomeAssumption DEF Basic, Goto, CallReturn
<1>1. PoolTypeOK'
  BY DEF PoolTypeOK
<1>2. FillAlone' /\ InZone' /\ GotByPc'
  BY DEF FillAlone, InZone, GotByPc, AllocPcs, FillPcs, PoolTypeOK
<1>3. ASSUME HeldOnce(out)  PROVE HeldOnce(next)'
  <2>. USE <1>3
  <2>1. Stocked' = Stocked
    BY StockedSame DEF FillPcs, PoolTypeOK
  <2>2. InHand' = InHand /\ got' = got
    BY DEF InHand
  <2>. QED  BY <2>1, <2>2 DEF HeldOnce
<1>. QED  BY <1>1, <1>2, <1>3

(* The compare-and-swap installs a zone of which no cell is pushed yet.    *)
LEMMA CoreZoneIsNew ==
  ASSUME Basic, NEW t \in Threads, ZoneIsNew(t), NEW out
  PROVE  Basic' /\ (HeldOnce(out) => HeldOnce(out)')
<1>. USE PoolAssumption, OutcomeAssumption DEF Basic, Goto, ZoneIsNew, locals
<1>1. zi[t] \in ZoneIndex /\ pos[t] = 0 /\ mutex = t
  BY DEF InZone, AllocPcs, FillPcs, FillAlone
<1>2. PoolTypeOK'
  BY <1>1 DEF PoolTypeOK, ExpandPcs
<1>3. FillAlone' /\ GotByPc'
  BY DEF FillAlone, GotByPc, PoolTypeOK
<1>4. InZone'
  <2>1. ZoneSize[zi[t]] > 0
    BY <1>1, ZoneFacts
  <2>2. zone_list'[zi[t]] /\ \A z \in ZoneIndex : zone_list[z] => zone_list'[z]
    BY <1>1 DEF PoolTypeOK
  <2>3. \A u \in Threads : pc'[u] = IF u = t THEN "fill_push" ELSE pc[u]
    BY DEF PoolTypeOK
  <2>. QED  BY <1>1, <2>1, <2>2, <2>3 DEF InZone, AllocPcs, FillPcs
<1>5. ASSUME HeldOnce(out)  PROVE HeldOnce(out)'
  <2>. USE <1>5
  <2>1. \A c \in Cells : c[1] \in ZoneIndex /\ c[2] \in Nat
    BY DEF Cells, CellsOf
  <2>2. \A u \in Threads : u # t => pc[u] \notin FillPcs /\ pc'[u] = pc[u]
    BY <1>1 DEF FillAlone, FillPcs, PoolTypeOK
  <2>3. Stocked' = Stocked
    <3>1. ASSUME NEW c \in Cells  PROVE c \in Stocked' <=> c \in Stocked
      <4>1. zone_list'[c[1]] <=> zone_list[c[1]] \/ c[1] = zi[t]
        BY <1>1, <2>1 DEF PoolTypeOK
      <4>2. CASE c[1] = zi[t]
        BY <1>1, <2>1, <4>2 DEF Stocked, PoolTypeOK
      <4>3. CASE c[1] # zi[t]
        BY <2>2, <4>1, <4>3 DEF Stocked, FillPcs
      <4>. QED  BY <4>2, <4>3
    <3>. QED  BY <3>1 DEF Stocked
  <2>. QED  BY <2>3, HeldSame
<1>. QED  BY <1>2, <1>3, <1>4, <1>5

(* The thread that fills a zone is alone with it: the cell it pushes is    *)
(* one nobody has seen.                                                    *)
LEMMA CoreFillPush ==
  ASSUME Basic, NEW t \in Threads, FillPush(t), NEW out
  PROVE  Basic' /\ (HeldOnce(out) => HeldOnce(out)')
<1>. USE PoolAssumption, OutcomeAssumption DEF Basic, Goto, FillPush, locals
<1>. DEFINE d == <<zi[t], pos[t]>>
<1>1. zi[t] \in ZoneIndex /\ zi[t] \in Nat /\ pos[t] \in 0..ZoneSize[zi[t]] - 1
      /\ zone_list[zi[t]] /\ mutex = t
  <2>1. zi[t] \in ZoneIndex /\ zone_list[zi[t]] /\ pos[t] < ZoneSize[zi[t]]
    BY DEF InZone, AllocPcs, FillPcs
  <2>2. mutex = t /\ pos[t] \in Nat
    BY DEF FillAlone, PoolTypeOK
  <2>. QED  BY <2>1, <2>2, ZoneFacts
<1>2. d \in Cells
  BY <1>1 DEF Cells, CellsOf
<1>3. PoolTypeOK'
  BY <1>2 DEF PoolTypeOK, ExpandPcs
<1>4. FillAlone' /\ GotByPc' /\ InZone'
  BY DEF FillAlone, GotByPc, PoolTypeOK, InZone, AllocPcs, FillPcs
<1>5. ASSUME HeldOnce(out)  PROVE HeldOnce(out)'
  <2>. USE <1>5
  <2>1. \A c \in Cells : c[1] \in ZoneIndex /\ c[2] \in Nat /\ (c[1] = zi[t] /\ c[2] = pos[t] => c = d)
    BY DEF Cells, CellsOf
  <2>2. \A u \in Threads : u # t => pc[u] \notin FillPcs /\ pc'[u] = pc[u]
    BY <1>1 DEF FillAlone, FillPcs, PoolTypeOK
  <2>3. ASSUME NEW c \in Cells  PROVE c \in Stocked' <=> c \in Stocked \/ c = d
    <3>1. CASE c[1] = zi[t]
      BY <1>1, <2>1, <2>2, <3>1 DEF Stocked, FillPcs, PoolTypeOK
    <3>2. CASE c[1] # zi[t]
      BY <2>2, <3>2 DEF Stocked, FillPcs
    <3>. QED  BY <3>1, <3>2
  <2>4. d \notin Stocked
    BY <1>1 DEF Stocked
  <2>5. Stocked' = Stocked \cup {d}
    BY <1>2, <2>3 DEF Stocked
  <2>6. InHand' = InHand /\ got' = got
    BY DEF InHand
  <2>. QED  BY <2>4, <2>5, <2>6 DEF HeldOnce
<1>. QED  BY <1>3, <1>4, <1>5

\* A cell filled in has been counted.
LEMMA CoreFillCount ==
  ASSUME Basic, NEW t \in Threads, FillCount(t), NEW out
  PROVE  Basic' /\ (HeldOnce(out) => HeldOnce(out)')
<1>. USE PoolAssumption, OutcomeAssumption DEF Basic, Goto
<1>1. zi[t] \in ZoneIndex /\ zi[t] \in Nat /\ pos[t] \in 0..ZoneSize[zi[t]] - 1
      /\ ZoneSize[zi[t]] \in Nat /\ zone_list[zi[t]] /\ mutex = t /\ pc[t] = "fill_count"
  <2>1. zi[t] \in ZoneIndex /\ zone_list[zi[t]] /\ pos[t] < ZoneSize[zi[t]]
        /\ pc[t] = "fill_count"
    BY DEF InZone, AllocPcs, FillPcs, FillCount
  <2>2. mutex = t /\ pos[t] \in Nat
    BY <2>1 DEF FillAlone, PoolTypeOK
  <2>. QED  BY <2>1, <2>2, ZoneFacts
<1>2. /\ UNCHANGED <<zone_list, nbr_zones, free, fn, zones_seen, want, got>>
      /\ nbr_avail' \in 0..SizeMod - 1
      /\ \/ /\ pos[t] + 1 < ZoneSize[zi[t]]
            /\ pos' = [pos EXCEPT ![t] = pos[t] + 1] /\ pc' = [pc EXCEPT ![t] = "fill_push"]
            /\ UNCHANGED <<mutex, zi>>
         \/ /\ pos[t] + 1 = ZoneSize[zi[t]]
            /\ pos' = [pos EXCEPT ![t] = 0] /\ pc' = [pc EXCEPT ![t] = "exp_zone"]
            /\ mutex' = NULL /\ zi' = [zi EXCEPT ![t] = zi[t] + 1]
  <2>1. nbr_avail' \in 0..SizeMod - 1
    BY DEF FillCount, PoolTypeOK
  <2>. QED  BY <2>1 DEF FillCount, NextZone
<1>3. PoolTypeOK'
  <2>1. zi[t] + 1 \in 0..MAX_NBR_ZONES /\ pos[t] + 1 \in Nat
    BY <1>1, ZoneFacts
  <2>. QED  BY <1>1, <1>2, <2>1 DEF PoolTypeOK, ExpandPcs
<1>4. FillAlone' /\ GotByPc'
  BY <1>1, <1>2 DEF FillAlone, GotByPc, PoolTypeOK
<1>5. InZone'
  BY <1>1, <1>2 DEF InZone, AllocPcs, FillPcs, PoolTypeOK
<1>6. ASSUME HeldOnce(out)  PROVE HeldOnce(out)'
  <2>. USE <1>6
  <2>1. \A c \in Cells : c[1] \in ZoneIndex /\ c[2] \in Nat /\ c[2] < ZoneSize[c[1]]
    <3>1. \A z \in ZoneIndex : ZoneSize[z] \in Nat
      BY ZoneSizeType DEF ZoneIndex
    <3>. QED  BY <3>1 DEF Cells, CellsOf
  <2>2. \A u \in Threads : u # t => pc[u] \notin FillPcs /\ pc'[u] = pc[u]
    BY <1>1, <1>2 DEF FillAlone, FillPcs, PoolTypeOK
  <2>3. ASSUME NEW c \in Cells  PROVE c \in Stocked' <=> c \in Stocked
    <3>1. CASE c[1] = zi[t]
      BY <1>1, <1>2, <2>1, <2>2, <3>1 DEF Stocked, FillPcs, PoolTypeOK
    <3>2. CASE c[1] # zi[t]
      BY <1>2, <2>2, <3>2 DEF Stocked, FillPcs, PoolTypeOK
    <3>. QED  BY <3>1, <3>2
  <2>4. Stocked' = Stocked
    BY <2>3 DEF Stocked
  <2>. QED  BY <1>2, <2>4, HeldSame
<1>. QED  BY <1>3, <1>4, <1>5, <1>6

(* expand_to ends for its caller, or for the loop of take_cell.            *)
LEMMA ExpandDoneTwoWays ==
  ASSUME PoolTypeOK, NEW t \in Threads, ExpandDone(t)
  PROVE  pc'[t] = "take_pop" \/ pc'[t] = "done"
BY DEF PoolTypeOK, ExpandDone, Goto, Return

\* No step within the pool loses or doubles a cell.
LEMMA CorePoolStep ==
  ASSUME Basic, NEW t \in Threads, PoolStep(t), NEW out
  PROVE  Basic' /\ (HeldOnce(out) => HeldOnce(out)')
<1>1. ExpandDone(t) => pc'[t] = "take_pop" \/ pc'[t] = "done"
  BY ExpandDoneTwoWays DEF Basic
<1>2. CASE Loops(t) \/ Ends(t)
  BY <1>2, CoreLoops, CoreEnds
<1>3. CASE TakePop(t) \/ ZoneIsNew(t) \/ FillPush(t) \/ FillCount(t)
  BY <1>3, CoreTakePop, CoreZoneIsNew, CoreFillPush, CoreFillCount
<1>. QED  BY <1>1, <1>2, <1>3 DEF PoolStep, Loops, Ends
=============================================================================
