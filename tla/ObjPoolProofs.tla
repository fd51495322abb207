--------------------------- MODULE ObjPoolProofs ---------------------------
(***************************************************************************)
(* Theorems about ObjPool, for every finite set of threads, every set of   *)
(* objects and every number and size of zones.  What happens inside the    *)
(* pool of cells is taken from CellPoolStepsProofs, with the cells of the  *)
(* two stacks and of the threads as the cells outside that pool.           *)
(***************************************************************************)
EXTENDS ObjPool, CellPoolStepsProofs

(* The cells that threads have popped from the stack of free objects.      *)
Popping == {cell[t] : t \in {u \in Threads : cell[u] # NULL}}

(* A thread is in the pool of cells only for the object pool, and brings   *)
(* a cell back from there only when it has asked for one.                  *)
Phases == \A t \in Threads :
  /\ op[t] \in {"none", "create"} => pc[t] = "idle"
  /\ op[t] = "take_free" /\ cell[t] = NULL => pc[t] \in {"ret_count", "done"} /\ got[t] = NULL
  /\ op[t] # "take_free" => cell[t] = NULL

(* A cell out of the pool is in one stack or with one thread.              *)
CellsApart ==
  /\ stack_free \cap stack_all = {}
  /\ Popping \cap (stack_free \cup stack_all) = {}
  /\ \A t, u \in Threads : cell[t] # NULL /\ cell[t] = cell[u] => t = u

(* No object is forgotten.                                                 *)
Found == alive \subseteq users \cup {val[c] : c \in stack_free} \cup {obj[t] : t \in InCall}

CellsRight == Basic /\ HeldOnce(CellsOut) /\ Phases /\ CellsApart
ObjsRight == OneHolder /\ Recorded /\ Found

IInv == TypeOK /\ CellsRight /\ ObjsRight

-----------------------------------------------------------------------------
(* The constructor leaves a pool with the zones it asked for.              *)
LEMMA CtorZonesType == CtorZones \in 1..MAX_NBR_ZONES
<1>. DEFINE Enough(n) == TotalSize[n] >= CtorSize \/ n = MAX_NBR_ZONES
            S == {n \in Nat : n >= 1 /\ Enough(n)}
<1>1. MAX_NBR_ZONES \in Nat \ {0} /\ CtorSize \in Nat \ {0}
  BY PoolAssumption, ObjAssumption
<1>2. MAX_NBR_ZONES \in S
  BY <1>1
<1>3. PICK m \in S : \A n \in S : m <= n
  <2>1. S \subseteq Nat /\ S # {}
    BY <1>2
  <2>. HIDE DEF S
  <2>. QED  BY <2>1, NatLeast
<1>4. m \in 1..MAX_NBR_ZONES
  BY <1>1, <1>2, <1>3
<1>5. TotalSize[m - 1] < CtorSize
  <2>1. m - 1 \in Nat /\ m - 1 < m /\ (m - 1 >= 1 \/ m - 1 = 0)
    BY <1>4
  <2>2. m - 1 \notin S
    <3>. HIDE DEF S
    <3>. QED  BY <1>3, <1>4, <2>1
  <2>3. TotalSize[0] = 0 /\ TotalSize[m - 1] \in Nat
    BY <2>1, TotalSizeType
  <2>. QED  BY <1>1, <2>1, <2>2, <2>3
<1>6. \E n \in 1..MAX_NBR_ZONES : Enough(n) /\ TotalSize[n - 1] < CtorSize
  BY <1>3, <1>4, <1>5
<1>. QED  BY <1>6 DEF CtorZones

\* The invariant holds of the pool as it is constructed.
LEMMA InvInit ==
  ASSUME Init
  PROVE  IInv
<1>. USE DEF Init
<1>1. Basic /\ InHand = {} /\ Stocked = {c \in Cells : zone_list[c[1]]}
  <2>1. CtorZones \in 0..MAX_NBR_ZONES /\ CtorZones \in Nat
    BY CtorZonesType
  <2>2. TotalSize[CtorZones] % SizeMod \in 0..SizeMod - 1
    BY <2>1, TotalSizeType, PoolAssumption
  <2>3. \A z \in ZoneIndex : (z < CtorZones) \in BOOLEAN
    OBVIOUS
  <2>. QED  BY <2>1, <2>2, <2>3, CoreStart
<1>2. Popping = {} /\ CellsOut = {}
  BY DEF Popping, CellsOut
<1>3. HeldOnce(CellsOut)
  <2>1. \A c \in Cells : c[1] \in ZoneIndex
    BY DEF Cells, CellsOf
  <2>2. Stocked = free
    BY <1>1, <2>1
  <2>. QED  BY <1>1, <1>2, <2>2 DEF HeldOnce
<1>4. Phases /\ CellsApart
  BY <1>2 DEF Phases, CellsApart, NobodyInside
<1>5. InCall = {} /\ \A t \in Threads : op[t] # "take_new"
  BY DEF InCall
<1>6. ObjsRight
  BY <1>5 DEF ObjsRight, OneHolder, Recorded, Found
<1>7. TypeOK
  BY DEF TypeOK
<1>. QED  BY <1>1, <1>3, <1>4, <1>6, <1>7 DEF IInv, CellsRight

-----------------------------------------------------------------------------
(* A step inside the pool of cells, or a call of take_cell.                *)
LEMMA OutSame ==
  ASSUME Basic, HeldOnce(CellsOut), NEW t \in Threads, PoolStep(t) \/ Begins(t),
         CellsOut' = CellsOut
  PROVE  Basic' /\ HeldOnce(CellsOut)'
BY CoreBegins, CorePoolStep

\* The cells out of the cell pool are in a stack or between two.
LEMMA OutIs == CellsOut = stack_free \cup stack_all \cup Popping
BY DEF CellsOut, Popping

\* A thread that holds no cell has none to lose.
LEMMA PoppingSame ==
  ASSUME TypeOK, NEW t \in Threads, cell[t] = NULL, cell' = [cell EXCEPT ![t] = NULL]
  PROVE  cell' = cell /\ Popping' = Popping
<1>1. cell' = cell
  BY DEF TypeOK
<1>. QED  BY <1>1 DEF Popping

(* A free object is popped: its cell goes from the stack to the thread.    *)
LEMMA CellsTakeFree ==
  ASSUME TypeOK, CellsRight, NEW t \in Threads, TakeFree(t)
  PROVE  CellsRight' /\ CellsOut' = CellsOut
<1>. USE DEF CellsRight
<1>1. PICK c \in stack_free :
        /\ op[t] = "none" /\ stack_free' = stack_free \ {c} /\ stack_all' = stack_all
        /\ op' = [op EXCEPT ![t] = "take_free"] /\ cell' = [cell EXCEPT ![t] = c]
        /\ UNCHANGED poolVars
  BY DEF TakeFree, Become
<1>2. c \in Cells /\ c # NULL /\ cell[t] = NULL /\ c \notin stack_all /\ c \notin Popping
  BY <1>1, OutcomeAssumption DEF TypeOK, Phases, CellsApart
<1>3. \A u \in Threads : cell'[u] = IF u = t THEN c ELSE cell[u]
  BY <1>1 DEF TypeOK
<1>4. Popping' = Popping \cup {c}
  BY <1>2, <1>3 DEF Popping
<1>5. CellsOut' = CellsOut
  <2>1. CellsOut' = stack_free' \cup stack_all' \cup Popping'
    BY DEF CellsOut, Popping
  <2>. QED  BY <1>1, <1>4, <2>1, OutIs
<1>6. Basic'
  BY <1>1 DEF poolVars, shared, locals, Basic, PoolTypeOK, FillAlone, InZone, GotByPc
<1>7. HeldOnce(CellsOut)'
  BY <1>1, <1>5 DEF poolVars, shared, locals, HeldOnce, Stocked, InHand
<1>8. Phases'
  BY <1>1, <1>2, <1>3 DEF poolVars, locals, Phases, TypeOK
<1>9. CellsApart'
  <2>1. \A u \in Threads : u # t /\ cell'[u] # NULL => cell'[u] # c
    BY <1>2, <1>3 DEF Popping
  <2>. QED  BY <1>1, <1>2, <1>3, <1>4, <2>1 DEF CellsApart
<1>. QED  BY <1>5, <1>6, <1>7, <1>8, <1>9

(* return_cell takes the cell from the thread.                             *)
LEMMA CellsTakeReturns ==
  ASSUME TypeOK, CellsRight, NEW t \in Threads, TakeReturnsCell(t)
  PROVE  CellsRight' /\ cell[t] \in CellsOut /\ CellsOut' = CellsOut \ {cell[t]}
<1>. USE DEF CellsRight
<1>1. /\ op[t] = "take_free" /\ cell[t] # NULL /\ CallReturn(t, cell[t])
      /\ cell' = [cell EXCEPT ![t] = NULL] /\ op' = [op EXCEPT ![t] = "take_free"]
      /\ UNCHANGED <<stack_free, stack_all>>
  BY DEF TakeReturnsCell, Become, stacks
<1>2. \A u \in Threads : cell'[u] = IF u = t THEN NULL ELSE cell[u]
  BY <1>1 DEF TypeOK
<1>3. Popping' = Popping \ {cell[t]} /\ cell[t] \in Popping
  BY <1>1, <1>2 DEF Popping, CellsApart
<1>4. CellsOut' = CellsOut \ {cell[t]} /\ cell[t] \in CellsOut /\ cell[t] \in Cells
  <2>1. CellsOut' = stack_free' \cup stack_all' \cup Popping'
    BY DEF CellsOut, Popping
  <2>. QED  BY <1>1, <1>3, <2>1, OutIs DEF CellsApart, TypeOK
<1>5. Basic' /\ HeldOnce(CellsOut)'
  BY <1>1, <1>4, CoreCallReturn
<1>6. Phases'
  <2>1. pc'[t] = "ret_count" /\ got'[t] = NULL
    BY <1>1 DEF CallReturn, Goto, Basic, PoolTypeOK, GotByPc
  <2>2. \A u \in Threads : u # t => pc'[u] = pc[u] /\ got'[u] = got[u]
    BY <1>1 DEF CallReturn, Goto
  <2>. QED  BY <1>1, <1>2, <2>1, <2>2 DEF Phases, TypeOK
<1>7. CellsApart'
  BY <1>1, <1>2, <1>3 DEF CellsApart
<1>. QED  BY <1>4, <1>5, <1>6, <1>7

(* take_obj looks for a free object in vain, and asks the factory.         *)
CreateStep(t) == TakeEmpty(t) \/ TakeCreates(t) \/ TakeCreatesNone(t)

\* The cells do not come into it.
LEMMA CellsCreate ==
  ASSUME TypeOK, CellsRight, NEW t \in Threads, CreateStep(t)
  PROVE  CellsRight' /\ UNCHANGED <<poolVars, CellsOut>>
<1>. USE DEF CellsRight
<1>1. /\ op[t] \in {"none", "create"} /\ UNCHANGED <<poolVars, stack_free, stack_all>>
      /\ cell' = [cell EXCEPT ![t] = NULL]
      /\ \E o \in {"none", "create", "take_new"} : op' = [op EXCEPT ![t] = o]
  BY DEF CreateStep, TakeEmpty, TakeCreates, TakeCreatesNone, Become, stacks
<1>2. pc[t] = "idle" /\ cell' = cell /\ Popping' = Popping
  BY <1>1, PoppingSame DEF Phases
<1>3. CellsOut' = CellsOut
  BY <1>1, <1>2 DEF CellsOut
<1>4. Basic'
  BY <1>1 DEF poolVars, shared, locals, Basic, PoolTypeOK, FillAlone, InZone, GotByPc
<1>5. HeldOnce(CellsOut)'
  BY <1>1, <1>3 DEF poolVars, shared, locals, HeldOnce, Stocked, InHand
<1>6. Phases'
  BY <1>1, <1>2 DEF poolVars, locals, Phases, TypeOK
<1>7. CellsApart'
  BY <1>1, <1>2 DEF CellsApart
<1>. QED  BY <1>1, <1>3, <1>4, <1>5, <1>6, <1>7

(* take_obj and return_obj call take_cell.                                 *)
LEMMA CellsCall ==
  ASSUME TypeOK, CellsRight, NEW t \in Threads, NEW o \in {"take_new", "return"},
         op[t] \in {"none", "take_new"}, op' = [op EXCEPT ![t] = o], cell' = [cell EXCEPT ![t] = NULL],
         CallTake(t, TRUE), UNCHANGED <<stack_free, stack_all>>
  PROVE  CellsRight' /\ CellsOut' = CellsOut
<1>. USE DEF CellsRight
<1>1. cell' = cell /\ Popping' = Popping
  BY PoppingSame DEF Phases
<1>2. CellsOut' = CellsOut
  BY <1>1 DEF CellsOut
<1>3. Basic' /\ HeldOnce(CellsOut)'
  BY <1>2, OutSame DEF Begins
<1>4. Phases'
  BY <1>1 DEF Phases, CallTake, Goto, TypeOK
<1>5. CellsApart'
  BY <1>1 DEF CellsApart
<1>. QED  BY <1>2, <1>3, <1>4, <1>5

\* return_obj does so at once, take_obj when it has an object.
LEMMA CellsAsks ==
  ASSUME TypeOK, CellsRight, NEW t \in Threads, CallReturnObj(t) \/ TakeWantsCell(t)
  PROVE  CellsRight' /\ CellsOut' = CellsOut /\ CallTake(t, TRUE)
<1>1. CASE CallReturnObj(t)
  BY <1>1, CellsCall DEF CallReturnObj, Become, stacks
<1>2. CASE TakeWantsCell(t)
  <2>1. /\ op[t] = "take_new" /\ CallTake(t, TRUE) /\ UNCHANGED <<stack_free, stack_all>>
        /\ op' = op /\ cell' = cell
    BY <1>2 DEF TakeWantsCell, stacks
  <2>2. op' = [op EXCEPT ![t] = "take_new"] /\ cell' = [cell EXCEPT ![t] = NULL]
    BY <2>1 DEF TypeOK, CellsRight, Phases
  <2>. QED  BY <2>1, <2>2, CellsCall
<1>. QED  BY <1>1, <1>2

(* A call of the object pool ends.  The cell it got, if it asked for one,  *)
(* is in a stack from now on.                                              *)
LEMMA CellsEnd ==
  ASSUME TypeOK, CellsRight, NEW t \in Threads, cell[t] = NULL,
         op' = [op EXCEPT ![t] = "none"], cell' = [cell EXCEPT ![t] = NULL], Receive(t),
         \/ stack_free' = stack_free \cup ({got[t]} \cap Cells) /\ stack_all' = stack_all
         \/ stack_all' = stack_all \cup ({got[t]} \cap Cells) /\ stack_free' = stack_free
  PROVE  CellsRight' /\ CellsOut' = CellsOut \cup ({got[t]} \cap Cells)
<1>. USE DEF CellsRight
<1>1. cell' = cell /\ Popping' = Popping
  BY PoppingSame
<1>2. CellsOut' = CellsOut \cup ({got[t]} \cap Cells)
  BY <1>1 DEF CellsOut
<1>3. Basic' /\ HeldOnce(CellsOut)'
  BY <1>2, CoreReceive
<1>4. Phases'
  BY <1>1 DEF Phases, Receive, Goto, TypeOK, Basic, PoolTypeOK
<1>5. got[t] \in Cells => got[t] \notin CellsOut
  BY DEF HeldOnce, InHand
<1>6. CellsApart'
  BY <1>1, <1>5, OutIs DEF CellsApart
<1>. QED  BY <1>2, <1>3, <1>4, <1>6

(* The ends of take_obj and return_obj.                                    *)
Finishes(t) == \/ TakeFreeDone(t) \/ TakeRecords(t) \/ TakeDeletes(t)
               \/ ReturnFiles(t) \/ ReturnThrows(t)

\* The cell taken from the cell pool is in nobody else's hands.
LEMMA CellsReceive ==
  ASSUME TypeOK, CellsRight, NEW t \in Threads, Finishes(t)
  PROVE  CellsRight' /\ Receive(t) /\ CellsOut' = CellsOut \cup ({got[t]} \cap Cells)
<1>1. \A u \in Threads : op[u] # "take_free" => cell[u] = NULL
  BY DEF CellsRight, Phases
<1>2. CASE TakeFreeDone(t)
  <2>1. got[t] = NULL /\ cell[t] = NULL
    BY <1>2 DEF TakeFreeDone, CellsRight, Phases
  <2>. QED  BY <1>2, <2>1, CellsEnd, OutcomeAssumption DEF TakeFreeDone, Become, stacks
<1>3. CASE TakeRecords(t)
  BY <1>1, <1>3, CellsEnd DEF TakeRecords, Become
<1>4. CASE TakeDeletes(t)
  BY <1>1, <1>4, CellsEnd DEF TakeDeletes, Become
<1>5. CASE ReturnFiles(t)
  BY <1>1, <1>5, CellsEnd DEF ReturnFiles, Become
<1>6. CASE ReturnThrows(t)
  BY <1>1, <1>6, CellsEnd DEF ReturnThrows, Become, stacks
<1>. QED  BY <1>2, <1>3, <1>4, <1>5, <1>6 DEF Finishes

\* The cell pool moves no cell of the two stacks.
LEMMA CellsPoolStep ==
  ASSUME TypeOK, CellsRight, NEW t \in Threads, CellStep(t)
  PROVE  CellsRight'
<1>. USE DEF CellsRight
<1>1. PoolStep(t) /\ UNCHANGED <<stack_free, stack_all, op, cell>>
  BY DEF CellStep, stacks
<1>2. Popping' = Popping /\ CellsOut' = CellsOut
  BY <1>1 DEF Popping, CellsOut
<1>3. Basic' /\ HeldOnce(CellsOut)'
  BY <1>1, <1>2, OutSame
<1>4. CellsApart'
  BY <1>1, <1>2 DEF CellsApart
<1>5. pc[t] # "idle" /\ pc[t] # "done" /\ \A u \in Threads : u # t => pc'[u] = pc[u] /\ got'[u] = got[u]
  <2>. USE DEF Return, Goto, locals, shared, Basic, PoolTypeOK
  <2>1. CASE TakePop(t) \/ TakeGrows(t) \/ TakeFindsNone(t) \/ TakeCount(t) \/ ReturnCount(t)
    BY <2>1 DEF TakePop, TakeGrows, TakeFindsNone, TakeCount, ReturnCount
  <2>2. CASE ExpandSkips(t) \/ ExpandAllocates(t) \/ ExpandDone(t) \/ Lock(t)
    BY <2>2 DEF ExpandSkips, ExpandAllocates, ExpandDone, Lock
  <2>3. CASE AllocThrows(t) \/ ZoneIsNew(t) \/ ZoneIsTaken(t) \/ FillPush(t) \/ FillCount(t)
    BY <2>3 DEF AllocThrows, ZoneIsNew, ZoneIsTaken, FillPush, FillCount, NextZone
  <2>. QED  BY <1>1, <2>1, <2>2, <2>3 DEF PoolStep
<1>6. pc[t] = "ret_count" => pc'[t] = "done" /\ got'[t] = NULL
  <2>1. PoolStep(t) /\ pc[t] = "ret_count" => ReturnCount(t)
    BY DEF PoolStep, TakePop, TakeGrows, TakeFindsNone, TakeCount, ExpandSkips, ExpandAllocates,
       ExpandDone, Lock, AllocThrows, ZoneIsNew, ZoneIsTaken, FillPush, FillCount
  <2>. QED  BY <1>1, <2>1 DEF ReturnCount, Return, Goto, Basic, PoolTypeOK
<1>7. Phases'
  BY <1>1, <1>5, <1>6 DEF Phases
<1>. QED  BY <1>3, <1>4, <1>7

(* cleanup gives every cell back at once.                                  *)
LEMMA CellsCleanup ==
  ASSUME TypeOK, CellsRight, Cleanup
  PROVE  CellsRight'
<1>. USE DEF CellsRight
<1>1. /\ \A t \in Threads : op[t] = "none"
      /\ free' = free \cup stack_free \cup stack_all /\ stack_free' = {} /\ stack_all' = {}
      /\ nbr_avail' = (nbr_avail + Cardinality(stack_free) + Cardinality(stack_all)) % SizeMod
      /\ UNCHANGED <<zone_list, nbr_zones, mutex, pc, locals, op, cell>>
  BY DEF Cleanup, AllBack
<1>2. \A t \in Threads : pc[t] = "idle" /\ cell[t] = NULL /\ got[t] = NULL
  BY <1>1 DEF Phases, Basic, GotByPc
<1>3. Popping = {} /\ Popping' = {}
  BY <1>1, <1>2 DEF Popping
<1>4. CellsOut = stack_free \cup stack_all /\ CellsOut' = {}
  <2>1. CellsOut' = stack_free' \cup stack_all' \cup Popping'
    BY DEF CellsOut, Popping
  <2>. QED  BY <1>1, <1>3, <2>1, OutIs
<1>5. nbr_avail' \in 0..SizeMod - 1
  <2>1. IsFiniteSet(stack_free) /\ IsFiniteSet(stack_all)
    BY CellsFinite, FS_Subset DEF TypeOK
  <2>2. Cardinality(stack_free) \in Nat /\ Cardinality(stack_all) \in Nat
    BY <2>1, FS_CardinalityType
  <2>. QED  BY <1>1, <2>2, PoolAssumption DEF Basic, PoolTypeOK
<1>6. Basic'
  BY <1>1, <1>5 DEF locals, Basic, PoolTypeOK, FillAlone, InZone, GotByPc, TypeOK
<1>7. HeldOnce(CellsOut)'
  <2>1. Stocked' = Stocked /\ InHand = {} /\ InHand' = {}
    BY <1>1, <1>2, OutcomeAssumption DEF locals, Stocked, InHand
  <2>. QED  BY <1>1, <1>4, <2>1 DEF HeldOnce
<1>8. Phases' /\ CellsApart'
  BY <1>1, <1>2, <1>3 DEF locals, Phases, CellsApart
<1>. QED  BY <1>6, <1>7, <1>8

-----------------------------------------------------------------------------
(* The objects.                                                            *)
(* No call begins or ends, and no object moves.                            *)
LEMMA ObjsSame ==
  ASSUME ObjsRight, UNCHANGED <<stacks, op, obj, users>>
  PROVE  ObjsRight'
BY DEF ObjsRight, OneHolder, Recorded, Found, InCall, stacks

(* The locals of a call that begins, and of one that ends.                 *)
LEMMA Entered ==
  ASSUME TypeOK, NEW t \in Threads, op[t] \in {"none", "create"}, NEW o \in {"take_free", "take_new", "return"},
         NEW x, NEW c, Become(t, o, x, c)
  PROVE  /\ InCall' = InCall \cup {t} /\ t \notin InCall /\ obj'[t] = x /\ op'[t] = o
         /\ \A u \in Threads : u # t => obj'[u] = obj[u] /\ op'[u] = op[u]
BY DEF Become, InCall, TypeOK

\* The thread has left its call; the others have not moved.
LEMMA Left ==
  ASSUME TypeOK, NEW t \in Threads, t \in InCall, Become(t, "none", NULL, NULL)
  PROVE  /\ InCall' = InCall \ {t} /\ op'[t] = "none"
         /\ \A u \in Threads : u # t => obj'[u] = obj[u] /\ op'[u] = op[u]
BY DEF Become, InCall, TypeOK

\* take_obj finds a free object.
LEMMA ObjsTakeFree ==
  ASSUME TypeOK, ObjsRight, NEW t \in Threads, TakeFree(t)
  PROVE  ObjsRight'
<1>. USE DEF ObjsRight
<1>1. PICK c \in stack_free : op[t] = "none" /\ stack_free' = stack_free \ {c}
        /\ Become(t, "take_free", val[c], c) /\ UNCHANGED <<stack_all, val, alive, users>>
  BY DEF TakeFree
<1>2. /\ InCall' = InCall \cup {t} /\ t \notin InCall /\ obj'[t] = val[c] /\ op'[t] = "take_free"
      /\ \A u \in Threads : u # t => obj'[u] = obj[u] /\ op'[u] = op[u]
  BY <1>1, Entered
<1>3. val[c] \in alive /\ val[c] \notin users /\ (\A d \in stack_free' : val[d] # val[c])
      /\ \A u \in InCall : obj[u] # val[c]
  BY <1>1 DEF OneHolder
<1>4. OneHolder'
  BY <1>1, <1>2, <1>3 DEF OneHolder, InCall
<1>5. Recorded'
  BY <1>1, <1>2 DEF Recorded
<1>6. Found'
  BY <1>1, <1>2 DEF Found, InCall
<1>. QED  BY <1>4, <1>5, <1>6

\* take_obj finds no free object, or the factory returns 0: nothing is in hand.
LEMMA ObjsNone ==
  ASSUME TypeOK, ObjsRight, NEW t \in Threads, TakeEmpty(t) \/ TakeCreatesNone(t)
  PROVE  ObjsRight'
<1>1. /\ op[t] \in {"none", "create"} /\ UNCHANGED <<stacks, users>>
      /\ \E o \in {"none", "create"} : Become(t, o, NULL, NULL)
  BY DEF TakeEmpty, TakeCreatesNone
<1>2. /\ InCall' = InCall /\ t \notin InCall /\ op'[t] # "take_new"
      /\ \A u \in Threads : u # t => obj'[u] = obj[u] /\ op'[u] = op[u]
  BY <1>1 DEF Become, InCall, TypeOK
<1>3. \A u \in InCall : obj'[u] = obj[u]
  BY <1>2 DEF InCall
<1>4. OneHolder'
  BY <1>1, <1>2, <1>3 DEF ObjsRight, OneHolder, stacks
<1>5. {obj'[u] : u \in {v \in Threads : op'[v] = "take_new"}}
        = {obj[u] : u \in {v \in Threads : op[v] = "take_new"}}
  BY <1>1, <1>2
<1>6. Recorded'
  BY <1>1, <1>5 DEF ObjsRight, Recorded, stacks
<1>7. Found'
  BY <1>1, <1>2, <1>3 DEF ObjsRight, Found, stacks
<1>. QED  BY <1>4, <1>6, <1>7 DEF ObjsRight

\* The factory makes an object that nobody has.
LEMMA ObjsTakeCreates ==
  ASSUME TypeOK, ObjsRight, NEW t \in Threads, TakeCreates(t)
  PROVE  ObjsRight'
<1>. USE DEF ObjsRight
<1>1. PICK x \in Objs \ alive : op[t] = "create" /\ alive' = alive \cup {x}
        /\ Become(t, "take_new", x, NULL) /\ UNCHANGED <<stack_free, stack_all, val, users>>
  BY DEF TakeCreates
<1>2. /\ InCall' = InCall \cup {t} /\ t \notin InCall /\ obj'[t] = x /\ op'[t] = "take_new"
      /\ \A u \in Threads : u # t => obj'[u] = obj[u] /\ op'[u] = op[u]
  BY <1>1, Entered
<1>3. x \notin users /\ \A u \in InCall : obj[u] # x
  BY <1>1 DEF OneHolder
<1>4. OneHolder'
  BY <1>1, <1>2, <1>3 DEF OneHolder, InCall
<1>5. Recorded'
  <2>1. x \notin {val[c] : c \in stack_all} /\ \A u \in Threads : op[u] = "take_new" => obj[u] # x
    BY <1>1, <1>3 DEF Recorded, InCall
  <2>. QED  BY <1>1, <1>2, <2>1 DEF Recorded
<1>6. Found'
  BY <1>1, <1>2 DEF Found, InCall
<1>. QED  BY <1>4, <1>5, <1>6

(* The program gives an object back.                                       *)
LEMMA ObjsCallReturn ==
  ASSUME TypeOK, ObjsRight, NEW t \in Threads, CallReturnObj(t)
  PROVE  ObjsRight'
<1>. USE DEF ObjsRight
<1>1. PICK x \in users : op[t] = "none" /\ users' = users \ {x}
        /\ Become(t, "return", x, NULL) /\ UNCHANGED stacks
  BY DEF CallReturnObj
<1>2. /\ InCall' = InCall \cup {t} /\ t \notin InCall /\ obj'[t] = x /\ op'[t] = "return"
      /\ \A u \in Threads : u # t => obj'[u] = obj[u] /\ op'[u] = op[u]
  BY <1>1, Entered
<1>3. x \in alive /\ (\A u \in InCall : obj[u] # x) /\ \A c \in stack_free : val[c] # x
  BY <1>1 DEF OneHolder
<1>4. OneHolder'
  BY <1>1, <1>2, <1>3 DEF OneHolder, InCall, stacks
<1>5. Recorded'
  BY <1>1, <1>2 DEF Recorded, stacks
<1>6. Found'
  BY <1>1, <1>2 DEF Found, InCall, stacks
<1>. QED  BY <1>4, <1>5, <1>6

(* The thread lends its object to the program, or back to its caller.      *)
LEMMA ObjsLend ==
  ASSUME TypeOK, ObjsRight, NEW t \in Threads, op[t] \in {"take_free", "return"},
         Become(t, "none", NULL, NULL), users' = users \cup {obj[t]}, UNCHANGED stacks
  PROVE  ObjsRight'
<1>. USE DEF ObjsRight
<1>1. /\ InCall' = InCall \ {t} /\ t \in InCall /\ op'[t] = "none"
      /\ \A u \in Threads : u # t => obj'[u] = obj[u] /\ op'[u] = op[u]
  BY Left DEF InCall
<1>2. OneHolder'
  BY <1>1 DEF OneHolder, InCall, stacks
<1>3. Recorded'
  BY <1>1 DEF Recorded, stacks
<1>4. Found'
  BY <1>1 DEF Found, InCall, stacks
<1>. QED  BY <1>2, <1>3, <1>4

(* A new object is recorded in the cell the thread has got.                *)
LEMMA ObjsTakeRecords ==
  ASSUME TypeOK, CellsRight, ObjsRight, NEW t \in Threads, TakeRecords(t)
  PROVE  ObjsRight'
<1>. USE DEF ObjsRight
<1>. DEFINE d == got[t]
<1>1. /\ op[t] = "take_new" /\ d \in Cells /\ val' = [val EXCEPT ![d] = obj[t]]
      /\ stack_all' = stack_all \cup {d} /\ users' = users \cup {obj[t]}
      /\ Become(t, "none", NULL, NULL) /\ UNCHANGED <<stack_free, alive>>
  BY DEF TakeRecords
<1>2. /\ InCall' = InCall \ {t} /\ t \in InCall /\ op'[t] = "none"
      /\ \A u \in Threads : u # t => obj'[u] = obj[u] /\ op'[u] = op[u]
  BY <1>1, Left DEF InCall
<1>3. d \notin stack_free \cup stack_all
  BY <1>1, OutIs DEF CellsRight, HeldOnce, InHand
<1>4. val'[d] = obj[t] /\ \A c \in stack_free \cup stack_all : val'[c] = val[c]
  BY <1>1, <1>3 DEF TypeOK
<1>. HIDE DEF d
<1>5. OneHolder'
  BY <1>1, <1>2, <1>4 DEF OneHolder, InCall
<1>6. Recorded'
  <2>1. obj[t] \in alive /\ \A u \in Threads : u # t /\ op[u] = "take_new" => obj[u] # obj[t]
    BY <1>1, <1>2 DEF OneHolder, InCall
  <2>2. \A c \in stack_all : val[c] # obj[t]
    BY <1>1 DEF Recorded
  <2>3. \A c, e \in stack_all' : val'[c] = val'[e] => c = e
    BY <1>1, <1>4, <2>2 DEF Recorded
  <2>4. {val'[c] : c \in stack_all'} = {val[c] : c \in stack_all} \cup {obj[t]}
    BY <1>1, <1>4
  <2>5. {obj'[u] : u \in {v \in Threads : op'[v] = "take_new"}}
          = {obj[u] : u \in {v \in Threads : op[v] = "take_new"}} \ {obj[t]}
    BY <1>1, <1>2, <2>1
  <2>. QED  BY <1>1, <2>1, <2>3, <2>4, <2>5 DEF Recorded
<1>7. Found'
  BY <1>1, <1>2, <1>4 DEF Found, InCall
<1>. QED  BY <1>5, <1>6, <1>7

\* take_obj finds no cell for its new object and deletes it.
LEMMA ObjsTakeDeletes ==
  ASSUME TypeOK, ObjsRight, NEW t \in Threads, TakeDeletes(t)
  PROVE  ObjsRight'
<1>. USE DEF ObjsRight
<1>1. /\ op[t] = "take_new" /\ alive' = alive \ {obj[t]}
      /\ Become(t, "none", NULL, NULL) /\ UNCHANGED <<stack_free, stack_all, val, users>>
  BY DEF TakeDeletes
<1>2. /\ InCall' = InCall \ {t} /\ t \in InCall /\ op'[t] = "none"
      /\ \A u \in Threads : u # t => obj'[u] = obj[u] /\ op'[u] = op[u]
  BY <1>1, Left DEF InCall
<1>3. OneHolder'
  BY <1>1, <1>2 DEF OneHolder, InCall
<1>4. Recorded'
  <2>1. \A u \in Threads : u # t /\ op[u] = "take_new" => obj[u] # obj[t]
    BY <1>1, <1>2 DEF OneHolder, InCall
  <2>2. {obj'[u] : u \in {v \in Threads : op'[v] = "take_new"}}
          = {obj[u] : u \in {v \in Threads : op[v] = "take_new"}} \ {obj[t]}
    BY <1>1, <1>2, <2>1
  <2>3. obj[t] \in {obj[u] : u \in {v \in Threads : op[v] = "take_new"}}
    BY <1>1
  <2>. QED  BY <1>1, <2>2, <2>3 DEF Recorded
<1>5. Found'
  BY <1>1, <1>2 DEF Found, InCall
<1>. QED  BY <1>3, <1>4, <1>5

(* An object that has come back is filed under the cell the thread got.    *)
LEMMA ObjsReturnFiles ==
  ASSUME TypeOK, CellsRight, ObjsRight, NEW t \in Threads, ReturnFiles(t)
  PROVE  ObjsRight'
<1>. USE DEF ObjsRight
<1>. DEFINE d == got[t]
<1>1. /\ op[t] = "return" /\ d \in Cells /\ val' = [val EXCEPT ![d] = obj[t]]
      /\ stack_free' = stack_free \cup {d}
      /\ Become(t, "none", NULL, NULL) /\ UNCHANGED <<stack_all, alive, users>>
  BY DEF ReturnFiles
<1>2. /\ InCall' = InCall \ {t} /\ t \in InCall /\ op'[t] = "none"
      /\ \A u \in Threads : u # t => obj'[u] = obj[u] /\ op'[u] = op[u]
  BY <1>1, Left DEF InCall
<1>3. d \notin stack_free \cup stack_all
  BY <1>1, OutIs DEF CellsRight, HeldOnce, InHand
<1>4. val'[d] = obj[t] /\ \A c \in stack_free \cup stack_all : val'[c] = val[c]
  BY <1>1, <1>3 DEF TypeOK
<1>. HIDE DEF d
<1>5. OneHolder'
  <2>1. obj[t] \in alive \ users /\ (\A u \in InCall' : obj'[u] # obj[t])
        /\ \A c \in stack_free : val[c] # obj[t]
    BY <1>2 DEF OneHolder, InCall
  <2>. QED  BY <1>1, <1>2, <1>4, <2>1 DEF OneHolder, InCall
<1>6. Recorded'
  BY <1>1, <1>2, <1>4 DEF Recorded
<1>7. Found'
  BY <1>1, <1>2, <1>4 DEF Found, InCall
<1>. QED  BY <1>5, <1>6, <1>7

(* cleanup deletes every object: nobody is about to record one.            *)
LEMMA ObjsCleanup ==
  ASSUME TypeOK, ObjsRight, Cleanup
  PROVE  ObjsRight'
<1>. USE DEF ObjsRight
<1>1. /\ \A t \in Threads : op[t] = "none" /\ op'[t] = "none"
      /\ users' = {} /\ stack_free' = {} /\ stack_all' = {}
      /\ alive' = alive \ {val[c] : c \in stack_all}
  BY DEF Cleanup, AllBack
<1>2. alive' = {}
  BY <1>1 DEF Recorded
<1>3. InCall' = {}
  BY <1>1 DEF InCall
<1>4. OneHolder' /\ Found'
  BY <1>1, <1>2, <1>3 DEF OneHolder, Found
<1>5. Recorded'
  BY <1>1, <1>2 DEF Recorded
<1>. QED  BY <1>4, <1>5

-----------------------------------------------------------------------------
(* The values of the variables.                                            *)
LEMMA TypeStep ==
  ASSUME TypeOK, CellsRight, ObjsRight, [Next]_vars
  PROVE  TypeOK'
<1>. USE DEF TypeOK
<1>1. \A t \in Threads : t \in InCall => obj[t] \in Objs
  BY DEF ObjsRight, OneHolder
<1>2. CASE UNCHANGED vars
  BY <1>2 DEF vars, stacks
<1>3. CASE Cleanup
  BY <1>3 DEF Cleanup
<1>4. ASSUME NEW t \in Threads, CallTakeObj(t) \/ CallReturnObj(t)  PROVE TypeOK'
  BY <1>4 DEF CallTakeObj, CallReturnObj, TakeFree, TakeEmpty, Become, stacks
<1>5. ASSUME NEW t \in Threads, TakeReturnsCell(t) \/ TakeFreeDone(t) \/ ReturnThrows(t)
      PROVE  TypeOK'
  BY <1>1, <1>5 DEF TakeReturnsCell, TakeFreeDone, ReturnThrows, Become, stacks, InCall
<1>6. ASSUME NEW t \in Threads, TakeRecords(t) \/ TakeDeletes(t) \/ ReturnFiles(t)
      PROVE  TypeOK'
  BY <1>1, <1>6 DEF TakeRecords, TakeDeletes, ReturnFiles, Become, InCall
<1>7. ASSUME NEW t \in Threads, TakeCreates(t) \/ TakeCreatesNone(t) \/ TakeWantsCell(t)
      PROVE  TypeOK'
  BY <1>7 DEF TakeCreates, TakeCreatesNone, TakeWantsCell, Become, stacks
<1>8. ASSUME NEW t \in Threads, CellStep(t)  PROVE TypeOK'
  BY <1>8 DEF CellStep, stacks
<1>. QED  BY <1>2, <1>3, <1>4, <1>5, <1>6, <1>7, <1>8 DEF Next, ObjStep

\* Every step keeps the cells in their places.
LEMMA CellsStep ==
  ASSUME TypeOK, CellsRight, [Next]_vars
  PROVE  CellsRight'
<1>1. CASE UNCHANGED vars
  BY <1>1 DEF vars, poolVars, shared, locals, stacks, CellsRight, Basic, PoolTypeOK, FillAlone,
     InZone, GotByPc, HeldOnce, CellsOut, Stocked, InHand, Phases, CellsApart, Popping
<1>2. ASSUME NEW t \in Threads, CallReturnObj(t) \/ TakeWantsCell(t)  PROVE CellsRight'
  BY <1>2, CellsAsks
<1>3. ASSUME NEW t \in Threads, CallTakeObj(t) \/ CallReturnObj(t) \/ ObjStep(t)  PROVE CellsRight'
  BY <1>2, <1>3, CellsTakeFree, CellsCreate, CellsTakeReturns, CellsReceive
     DEF CallTakeObj, ObjStep, CreateStep, Finishes
<1>. QED  BY <1>1, <1>3, CellsCleanup, CellsPoolStep DEF Next

\* Every step keeps the objects in their places.
LEMMA ObjsStep ==
  ASSUME TypeOK, CellsRight, ObjsRight, [Next]_vars
  PROVE  ObjsRight'
<1>1. CASE UNCHANGED vars
  BY <1>1, ObjsSame DEF vars
<1>2. ASSUME NEW t \in Threads, CallTakeObj(t) \/ CallReturnObj(t)  PROVE ObjsRight'
  BY <1>2, ObjsTakeFree, ObjsNone, ObjsCallReturn DEF CallTakeObj
<1>3. ASSUME NEW t \in Threads, TakeReturnsCell(t) \/ TakeWantsCell(t) \/ CellStep(t)  PROVE ObjsRight'
  <2>1. CASE TakeReturnsCell(t)
    <3>1. op' = op /\ obj' = obj
      BY <2>1 DEF TakeReturnsCell, Become, TypeOK
    <3>. QED  BY <2>1, <3>1, ObjsSame DEF TakeReturnsCell
  <2>. QED  BY <1>3, <2>1, ObjsSame DEF TakeWantsCell, CellStep
<1>4. ASSUME NEW t \in Threads, TakeFreeDone(t) \/ ReturnThrows(t)  PROVE ObjsRight'
  BY <1>4, ObjsLend DEF TakeFreeDone, ReturnThrows
<1>5. ASSUME NEW t \in Threads, TakeRecords(t) \/ TakeDeletes(t) \/ ReturnFiles(t)
      PROVE  ObjsRight'
  BY <1>5, ObjsTakeRecords, ObjsTakeDeletes, ObjsReturnFiles
<1>6. ASSUME NEW t \in Threads, TakeCreates(t) \/ TakeCreatesNone(t)  PROVE ObjsRight'
  BY <1>6, ObjsTakeCreates, ObjsNone
<1>. QED  BY <1>1, <1>2, <1>3, <1>4, <1>5, <1>6, ObjsCleanup DEF Next, ObjStep

\* Every step keeps the invariant.
LEMMA InvStep == IInv /\ [Next]_vars => IInv'
BY TypeStep, CellsStep, ObjsStep DEF IInv

\* The invariant, which the results below follow from.
LEMMA Invariance == Spec => []IInv
BY InvInit, InvStep, PTL DEF Spec

(* The variables of the object pool hold values of their types: no null    *)
(* pointer is lent, and no cell that does not exist is filed.              *)
THEOREM TypeCorrect == Spec => []TypeOK
<1>1. IInv => TypeOK
  BY DEF IInv
<1>. QED  BY <1>1, Invariance, PTL

(* No object has two users, is lent and free at a time, or is deleted      *)
(* while it is lent or free, whatever allocations fail.                    *)
THEOREM LentOnce == Spec => []OneHolder
<1>1. IInv => OneHolder
  BY DEF IInv, ObjsRight
<1>. QED  BY <1>1, Invariance, PTL

(* Every object is recorded once for deletion.                             *)
THEOREM RecordedOnce == Spec => []Recorded
<1>1. IInv => Recorded
  BY DEF IInv, ObjsRight
<1>. QED  BY <1>1, Invariance, PTL

-----------------------------------------------------------------------------
(* The two stacks are of the same size when everything has come back: each *)
(* has one cell for each object.                                           *)
LEMMA OneCellEach ==
  ASSUME NEW S, IsFiniteSet(S), \A c, d \in S : val[c] = val[d] => c = d
  PROVE  Cardinality({val[c] : c \in S}) = Cardinality(S)
<1>. DEFINE T == {val[c] : c \in S}
            f == [c \in S |-> val[c]]
<1>1. f \in Surjection(S, T) /\ f \in Injection(S, T)
  BY DEF Surjection, Injection, IsInjective
<1>. QED  BY <1>1, FS_Surjection

(* The assertion of cleanup holds whenever cleanup may be called.          *)
THEOREM CleanupIsSafe == Spec => []CleanupAssert
<1>1. ASSUME IInv, AllBack  PROVE Cardinality(stack_free) = Cardinality(stack_all)
  <2>. USE <1>1 DEF IInv, ObjsRight
  <2>1. InCall = {} /\ users = {} /\ \A t \in Threads : op[t] # "take_new"
    BY DEF AllBack, InCall
  <2>2. {val[c] : c \in stack_free} = alive
    BY <2>1 DEF OneHolder, Found
  <2>3. {val[c] : c \in stack_all} = alive
    BY <2>1 DEF Recorded
  <2>4. IsFiniteSet(stack_free) /\ IsFiniteSet(stack_all)
    BY CellsFinite, FS_Subset DEF TypeOK
  <2>. QED  BY <2>2, <2>3, <2>4, OneCellEach DEF OneHolder, Recorded
<1>2. IInv => CleanupAssert
  BY <1>1 DEF CleanupAssert
<1>. QED  BY <1>2, Invariance, PTL

-----------------------------------------------------------------------------
(* Every step is one the pool of cells allows its callers.                 *)
LEMMA PoolCells == Pool!Cells = Cells
BY DEF Pool!Cells, Cells, Pool!CellsOf, CellsOf, Pool!ZoneIndex, ZoneIndex, Pool!ZoneSize, ZoneSize

\* What the object pool calls, the cell pool allows.
LEMMA PoolCalls ==
  ASSUME NEW t \in Threads
  PROVE  /\ CallTake(t, TRUE) => Pool!CallTake(t, TRUE)
         /\ \A c : CallReturn(t, c) => Pool!CallReturn(t, c)
         /\ Receive(t) => Pool!Receive(t)
BY DEF Pool!CallTake, CallTake, Pool!CallReturn, CallReturn, Pool!Receive, Receive,
   Pool!Goto, Goto, Pool!shared, shared

\* A step within the cell pool is one of the cell pool.
LEMMA PoolSteps ==
  ASSUME NEW t \in Threads, PoolStep(t)
  PROVE  Pool!PoolStep(t)
BY DEF Pool!PoolStep, PoolStep, Pool!TakePop, TakePop, Pool!TakeGrows, TakeGrows,
   Pool!TakeFindsNone, TakeFindsNone, Pool!TakeCount, TakeCount, Pool!ExpandSkips, ExpandSkips,
   Pool!ExpandAllocates, ExpandAllocates, Pool!ExpandDone, ExpandDone, Pool!Lock, Lock,
   Pool!AllocThrows, AllocThrows, Pool!ZoneIsNew, ZoneIsNew, Pool!ZoneIsTaken, ZoneIsTaken,
   Pool!FillPush, FillPush, Pool!FillCount, FillCount, Pool!ReturnCount, ReturnCount,
   Pool!CanGrow, CanGrow, Pool!MoreZones, MoreZones, Pool!CountZones, CountZones,
   Pool!NextZone, NextZone, Pool!Return, Return, Pool!Goto, Goto, Pool!shared, shared,
   Pool!locals, locals, Pool!ZoneSize, ZoneSize, Pool!TotalSize, TotalSize

\* So is every other step, or it leaves the cell pool alone.
LEMMA PoolAllows ==
  ASSUME TypeOK, CellsRight, Next
  PROVE  Pool!Next \/ UNCHANGED Pool!vars \/ Cleanup
<1>1. ASSUME NEW t \in Threads, TakeFree(t) \/ CreateStep(t)  PROVE UNCHANGED Pool!vars
  BY <1>1, CellsTakeFree, CellsCreate
     DEF TakeFree, poolVars, shared, locals, Pool!vars, Pool!poolVars, Pool!shared, Pool!locals
<1>2. ASSUME NEW t \in Threads, CallReturnObj(t) \/ TakeWantsCell(t)  PROVE Pool!Call(t)
  BY <1>2, CellsAsks, PoolCalls DEF Pool!Call
<1>3. ASSUME NEW t \in Threads, TakeReturnsCell(t)  PROVE Pool!Call(t)
  <2>1. CallReturn(t, cell[t]) /\ cell[t] \in CellsOut /\ CellsOut' = CellsOut \ {cell[t]}
    BY <1>3, CellsTakeReturns DEF TakeReturnsCell
  <2>. QED  BY <2>1, PoolCalls DEF Pool!Call
<1>4. ASSUME NEW t \in Threads, Finishes(t)  PROVE Pool!Resume(t)
  BY <1>4, CellsReceive, PoolCalls, PoolCells DEF Pool!Resume
<1>5. ASSUME NEW t \in Threads, CellStep(t)  PROVE Pool!Step(t)
  <2>1. PoolStep(t) /\ CellsOut' = CellsOut
    BY <1>5 DEF CellStep, stacks, CellsOut
  <2>. QED  BY <2>1, PoolSteps DEF Pool!Step
<1>. QED  BY <1>1, <1>2, <1>3, <1>4, <1>5
          DEF Next, CallTakeObj, ObjStep, CreateStep, Finishes, Pool!Next

(* The object pool is a client the pool of cells is made for: it returns   *)
(* only cells it holds, each of them once.                                 *)
THEOREM PoolUsedRightly == Spec => UsesPoolRightly
<1>1. IInv /\ [Next]_vars => [Pool!Next \/ UNCHANGED Pool!vars \/ Cleanup]_vars
  BY PoolAllows DEF IInv
<1>. QED  BY <1>1, Invariance, PTL DEF Spec, UsesPoolRightly
=============================================================================
