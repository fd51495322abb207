------------------------ MODULE FilterResizeProofs ------------------------
(***************************************************************************)
(* Theorems about FilterResize, for every set of callers, workers, cells   *)
(* and buffers and every size of plane and tile.                           *)
(***************************************************************************)
EXTENDS FilterResize, TLAPS

(* The tasks that are queued or being processed.                           *)
Active == (queued \cup {run[x] : x \in Threads}) \ {NULL}

(* A cell has one place: its pool, the queue, or one thread.  The cells in *)
(* the queue and in a thread's hands are filled, with a tile of a plane.   *)
OneCell ==
  /\ cells \cap queued = {}
  /\ \A x \in Threads : /\ run[x] = NULL <=> step[x] = "none"
                        /\ run[x] \notin cells \cup queued
  /\ \A x, y \in Threads : x # y => run[x] = NULL \/ run[x] # run[y]
  /\ ~build.short => TaskCells \ cells = Active

Filled ==
  \A k \in Active : task[k] \in Tasks /\ task[k].work_dst = WorkDst(task[k].dst_beg)

(* A buffer is in its pool or with the one thread that passes through it.  *)
OneBuffer ==
  /\ \A x \in Threads : /\ step[x] = "return_obj" => buf[x] # NULL
                        /\ buf[x] # NULL => step[x] \in {"passes", "return_obj"}
                        /\ buf[x] \notin buffers
  /\ \A x, y \in Threads : x # y => buf[x] = NULL \/ buf[x] # buf[y]
  /\ ~build.short => Buffers \ buffers = {buf[x] : x \in Threads} \ {NULL}

(* Who runs the tasks: the workers of avstp, or each caller its own, while *)
(* it is cutting.                                                          *)
OwnThread ==
  /\ build.avstp => \A c \in Callers : run[c] = NULL
  /\ ~build.avstp => /\ queued = {}
                     /\ \A x \in Threads : run[x] # NULL =>
                          /\ x \in Callers /\ task[run[x]].caller = x
                          /\ stage[x] = "cutting"

(* A caller that is in process_plane has begun a call.                     *)
Begun == \A c \in Callers : stage[c] # "idle" => frame[c] \in 1..MaxCalls

Held == TypeOK /\ OneCell /\ Filled /\ OneBuffer /\ OwnThread /\ Begun

(* Where tasks cannot outlive their call: no library, or enough memory.    *)
Sheltered == ~(build.avstp /\ build.short)

(* A task is active only while its own call is cutting or waiting.         *)
Live == \A k \in Active : /\ task[k].trg = frame[task[k].caller]
                          /\ stage[task[k].caller] \in {"cutting", "waiting"}

(* The pixels of the tiles cut before the loops come to beg.               *)
Swept(beg) == {p \in Pixels : p[1] < beg[1] \/ (p[1] < beg[1] + TileH /\ p[2] < beg[2])}

(* A cell whose tile is still to be written, and the tiles of caller c.    *)
Unwritten(k) == \/ k \in queued
                \/ \E x \in Threads : run[x] = k /\ step[x] \in {"take_obj", "passes"}

Missing(c, p) == \E k \in TaskCells : /\ Unwritten(k) /\ task[k].caller = c
                                      /\ p \in Area(task[k])

(* A pixel of a plane is written once its tile is cut, unless the tile is  *)
(* still unwritten; and no pixel belongs to two unwritten tiles.           *)
Apart ==
  \A k, l \in TaskCells :
    Unwritten(k) /\ Unwritten(l) /\ k # l /\ task[k].caller = task[l].caller
      => Area(task[k]) \cap Area(task[l]) = {}

Inside ==
  \A k \in TaskCells : Unwritten(k) =>
    Area(task[k]) \subseteq Swept(dst_beg[task[k].caller])

Counted ==
  \A c \in Callers : \A p \in Pixels :
    /\ written[c][p] <= 1
    /\ stage[c] \in {"cutting", "waiting", "done"} =>
         (written[c][p] = 1 <=> p \in Swept(dst_beg[c]) /\ ~Missing(c, p))

Complete == \A c \in Callers : stage[c] \in {"waiting", "done"} => ~MoreTiles(c)

IInv == Held /\ (Sheltered => Live /\ Apart /\ Inside /\ Counted /\ Complete)

-----------------------------------------------------------------------------
(* std::min, which cuts the last tile of a row or of a column.             *)
LEMMA LeastIs ==
  ASSUME NEW a \in Int, NEW b \in Int
  PROVE  Least(a, b) = IF a <= b THEN a ELSE b
<1>. DEFINE m == IF a <= b THEN a ELSE b
<1>1. m \in {a, b} /\ \A y \in {a, b} : m <= y
  OBVIOUS
<1>2. \A x \in {a, b} : (\A y \in {a, b} : x <= y) => x = m
  OBVIOUS
<1>. QED  BY <1>1, <1>2 DEF Least, Min

(* The loops hand out tiles that lie in the plane and are not empty, and   *)
(* go on to a column of the plane.                                         *)
LEMMA WorkDstType ==
  ASSUME NEW beg \in Nat \X (0..DstW - 1), beg[1] < DstH
  PROVE  /\ beg \in Pixels
         /\ WorkDst(beg) \in (1..TileH) \X (1..TileW)
BY ResizeAssumption, LeastIs DEF WorkDst, Pixels

\* The next tile begins inside the picture or below it.
LEMMA AdvanceType ==
  ASSUME NEW beg \in Nat \X (0..DstW - 1)
  PROVE  Advance(beg) \in Nat \X (0..DstW - 1)
BY ResizeAssumption DEF Advance

(* The variables keep their types and a filled cell holds a tile.          *)
LEMMA HeldInit == Init => Held
BY ResizeAssumption
   DEF Init, Held, TypeOK, OneCell, Filled, OneBuffer, OwnThread, Begun, Active,
       Blank, Threads

(* Cut takes a cell out of its pool, fills it and hands it on.             *)
LEMMA HeldCut ==
  ASSUME Held, NEW c \in Callers, Cut(c)
  PROVE  Held'
<1>. USE ResizeAssumption DEF Held, Threads
<1>1. PICK k \in cells :
        /\ stage[c] = "cutting" /\ run[c] = NULL /\ MoreTiles(c)
        /\ cells' = cells \ {k}
        /\ task' = [task EXCEPT ![k] = [caller |-> c, trg |-> frame[c],
                      dst_beg |-> dst_beg[c], work_dst |-> WorkDst(dst_beg[c])]]
        /\ Enqueue(c, k)
        /\ dst_beg' = [dst_beg EXCEPT ![c] = Advance(@)]
        /\ UNCHANGED <<build, stage, frame, buf, buffers, written>>
  BY DEF Cut
<1>2. k \in TaskCells /\ k \notin Active /\ k # NULL
  BY <1>1 DEF TypeOK, OneCell, Active
<1>3. task'[k] \in Tasks /\ task'[k].work_dst = WorkDst(task'[k].dst_beg)
      /\ task'[k].caller = c
  BY <1>1, <1>2, WorkDstType DEF TypeOK, Tasks, Begun, MoreTiles
<1>4. TypeOK'
  <2>1. dst_beg' \in [Callers -> Nat \X (0..DstW - 1)]
    BY <1>1, AdvanceType DEF TypeOK
  <2>2. task' \in [TaskCells -> Tasks \cup {NULL}]
    BY <1>1, <1>2, <1>3 DEF TypeOK
  <2>3. /\ queued' \in SUBSET TaskCells /\ run' \in [Threads -> TaskCells \cup {NULL}]
        /\ step' \in [Threads -> {"none", "take_obj", "passes", "return_obj", "return_cell"}]
    <3>1. CASE build.avstp
      BY <1>1, <1>2, <3>1 DEF TypeOK, Enqueue
    <3>2. CASE ~build.avstp
      <4>1. run' = [run EXCEPT ![c] = k] /\ step' = [step EXCEPT ![c] = "take_obj"]
            /\ queued' = queued
        BY <1>1, <3>2 DEF Enqueue
      <4>. QED  BY <1>2, <4>1 DEF TypeOK
    <3>. QED  BY <3>1, <3>2
  <2>. QED  BY <1>1, <2>1, <2>2, <2>3 DEF TypeOK
<1>5. Active' = Active \cup {k}
  BY <1>1, <1>2 DEF Active, Enqueue, TypeOK
<1>6. OneCell'
  <2>1. CASE build.avstp
    BY <1>1, <1>2, <1>5, <2>1 DEF OneCell, Enqueue, TypeOK
  <2>2. CASE ~build.avstp
    <3>1. run' = [run EXCEPT ![c] = k] /\ step' = [step EXCEPT ![c] = "take_obj"]
          /\ queued' = queued
      BY <1>1, <2>2 DEF Enqueue
    <3>2. k \notin queued /\ \A x \in Threads : run[x] # k
      BY <1>1, <1>2 DEF OneCell
    <3>3. cells' \cap queued' = {} /\ (~build'.short => TaskCells \ cells' = Active')
      BY <1>1, <1>2, <1>5, <3>1 DEF OneCell
    <3>4. \A x \in Threads : /\ run'[x] = NULL <=> step'[x] = "none"
                            /\ run'[x] \notin cells' \cup queued'
      BY <1>1, <1>2, <3>1, <3>2 DEF OneCell, TypeOK
    <3>5. \A x, y \in Threads : x # y => run'[x] = NULL \/ run'[x] # run'[y]
      BY <1>2, <3>1, <3>2 DEF OneCell, TypeOK
    <3>. QED  BY <3>3, <3>4, <3>5 DEF OneCell
  <2>. QED  BY <2>1, <2>2
<1>7. Filled'
  BY <1>1, <1>2, <1>3, <1>5 DEF Filled, TypeOK, Active, WorkDst
<1>8. OneBuffer'
  BY <1>1, <1>2 DEF OneBuffer, Enqueue, OneCell, TypeOK
<1>9. OwnThread'
  BY <1>1, <1>2, <1>3 DEF OwnThread, Enqueue, TypeOK, Active
<1>10. Begun'
  BY <1>1 DEF Begun
<1>. QED  BY <1>4, <1>6, <1>7, <1>8, <1>9, <1>10

(* The other steps of a caller leave the cells and the buffers alone.      *)
LEMMA HeldPlane ==
  ASSUME Held, NEW c \in Callers,
         Call(c) \/ CutFails(c) \/ AllCut(c) \/ Wait(c) \/ Leave(c)
  PROVE  Held'
<1>. USE ResizeAssumption
     DEF Held, Call, CutFails, AllCut, Wait, Leave, taskVars, tileVars
<1>1. TypeOK'
  <2>1. CASE Call(c)
    BY <2>1 DEF TypeOK, Blank
  <2>2. CASE CutFails(c) \/ AllCut(c)
    BY <2>2 DEF TypeOK
  <2>3. CASE Wait(c) \/ Leave(c)
    BY <2>3 DEF TypeOK
  <2>. QED  BY <2>1, <2>2, <2>3
<1>2. UNCHANGED <<build, task, cells, queued, run, step, buf, buffers>>
  OBVIOUS
<1>3. Active' = Active
  BY <1>2 DEF Active
<1>4. OneCell' /\ Filled' /\ OneBuffer'
  BY <1>2, <1>3 DEF OneCell, Filled, OneBuffer
<1>5. OwnThread'
  <2>1. \A x \in Threads : run[x] # NULL /\ ~build.avstp => stage'[x] = "cutting"
    <3>1. CASE AllCut(c) \/ CutFails(c)
      BY <3>1 DEF OwnThread, TypeOK
    <3>2. CASE Call(c) \/ Wait(c) \/ Leave(c)
      BY <3>2 DEF OwnThread, TypeOK
    <3>. QED  BY <3>1, <3>2
  <2>. QED  BY <1>2, <2>1 DEF OwnThread
<1>6. Begun'
  <2>1. CASE Call(c)
    BY <2>1 DEF Begun, TypeOK
  <2>2. CASE CutFails(c) \/ AllCut(c)
    BY <2>2 DEF Begun, TypeOK
  <2>3. CASE Wait(c) \/ Leave(c)
    BY <2>3 DEF Begun, TypeOK
  <2>. QED  BY <2>1, <2>2, <2>3
<1>. QED  BY <1>1, <1>4, <1>5, <1>6

(* A worker of avstp takes a task off the queue.                           *)
LEMMA HeldStart ==
  ASSUME Held, NEW x \in Threads, Start(x)
  PROVE  Held'
<1>. USE ResizeAssumption DEF Held, Threads, callerVars
<1>1. PICK k \in queued :
        /\ x \in Workers /\ run[x] = NULL
        /\ queued' = queued \ {k}
        /\ run' = [run EXCEPT ![x] = k]
        /\ step' = [step EXCEPT ![x] = "take_obj"]
        /\ UNCHANGED <<build, callerVars, task, cells, buf, buffers, written>>
  BY DEF Start
<1>2. k \in TaskCells /\ k # NULL /\ k \notin {run[y] : y \in Threads}
  BY <1>1 DEF TypeOK, OneCell
<1>3. TypeOK'
  BY <1>1, <1>2 DEF TypeOK
<1>4. Active' = Active
  BY <1>1, <1>2 DEF Active, TypeOK
<1>5. OneCell'
  BY <1>1, <1>2, <1>4 DEF OneCell, TypeOK
<1>6. Filled'
  BY <1>1, <1>4 DEF Filled
<1>7. OneBuffer'
  BY <1>1 DEF OneBuffer, OneCell, TypeOK
<1>8. OwnThread'
  BY <1>1 DEF OwnThread, TypeOK
<1>9. Begun'
  BY <1>1 DEF Begun
<1>. QED  BY <1>3, <1>5, <1>6, <1>7, <1>8, <1>9

(* A tile borrows a buffer, passes, and returns the buffer.                *)
LEMMA HeldBuffer ==
  ASSUME Held, NEW x \in Threads, TakeBuffer(x) \/ Passes(x) \/ ReturnBuffer(x)
  PROVE  Held'
<1>. USE ResizeAssumption DEF Held, callerVars, taskVars
<1>1. UNCHANGED <<build, stage, frame, dst_beg, task, cells, queued, run>>
  BY DEF TakeBuffer, Passes, ReturnBuffer
<1>2. PICK s \in {"passes", "return_obj", "return_cell"} :
        step' = [step EXCEPT ![x] = s] /\ step[x] # "none"
  BY DEF TakeBuffer, Passes, ReturnBuffer
<1>3. run[x] \in Active
  BY <1>2 DEF OneCell, Active
<1>4. TypeOK'
  <2>1. CASE TakeBuffer(x)
    BY <2>1 DEF TakeBuffer, TypeOK
  <2>2. CASE ReturnBuffer(x)
    BY <2>2 DEF ReturnBuffer, TypeOK, OneBuffer
  <2>3. CASE Passes(x)
    <3>1. task[run[x]].caller \in Callers
      BY <1>3 DEF Filled, Tasks
    <3>2. written' \in [Callers -> [Pixels -> 0..2]]
      <4>1. \A n \in 0..2 : Least(n + 1, 2) \in 0..2
        BY LeastIs
      <4>. DEFINE c == task[run[x]].caller
                  w == [p \in Pixels |-> IF p \in Area(task[run[x]])
                                         THEN Least(written[c][p] + 1, 2) ELSE written[c][p]]
      <4>2. w \in [Pixels -> 0..2]
        BY <3>1, <4>1 DEF TypeOK
      <4>3. written' = [written EXCEPT ![c] = w]
        BY <2>3, <3>1 DEF Passes, TypeOK
      <4>. HIDE DEF w
      <4>. QED  BY <4>2, <4>3, <3>1 DEF TypeOK
    <3>. QED  BY <2>3, <3>2 DEF Passes, TypeOK
  <2>. QED  BY <2>1, <2>2, <2>3
<1>5. Active' = Active
  BY <1>1 DEF Active
<1>6. OneCell' /\ Filled' /\ OwnThread' /\ Begun'
  BY <1>1, <1>2, <1>5 DEF OneCell, Filled, OwnThread, Begun, TypeOK
<1>7. OneBuffer'
  <2>1. CASE TakeBuffer(x)
    <3>1. CASE BufferFlag
      <4>1. PICK b \in buffers : buf' = [buf EXCEPT ![x] = b] /\ buffers' = buffers \ {b}
        BY <2>1, <3>1 DEF TakeBuffer
      <4>2. b # NULL /\ b \in Buffers /\ buf[x] = NULL
            /\ step' = [step EXCEPT ![x] = "passes"] /\ build' = build
        BY <2>1, <4>1 DEF TakeBuffer, TypeOK, OneBuffer
      <4>. QED  BY <4>1, <4>2 DEF TypeOK, OneBuffer
    <3>2. CASE ~BufferFlag
      BY <2>1, <3>2 DEF TakeBuffer, TypeOK, OneBuffer
    <3>. QED  BY <3>1, <3>2
  <2>2. CASE ReturnBuffer(x)
    BY <2>2 DEF ReturnBuffer, TypeOK, OneBuffer
  <2>3. CASE Passes(x)
    BY <2>3 DEF Passes, TypeOK, OneBuffer
  <2>. QED  BY <2>1, <2>2, <2>3
<1>. QED  BY <1>4, <1>6, <1>7

(* A tile ends: its cell goes back, or an exception loses it.              *)
LEMMA HeldEnd ==
  ASSUME Held, NEW x \in Threads,
         TakeBufferFails(x) \/ ReturnBufferFails(x) \/ ReturnCell(x)
  PROVE  Held'
<1>. USE ResizeAssumption DEF Held, callerVars, taskVars, Threads
<1>1. /\ run' = [run EXCEPT ![x] = NULL] /\ step' = [step EXCEPT ![x] = "none"]
      /\ UNCHANGED <<build, frame, dst_beg, task, queued, buffers, written>>
      /\ step[x] # "none"
  BY DEF TakeBufferFails, ReturnBufferFails, ReturnCell, ThrowsFrom
<1>2. run[x] \in Active /\ run[x] \in TaskCells /\ Active' = Active \ {run[x]}
  BY <1>1 DEF TypeOK, OneCell, Active
<1>3. CASE ReturnCell(x)
  <2>. USE <1>3 DEF ReturnCell
  <2>1. TypeOK'
    BY <1>2 DEF TypeOK
  <2>2. OneCell'
    BY <1>2 DEF TypeOK, OneCell
  <2>3. Filled' /\ OwnThread' /\ Begun'
    BY <1>2 DEF TypeOK, Filled, OwnThread, Begun, WorkDst
  <2>4. OneBuffer'
    BY DEF TypeOK, OneBuffer
  <2>. QED  BY <2>1, <2>2, <2>3, <2>4
<1>4. CASE TakeBufferFails(x) \/ ReturnBufferFails(x)
  <2>. USE DEF ThrowsFrom
  <2>1. build.short /\ ThrowsFrom(x)
    BY <1>4 DEF TakeBufferFails, ReturnBufferFails
  <2>2. TypeOK'
    BY <2>1 DEF TypeOK
  <2>3. OneCell'
    BY <2>1, <1>2 DEF TypeOK, OneCell
  <2>4. Filled' /\ OwnThread'
    BY <2>1, <1>2 DEF TypeOK, Filled, OwnThread, WorkDst
  <2>5. Begun'
    BY <2>1, <1>1, <1>2 DEF TypeOK, Begun, OwnThread
  <2>6. OneBuffer'
    BY <2>1 DEF TypeOK, OneBuffer
  <2>. QED  BY <2>2, <2>3, <2>4, <2>5, <2>6
<1>. QED  BY <1>3, <1>4

\* Every step keeps who holds which cell and buffer.
LEMMA HeldStep ==
  ASSUME Held, [Next]_vars
  PROVE  Held'
<1>1. CASE UNCHANGED vars
  BY <1>1 DEF vars, callerVars, taskVars, tileVars, Held, TypeOK, OneCell, Filled,
     OneBuffer, OwnThread, Begun, Active, WorkDst
<1>2. CASE AllDone
  BY <1>1, <1>2 DEF AllDone
<1>3. ASSUME NEW c \in Callers, Call(c) \/ Plane(c)  PROVE Held'
  BY <1>3, HeldCut, HeldPlane DEF Plane
<1>4. ASSUME NEW x \in Threads, Start(x) \/ Tile(x)  PROVE Held'
  BY <1>4, HeldStart, HeldBuffer, HeldEnd DEF Tile
<1>. QED  BY <1>1, <1>2, <1>3, <1>4 DEF Next

(* The variables hold values of their types in every run of the filter.    *)
THEOREM TypeCorrect == Spec => []TypeOK
<1>1. Held => TypeOK
  BY DEF Held
<1>. QED  BY HeldInit, HeldStep, <1>1, PTL DEF Spec

(* Cells and buffers have one holder, and while memory suffices none is    *)
(* ever missing.                                                           *)
THEOREM CellsReturn == Spec => []AllReturned
<1>1. Held => AllReturned
  BY DEF Held, OneCell, OneBuffer, Active, TypeOK, AllReturned
<1>. QED  BY HeldInit, HeldStep, <1>1, PTL DEF Spec

-----------------------------------------------------------------------------
(* The tile that the loops cut at beg.                                     *)
TileAt(beg) == {p \in Pixels : /\ beg[1] <= p[1] /\ p[1] < beg[1] + TileH
                               /\ beg[2] <= p[2] /\ p[2] < beg[2] + TileW}

(* std::min clips a tile exactly to the plane.                             *)
LEMMA AreaIsTile ==
  ASSUME NEW t \in Tasks, t.work_dst = WorkDst(t.dst_beg)
  PROVE  Area(t) = TileAt(t.dst_beg)
<1>1. t.dst_beg \in (0..DstH - 1) \X (0..DstW - 1)
  BY DEF Tasks, Pixels
<1>2. PICK i \in 0..DstH - 1, j \in 0..DstW - 1 : t.dst_beg = <<i, j>>
  BY <1>1
<1>3. /\ t.work_dst[1] = IF TileH <= DstH - i THEN TileH ELSE DstH - i
      /\ t.work_dst[2] = IF TileW <= DstW - j THEN TileW ELSE DstW - j
  BY <1>2, LeastIs, ResizeAssumption DEF WorkDst
<1>. DEFINE h == t.work_dst[1]
            w == t.work_dst[2]
<1>4. Area(t) = (i..i + h - 1) \X (j..j + w - 1)
  BY <1>2 DEF Area
<1>5. \A a, b : a \in i..i + h - 1 /\ b \in j..j + w - 1
               <=> /\ a \in 0..DstH - 1 /\ b \in 0..DstW - 1
                   /\ i <= a /\ a < i + TileH /\ j <= b /\ b < j + TileW
  BY <1>3, ResizeAssumption
<1>6. TileAt(t.dst_beg) = {p \in Pixels : /\ i <= p[1] /\ p[1] < i + TileH
                                          /\ j <= p[2] /\ p[2] < j + TileW}
  BY <1>2 DEF TileAt
<1>. HIDE DEF h, w
<1>. QED  BY <1>4, <1>5, <1>6 DEF Pixels

(* Each turn of the loops adds its tile to the ones already cut, and the   *)
(* tile is new: the tiles cover the plane without overlap.                 *)
LEMMA SweptAdvance ==
  ASSUME NEW beg \in Nat \X (0..DstW - 1), NEW p \in Pixels
  PROVE  /\ p \in Swept(Advance(beg)) <=> p \in Swept(beg) \/ p \in TileAt(beg)
         /\ ~(p \in Swept(beg) /\ p \in TileAt(beg))
<1>1. PICK i \in Nat, j \in 0..DstW - 1 : beg = <<i, j>>
  OBVIOUS
<1>2. PICK a \in 0..DstH - 1, b \in 0..DstW - 1 : p = <<a, b>>
  BY DEF Pixels
<1>3. p \in Swept(beg) <=> a < i \/ (a < i + TileH /\ b < j)
  BY <1>1, <1>2 DEF Swept
<1>4. p \in TileAt(beg) <=> i <= a /\ a < i + TileH /\ j <= b /\ b < j + TileW
  BY <1>1, <1>2 DEF TileAt
<1>5. CASE j + TileW < DstW
  <2>1. Advance(beg) = <<i, j + TileW>>
    BY <1>1, <1>5 DEF Advance
  <2>2. p \in Swept(Advance(beg)) <=> a < i \/ (a < i + TileH /\ b < j + TileW)
    BY <1>2, <2>1 DEF Swept
  <2>. QED  BY <1>3, <1>4, <2>2, ResizeAssumption
<1>6. CASE ~(j + TileW < DstW)
  <2>1. Advance(beg) = <<i + TileH, 0>>
    BY <1>1, <1>6 DEF Advance
  <2>2. p \in Swept(Advance(beg)) <=> a < i + TileH \/ (a < i + TileH + TileH /\ b < 0)
    BY <1>2, <2>1 DEF Swept
  <2>. QED  BY <1>3, <1>4, <1>6, <2>2, ResizeAssumption
<1>. QED  BY <1>5, <1>6

(* The loops start with nothing cut and end with the whole plane.          *)
LEMMA SweptEnds ==
  ASSUME NEW p \in Pixels
  PROVE  /\ p \notin Swept(<<0, 0>>)
         /\ \A beg \in Nat \X (0..DstW - 1) : ~(beg[1] < DstH) => p \in Swept(beg)
<1>1. p[1] \in 0..DstH - 1 /\ p[2] \in 0..DstW - 1
  BY DEF Pixels
<1>2. p \notin Swept(<<0, 0>>)
  BY <1>1 DEF Swept
<1>3. ASSUME NEW beg \in Nat \X (0..DstW - 1), ~(beg[1] < DstH)
      PROVE  p \in Swept(beg)
  BY <1>1, <1>3, ResizeAssumption DEF Swept
<1>. QED  BY <1>2, <1>3

-----------------------------------------------------------------------------
Tiled == Live /\ Apart /\ Inside /\ Counted /\ Complete

(* A cell whose tile is unwritten is active, and holds a tile.             *)
LEMMA UnwrittenIsActive ==
  ASSUME Held, NEW k \in TaskCells, Unwritten(k)
  PROVE  /\ k \in Active /\ task[k] \in Tasks /\ task[k].caller \in Callers
         /\ Area(task[k]) = TileAt(task[k].dst_beg)
<1>1. k \in Active
  BY ResizeAssumption DEF Unwritten, Active
<1>2. task[k] \in Tasks /\ task[k].work_dst = WorkDst(task[k].dst_beg)
  BY <1>1 DEF Held, Filled
<1>. QED  BY <1>1, <1>2, AreaIsTile DEF Tasks

(* A step that writes no plane, and moves no task into or out of the       *)
(* unwritten ones, keeps the tiling if it keeps the tasks with their calls.*)
LEMMA TiledQuiet ==
  ASSUME Held, Tiled, Live', Complete',
         UNCHANGED <<task, dst_beg, written>>,
         \A k \in TaskCells : Unwritten(k)' = Unwritten(k),
         \A c \in Callers : stage'[c] \in {"cutting", "waiting", "done"} =>
                              stage[c] \in {"cutting", "waiting", "done"}
  PROVE  Tiled'
<1>. USE DEF Tiled
<1>1. Apart'
  BY DEF Apart, Area
<1>2. Inside'
  BY DEF Inside, Area, Swept
<1>3. \A c \in Callers : \A p \in Pixels : Missing(c, p)' = Missing(c, p)
  BY DEF Missing, Area
<1>4. Counted'
  BY <1>3 DEF Counted, Swept
<1>. QED  BY <1>1, <1>2, <1>4

\* Nothing is cut before the first plane.
LEMMA TiledInit == Init => Tiled
BY DEF Init, Tiled, Live, Apart, Inside, Counted, Complete, Active, Unwritten, Blank

(* Cut: the new task's tile is apart from the unwritten ones, which lie in *)
(* what was cut before.                                                    *)
LEMMA TiledCut ==
  ASSUME Held, Tiled, NEW c \in Callers, Cut(c)
  PROVE  Tiled'
<1>. DEFINE beg == dst_beg[c]
<1>1. PICK k \in cells :
        /\ stage[c] = "cutting" /\ run[c] = NULL /\ MoreTiles(c)
        /\ cells' = cells \ {k}
        /\ task' = [task EXCEPT ![k] = [caller |-> c, trg |-> frame[c],
                      dst_beg |-> dst_beg[c], work_dst |-> WorkDst(dst_beg[c])]]
        /\ Enqueue(c, k)
        /\ dst_beg' = [dst_beg EXCEPT ![c] = Advance(@)]
        /\ UNCHANGED <<build, stage, frame, buf, buffers, written>>
  BY DEF Cut
<1>2. k \in TaskCells /\ k \notin Active /\ k # NULL
  BY <1>1, ResizeAssumption DEF Held, TypeOK, OneCell, Active
<1>3. beg \in Nat \X (0..DstW - 1) /\ beg[1] < DstH
  BY <1>1 DEF Held, TypeOK, MoreTiles
<1>4. /\ task'[k] \in Tasks /\ task'[k].caller = c /\ task'[k].trg = frame[c]
      /\ task'[k].dst_beg = beg /\ task'[k].work_dst = WorkDst(beg)
  BY <1>1, <1>2, <1>3, WorkDstType DEF Held, TypeOK, Tasks, Begun
<1>5. Area(task'[k]) = TileAt(beg)
  BY <1>4, AreaIsTile
<1>6. \A l \in TaskCells : l # k => task'[l] = task[l]
  BY <1>1, <1>2 DEF Held, TypeOK
<1>7. Active' = Active \cup {k}
  BY <1>1, <1>2, ResizeAssumption DEF Active, Enqueue, Held, TypeOK, Threads
<1>8. ~Unwritten(k) /\ \A l \in TaskCells : Unwritten(l)' <=> Unwritten(l) \/ l = k
  <2>1. ~Unwritten(k)
    BY <1>2, UnwrittenIsActive
  <2>2. CASE build.avstp
    <3>1. queued' = queued \cup {k} /\ run' = run /\ step' = step
      BY <1>1, <2>2 DEF Enqueue
    <3>. QED  BY <2>1, <3>1 DEF Unwritten
  <2>3. CASE ~build.avstp
    <3>1. run' = [run EXCEPT ![c] = k] /\ step' = [step EXCEPT ![c] = "take_obj"]
          /\ queued' = queued
      BY <1>1, <2>3 DEF Enqueue
    <3>. QED  BY <1>1, <2>1, <3>1, ResizeAssumption DEF Unwritten, Held, TypeOK, Threads
  <2>. QED  BY <2>1, <2>2, <2>3
<1>9. \A d \in Callers : dst_beg'[d] = IF d = c THEN Advance(beg) ELSE dst_beg[d]
  BY <1>1 DEF Held, TypeOK
<1>10. \A l \in TaskCells : Unwritten(l) => task[l].caller \in Callers
  BY UnwrittenIsActive
<1>11. Live'
  <2>1. \A l \in Active : l # k => l \in TaskCells
    BY ResizeAssumption DEF Active, Held, TypeOK
  <2>. QED  BY <1>1, <1>2, <1>4, <1>6, <1>7, <2>1 DEF Tiled, Live
<1>12. Apart'
  <2>1. ASSUME NEW l \in TaskCells, Unwritten(l), l # k, task[l].caller = c
        PROVE  Area(task[l]) \cap Area(task'[k]) = {}
    <3>1. Area(task[l]) \subseteq Swept(beg)
      BY <2>1 DEF Tiled, Inside
    <3>. QED  BY <1>3, <1>5, <3>1, SweptAdvance DEF TileAt
  <2>. QED  BY <1>4, <1>6, <1>8, <2>1 DEF Tiled, Apart, Area
<1>13. Inside'
  <2>1. \A d : Swept(d)' = Swept(d)
    BY DEF Swept
  <2>2. ASSUME NEW l \in TaskCells, Unwritten(l)'
        PROVE  Area(task'[l]) \subseteq Swept(dst_beg'[task'[l].caller])
    <3>1. CASE l = k
      BY <1>3, <1>4, <1>5, <1>9, <3>1, SweptAdvance DEF TileAt
    <3>2. CASE l # k
      <4>1. Area(task[l]) \subseteq Swept(dst_beg[task[l].caller]) /\ task'[l] = task[l]
        BY <1>6, <1>8, <2>2, <3>2 DEF Tiled, Inside
      <4>2. \A p \in Swept(beg) : p \in Swept(Advance(beg))
        BY <1>3, SweptAdvance DEF Swept
      <4>. QED  BY <1>8, <1>9, <1>10, <2>2, <3>2, <4>1, <4>2
    <3>. QED  BY <3>1, <3>2
  <2>. QED  BY <2>2 DEF Inside, Area, Swept
<1>14. Counted'
  <2>1. ASSUME NEW d \in Callers, NEW p \in Pixels
        PROVE  Missing(d, p)' <=> Missing(d, p) \/ (d = c /\ p \in TileAt(beg))
    BY <1>2, <1>4, <1>5, <1>6, <1>8 DEF Missing, Area
  <2>2. ASSUME NEW p \in Pixels
        PROVE  p \in Swept(Advance(beg)) /\ p \notin TileAt(beg) <=> p \in Swept(beg)
    BY <1>3, SweptAdvance
  <2>3. ASSUME NEW d \in Callers, NEW p \in Pixels
        PROVE  p \in Swept(dst_beg'[d]) /\ ~Missing(d, p)' <=> p \in Swept(dst_beg[d]) /\ ~Missing(d, p)
    BY <1>9, <2>1, <2>2
  <2>4. \A d : Swept(d)' = Swept(d)
    BY DEF Swept
  <2>. QED  BY <1>1, <2>3, <2>4 DEF Tiled, Counted, Swept
<1>15. Complete'
  BY <1>1, <1>9 DEF Tiled, Complete, MoreTiles
<1>. QED  BY <1>11, <1>12, <1>13, <1>14, <1>15 DEF Tiled

(* A call begins with an empty plane.                                      *)
LEMMA TiledCall ==
  ASSUME Held, Tiled, NEW c \in Callers, Call(c)
  PROVE  Tiled'
<1>. USE DEF Call, taskVars
<1>1. /\ UNCHANGED <<task, queued, run, step>> /\ stage[c] = "idle"
      /\ stage' = [stage EXCEPT ![c] = "cutting"]
      /\ \A d \in Callers : d # c => /\ frame'[d] = frame[d] /\ dst_beg'[d] = dst_beg[d]
                                     /\ written'[d] = written[d] /\ stage'[d] = stage[d]
      /\ dst_beg'[c] = <<0, 0>> /\ written'[c] = Blank /\ stage'[c] = "cutting"
  BY DEF Held, TypeOK
<1>2. \A k \in Active : task[k].caller # c /\ task[k].caller \in Callers
  BY <1>1 DEF Tiled, Live, Held, Filled, Tasks
<1>3. Active' = Active /\ \A k \in TaskCells : Unwritten(k)' = Unwritten(k)
  BY <1>1 DEF Active, Unwritten
<1>4. \A k \in TaskCells : Unwritten(k) => task[k].caller # c /\ task[k].caller \in Callers
  BY <1>2, UnwrittenIsActive
<1>5. Live'
  BY <1>1, <1>2, <1>3 DEF Tiled, Live
<1>6. Apart'
  BY <1>1, <1>3 DEF Tiled, Apart, Area
<1>7. Inside'
  BY <1>1, <1>3, <1>4 DEF Tiled, Inside, Area, Swept
<1>8. Counted'
  <2>1. \A d \in Callers : \A p \in Pixels : Missing(d, p)' = Missing(d, p)
    BY <1>1, <1>3 DEF Missing, Area
  <2>2. \A p \in Pixels : written'[c][p] = 0 /\ p \notin Swept(dst_beg'[c])
    BY <1>1, SweptEnds DEF Blank
  <2>. QED  BY <1>1, <2>1, <2>2 DEF Tiled, Counted, Swept
<1>9. Complete'
  BY <1>1 DEF Tiled, Complete, MoreTiles
<1>. QED  BY <1>5, <1>6, <1>7, <1>8, <1>9 DEF Tiled

(* The plane is cut, waited for, left; or left early, without the library, *)
(* where no task is pending.                                               *)
LEMMA TiledPlane ==
  ASSUME Held, Tiled, Sheltered, NEW c \in Callers,
         CutFails(c) \/ AllCut(c) \/ Wait(c) \/ Leave(c)
  PROVE  Tiled'
<1>. USE DEF CutFails, AllCut, Wait, Leave, taskVars, tileVars
<1>1. /\ UNCHANGED <<build, frame, dst_beg, task, queued, run, step, written>>
      /\ \A d \in Callers : d # c => stage'[d] = stage[d]
  BY DEF Held, TypeOK
<1>2. Active' = Active /\ \A k \in TaskCells : Unwritten(k)' = Unwritten(k)
  BY <1>1 DEF Active, Unwritten
<1>3. \A k \in Active : task[k].caller \in Callers /\ task[k].trg = frame[task[k].caller]
  BY DEF Tiled, Live, Held, Filled, Tasks
<1>4. Live'
  <2>1. CASE AllCut(c)
    <3>1. stage'[c] = "waiting"
      BY <2>1 DEF Held, TypeOK
    <3>. QED  BY <1>1, <1>2, <1>3, <3>1 DEF Tiled, Live
  <2>2. CASE CutFails(c)
    <3>1. ~build.avstp /\ run[c] = NULL
      BY <2>2 DEF Sheltered
    <3>2. \A k \in Active : task[k].caller # c
      BY <3>1 DEF Held, OwnThread, Active
    <3>. QED  BY <1>1, <1>2, <1>3, <3>2 DEF Tiled, Live
  <2>3. CASE Wait(c)
    <3>1. \A k \in Active : task[k].caller # c
      BY <1>3, <2>3 DEF TasksOf, Active
    <3>. QED  BY <1>1, <1>2, <1>3, <3>1 DEF Tiled, Live
  <2>4. CASE Leave(c)
    <3>1. \A k \in Active : task[k].caller # c
      BY <2>4 DEF Tiled, Live
    <3>. QED  BY <1>1, <1>2, <1>3, <3>1 DEF Tiled, Live
  <2>. QED  BY <2>1, <2>2, <2>3, <2>4
<1>5. Complete'
  <2>1. \A d \in Callers : MoreTiles(d)' = MoreTiles(d)
    BY <1>1 DEF MoreTiles
  <2>2. stage'[c] \in {"waiting", "done"} => ~MoreTiles(c)
    BY DEF Tiled, Complete, Held, TypeOK
  <2>. QED  BY <1>1, <2>1, <2>2 DEF Tiled, Complete
<1>6. stage'[c] \in {"cutting", "waiting", "done"} => stage[c] \in {"cutting", "waiting", "done"}
  BY DEF Held, TypeOK
<1>. QED  BY <1>1, <1>2, <1>4, <1>5, <1>6, TiledQuiet

(* A worker begins a task, or a thread takes or returns a buffer or a cell.*)
LEMMA TiledQuietTile ==
  ASSUME Held, Tiled, NEW x \in Threads,
         Start(x) \/ TakeBuffer(x) \/ ReturnBuffer(x) \/ ReturnCell(x)
  PROVE  Tiled'
<1>. USE DEF Start, TakeBuffer, ReturnBuffer, ReturnCell, callerVars, taskVars
<1>1. UNCHANGED <<build, stage, frame, dst_beg, task, written>>
  OBVIOUS
<1>2. \A k \in Active' : k \in Active
  <2>1. CASE Start(x)
    BY <2>1 DEF Active, Held, TypeOK
  <2>2. CASE TakeBuffer(x) \/ ReturnBuffer(x)
    BY <2>2 DEF Active
  <2>3. CASE ReturnCell(x)
    BY <2>3 DEF Active, Held, TypeOK
  <2>. QED  BY <2>1, <2>2, <2>3
<1>3. ASSUME NEW k \in TaskCells  PROVE Unwritten(k)' = Unwritten(k)
  <2>1. CASE Start(x)
    <3>1. PICK l \in queued :
            /\ queued' = queued \ {l} /\ run[x] = NULL
            /\ run' = [run EXCEPT ![x] = l] /\ step' = [step EXCEPT ![x] = "take_obj"]
      BY <2>1
    <3>2. k # NULL
      BY ResizeAssumption
    <3>3. CASE k = l
      BY <3>1, <3>3 DEF Unwritten, Held, TypeOK
    <3>4. CASE k # l
      BY <3>1, <3>2, <3>4 DEF Unwritten, Held, TypeOK
    <3>. QED  BY <3>3, <3>4
  <2>2. CASE TakeBuffer(x)
    BY <2>2 DEF Unwritten, Held, TypeOK
  <2>3. CASE ReturnBuffer(x)
    BY <2>3 DEF Unwritten, Held, TypeOK
  <2>4. CASE ReturnCell(x)
    BY <2>4, ResizeAssumption DEF Unwritten, Held, TypeOK
  <2>. QED  BY <2>1, <2>2, <2>3, <2>4
<1>4. Live'
  BY <1>1, <1>2 DEF Tiled, Live
<1>5. Complete'
  BY <1>1 DEF Tiled, Complete, MoreTiles
<1>. QED  BY <1>1, <1>3, <1>4, <1>5, TiledQuiet

(* The tile is written: it was inside what is cut, no other unwritten tile *)
(* shares a pixel with it, and its call is still there.                    *)
LEMMA TiledPasses ==
  ASSUME Held, Tiled, NEW x \in Threads, Passes(x)
  PROVE  Tiled'
<1>. DEFINE k == run[x]
            t == task[k]
            c == t.caller
<1>1. /\ step[x] = "passes" /\ UNCHANGED <<build, stage, frame, dst_beg, task, queued, run>>
      /\ step' = [step EXCEPT ![x] = IF buf[x] # NULL THEN "return_obj" ELSE "return_cell"]
      /\ written' = [written EXCEPT ![c] =
           [p \in Pixels |-> IF p \in Area(t) THEN Least(written[c][p] + 1, 2)
                             ELSE written[c][p]]]
  BY DEF Passes, callerVars, taskVars, Held, TypeOK
<1>2. k \in TaskCells /\ k # NULL /\ Unwritten(k)
  BY <1>1 DEF Held, OneCell, TypeOK, Unwritten
<1>3. k \in Active /\ t \in Tasks /\ c \in Callers /\ Area(t) = TileAt(t.dst_beg)
  BY <1>2, UnwrittenIsActive
<1>4. k \notin queued /\ \A y \in Threads : y # x => run[y] # k
  BY <1>2 DEF Held, OneCell
<1>5. \A l \in TaskCells : Unwritten(l)' <=> Unwritten(l) /\ l # k
  BY <1>1, <1>4 DEF Unwritten, Held, TypeOK
<1>6. stage[c] \in {"cutting", "waiting"}
  BY <1>3 DEF Tiled, Live
<1>7. Live'
  BY <1>1 DEF Tiled, Live, Active
<1>8. Apart' /\ Inside' /\ Complete'
  BY <1>1, <1>5 DEF Tiled, Apart, Inside, Complete, Area, Swept, MoreTiles
<1>9. Counted'
  <2>1. ASSUME NEW p \in Pixels, p \in Area(t)
        PROVE  written[c][p] = 0 /\ p \in Swept(dst_beg[c]) /\ ~Missing(c, p)'
    <3>1. Missing(c, p)
      BY <1>2, <2>1 DEF Missing
    <3>2. written[c][p] \in 0..2 /\ written[c][p] <= 1 /\ written[c][p] # 1
      BY <1>3, <1>6, <3>1 DEF Tiled, Counted, Held, TypeOK
    <3>3. p \in Swept(dst_beg[c])
      BY <1>2, <2>1 DEF Tiled, Inside
    <3>4. \A l \in TaskCells : Unwritten(l) /\ l # k /\ task[l].caller = c => p \notin Area(task[l])
      BY <1>2, <2>1 DEF Tiled, Apart
    <3>5. ~Missing(c, p)'
      BY <1>1, <1>5, <3>4 DEF Missing, Area
    <3>. QED  BY <3>2, <3>3, <3>5
  <2>2. ASSUME NEW d \in Callers, NEW p \in Pixels, ~(d = c /\ p \in Area(t))
        PROVE  Missing(d, p)' = Missing(d, p)
    BY <1>1, <1>5, <2>2 DEF Missing, Area
  <2>3. Least(0 + 1, 2) = 1
    BY LeastIs
  <2>4. \A p \in Pixels : written'[c][p] = IF p \in Area(t) THEN 1 ELSE written[c][p]
    BY <1>1, <1>3, <2>1, <2>3 DEF Held, TypeOK
  <2>5. \A d \in Callers : d # c => written'[d] = written[d]
    BY <1>1, <1>3 DEF Held, TypeOK
  <2>6. ASSUME NEW d \in Callers, NEW p \in Pixels
        PROVE  /\ written'[d][p] <= 1
               /\ stage[d] \in {"cutting", "waiting", "done"} =>
                    (written'[d][p] = 1 <=> p \in Swept(dst_beg[d]) /\ ~Missing(d, p)')
    <3>1. CASE d = c /\ p \in Area(t)
      BY <1>1, <2>1, <2>4, <3>1 DEF Missing
    <3>2. CASE ~(d = c /\ p \in Area(t))
      BY <2>2, <2>4, <2>5, <3>2 DEF Tiled, Counted
    <3>. QED  BY <3>1, <3>2
  <2>. QED  BY <1>1, <2>6 DEF Counted, Swept
<1>. QED  BY <1>7, <1>8, <1>9 DEF Tiled

(* An exception ends the call of the thread it happens in: without the     *)
(* library the lost tile belongs to no other call.                         *)
LEMMA TiledThrows ==
  ASSUME Held, Tiled, Sheltered, NEW x \in Threads,
         TakeBufferFails(x) \/ ReturnBufferFails(x)
  PROVE  Tiled'
<1>1. build.short /\ ThrowsFrom(x) /\ step[x] # "none"
  BY DEF TakeBufferFails, ReturnBufferFails
<1>2. ~build.avstp /\ run[x] # NULL
  BY <1>1 DEF Sheltered, Held, OneCell
<1>3. x \in Callers /\ queued = {}
      /\ \A y \in Threads : run[y] # NULL => y \in Callers /\ task[run[y]].caller = y
  BY <1>2 DEF Held, OwnThread
<1>4. /\ UNCHANGED <<build, frame, dst_beg, task, queued, written>>
      /\ run' = [run EXCEPT ![x] = NULL] /\ step' = [step EXCEPT ![x] = "none"]
      /\ \A d \in Callers : stage'[d] = IF d = x THEN "failed" ELSE stage[d]
  BY <1>1 DEF ThrowsFrom, taskVars
<1>5. \A k \in Active' : k \in Active /\ task[k].caller \in Callers \ {x}
  BY <1>3, <1>4 DEF Active, Held, TypeOK
<1>6. \A k \in TaskCells : Unwritten(k)' <=> Unwritten(k) /\ task[k].caller # x
  BY <1>3, <1>4, ResizeAssumption DEF Unwritten, Held, TypeOK
<1>7. Live'
  BY <1>4, <1>5 DEF Tiled, Live
<1>8. Apart' /\ Inside'
  BY <1>4, <1>6 DEF Tiled, Apart, Inside, Area, Swept
<1>9. Complete'
  BY <1>4 DEF Tiled, Complete, MoreTiles
<1>10. Counted'
  <2>1. ASSUME NEW d \in Callers, NEW p \in Pixels, d # x
        PROVE  Missing(d, p)' = Missing(d, p)
    BY <1>4, <1>6, <2>1 DEF Missing, Area
  <2>. QED  BY <1>4, <2>1 DEF Tiled, Counted, Swept
<1>. QED  BY <1>7, <1>8, <1>9, <1>10 DEF Tiled

\* The invariant holds before the first plane.
LEMMA InvInit == Init => IInv
BY HeldInit, TiledInit DEF IInv, Tiled

\* Every step keeps the invariant.
LEMMA InvStep ==
  ASSUME IInv, [Next]_vars
  PROVE  IInv'
<1>. USE DEF IInv
<1>1. Held'
  BY HeldStep
<1>2. ASSUME Sheltered', Sheltered, Tiled  PROVE Tiled'
  <2>1. CASE UNCHANGED vars
    BY <1>2, <2>1 DEF vars, callerVars, taskVars, tileVars, Tiled, Live, Apart, Inside,
       Counted, Complete, Active, Unwritten, Missing, Area, Swept, MoreTiles
  <2>2. ASSUME NEW c \in Callers, Call(c) \/ Plane(c)  PROVE Tiled'
    BY <1>2, <2>2, TiledCall, TiledCut, TiledPlane DEF Plane
  <2>3. ASSUME NEW x \in Threads, Start(x) \/ Tile(x)  PROVE Tiled'
    BY <1>2, <2>3, TiledQuietTile, TiledPasses, TiledThrows DEF Tile
  <2>. QED  BY <2>1, <2>2, <2>3 DEF Next, AllDone
<1>3. build' = build
  BY DEF Next, AllDone, vars, Call, Plane, Cut, CutFails, AllCut, Wait, Leave, Start,
     Tile, TakeBuffer, TakeBufferFails, ThrowsFrom, Passes, ReturnBuffer,
     ReturnBufferFails, ReturnCell
<1>. QED  BY <1>1, <1>2, <1>3 DEF Sheltered, Tiled

(* Where no task outlives its call, a tile is processed while the call that*)
(* owns its trg has not ended.                                             *)
THEOREM TrgStaysAlive == Spec => [](Sheltered => TrgAlive)
<1>1. IInv => (Sheltered => TrgAlive)
  BY ResizeAssumption DEF IInv, Live, Active, TrgAlive
<1>. QED  BY InvInit, InvStep, <1>1, PTL DEF Spec

(* There each pixel of the plane is written by one task, once, and a call  *)
(* that returns normally has left no pixel out.                            *)
THEOREM PlaneWrittenOnce == Spec => [](Sheltered => WrittenOnce)
<1>1. ASSUME IInv, Sheltered  PROVE WrittenOnce
  <2>. USE <1>1 DEF IInv
  <2>1. ASSUME NEW x \in Threads, run[x] # NULL  PROVE Area(task[run[x]]) \subseteq Pixels
    BY <2>1, AreaIsTile DEF Held, Filled, Active, TileAt
  <2>2. ASSUME NEW c \in Callers, NEW p \in Pixels, stage[c] = "done"
        PROVE  written[c][p] = 1
    <3>1. p \in Swept(dst_beg[c])
      BY <2>2, SweptEnds DEF Complete, MoreTiles, Held, TypeOK
    <3>2. ~Missing(c, p)
      BY <2>2, UnwrittenIsActive DEF Missing, Live
    <3>. QED  BY <2>2, <3>1, <3>2 DEF Counted
  <2>. QED  BY <2>1, <2>2 DEF WrittenOnce, Counted
<1>. QED  BY InvInit, InvStep, <1>1, PTL DEF Spec
=============================================================================
