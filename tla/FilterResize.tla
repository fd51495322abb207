---------------------------- MODULE FilterResize ----------------------------
(***************************************************************************)
(* fmtcl::FilterResize (plugins/fmtconv/src/fmtcl/FilterResize.cpp): one   *)
(* object resizes planes for several VapourSynth threads at once.  Each    *)
(* call of process_plane cuts the destination into tiles and hands one     *)
(* task per tile to avstp (AvstpWrapper.cpp).  Without the avstp library   *)
(* enqueue_task runs the task at once, in the calling thread; with it, the *)
(* threads of the library run it, and wait_completion waits for them.      *)
(*                                                                         *)
(* A task is a cell of a CellPool, and borrows a buffer from an ObjPool:   *)
(* both pools are taken here with what CellPool and ObjPool promise, a     *)
(* cell or a buffer that nobody else has, or a failure.                    *)
(***************************************************************************)
EXTENDS Integers, FiniteSets, FiniteSetsExt

CONSTANTS
  Callers,      \* the threads that call process_plane
  Workers,      \* the threads of avstp
  TaskCells,    \* the cells of _task_rsz_pool: a bound on the tasks at once
  Buffers,      \* the ResizeData the factory can make, likewise
  DstW, DstH,   \* _dst_size
  TileW, TileH, \* _tile_size_dst
  BufferFlag,   \* _buffer_flag: a tile needs a buffer
  Builds,       \* the surroundings to check: is avstp there, may memory be short
  MaxCalls,     \* bound on the calls of one thread
  NULL

ASSUME ResizeAssumption ==
  /\ DstW \in Nat \ {0} /\ DstH \in Nat \ {0}
  /\ TileW \in Nat \ {0} /\ TileH \in Nat \ {0}
  /\ BufferFlag \in BOOLEAN /\ MaxCalls \in Nat
  /\ Builds \subseteq [avstp : BOOLEAN, short : BOOLEAN]
  /\ Callers \cap Workers = {} /\ NULL \notin Callers \cup Workers \cup TaskCells \cup Buffers

Threads == Callers \cup Workers
Pixels == (0..DstH - 1) \X (0..DstW - 1)

VARIABLES
  build,      \* where the filter runs
  stage,      \* stage[c]: where caller c is in process_plane_normal
  frame,      \* frame[c]: the number of the call, which names its trg
  dst_beg,    \* dst_beg[c]: the loop variables <<Dir_V, Dir_H>>
  task,       \* task[k]: the _val of cell k
  cells,      \* the cells in _task_rsz_pool
  queued,     \* the cells enqueued and not begun
  run,        \* run[x]: the cell thread x is processing
  step,       \* step[x]: where thread x is in process_tile
  buf,        \* buf[x]: rd_ptr
  buffers,    \* the buffers that take_obj can give
  written     \* written[c][p]: how often pixel p of c's plane was written, up to 2

callerVars == <<stage, frame, dst_beg>>
taskVars == <<task, cells, queued>>
tileVars == <<run, step, buf, buffers, written>>
vars == <<build, callerVars, taskVars, tileVars>>

Blank == [p \in Pixels |-> 0]

Init == /\ build \in Builds
        /\ stage = [c \in Callers |-> "idle"]
        /\ frame = [c \in Callers |-> 0]
        /\ dst_beg = [c \in Callers |-> <<0, 0>>]
        /\ task = [k \in TaskCells |-> NULL]
        /\ cells = TaskCells
        /\ queued = {}
        /\ run = [x \in Threads |-> NULL]
        /\ step = [x \in Threads |-> "none"]
        /\ buf = [x \in Threads |-> NULL]
        /\ buffers = Buffers
        /\ written = [c \in Callers |-> Blank]

(***************************************************************************)
(* process_plane_normal                                                    *)
(***************************************************************************)
Call(c) ==
  /\ stage[c] = "idle" /\ frame[c] < MaxCalls
  /\ stage' = [stage EXCEPT ![c] = "cutting"]
  /\ frame' = [frame EXCEPT ![c] = @ + 1]
  /\ dst_beg' = [dst_beg EXCEPT ![c] = <<0, 0>>]
  /\ written' = [written EXCEPT ![c] = Blank]
  /\ UNCHANGED <<build, taskVars, run, step, buf, buffers>>

Least(a, b) == Min({a, b})
WorkDst(beg) == <<Least(TileH, DstH - beg[1]), Least(TileW, DstW - beg[2])>>

AdvanceNoReset(beg) ==           \* dst_beg [Dir_H] is not set to 0 again
  IF beg[2] + TileW < DstW THEN <<beg[1], beg[2] + TileW>> ELSE <<beg[1] + TileH, beg[2] + TileW>>

AdvanceStays(beg) == beg         \* a tile of no width

Advance(beg) ==
  IF beg[2] + TileW < DstW THEN <<beg[1], beg[2] + TileW>> ELSE <<beg[1] + TileH, 0>>

MoreTiles(c) == dst_beg[c][1] < DstH

(* avstp queues the task; without it the caller becomes its executor.      *)
Enqueue(c, k) ==
  IF ~build.avstp THEN /\ run' = [run EXCEPT ![c] = k]
                       /\ step' = [step EXCEPT ![c] = "take_obj"]
                       /\ UNCHANGED queued
  ELSE queued' = queued \cup {k} /\ UNCHANGED <<run, step>>

CutPeeks(c) == \E k \in cells :   \* the cell stays in the pool
  /\ stage[c] = "cutting" /\ run[c] = NULL
  /\ MoreTiles(c)
  /\ task' = [task EXCEPT ![k] = [caller |-> c, trg |-> frame[c], dst_beg |-> dst_beg[c],
                                  work_dst |-> WorkDst(dst_beg[c])]]
  /\ Enqueue(c, k)
  /\ dst_beg' = [dst_beg EXCEPT ![c] = Advance(@)]
  /\ UNCHANGED <<build, stage, frame, cells, buf, buffers, written>>

Cut(c) == \E k \in cells :
  /\ stage[c] = "cutting" /\ run[c] = NULL
  /\ MoreTiles(c)
  /\ cells' = cells \ {k}
  /\ task' = [task EXCEPT ![k] = [caller |-> c, trg |-> frame[c], dst_beg |-> dst_beg[c],
                                  work_dst |-> WorkDst(dst_beg[c])]]
  /\ Enqueue(c, k)
  /\ dst_beg' = [dst_beg EXCEPT ![c] = Advance(@)]
  /\ UNCHANGED <<build, stage, frame, buf, buffers, written>>

(* take_cell returns 0 or throws: process_plane_normal is left at once,    *)
(* wait_completion and destroy_dispatcher are not called.                  *)
CutFails(c) ==
  /\ stage[c] = "cutting" /\ run[c] = NULL
  /\ MoreTiles(c)
  /\ build.short
  /\ stage' = [stage EXCEPT ![c] = "failed"]
  /\ UNCHANGED <<build, frame, dst_beg, taskVars, tileVars>>

AllCut(c) ==
  /\ stage[c] = "cutting" /\ run[c] = NULL
  /\ ~MoreTiles(c)
  /\ stage' = [stage EXCEPT ![c] = "waiting"]
  /\ UNCHANGED <<build, frame, dst_beg, taskVars, tileVars>>

TasksOf(c) == {k \in queued \cup {run[x] : x \in Threads} :
                 k # NULL /\ task[k].caller = c /\ task[k].trg = frame[c]}

WaitsNot(c) ==                   \* wait_completion only looks at the queue
  /\ stage[c] = "waiting"
  /\ TasksOf(c) \cap queued = {}
  /\ stage' = [stage EXCEPT ![c] = "done"]
  /\ UNCHANGED <<build, frame, dst_beg, taskVars, tileVars>>

Wait(c) ==
  /\ stage[c] = "waiting"
  /\ TasksOf(c) = {}
  /\ stage' = [stage EXCEPT ![c] = "done"]
  /\ UNCHANGED <<build, frame, dst_beg, taskVars, tileVars>>

(* The frame is delivered, or the exception ends in setFilterError.        *)
Leave(c) ==
  /\ stage[c] \in {"done", "failed"}
  /\ stage' = [stage EXCEPT ![c] = "idle"]
  /\ UNCHANGED <<build, frame, dst_beg, taskVars, tileVars>>

(***************************************************************************)
(* process_tile, in thread x                                               *)
(***************************************************************************)
Start(x) == \E k \in queued :
  /\ x \in Workers /\ run[x] = NULL
  /\ queued' = queued \ {k}
  /\ run' = [run EXCEPT ![x] = k]
  /\ step' = [step EXCEPT ![x] = "take_obj"]
  /\ UNCHANGED <<build, callerVars, task, cells, buf, buffers, written>>

TakeBuffer(x) ==
  /\ step[x] = "take_obj"
  /\ step' = [step EXCEPT ![x] = "passes"]
  /\ IF BufferFlag THEN \E b \in buffers : /\ buf' = [buf EXCEPT ![x] = b]
                                           /\ buffers' = buffers \ {b}
     ELSE UNCHANGED <<buf, buffers>>
  /\ UNCHANGED <<build, callerVars, taskVars, run, written>>

(* An exception leaves process_tile: the cell and the buffer stay out.  In *)
(* the caller's own thread it leaves process_plane_normal too.             *)
ThrowsFrom(x) ==
  /\ run' = [run EXCEPT ![x] = NULL]
  /\ step' = [step EXCEPT ![x] = "none"]
  /\ buf' = [buf EXCEPT ![x] = NULL]
  /\ stage' = [c \in Callers |-> IF c = x THEN "failed" ELSE stage[c]]
  /\ UNCHANGED <<build, frame, dst_beg, taskVars, buffers, written>>

TakeBufferFails(x) ==
  /\ step[x] = "take_obj"
  /\ BufferFlag
  /\ build.short
  /\ ThrowsFrom(x)

Area(t) == (t.dst_beg[1]..t.dst_beg[1] + t.work_dst[1] - 1)
             \X (t.dst_beg[2]..t.dst_beg[2] + t.work_dst[2] - 1)

(* The passes write the tile into the plane its trg points to.             *)
Passes(x) == LET t == task[run[x]] IN
  /\ step[x] = "passes"
  /\ step' = [step EXCEPT ![x] = IF buf[x] # NULL THEN "return_obj" ELSE "return_cell"]
  /\ written' = [written EXCEPT ![t.caller] = 
       [p \in Pixels |-> IF p \in Area(t) THEN Least(@[p] + 1, 2) ELSE @[p]]]
  /\ UNCHANGED <<build, callerVars, taskVars, run, buf, buffers>>

ReturnBuffer(x) ==
  /\ step[x] = "return_obj"
  /\ buffers' = buffers \cup {buf[x]}
  /\ buf' = [buf EXCEPT ![x] = NULL]
  /\ step' = [step EXCEPT ![x] = "return_cell"]
  /\ UNCHANGED <<build, callerVars, taskVars, run, written>>

ReturnBufferFails(x) ==
  /\ step[x] = "return_obj"
  /\ build.short
  /\ ThrowsFrom(x)

ReturnCellForgets(x) ==          \* return_cell is not called
  /\ step[x] = "return_cell"
  /\ run' = [run EXCEPT ![x] = NULL]
  /\ step' = [step EXCEPT ![x] = "none"]
  /\ UNCHANGED <<build, callerVars, taskVars, buf, buffers, written>>

ReturnCell(x) ==
  /\ step[x] = "return_cell"
  /\ cells' = cells \cup {run[x]}
  /\ run' = [run EXCEPT ![x] = NULL]
  /\ step' = [step EXCEPT ![x] = "none"]
  /\ UNCHANGED <<build, callerVars, task, queued, buf, buffers, written>>

Tile(x) == \/ TakeBuffer(x) \/ TakeBufferFails(x) \/ Passes(x)
           \/ ReturnBuffer(x) \/ ReturnBufferFails(x) \/ ReturnCell(x)

Plane(c) == Cut(c) \/ CutFails(c) \/ AllCut(c) \/ Wait(c) \/ Leave(c)

AllDone == /\ \A c \in Callers : stage[c] = "idle" /\ frame[c] = MaxCalls
           /\ queued = {} /\ \A x \in Threads : run[x] = NULL
           /\ UNCHANGED vars

Next == \/ \E c \in Callers : Call(c) \/ Plane(c)
        \/ \E x \in Threads : Start(x) \/ Tile(x)
        \/ AllDone

Spec == Init /\ [][Next]_vars

(* Threads go on running; avstp begins every task some thread is free for. *)
FairSpec == /\ Spec
            /\ \A c \in Callers : WF_vars(Plane(c))
            /\ \A x \in Threads : WF_vars(Start(x)) /\ WF_vars(Tile(x))

(***************************************************************************)
(* What the filter must keep true                                          *)
(***************************************************************************)
Tasks == [caller : Callers, trg : 1..MaxCalls, dst_beg : Pixels,
          work_dst : (1..TileH) \X (1..TileW)]

(* The variables hold values of their types; dst_beg stays in the plane    *)
(* until the last row of tiles is done.                                    *)
TypeOK ==
  /\ build \in Builds
  /\ stage \in [Callers -> {"idle", "cutting", "waiting", "done", "failed"}]
  /\ frame \in [Callers -> 0..MaxCalls]
  /\ dst_beg \in [Callers -> Nat \X (0..DstW - 1)]
  /\ task \in [TaskCells -> Tasks \cup {NULL}]
  /\ cells \in SUBSET TaskCells /\ queued \in SUBSET TaskCells
  /\ run \in [Threads -> TaskCells \cup {NULL}]
  /\ step \in [Threads -> {"none", "take_obj", "passes", "return_obj", "return_cell"}]
  /\ buf \in [Threads -> Buffers \cup {NULL}] /\ buffers \in SUBSET Buffers
  /\ written \in [Callers -> [Pixels -> 0..2]]

(* "assert (trg._this_ptr == this)": a tile is processed while the call    *)
(* that owns its trg, a local variable, has not ended.                     *)
TrgAlive == \A x \in Threads : run[x] # NULL =>
  LET t == task[run[x]] IN
    t.trg = frame[t.caller] /\ stage[t.caller] \in {"cutting", "waiting"}

(* Every tile of a plane is written by one task: no two write the same     *)
(* pixel, none writes outside the plane, and when process_plane returns    *)
(* normally no pixel is left.                                              *)
WrittenOnce ==
  /\ \A x \in Threads : run[x] # NULL => Area(task[run[x]]) \subseteq Pixels
  /\ \A c \in Callers : \A p \in Pixels :
       written[c][p] <= 1 /\ (stage[c] = "done" => written[c][p] = 1)

(* A cell or a buffer that is not in its pool is in the hands of a task,   *)
(* and of one alone, so all are back when nobody is in the filter, as the  *)
(* destructors of the pools assert; where memory runs short some are lost. *)
AllReturned ==
  /\ ~build.short => /\ TaskCells \ cells = (queued \cup {run[x] : x \in Threads}) \ {NULL}
                     /\ Buffers \ buffers = {buf[x] : x \in Threads} \ {NULL}
  /\ \A x, y \in Threads : x # y =>
       /\ run[x] = NULL \/ run[x] # run[y]
       /\ buf[x] = NULL \/ buf[x] # buf[y]

(* Every call of process_plane ends, with the plane or with an error.      *)
PlaneEnds == \A c \in Callers : stage[c] = "cutting" ~> stage[c] = "idle"
=============================================================================
