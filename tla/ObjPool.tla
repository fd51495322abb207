------------------------------ MODULE ObjPool ------------------------------
(***************************************************************************)
(* conc::ObjPool (plugins/fmtconv/src/conc/ObjPool.hpp): recyclable        *)
(* objects, filed in cells of a CellPool.  One stack has a cell for every  *)
(* object ever made, another one a cell for every object that is free.     *)
(* The pool of cells takes its own steps in between: each call of take_cell*)
(* or return_cell goes through the steps of CellPoolSteps, with all their  *)
(* interleavings.                                                          *)
(***************************************************************************)
EXTENDS CellPoolSteps

CONSTANTS
  Objs,      \* the objects the factory can make; it returns 0 at the limit
  CtorSize   \* the number of cells the constructor expands the pool to

ASSUME ObjAssumption == CtorSize \in Nat \ {0}

ExpandSizes == {CtorSize}

VARIABLES
  stack_free,  \* the cells on _stack_free
  stack_all,   \* the cells on _stack_all
  val,         \* val[c]: c._val
  alive,       \* the objects created and not deleted
  op,          \* op[t]: where thread t is in take_obj or return_obj
  obj,         \* obj[t]: obj_ptr
  cell,        \* cell[t]: cell_ptr, a cell popped from _stack_free
  users        \* the objects in the hands of the program

stacks == <<stack_free, stack_all, val, alive>>
vars == <<poolVars, stacks, op, obj, cell, users>>

(* The cells that are out of the pool of cells, in a stack or in hand.     *)
CellsOut == stack_free \cup stack_all \cup {cell[t] : t \in {u \in Threads : cell[u] # NULL}}

Pool == INSTANCE CellPool WITH client <- CellsOut

(* The constructor expands the pool of cells before anyone can share it.   *)
CtorZones == CHOOSE n \in 1..MAX_NBR_ZONES :
  /\ TotalSize[n] >= CtorSize \/ n = MAX_NBR_ZONES
  /\ TotalSize[n - 1] < CtorSize

Init == /\ zone_list = [z \in ZoneIndex |-> z < CtorZones]
        /\ nbr_zones = CtorZones
        /\ nbr_avail = TotalSize[CtorZones] % SizeMod
        /\ free = {c \in Cells : c[1] < CtorZones}
        /\ NobodyInside
        /\ stack_free = {} /\ stack_all = {}
        /\ val = [c \in Cells |-> NULL]
        /\ alive = {}
        /\ op = [t \in Threads |-> "none"]
        /\ obj = [t \in Threads |-> NULL]
        /\ cell = [t \in Threads |-> NULL]
        /\ users = {}

Become(t, o, x, c) == /\ op' = [op EXCEPT ![t] = o]
                      /\ obj' = [obj EXCEPT ![t] = x]
                      /\ cell' = [cell EXCEPT ![t] = c]

(***************************************************************************)
(* take_obj                                                                *)
(***************************************************************************)
TakeFreePeeks(t) == \E c \in stack_free :     \* the cell stays on the stack
  /\ op[t] = "none"
  /\ Become(t, "take_free", val[c], c)
  /\ UNCHANGED <<poolVars, stacks, users>>

(* A free object: its cell goes back to the pool of cells.                 *)
TakeFree(t) == \E c \in stack_free :
  /\ op[t] = "none"
  /\ stack_free' = stack_free \ {c}
  /\ Become(t, "take_free", val[c], c)
  /\ UNCHANGED <<poolVars, stack_all, val, alive, users>>

TakeReturnsCellTwice(t) ==       \* given back, and still held
  /\ op[t] = "take_free" /\ cell[t] # NULL
  /\ CallReturn(t, cell[t])
  /\ UNCHANGED <<stacks, users, op, obj, cell>>

TakeReturnsCell(t) ==
  /\ op[t] = "take_free" /\ cell[t] # NULL
  /\ CallReturn(t, cell[t])
  /\ Become(t, "take_free", obj[t], NULL)
  /\ UNCHANGED <<stacks, users>>

TakeFreeDone(t) ==
  /\ op[t] = "take_free" /\ cell[t] = NULL
  /\ Receive(t)
  /\ users' = users \cup {obj[t]}
  /\ Become(t, "none", NULL, NULL)
  /\ UNCHANGED stacks

(* No free object.                                                         *)
TakeEmpty(t) ==
  /\ op[t] = "none"
  /\ stack_free = {}
  /\ Become(t, "create", NULL, NULL)
  /\ UNCHANGED <<poolVars, stacks, users>>

(* The factory makes one, for which take_obj then wants a cell, or it      *)
(* returns 0, and so does take_obj.                                        *)
TakeCreates(t) == \E x \in Objs \ alive :
  /\ op[t] = "create"
  /\ alive' = alive \cup {x}
  /\ Become(t, "take_new", x, NULL)
  /\ UNCHANGED <<poolVars, stack_free, stack_all, val, users>>

TakeCreatesNone(t) ==
  /\ op[t] = "create"
  /\ Objs \ alive = {}
  /\ Become(t, "none", NULL, NULL)
  /\ UNCHANGED <<poolVars, stacks, users>>

TakeWantsCell(t) ==
  /\ op[t] = "take_new"
  /\ CallTake(t, TRUE)
  /\ UNCHANGED <<stacks, op, obj, cell, users>>

TakeRecordsUnchecked(t) ==       \* cell_ptr is not compared with 0
  /\ op[t] = "take_new"
  /\ Receive(t)
  /\ val' = [val EXCEPT ![got[t]] = obj[t]]
  /\ stack_all' = stack_all \cup {got[t]}
  /\ users' = users \cup {obj[t]}
  /\ Become(t, "none", NULL, NULL)
  /\ UNCHANGED <<stack_free, alive>>

(* The new object is recorded in a cell of _stack_all.                     *)
TakeRecords(t) ==
  /\ op[t] = "take_new" /\ got[t] \in Cells
  /\ Receive(t)
  /\ val' = [val EXCEPT ![got[t]] = obj[t]]
  /\ stack_all' = stack_all \cup {got[t]}
  /\ users' = users \cup {obj[t]}
  /\ Become(t, "none", NULL, NULL)
  /\ UNCHANGED <<stack_free, alive>>

TakeLeaves(t) ==                 \* the object is not deleted
  /\ op[t] = "take_new" /\ got[t] \notin Cells
  /\ Receive(t)
  /\ Become(t, "none", NULL, NULL)
  /\ UNCHANGED <<stacks, users>>

(* No cell, or an exception: the object is deleted and take_obj returns 0. *)
TakeDeletes(t) ==
  /\ op[t] = "take_new" /\ got[t] \notin Cells
  /\ Receive(t)
  /\ alive' = alive \ {obj[t]}
  /\ Become(t, "none", NULL, NULL)
  /\ UNCHANGED <<stack_free, stack_all, val, users>>

(***************************************************************************)
(* return_obj                                                              *)
(***************************************************************************)
CallReturnObj(t) == \E x \in users :
  /\ op[t] = "none"
  /\ users' = users \ {x}
  /\ Become(t, "return", x, NULL)
  /\ CallTake(t, TRUE)
  /\ UNCHANGED stacks

ReturnFilesAll(t) ==             \* pushed on _stack_all
  /\ op[t] = "return" /\ got[t] \in Cells
  /\ Receive(t)
  /\ val' = [val EXCEPT ![got[t]] = obj[t]]
  /\ stack_all' = stack_all \cup {got[t]}
  /\ Become(t, "none", NULL, NULL)
  /\ UNCHANGED <<stack_free, alive, users>>

ReturnFiles(t) ==
  /\ op[t] = "return" /\ got[t] \in Cells
  /\ Receive(t)
  /\ val' = [val EXCEPT ![got[t]] = obj[t]]
  /\ stack_free' = stack_free \cup {got[t]}
  /\ Become(t, "none", NULL, NULL)
  /\ UNCHANGED <<stack_all, alive, users>>

(* "return_obj(): cannot allocate a new cell.": the object is still with   *)
(* the caller, who may try again.                                          *)
ReturnThrows(t) ==
  /\ op[t] = "return" /\ got[t] \notin Cells
  /\ Receive(t)
  /\ users' = users \cup {obj[t]}
  /\ Become(t, "none", NULL, NULL)
  /\ UNCHANGED stacks

(***************************************************************************)
(* cleanup, when nobody uses the pool and every object has come back:      *)
(* both stacks are emptied and the objects of the second one deleted.      *)
(***************************************************************************)
AllBack == /\ \A t \in Threads : op[t] = "none"
           /\ users = {}

Cleanup ==
  /\ AllBack
  /\ free' = free \cup stack_free \cup stack_all
  /\ nbr_avail' = (nbr_avail + Cardinality(stack_free) + Cardinality(stack_all)) % SizeMod
  /\ alive' = alive \ {val[c] : c \in stack_all}
  /\ val' = [c \in Cells |-> IF c \in stack_all THEN NULL ELSE val[c]]
  /\ stack_free' = {} /\ stack_all' = {}
  /\ UNCHANGED <<zone_list, nbr_zones, mutex, pc, locals>>
  /\ UNCHANGED <<op, obj, cell, users>>

(***************************************************************************)
(* The threads of the program, each in one call at a time                  *)
(***************************************************************************)
CallTakeObj(t) == TakeFree(t) \/ TakeEmpty(t)

ObjStep(t) == \/ TakeReturnsCell(t) \/ TakeFreeDone(t)
              \/ TakeCreates(t) \/ TakeCreatesNone(t) \/ TakeWantsCell(t)
              \/ TakeRecords(t) \/ TakeDeletes(t) \/ ReturnFiles(t) \/ ReturnThrows(t)

CellStep(t) == PoolStep(t) /\ UNCHANGED <<stacks, op, obj, cell, users>>

Next == Cleanup \/ \E t \in Threads : CallTakeObj(t) \/ CallReturnObj(t) \/ ObjStep(t) \/ CellStep(t)

Spec == Init /\ [][Next]_vars

(* A thread inside the pool goes on running.                               *)
FairSpec == Spec /\ \A t \in Threads : WF_vars(ObjStep(t)) /\ WF_vars(CellStep(t))

(***************************************************************************)
(* What the pool must keep true                                            *)
(***************************************************************************)
(* The variables of the object pool hold values of their types.            *)
TypeOK ==
  /\ stack_free \in SUBSET Cells /\ stack_all \in SUBSET Cells
  /\ val \in [Cells -> Objs \cup {NULL}]
  /\ alive \in SUBSET Objs /\ users \in SUBSET Objs
  /\ op \in [Threads -> {"none", "take_free", "create", "take_new", "return"}]
  /\ obj \in [Threads -> Objs \cup {NULL}]
  /\ cell \in [Threads -> Cells \cup {NULL}]

\* The threads that have an object in hand.
InCall == {t \in Threads : op[t] \notin {"none", "create"}}

(* An object is lent to one user at a time: it is with the program, in one *)
(* thread's call, or in one free cell, never in two of these; and what is  *)
(* lent or free has not been deleted.                                      *)
OneHolder ==
  /\ \A c, d \in stack_free : val[c] = val[d] => c = d
  /\ \A t, u \in InCall : obj[t] = obj[u] => t = u
  /\ \A c \in stack_free : val[c] \in alive \ users
  /\ \A t \in InCall : obj[t] \in alive \ (users \cup {val[c] : c \in stack_free})
  /\ users \subseteq alive

(* Every object that exists is recorded once for deletion, except while    *)
(* take_obj still looks for the cell to record it in.  None is deleted     *)
(* twice, and none survives cleanup, whichever allocations failed before.  *)
Recorded ==
  /\ \A c, d \in stack_all : val[c] = val[d] => c = d
  /\ {val[c] : c \in stack_all} = alive \ {obj[t] : t \in {u \in Threads : op[u] = "take_new"}}

(* "False would mean that some cells are still out, in use.": the two      *)
(* stacks, which no thread writes together, are of the same size whenever  *)
(* cleanup may be called, whatever failed before.                          *)
CleanupAssert == AllBack => Cardinality(stack_free) = Cardinality(stack_all)

(* Seen from the pool of cells, the object pool is a client that returns   *)
(* only cells it holds, each of them once: every step is one CellPool      *)
(* allows, and the cells in the two stacks are those handed out.           *)
UsesPoolRightly == [][Pool!Next \/ UNCHANGED Pool!vars \/ Cleanup]_vars

(* "or 0 if no object is available and cannot be created for any reason":  *)
(* take_obj answers, at least once the other threads stop calling.         *)
(* The others are busy elsewhere with the objects they hold.               *)
AloneFromNowOn(t) == <>[](\A u \in Threads \ {t} : op[u] = "none")
LoneTakeReturns == \A t \in Threads :
  AloneFromNowOn(t) => (op[t] \in {"create", "take_new"} ~> op[t] = "none")
=============================================================================
