--------------------------- MODULE LockFreeStack ---------------------------
(***************************************************************************)
(* conc::LockFreeStack (plugins/fmtconv/src/conc/LockFreeStack.hpp): a     *)
(* Treiber stack whose head is a pointer and a modification count changed  *)
(* together by a double-width compare-and-swap.  Every access to a shared  *)
(* word is one step, so that the threads interleave between any two of     *)
(* them, in particular between the reads of the two halves of the head,    *)
(* which the code reads one after the other.                               *)
(*                                                                         *)
(* Several stacks share the cells: a cell leaves one stack and enters      *)
(* another while a thread that read the first head still looks at it.      *)
(***************************************************************************)
EXTENDS Integers, Sequences

CONSTANTS
  Threads,  \* the threads that call push and pop
  Cells,    \* the LockFreeCell objects; their memory stays valid throughout
  Stacks,   \* the LockFreeStack objects
  NULL,     \* the null cell pointer
  WeakCas,  \* TRUE: compare_exchange_weak (not x86), which may fail for nothing
  MaxVal    \* no operation starts on a stack once its count reaches MaxVal

ASSUME StackAssumption == /\ NULL \notin Cells \cup Stacks
                          /\ WeakCas \in BOOLEAN
                          /\ MaxVal \in Nat

VARIABLES
  head,     \* head[s]: *_head_ptr_ptr, the pair [ptr, val]
  next,     \* next[c]: c._next_ptr
  pc,       \* pc[t]: the shared access thread t makes next
  at,       \* at[t]: the stack (this) of the call thread t is in
  cell,     \* cell[t]: the argument of push
  ptr,      \* ptr[t]: head_ptr in push, cell_ptr in pop
  cnt,      \* cnt[t]: count
  nxt,      \* nxt[t]: next_ptr in pop
  client,   \* the cells in the hands of the program, outside any call
  stk       \* auxiliary: what stack s holds, the bottom first

locals == <<at, cell, ptr, cnt, nxt>>
vars == <<head, next, pc, at, cell, ptr, cnt, nxt, client, stk>>

PushPcs == {"push_ptr", "push_val", "push_link", "push_cas"}
PopPcs == {"pop_ptr", "pop_val", "pop_next", "pop_cas"}

Init == /\ head = [s \in Stacks |-> [ptr |-> NULL, val |-> 0]]
        /\ next = [c \in Cells |-> NULL]
        /\ pc = [t \in Threads |-> "idle"]
        /\ at = [t \in Threads |-> NULL]
        /\ cell = [t \in Threads |-> NULL]
        /\ ptr = [t \in Threads |-> NULL]
        /\ cnt = [t \in Threads |-> 0]
        /\ nxt = [t \in Threads |-> NULL]
        /\ client = Cells
        /\ stk = [s \in Stacks |-> <<>>]

Goto(t, step) == pc' = [pc EXCEPT ![t] = step]

(* The locals go out of scope when the call returns.                       *)
Leave(t) == /\ Goto(t, "idle")
            /\ at' = [at EXCEPT ![t] = NULL]
            /\ cell' = [cell EXCEPT ![t] = NULL]
            /\ ptr' = [ptr EXCEPT ![t] = NULL]
            /\ cnt' = [cnt EXCEPT ![t] = 0]
            /\ nxt' = [nxt EXCEPT ![t] = NULL]

(* The loop goes round: every iteration reads the head afresh.             *)
Retry(t, step) == /\ Goto(t, step)
                  /\ ptr' = [ptr EXCEPT ![t] = NULL]
                  /\ cnt' = [cnt EXCEPT ![t] = 0]
                  /\ nxt' = [nxt EXCEPT ![t] = NULL]
                  /\ UNCHANGED <<head, next, at, cell, client, stk>>

(***************************************************************************)
(* AtomicPtrIntPair: get_ptr and get_val read one half of the pair each,   *)
(* cas2 compares and replaces both halves at once.                         *)
(***************************************************************************)
ReadPtr(t, step) ==
  /\ ptr' = [ptr EXCEPT ![t] = head[at[t]].ptr]
  /\ Goto(t, step)
  /\ UNCHANGED <<head, next, at, cell, cnt, nxt, client, stk>>

ReadVal(t, step) ==
  /\ cnt' = [cnt EXCEPT ![t] = head[at[t]].val]
  /\ Goto(t, step)
  /\ UNCHANGED <<head, next, at, cell, ptr, nxt, client, stk>>

(* Faulty forms of the definitions, each one a slip this code could have   *)
(* made; a property is worth checking because one of them breaks it.       *)
HeadPtrIsAsRead(t) == head[at[t]].ptr = ptr[t]  \* single-width compare

HeadIsAsRead(t) == head[at[t]] = [ptr |-> ptr[t], val |-> cnt[t]]

Cas2KeepsCount(t, newPtr) ==     \* count in place of count + 1
  /\ HeadIsAsRead(t)
  /\ head' = [head EXCEPT ![at[t]] = [ptr |-> newPtr, val |-> cnt[t]]]

Cas2Stores(t, newPtr) ==         \* the comparison is forgotten
  head' = [head EXCEPT ![at[t]] = [ptr |-> newPtr, val |-> head[at[t]].val + 1]]

Cas2(t, newPtr) ==
  /\ HeadIsAsRead(t)
  /\ head' = [head EXCEPT ![at[t]] = [ptr |-> newPtr, val |-> cnt[t] + 1]]

Cas2Fails(t) == WeakCas \/ ~HeadIsAsRead(t)

(***************************************************************************)
(* push                                                                    *)
(***************************************************************************)
CallPush(t) == \E s \in Stacks, c \in client :
  /\ pc[t] = "idle"
  /\ head[s].val < MaxVal
  /\ Goto(t, "push_ptr")
  /\ at' = [at EXCEPT ![t] = s]
  /\ cell' = [cell EXCEPT ![t] = c]
  /\ client' = client \ {c}
  /\ UNCHANGED <<head, next, ptr, cnt, nxt, stk>>

PushReadPtr(t) == pc[t] = "push_ptr" /\ ReadPtr(t, "push_val")

PushReadVal(t) == pc[t] = "push_val" /\ ReadVal(t, "push_link")

PushLink(t) ==
  /\ pc[t] = "push_link"
  /\ next' = [next EXCEPT ![cell[t]] = ptr[t]]
  /\ Goto(t, "push_cas")
  /\ UNCHANGED <<head, at, cell, ptr, cnt, nxt, client, stk>>

PushCas(t) ==
  /\ pc[t] = "push_cas"
  /\ Cas2(t, cell[t])
  /\ stk' = [stk EXCEPT ![at[t]] = Append(@, cell[t])]
  /\ Leave(t)
  /\ UNCHANGED <<next, client>>

PushRetryStale(t) ==             \* the head is not read again
  pc[t] = "push_cas" /\ Cas2Fails(t) /\ UNCHANGED vars

PushRetry(t) == pc[t] = "push_cas" /\ Cas2Fails(t) /\ Retry(t, "push_ptr")

(***************************************************************************)
(* pop                                                                     *)
(***************************************************************************)
CallPop(t) == \E s \in Stacks :
  /\ pc[t] = "idle"
  /\ head[s].val < MaxVal
  /\ Goto(t, "pop_ptr")
  /\ at' = [at EXCEPT ![t] = s]
  /\ UNCHANGED <<head, next, cell, ptr, cnt, nxt, client, stk>>

PopReadPtrUnchecked(t) == pc[t] = "pop_ptr" /\ ReadPtr(t, "pop_val")

PopReadPtr(t) ==
  /\ pc[t] = "pop_ptr"
  /\ head[at[t]].ptr # NULL
  /\ ReadPtr(t, "pop_val")

(* cell_ptr == 0: the stack is empty and pop returns 0.                    *)
PopEmpty(t) ==
  /\ pc[t] = "pop_ptr"
  /\ head[at[t]].ptr = NULL
  /\ Leave(t)
  /\ UNCHANGED <<head, next, client, stk>>

PopReadVal(t) == pc[t] = "pop_val" /\ ReadVal(t, "pop_next")

PopReadNextClears(t) ==          \* the link is cleared before the cas2
  /\ pc[t] = "pop_next"
  /\ nxt' = [nxt EXCEPT ![t] = next[ptr[t]]]
  /\ next' = [next EXCEPT ![ptr[t]] = NULL]
  /\ Goto(t, "pop_cas")
  /\ UNCHANGED <<head, at, cell, ptr, cnt, client, stk>>

(* The cell may have left the stack since its address was read.            *)
PopReadNext(t) ==
  /\ pc[t] = "pop_next"
  /\ nxt' = [nxt EXCEPT ![t] = next[ptr[t]]]
  /\ Goto(t, "pop_cas")
  /\ UNCHANGED <<head, next, at, cell, ptr, cnt, client, stk>>

PopCas(t) ==
  /\ pc[t] = "pop_cas"
  /\ Cas2(t, nxt[t])
  /\ stk' = [stk EXCEPT ![at[t]] = SubSeq(@, 1, Len(@) - 1)]
  /\ Goto(t, "pop_clear")
  /\ UNCHANGED <<next, at, cell, ptr, cnt, nxt, client>>

PopGivesUp(t) ==                 \* a lost race is taken for an empty stack
  pc[t] = "pop_cas" /\ Cas2Fails(t) /\ Leave(t) /\ UNCHANGED <<head, next, client, stk>>

PopRetry(t) == pc[t] = "pop_cas" /\ Cas2Fails(t) /\ Retry(t, "pop_ptr")

(* cell_ptr->_next_ptr = 0, then pop returns cell_ptr.                     *)
PopClear(t) ==
  /\ pc[t] = "pop_clear"
  /\ next' = [next EXCEPT ![ptr[t]] = NULL]
  /\ client' = client \cup {ptr[t]}
  /\ Leave(t)
  /\ UNCHANGED <<head, stk>>

Step(t) ==
  \/ PushReadPtr(t) \/ PushReadVal(t) \/ PushLink(t) \/ PushCas(t) \/ PushRetry(t)
  \/ PopReadPtr(t) \/ PopEmpty(t) \/ PopReadVal(t) \/ PopReadNext(t)
  \/ PopCas(t) \/ PopRetry(t) \/ PopClear(t)

Next == \E t \in Threads : CallPush(t) \/ CallPop(t) \/ Step(t)

Spec == Init /\ [][Next]_vars

(* A thread inside a call goes on running; nothing makes it call.          *)
FairSpec == Spec /\ \A t \in Threads : WF_vars(Step(t))

(***************************************************************************)
(* What the stack must keep true                                           *)
(***************************************************************************)
(* The variables hold values of the types the class declares.              *)
TypeOK ==
  /\ head \in [Stacks -> [ptr : Cells \cup {NULL}, val : Nat]]
  /\ next \in [Cells -> Cells \cup {NULL}]
  /\ pc \in [Threads -> {"idle", "pop_clear"} \cup PushPcs \cup PopPcs]
  /\ at \in [Threads -> Stacks \cup {NULL}]
  /\ cell \in [Threads -> Cells \cup {NULL}]
  /\ ptr \in [Threads -> Cells \cup {NULL}]
  /\ cnt \in [Threads -> Nat]
  /\ nxt \in [Threads -> Cells \cup {NULL}]
  /\ client \in SUBSET Cells
  /\ stk \in [Stacks -> Seq(Cells)]
  /\ \A t \in Threads :
       /\ pc[t] # "idle" => at[t] \in Stacks
       /\ pc[t] \in PushPcs => cell[t] \in Cells
       /\ pc[t] \in {"pop_val", "pop_next", "pop_cas", "pop_clear"} => ptr[t] \in Cells

(* The cell a thread has in hand inside a call: the argument of its push,  *)
(* or the cell its pop has unlinked and not returned yet.                  *)
Held(t) == IF pc[t] \in PushPcs THEN cell[t]
           ELSE IF pc[t] = "pop_clear" THEN ptr[t]
           ELSE NULL

Top(s) == IF stk[s] = <<>> THEN NULL ELSE stk[s][Len(stk[s])]

IsStacked(c) == \E s \in Stacks : \E i \in 1..Len(stk[s]) : stk[s][i] = c

(* Following the _next_ptr links from the head visits exactly the cells    *)
(* pushed and not popped, the last one pushed first, and ends on 0: pushes *)
(* and pops that overlap lose no part of the chain and tie no loop in it.  *)
HeadsList == \A s \in Stacks :
  /\ head[s].ptr = Top(s)
  /\ \A i \in 1..Len(stk[s]) :
       next[stk[s][i]] = IF i = 1 THEN NULL ELSE stk[s][i - 1]

(* A cell is in exactly one place: in one stack, once, or in the hands of  *)
(* one thread inside push or pop, or with the program.  Two pops never     *)
(* return the same cell, and no cell is lost between two stacks.           *)
OnePlace ==
  /\ \A s, u \in Stacks : \A i \in 1..Len(stk[s]), j \in 1..Len(stk[u]) :
       stk[s][i] = stk[u][j] => s = u /\ i = j
  /\ \A t, u \in Threads : Held(t) # NULL /\ Held(t) = Held(u) => t = u
  /\ \A c \in client : ~IsStacked(c) /\ \A t \in Threads : Held(t) # c
  /\ \A c \in Cells : IsStacked(c) => \A t \in Threads : Held(t) # c
  /\ \A c \in Cells : c \in client \/ IsStacked(c) \/ \E t \in Threads : Held(t) = c

(* The modification count is what makes the pair safe: if the head still   *)
(* equals the pair pop read, however often the cell was popped, recycled   *)
(* through other stacks and pushed again meanwhile, the link pop read in   *)
(* between is still the link of that cell.  A cell about to be pushed is   *)
(* linked to the head its thread read.                                     *)
CasSound == \A t \in Threads :
  /\ pc[t] = "pop_cas" /\ HeadIsAsRead(t) => nxt[t] = next[ptr[t]]
  /\ pc[t] = "push_cas" => next[cell[t]] = ptr[t]

(* A count once read never lies ahead of the head.                         *)
CountPast == \A t \in Threads :
  pc[t] \in {"push_link", "push_cas", "pop_next", "pop_cas"}
    => cnt[t] <= head[at[t]].val

IInv == TypeOK /\ HeadsList /\ OnePlace /\ CasSound /\ CountPast

(* While a cell is in a stack nobody writes its link: the threads that     *)
(* walk over it, late ones included, may read it without a lock.           *)
LinkUnwritten == \A c \in Cells : IsStacked(c) /\ IsStacked(c)' => next'[c] = next[c]
LinkKept == [][LinkUnwritten]_vars

(* The calls take effect one at a time, as AtomicStack says: push at its   *)
(* successful cas2, pop at its own or at the read that finds no cell.      *)
AbsOp == [t \in Threads |->
  IF pc[t] \in PushPcs THEN [kind |-> "push", at |-> at[t], cell |-> cell[t]]
  ELSE IF pc[t] \in PopPcs THEN [kind |-> "pop", at |-> at[t]]
  ELSE IF pc[t] = "pop_clear" THEN [kind |-> "popped", cell |-> ptr[t]]
  ELSE [kind |-> "none"]]

Atomic == INSTANCE AtomicStack WITH op <- AbsOp

Linearizable == Atomic!AbsSpec

(* A thread can be made to start again only by another thread's success,   *)
(* so once the others stop succeeding every call returns.                  *)
CallReturns == \A t \in Threads : pc[t] # "idle" ~> pc[t] = "idle"
=============================================================================
