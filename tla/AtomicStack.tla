---------------------------- MODULE AtomicStack ----------------------------
(***************************************************************************)
(* What conc::LockFreeStack promises to the threads that share it: every   *)
(* push and every pop takes effect at one instant between its call and its *)
(* return, the stacks are last-in first-out, and pop answers 0 only at an  *)
(* instant when the stack is empty.                                        *)
(*                                                                         *)
(* Several stacks exchange the same cells, as the three stacks of an       *)
(* ObjPool do (_cell_stack of its CellPool, _stack_free and _stack_all).   *)
(***************************************************************************)
EXTENDS Integers, Sequences

CONSTANTS
  Threads,  \* the threads that call push and pop
  Cells,    \* the LockFreeCell objects, each owned by the program at first
  Stacks    \* the LockFreeStack objects the cells travel between

VARIABLES
  stk,      \* stk[s]: the cells of stack s, the bottom first
  client,   \* the cells in the hands of the program, outside any call
  op        \* op[t]: the call thread t is executing

absVars == <<stk, client, op>>

NoOp == [kind |-> "none"]
PushOp(s, c) == [kind |-> "push", at |-> s, cell |-> c]
PopOp(s) == [kind |-> "pop", at |-> s]
PoppedOp(c) == [kind |-> "popped", cell |-> c]

AbsInit == /\ stk = [s \in Stacks |-> <<>>]
           /\ client = Cells
           /\ op = [t \in Threads |-> NoOp]

(* The caller gives a cell it holds to push: it may not touch it any more. *)
CallPush(t) == \E s \in Stacks, c \in client :
  /\ op[t] = NoOp
  /\ op' = [op EXCEPT ![t] = PushOp(s, c)]
  /\ client' = client \ {c}
  /\ UNCHANGED stk

(* The cell is on top of the stack, and push is over.                      *)
TakeEffectPush(t) == \E s \in Stacks, c \in Cells :
  /\ op[t] = PushOp(s, c)
  /\ op' = [op EXCEPT ![t] = NoOp]
  /\ stk' = [stk EXCEPT ![s] = Append(@, c)]
  /\ UNCHANGED client

CallPop(t) == \E s \in Stacks :
  /\ op[t] = NoOp
  /\ op' = [op EXCEPT ![t] = PopOp(s)]
  /\ UNCHANGED <<stk, client>>

TakeEffectPop(t) == \E s \in Stacks :
  /\ op[t] = PopOp(s)
  /\ stk[s] # <<>>
  /\ op' = [op EXCEPT ![t] = PoppedOp(stk[s][Len(stk[s])])]
  /\ stk' = [stk EXCEPT ![s] = SubSeq(@, 1, Len(@) - 1)]
  /\ UNCHANGED client

PopFindsEmpty(t) == \E s \in Stacks :
  /\ op[t] = PopOp(s)
  /\ stk[s] = <<>>
  /\ op' = [op EXCEPT ![t] = NoOp]
  /\ UNCHANGED <<stk, client>>

(* pop returns, and the cell belongs to the program again.                 *)
ReturnPop(t) == \E c \in Cells :
  /\ op[t] = PoppedOp(c)
  /\ op' = [op EXCEPT ![t] = NoOp]
  /\ client' = client \cup {c}
  /\ UNCHANGED stk

AbsNext == \E t \in Threads :
  \/ CallPush(t) \/ TakeEffectPush(t)
  \/ CallPop(t) \/ TakeEffectPop(t) \/ PopFindsEmpty(t) \/ ReturnPop(t)

AbsSpec == AbsInit /\ [][AbsNext]_absVars
=============================================================================
