------------------------ MODULE LockFreeStackProofs ------------------------
(***************************************************************************)
(* Theorems about LockFreeStack, for every set of threads, cells and       *)
(* stacks, with strong and weak compare-and-swap.                          *)
(***************************************************************************)
EXTENDS LockFreeStack, TLAPS, SequenceTheorems

(* A stack is empty when it has no cell.                                   *)
LEMMA EmptyIff ==
  ASSUME NEW S, NEW q \in Seq(S)
  PROVE  q = <<>> <=> Len(q) = 0
BY EmptySeq

(* push appends one cell to what the stack held.                           *)
LEMMA AppendFacts ==
  ASSUME NEW S, NEW q \in Seq(S), NEW e \in S
  PROVE /\ Append(q, e) \in Seq(S)
        /\ Len(Append(q, e)) = Len(q) + 1
        /\ Append(q, e) # <<>>
        /\ Append(q, e)[Len(q) + 1] = e
        /\ \A i \in 1..Len(q) : Append(q, e)[i] = q[i]
BY AppendProperties

(* pop takes off the last cell, and nothing else moves.                    *)
LEMMA ButLastFacts ==
  ASSUME NEW S, NEW q \in Seq(S), q # <<>>
  PROVE /\ SubSeq(q, 1, Len(q) - 1) \in Seq(S)
        /\ Len(SubSeq(q, 1, Len(q) - 1)) = Len(q) - 1
        /\ \A i \in 1..Len(q) - 1 : SubSeq(q, 1, Len(q) - 1)[i] = q[i]
<1>. DEFINE n == Len(q) - 1
            r == SubSeq(q, 1, n)
<1>1. Len(q) \in Nat /\ Len(q) # 0
  BY EmptySeq, LenProperties
<1>2. 1 \in 1..Len(q) + 1 /\ n \in (1 - 1)..Len(q)
  BY <1>1
<1>3. r \in Seq(S) /\ Len(r) = n /\ \A i \in 1..n : r[i] = q[i]
  <2>. HIDE DEF n
  <2>1. r \in Seq(S) /\ Len(r) = (IF 1 <= n THEN n - 1 + 1 ELSE 0)
        /\ \A i \in 1..n - 1 + 1 : r[i] = q[1 + i - 1]
    BY <1>2, SubSeqProperties
  <2>. QED  BY <1>1, <1>2, <2>1
<1>. QED  BY <1>3

-----------------------------------------------------------------------------
(* The variables keep their types, whatever the threads do.                *)
LEMMA TypeInit == Init => TypeOK
BY StackAssumption, EmptySeq DEF Init, TypeOK, PushPcs, PopPcs

\* Every step keeps the types.
LEMMA TypeStep ==
  ASSUME TypeOK, [Next]_vars
  PROVE  TypeOK'
<1>. USE StackAssumption DEF TypeOK, PushPcs, PopPcs, Goto
<1>1. CASE UNCHANGED vars
  BY <1>1 DEF vars
<1>2. ASSUME NEW t \in Threads, CallPush(t)  PROVE TypeOK'
  BY <1>2 DEF CallPush
<1>3. ASSUME NEW t \in Threads, CallPop(t)  PROVE TypeOK'
  BY <1>3 DEF CallPop
<1>4. ASSUME NEW t \in Threads, PushReadPtr(t)  PROVE TypeOK'
  BY <1>4 DEF PushReadPtr, ReadPtr
<1>5. ASSUME NEW t \in Threads, PushReadVal(t)  PROVE TypeOK'
  BY <1>5 DEF PushReadVal, ReadVal
<1>6. ASSUME NEW t \in Threads, PushLink(t)  PROVE TypeOK'
  BY <1>6 DEF PushLink
<1>7. ASSUME NEW t \in Threads, PushCas(t)  PROVE TypeOK'
  <2>1. Append(stk[at[t]], cell[t]) \in Seq(Cells)
    BY <1>7, AppendFacts DEF PushCas
  <2>. QED  BY <1>7, <2>1 DEF PushCas, Cas2, Leave
<1>8. ASSUME NEW t \in Threads, PushRetry(t)  PROVE TypeOK'
  BY <1>8 DEF PushRetry, Retry
<1>9. ASSUME NEW t \in Threads, PopReadPtr(t)  PROVE TypeOK'
  BY <1>9 DEF PopReadPtr, ReadPtr
<1>10. ASSUME NEW t \in Threads, PopEmpty(t)  PROVE TypeOK'
  BY <1>10 DEF PopEmpty, Leave
<1>11. ASSUME NEW t \in Threads, PopReadVal(t)  PROVE TypeOK'
  BY <1>11 DEF PopReadVal, ReadVal
<1>12. ASSUME NEW t \in Threads, PopReadNext(t)  PROVE TypeOK'
  BY <1>12 DEF PopReadNext
<1>13. ASSUME NEW t \in Threads, PopCas(t)  PROVE TypeOK'
  <2>1. SubSeq(stk[at[t]], 1, Len(stk[at[t]]) - 1) \in Seq(Cells)
    BY <1>13 DEF PopCas
  <2>. QED  BY <1>13, <2>1 DEF PopCas, Cas2
<1>14. ASSUME NEW t \in Threads, PopRetry(t)  PROVE TypeOK'
  BY <1>14 DEF PopRetry, Retry
<1>15. ASSUME NEW t \in Threads, PopClear(t)  PROVE TypeOK'
  BY <1>15 DEF PopClear, Leave
<1>. QED
  BY <1>1, <1>2, <1>3, <1>4, <1>5, <1>6, <1>7, <1>8, <1>9, <1>10, <1>11,
     <1>12, <1>13, <1>14, <1>15 DEF Next, Step

(* Type correctness of the stack's memory and of its threads' locals.      *)
THEOREM TypeCorrect == Spec => []TypeOK
BY TypeInit, TypeStep, PTL DEF Spec

-----------------------------------------------------------------------------
(* The safety of the stack.  The chain, the ownership of the cells and the *)
(* soundness of the compare-and-swap support one another: a popper's link  *)
(* is current because only the owner of a cell writes its link, and a cell *)
(* has one owner because the cas2 unlinks exactly the top of the chain.    *)

\* The invariant holds of the stacks as they are constructed.
LEMMA InvInit == Init => IInv
BY TypeInit, StackAssumption, EmptySeq
   DEF Init, IInv, HeadsList, OnePlace, CasSound, CountPast, IsStacked, Held, Top,
       PushPcs

(* A step inside one thread that writes no shared word.                    *)
LEMMA QuietStep ==
  ASSUME HeadsList, OnePlace, UNCHANGED <<head, next, stk, client>>,
         \A u \in Threads : Held(u)' = Held(u)
  PROVE  HeadsList' /\ OnePlace'
<1>1. HeadsList'
  BY DEF HeadsList, Top
<1>2. \A c : IsStacked(c)' = IsStacked(c)
  BY DEF IsStacked
<1>3. OnePlace'
  BY <1>2 DEF OnePlace
<1>. QED  BY <1>1, <1>3

(* A call begins, a thread reads a word, or it loses the race and retries. *)
Reads(t) == \/ CallPop(t) \/ PushReadPtr(t) \/ PushReadVal(t) \/ PushRetry(t)
            \/ PopReadPtr(t) \/ PopEmpty(t) \/ PopReadVal(t) \/ PopReadNext(t)
            \/ PopRetry(t)

\* Reading moves no cell.
LEMMA ReadsStep ==
  ASSUME IInv, NEW t \in Threads, Reads(t)
  PROVE  HeadsList' /\ OnePlace' /\ CasSound' /\ CountPast'
<1>. USE DEF IInv, TypeOK, PushPcs, PopPcs, Goto, Reads, CallPop, PushReadPtr,
         PushReadVal, PushRetry, PopReadPtr, PopEmpty, PopReadVal, PopReadNext,
         PopRetry, ReadPtr, ReadVal, Retry, Leave
<1>1. UNCHANGED <<head, next, stk, client>>
  OBVIOUS
<1>2. \A u \in Threads : Held(u)' = Held(u)
  BY StackAssumption DEF Held
<1>3. CasSound'
  BY <1>1 DEF CasSound, HeadIsAsRead
<1>4. CountPast'
  BY <1>1 DEF CountPast
<1>. QED  BY <1>1, <1>2, <1>3, <1>4, QuietStep

(* push receives a cell: it moves from the program to the thread.          *)
LEMMA CallPushStep ==
  ASSUME IInv, NEW t \in Threads, CallPush(t)
  PROVE  HeadsList' /\ OnePlace' /\ CasSound' /\ CountPast'
<1>. USE StackAssumption DEF IInv, TypeOK, PushPcs, PopPcs, Goto, CallPush
<1>1. PICK c \in client : Held(t) = NULL /\ Held(t)' = c /\ client' = client \ {c}
  BY DEF Held
<1>2. \A u \in Threads \ {t} : Held(u)' = Held(u)
  BY DEF Held
<1>3. \A d : IsStacked(d)' = IsStacked(d)
  BY DEF IsStacked
<1>4. HeadsList'
  BY DEF HeadsList, Top
<1>5. OnePlace'
  <2>. USE <1>1, <1>2, <1>3 DEF OnePlace
  <2>1. \A s, u \in Stacks : \A i \in 1..Len(stk'[s]), j \in 1..Len(stk'[u]) :
          stk'[s][i] = stk'[u][j] => s = u /\ i = j
    OBVIOUS
  <2>2. \A u, v \in Threads : Held(u)' # NULL /\ Held(u)' = Held(v)' => u = v
    OBVIOUS
  <2>3. \A d \in client' : ~IsStacked(d)' /\ \A u \in Threads : Held(u)' # d
    OBVIOUS
  <2>4. \A d \in Cells : IsStacked(d)' => \A u \in Threads : Held(u)' # d
    OBVIOUS
  <2>5. \A d \in Cells : d \in client' \/ IsStacked(d)'
                           \/ \E u \in Threads : Held(u)' = d
    OBVIOUS
  <2>. QED  BY <2>1, <2>2, <2>3, <2>4, <2>5
<1>6. CasSound'
  BY DEF CasSound, HeadIsAsRead
<1>7. CountPast'
  BY DEF CountPast
<1>. QED  BY <1>4, <1>5, <1>6, <1>7

(* push links its cell: nobody else looks at that cell's link.             *)
LEMMA PushLinkStep ==
  ASSUME IInv, NEW t \in Threads, PushLink(t)
  PROVE  HeadsList' /\ OnePlace' /\ CasSound' /\ CountPast'
<1>. USE StackAssumption DEF IInv, TypeOK, PushPcs, PopPcs, Goto, PushLink
<1>1. \A u \in Threads : Held(u)' = Held(u)
  BY DEF Held
<1>2. Held(t) = cell[t] /\ cell[t] \in Cells /\ cell[t] # NULL
  BY DEF Held
<1>3. \A c : IsStacked(c)' = IsStacked(c)
  BY DEF IsStacked
<1>4. \A c \in Cells : c # cell[t] => next'[c] = next[c]
  OBVIOUS
<1>5. \A s \in Stacks : \A i \in 1..Len(stk[s]) : stk[s][i] \in Cells /\ stk[s][i] # cell[t]
  BY <1>2, ElementOfSeq DEF OnePlace, IsStacked
<1>6. HeadsList'
  BY <1>4, <1>5 DEF HeadsList, Top
<1>7. OnePlace'
  BY <1>1, <1>3 DEF OnePlace
<1>8. CasSound'
  <2>. SUFFICES ASSUME NEW u \in Threads
                PROVE  /\ pc'[u] = "pop_cas" /\ HeadIsAsRead(u)' => nxt'[u] = next'[ptr'[u]]
                       /\ pc'[u] = "push_cas" => next'[cell'[u]] = ptr'[u]
    BY DEF CasSound
  <2>1. CASE u = t
    BY <2>1
  <2>2. CASE u # t /\ pc[u] = "push_cas"
    <3>1. Held(u) = cell[u] /\ cell[u] # cell[t] /\ cell[u] \in Cells
      BY <1>2, <2>2 DEF Held, OnePlace
    <3>. QED  BY <1>4, <2>2, <3>1 DEF CasSound
  <2>3. CASE u # t /\ pc[u] = "pop_cas" /\ HeadIsAsRead(u)
    <3>1. ptr[u] = Top(at[u]) /\ ptr[u] \in Cells /\ at[u] \in Stacks
      BY <2>3 DEF HeadsList, HeadIsAsRead
    <3>2. stk[at[u]] # <<>> /\ ptr[u] = stk[at[u]][Len(stk[at[u]])]
      BY <3>1 DEF Top
    <3>3. Len(stk[at[u]]) \in 1..Len(stk[at[u]])
      BY <3>1, <3>2, LenProperties, EmptySeq
    <3>4. ptr[u] # cell[t]
      BY <1>5, <3>1, <3>2, <3>3
    <3>. QED  BY <1>4, <2>3, <3>1, <3>4 DEF CasSound
  <2>4. CASE u # t /\ ~(pc[u] = "push_cas") /\ ~(pc[u] = "pop_cas" /\ HeadIsAsRead(u))
    BY <2>4 DEF HeadIsAsRead
  <2>. QED  BY <2>1, <2>2, <2>3, <2>4
<1>9. CountPast'
  BY DEF CountPast
<1>. QED  BY <1>6, <1>7, <1>8, <1>9

(* A successful cas2 outdates every count read before it on that stack, so *)
(* no other thread's cas2 can succeed on what it has read.                 *)
LEMMA CasOutdates ==
  ASSUME IInv, NEW t \in Threads, pc[t] \in {"push_cas", "pop_cas"},
         NEW p, Cas2(t, p), next' = next,
         pc'[t] \in {"idle", "pop_clear"},
         \A u \in Threads \ {t} :
           /\ pc'[u] = pc[u] /\ at'[u] = at[u] /\ cell'[u] = cell[u]
           /\ ptr'[u] = ptr[u] /\ cnt'[u] = cnt[u] /\ nxt'[u] = nxt[u]
  PROVE  CasSound' /\ CountPast'
<1>. USE DEF IInv, TypeOK, PushPcs, PopPcs
<1>1. head[at[t]].val = cnt[t] /\ at[t] \in Stacks
  BY DEF Cas2, HeadIsAsRead
<1>2. /\ head'[at[t]] = [ptr |-> p, val |-> head[at[t]].val + 1]
      /\ \A s \in Stacks \ {at[t]} : head'[s] = head[s]
  BY <1>1 DEF Cas2
<1>3. \A s \in Stacks : head[s].val \in Nat
  OBVIOUS
<1>4. CountPast'
  <2>. SUFFICES ASSUME NEW u \in Threads,
                       pc'[u] \in {"push_link", "push_cas", "pop_next", "pop_cas"}
                PROVE  cnt'[u] <= head'[at'[u]].val
    BY DEF CountPast
  <2>1. u # t /\ pc[u] = pc'[u] /\ at'[u] = at[u] /\ cnt'[u] = cnt[u]
    OBVIOUS
  <2>2. at[u] \in Stacks /\ cnt[u] \in Nat /\ cnt[u] <= head[at[u]].val
    BY <2>1 DEF CountPast
  <2>3. head'[at[t]].val = head[at[t]].val + 1
    BY <1>2
  <2>4. CASE at[u] = at[t]
    BY <1>1, <1>3, <2>1, <2>2, <2>3, <2>4
  <2>5. CASE at[u] # at[t]
    BY <1>2, <2>1, <2>2, <2>5
  <2>. QED  BY <2>4, <2>5
<1>5. CasSound'
  <2>. SUFFICES ASSUME NEW u \in Threads
                PROVE  /\ pc'[u] = "pop_cas" /\ HeadIsAsRead(u)' => nxt'[u] = next'[ptr'[u]]
                       /\ pc'[u] = "push_cas" => next'[cell'[u]] = ptr'[u]
    BY DEF CasSound
  <2>1. CASE u = t
    BY <2>1
  <2>2. CASE u # t /\ at[u] = at[t]
    <3>1. pc[u] = "pop_cas" => cnt[u] <= head[at[t]].val
      BY <2>2 DEF CountPast
    <3>2. head'[at[t]].val = head[at[t]].val + 1 /\ head[at[t]].val \in Nat /\ cnt[u] \in Nat
      BY <1>1, <1>2, <1>3
    <3>3. pc[u] = "pop_cas" => head'[at'[u]].val # cnt'[u]
      BY <2>2, <3>1, <3>2
    <3>4. pc[u] = "pop_cas" => ~HeadIsAsRead(u)'
      BY <3>3 DEF HeadIsAsRead
    <3>. QED  BY <2>2, <3>4 DEF CasSound
  <2>3. CASE u # t /\ at[u] # at[t]
    <3>1. pc[u] # "idle" => HeadIsAsRead(u)' = HeadIsAsRead(u)
      BY <1>2, <2>3 DEF HeadIsAsRead
    <3>. QED  BY <2>3, <3>1 DEF CasSound
  <2>. QED  BY <2>1, <2>2, <2>3
<1>. QED  BY <1>4, <1>5

(* push takes effect: the thread's cell becomes the top of the chain.      *)
LEMMA PushCasStep ==
  ASSUME IInv, NEW t \in Threads, PushCas(t)
  PROVE  HeadsList' /\ OnePlace' /\ CasSound' /\ CountPast'
<1>. DEFINE s == at[t]
            c == cell[t]
            n == Len(stk[s])
<1>. USE StackAssumption DEF IInv, TypeOK, PushPcs, PopPcs, Goto, PushCas, Leave
<1>1. /\ s \in Stacks /\ c \in Cells /\ c # NULL /\ stk[s] \in Seq(Cells) /\ n \in Nat
      /\ Held(t) = c /\ Held(t)' = NULL
      /\ \A u \in Threads \ {t} : Held(u)' = Held(u)
  BY LenProperties DEF Held
<1>2. /\ head' = [head EXCEPT ![s] = [ptr |-> c, val |-> cnt[t] + 1]]
      /\ head[s].ptr = ptr[t]
  BY DEF Cas2, HeadIsAsRead
<1>3. /\ stk'[s] = Append(stk[s], c)
      /\ Len(stk'[s]) = n + 1 /\ stk'[s] # <<>>
      /\ stk'[s][n + 1] = c
      /\ \A i \in 1..n : stk'[s][i] = stk[s][i]
      /\ \A r \in Stacks \ {s} : stk'[r] = stk[r]
  <2>1. stk'[s] = Append(stk[s], c) /\ \A r \in Stacks \ {s} : stk'[r] = stk[r]
    BY <1>1
  <2>. QED  BY <1>1, <2>1, AppendFacts
<1>4. next[c] = IF n = 0 THEN NULL ELSE stk[s][n]
  <2>1. next[c] = Top(s)
    BY <1>2 DEF CasSound, HeadsList
  <2>2. stk[s] = <<>> <=> n = 0
    BY <1>1, EmptySeq
  <2>. QED  BY <2>1, <2>2 DEF Top
<1>5. HeadsList'
  <2>. SUFFICES ASSUME NEW r \in Stacks
                PROVE  /\ head'[r].ptr = Top(r)'
                       /\ \A i \in 1..Len(stk'[r]) :
                            next'[stk'[r][i]] = IF i = 1 THEN NULL ELSE stk'[r][i - 1]
    BY DEF HeadsList
  <2>1. CASE r = s
    <3>1. head'[r].ptr = Top(r)'
      BY <1>1, <1>2, <1>3, <2>1 DEF Top
    <3>2. ASSUME NEW i \in 1..n  PROVE next[stk[s][i]] = IF i = 1 THEN NULL ELSE stk[s][i - 1]
      BY <1>1 DEF HeadsList
    <3>. QED  BY <1>1, <1>3, <1>4, <2>1, <3>1, <3>2
  <2>2. CASE r # s
    BY <1>2, <1>3, <2>2 DEF HeadsList, Top
  <2>. QED  BY <2>1, <2>2
<1>6. \A d : IsStacked(d)' <=> IsStacked(d) \/ d = c
  BY <1>1, <1>3 DEF IsStacked
<1>7. OnePlace'
  <2>1. \A i \in 1..n : stk[s][i] # c
    BY <1>1 DEF OnePlace, IsStacked
  <2>2. \A r \in Stacks \ {s} : \A i \in 1..Len(stk[r]) : stk[r][i] # c
    BY <1>1 DEF OnePlace, IsStacked
  <2>3. \A r, u \in Stacks : \A i \in 1..Len(stk'[r]), j \in 1..Len(stk'[u]) :
          stk'[r][i] = stk'[u][j] => r = u /\ i = j
    BY <1>1, <1>3, <2>1, <2>2 DEF OnePlace
  <2>4. \A u, v \in Threads : Held(u)' # NULL /\ Held(u)' = Held(v)' => u = v
    BY <1>1 DEF OnePlace
  <2>5. \A d \in client' : ~IsStacked(d)' /\ \A u \in Threads : Held(u)' # d
    BY <1>1, <1>6 DEF OnePlace
  <2>6. ASSUME NEW d \in Cells, IsStacked(d)', NEW u \in Threads  PROVE Held(u)' # d
    <3>1. CASE u = t
      BY <1>1, <2>6, <3>1
    <3>2. CASE u # t
      BY <1>1, <1>6, <2>6, <3>2 DEF OnePlace
    <3>. QED  BY <3>1, <3>2
  <2>7. \A d \in Cells : d \in client' \/ IsStacked(d)' \/ \E u \in Threads : Held(u)' = d
    BY <1>1, <1>6 DEF OnePlace
  <2>. QED  BY <2>3, <2>4, <2>5, <2>6, <2>7 DEF OnePlace
<1>. QED  BY <1>5, <1>7, CasOutdates

(* pop takes effect: the top of the chain moves to the thread, and the     *)
(* link it read is the new head.                                           *)
LEMMA PopCasStep ==
  ASSUME IInv, NEW t \in Threads, PopCas(t)
  PROVE  HeadsList' /\ OnePlace' /\ CasSound' /\ CountPast'
<1>. DEFINE s == at[t]
            c == ptr[t]
            n == Len(stk[s])
<1>. USE StackAssumption DEF IInv, TypeOK, PushPcs, PopPcs, Goto, PopCas
<1>1. /\ s \in Stacks /\ c \in Cells /\ c # NULL /\ stk[s] \in Seq(Cells) /\ n \in Nat
      /\ Held(t) = NULL /\ Held(t)' = c
      /\ \A u \in Threads \ {t} : Held(u)' = Held(u)
  BY LenProperties DEF Held
<1>2. /\ head' = [head EXCEPT ![s] = [ptr |-> nxt[t], val |-> cnt[t] + 1]]
      /\ c = Top(s) /\ nxt[t] = next[c]
  BY DEF Cas2, HeadIsAsRead, HeadsList, CasSound
<1>3. stk[s] # <<>> /\ n # 0 /\ c = stk[s][n] /\ n \in 1..n
  BY <1>1, <1>2, EmptySeq DEF Top
<1>4. /\ stk'[s] \in Seq(Cells)
      /\ Len(stk'[s]) = n - 1
      /\ \A i \in 1..n - 1 : stk'[s][i] = stk[s][i]
      /\ \A r \in Stacks \ {s} : stk'[r] = stk[r]
  <2>1. /\ stk'[s] = SubSeq(stk[s], 1, n - 1)
        /\ \A r \in Stacks \ {s} : stk'[r] = stk[r]
    BY <1>1
  <2>. QED  BY <1>1, <1>3, <2>1, ButLastFacts
<1>5. nxt[t] = IF n = 1 THEN NULL ELSE stk[s][n - 1]
  <2>1. \A i \in 1..n : next[stk[s][i]] = IF i = 1 THEN NULL ELSE stk[s][i - 1]
    BY <1>1 DEF HeadsList
  <2>2. next[stk[s][n]] = IF n = 1 THEN NULL ELSE stk[s][n - 1]
    BY <1>3, <2>1
  <2>. QED  BY <1>2, <1>3, <2>2
<1>6. HeadsList'
  <2>. SUFFICES ASSUME NEW r \in Stacks
                PROVE  /\ head'[r].ptr = Top(r)'
                       /\ \A i \in 1..Len(stk'[r]) :
                            next'[stk'[r][i]] = IF i = 1 THEN NULL ELSE stk'[r][i - 1]
    BY DEF HeadsList
  <2>1. CASE r = s
    <3>1. stk'[s] = <<>> <=> n = 1
      <4>1. stk'[s] = <<>> <=> Len(stk'[s]) = 0
        BY <1>4, EmptyIff
      <4>. QED  BY <1>1, <1>4, <4>1
    <3>2. head'[s].ptr = nxt[t]
      BY <1>1, <1>2
    <3>3. head'[r].ptr = Top(r)'
      BY <1>1, <1>3, <1>4, <1>5, <2>1, <3>1, <3>2 DEF Top
    <3>4. ASSUME NEW i \in 1..n - 1
          PROVE  next'[stk'[s][i]] = IF i = 1 THEN NULL ELSE stk'[s][i - 1]
      <4>1. i \in 1..n /\ (i # 1 => i - 1 \in 1..n - 1)
        BY <1>1
      <4>2. next[stk[s][i]] = IF i = 1 THEN NULL ELSE stk[s][i - 1]
        BY <1>1, <4>1 DEF HeadsList
      <4>. QED  BY <1>4, <4>1, <4>2
    <3>. QED  BY <1>4, <2>1, <3>3, <3>4
  <2>2. CASE r # s
    BY <1>2, <1>4, <2>2 DEF HeadsList, Top
  <2>. QED  BY <2>1, <2>2
<1>7. \A i \in 1..n - 1 : stk[s][i] # c
  BY <1>1, <1>3 DEF OnePlace
<1>8. \A r \in Stacks \ {s} : \A i \in 1..Len(stk[r]) : stk[r][i] # c
  BY <1>1, <1>3 DEF OnePlace
<1>9. \A d : IsStacked(d)' <=> IsStacked(d) /\ d # c
  <2>1. ASSUME NEW d, IsStacked(d)'  PROVE IsStacked(d) /\ d # c
    BY <1>1, <1>4, <1>7, <1>8, <2>1 DEF IsStacked
  <2>2. ASSUME NEW d, IsStacked(d), d # c  PROVE IsStacked(d)'
    <3>1. PICK r \in Stacks : \E i \in 1..Len(stk[r]) : stk[r][i] = d
      BY <2>2 DEF IsStacked
    <3>2. CASE r = s
      <4>1. PICK i \in 1..n : stk[s][i] = d
        BY <3>1, <3>2
      <4>2. i \in 1..n - 1
        BY <1>1, <1>3, <2>2, <4>1
      <4>. QED  BY <1>1, <1>4, <4>1, <4>2 DEF IsStacked
    <3>3. CASE r # s
      BY <1>4, <3>1, <3>3 DEF IsStacked
    <3>. QED  BY <3>2, <3>3
  <2>. QED  BY <2>1, <2>2
<1>10. IsStacked(c)
  BY <1>1, <1>3 DEF IsStacked
<1>11. OnePlace'
  <2>1. \A r, u \in Stacks : \A i \in 1..Len(stk'[r]), j \in 1..Len(stk'[u]) :
          stk'[r][i] = stk'[u][j] => r = u /\ i = j
    BY <1>1, <1>4 DEF OnePlace
  <2>2. \A u \in Threads \ {t} : Held(u) # c
    BY <1>1, <1>10 DEF OnePlace
  <2>3. \A u, v \in Threads : Held(u)' # NULL /\ Held(u)' = Held(v)' => u = v
    BY <1>1, <2>2 DEF OnePlace
  <2>4. ASSUME NEW d \in client'  PROVE ~IsStacked(d)' /\ \A u \in Threads : Held(u)' # d
    <3>1. ~IsStacked(d) /\ ~IsStacked(d)' /\ d # c
      BY <1>9, <1>10, <2>4 DEF OnePlace
    <3>2. \A u \in Threads : Held(u) # d
      BY <2>4 DEF OnePlace
    <3>. QED  BY <1>1, <3>1, <3>2
  <2>5. ASSUME NEW d \in Cells, IsStacked(d)', NEW u \in Threads  PROVE Held(u)' # d
    <3>1. IsStacked(d) /\ d # c
      BY <1>9, <2>5
    <3>. QED  BY <1>1, <2>5, <3>1 DEF OnePlace
  <2>6. ASSUME NEW d \in Cells
        PROVE  d \in client' \/ IsStacked(d)' \/ \E u \in Threads : Held(u)' = d
    <3>1. CASE d = c
      BY <1>1, <3>1
    <3>2. CASE d # c /\ \E u \in Threads : Held(u) = d
      BY <1>1, <2>6, <3>2
    <3>3. CASE d # c /\ (d \in client \/ IsStacked(d))
      BY <1>9, <3>3
    <3>. QED  BY <2>6, <3>1, <3>2, <3>3 DEF OnePlace
  <2>. QED  BY <2>1, <2>3, <2>4, <2>5, <2>6 DEF OnePlace
<1>. QED  BY <1>6, <1>11, CasOutdates

(* pop cuts the link of the cell it unlinked and gives it to the program.  *)
LEMMA PopClearStep ==
  ASSUME IInv, NEW t \in Threads, PopClear(t)
  PROVE  HeadsList' /\ OnePlace' /\ CasSound' /\ CountPast'
<1>. DEFINE c == ptr[t]
<1>. USE StackAssumption DEF IInv, TypeOK, PushPcs, PopPcs, Goto, PopClear, Leave
<1>1. /\ c \in Cells /\ c # NULL
      /\ Held(t) = c /\ Held(t)' = NULL
      /\ \A u \in Threads \ {t} : Held(u)' = Held(u)
  BY DEF Held
<1>2. \A d : IsStacked(d)' = IsStacked(d)
  BY DEF IsStacked
<1>3. \A d \in Cells : d # c => next'[d] = next[d]
  BY <1>1
<1>4. \A s \in Stacks : \A i \in 1..Len(stk[s]) : stk[s][i] \in Cells /\ stk[s][i] # c
  BY <1>1, ElementOfSeq DEF OnePlace, IsStacked
<1>5. HeadsList'
  BY <1>3, <1>4 DEF HeadsList, Top
<1>6. OnePlace'
  <2>1. \A r, u \in Stacks : \A i \in 1..Len(stk'[r]), j \in 1..Len(stk'[u]) :
          stk'[r][i] = stk'[u][j] => r = u /\ i = j
    BY DEF OnePlace
  <2>2. \A u, v \in Threads : Held(u)' # NULL /\ Held(u)' = Held(v)' => u = v
    BY <1>1 DEF OnePlace
  <2>3. ASSUME NEW d \in client'  PROVE ~IsStacked(d)' /\ \A u \in Threads : Held(u)' # d
    <3>1. CASE d = c
      BY <1>1, <1>2, <3>1 DEF OnePlace
    <3>2. CASE d # c
      <4>1. d \in client /\ d # NULL
        BY <2>3, <3>2
      <4>. QED  BY <1>1, <1>2, <4>1 DEF OnePlace
    <3>. QED  BY <3>1, <3>2
  <2>4. ASSUME NEW d \in Cells, IsStacked(d)', NEW u \in Threads  PROVE Held(u)' # d
    BY <1>1, <1>2, <2>4 DEF OnePlace
  <2>5. ASSUME NEW d \in Cells
        PROVE  d \in client' \/ IsStacked(d)' \/ \E u \in Threads : Held(u)' = d
    <3>1. CASE d \in client \/ d = c \/ IsStacked(d)
      BY <1>2, <3>1
    <3>2. CASE d # c /\ \E u \in Threads : Held(u) = d
      BY <1>1, <3>2
    <3>. QED  BY <3>1, <3>2 DEF OnePlace
  <2>. QED  BY <2>1, <2>2, <2>3, <2>4, <2>5 DEF OnePlace
<1>7. CasSound'
  <2>. SUFFICES ASSUME NEW u \in Threads
                PROVE  /\ pc'[u] = "pop_cas" /\ HeadIsAsRead(u)' => nxt'[u] = next'[ptr'[u]]
                       /\ pc'[u] = "push_cas" => next'[cell'[u]] = ptr'[u]
    BY DEF CasSound
  <2>1. CASE u = t
    BY <2>1
  <2>2. CASE u # t /\ pc[u] = "push_cas"
    <3>1. Held(u) = cell[u] /\ cell[u] # c /\ cell[u] \in Cells
      BY <1>1, <2>2 DEF Held, OnePlace
    <3>. QED  BY <1>3, <2>2, <3>1 DEF CasSound
  <2>3. CASE u # t /\ pc[u] = "pop_cas" /\ HeadIsAsRead(u)
    <3>1. ptr[u] = Top(at[u]) /\ ptr[u] \in Cells /\ at[u] \in Stacks
      BY <2>3 DEF HeadsList, HeadIsAsRead
    <3>2. stk[at[u]] # <<>> /\ ptr[u] = stk[at[u]][Len(stk[at[u]])]
      BY <3>1 DEF Top
    <3>3. Len(stk[at[u]]) \in 1..Len(stk[at[u]])
      BY <3>1, <3>2, LenProperties, EmptySeq
    <3>4. ptr[u] # c
      BY <1>4, <3>1, <3>2, <3>3
    <3>. QED  BY <1>3, <2>3, <3>1, <3>4 DEF CasSound
  <2>4. CASE u # t /\ ~(pc[u] = "push_cas") /\ ~(pc[u] = "pop_cas" /\ HeadIsAsRead(u))
    BY <2>4 DEF HeadIsAsRead
  <2>. QED  BY <2>1, <2>2, <2>3, <2>4
<1>8. CountPast'
  BY DEF CountPast
<1>. QED  BY <1>5, <1>6, <1>7, <1>8

\* Every step keeps the invariant.
LEMMA InvStep ==
  ASSUME IInv, [Next]_vars
  PROVE  IInv'
<1>1. TypeOK'
  BY TypeStep DEF IInv
<1>2. CASE UNCHANGED vars
  BY <1>1, <1>2, QuietStep
     DEF vars, IInv, CasSound, CountPast, HeadIsAsRead, Held
<1>3. ASSUME NEW t \in Threads, Reads(t)  PROVE IInv'
  BY <1>1, <1>3, ReadsStep DEF IInv
<1>4. ASSUME NEW t \in Threads, CallPush(t)  PROVE IInv'
  BY <1>1, <1>4, CallPushStep DEF IInv
<1>5. ASSUME NEW t \in Threads, PushLink(t)  PROVE IInv'
  BY <1>1, <1>5, PushLinkStep DEF IInv
<1>6. ASSUME NEW t \in Threads, PushCas(t)  PROVE IInv'
  BY <1>1, <1>6, PushCasStep DEF IInv
<1>7. ASSUME NEW t \in Threads, PopCas(t)  PROVE IInv'
  BY <1>1, <1>7, PopCasStep DEF IInv
<1>8. ASSUME NEW t \in Threads, PopClear(t)  PROVE IInv'
  BY <1>1, <1>8, PopClearStep DEF IInv
<1>. QED
  BY <1>2, <1>3, <1>4, <1>5, <1>6, <1>7, <1>8 DEF Next, Step, Reads

\* The invariant, which the results below follow from.
THEOREM InvCorrect == Spec => []IInv
BY InvInit, InvStep, PTL DEF Spec

(* The links from every head spell out exactly the cells pushed and not    *)
(* popped, in order: no interleaving of push and pop breaks the chain.     *)
THEOREM ChainSafe == Spec => []HeadsList
BY InvCorrect, PTL DEF IInv

(* No cell is in two stacks, twice in one, returned by two pops or lost.   *)
THEOREM CellsSafe == Spec => []OnePlace
BY InvCorrect, PTL DEF IInv

(* A cas2 that succeeds installs a current link: no ABA, even when cells   *)
(* are recycled through other stacks under a suspended pop.                *)
THEOREM AbaFree == Spec => []CasSound
BY InvCorrect, PTL DEF IInv

-----------------------------------------------------------------------------
(* Only the thread that has a cell in hand writes its link.                *)
LEMMA LinkStep ==
  ASSUME IInv, [Next]_vars
  PROVE  [LinkUnwritten]_vars
<1>. USE DEF IInv, TypeOK
<1>1. SUFFICES ASSUME NEW t \in Threads, CallPush(t) \/ CallPop(t) \/ Step(t)
               PROVE  LinkUnwritten
  BY DEF Next
<1>2. CASE next' = next
  BY <1>2 DEF LinkUnwritten
<1>3. ASSUME NEW c \in Cells, next' = [next EXCEPT ![c] = next'[c]], Held(t) = c
      PROVE  LinkUnwritten
  <2>1. ~IsStacked(c)
    BY <1>3 DEF OnePlace
  <2>. QED  BY <1>3, <2>1 DEF LinkUnwritten
<1>4. CASE PushLink(t)
  <2>1. cell[t] \in Cells /\ Held(t) = cell[t]
    BY <1>4 DEF PushLink, Held, PushPcs
  <2>2. next' = [next EXCEPT ![cell[t]] = next'[cell[t]]]
    BY <1>4, <2>1 DEF PushLink
  <2>. QED  BY <1>3, <2>1, <2>2
<1>5. CASE PopClear(t)
  <2>1. ptr[t] \in Cells /\ Held(t) = ptr[t]
    BY <1>5 DEF PopClear, Held, PushPcs
  <2>2. next' = [next EXCEPT ![ptr[t]] = next'[ptr[t]]]
    BY <1>5, <2>1 DEF PopClear
  <2>. QED  BY <1>3, <2>1, <2>2
<1>6. CASE ~PushLink(t) /\ ~PopClear(t)
  BY <1>1, <1>2, <1>6
     DEF Step, CallPush, CallPop, PushReadPtr, PushReadVal, PushCas, PushRetry,
         PopReadPtr, PopEmpty, PopReadVal, PopReadNext, PopCas, PopRetry,
         ReadPtr, ReadVal, Retry
<1>. QED  BY <1>4, <1>5, <1>6

(* While a cell is in a stack its link stands still.                       *)
THEOREM LinkSafe == Spec => LinkKept
<1>1. IInv /\ [Next]_vars => [LinkUnwritten]_vars
  BY LinkStep
<1>. QED  BY <1>1, InvCorrect, PTL DEF Spec, LinkKept

-----------------------------------------------------------------------------
(* The stack implements AtomicStack: each step of a thread either takes    *)
(* effect on the abstract stacks or leaves them alone.                     *)
LEMMA AbsInitStep == Init => Atomic!AbsInit
BY DEF Init, AbsOp, Atomic!AbsInit, Atomic!NoOp, PushPcs, PopPcs

(* What thread t's new locals say of its call; the others' calls stand.    *)
LEMMA AbsOpUpdate ==
  ASSUME NEW t \in Threads,
         \A u \in Threads \ {t} : /\ pc'[u] = pc[u] /\ at'[u] = at[u]
                                  /\ cell'[u] = cell[u] /\ ptr'[u] = ptr[u]
  PROVE  AbsOp' = [AbsOp EXCEPT ![t] = AbsOp'[t]]
BY DEF AbsOp

(* Reading shared words, linking a cell and retrying change nothing that   *)
(* AtomicStack speaks of.                                                  *)
LEMMA AbsStutter ==
  ASSUME IInv, NEW t \in Threads,
         \/ PushReadPtr(t) \/ PushReadVal(t) \/ PushLink(t) \/ PushRetry(t)
         \/ PopReadPtr(t) \/ PopReadVal(t) \/ PopReadNext(t) \/ PopRetry(t)
  PROVE  UNCHANGED Atomic!absVars
<1>1. UNCHANGED <<stk, client>>
  BY DEF PushReadPtr, PushReadVal, PushLink, PushRetry, PopReadPtr, PopReadVal,
         PopReadNext, PopRetry, ReadPtr, ReadVal, Retry
<1>2. AbsOp' = AbsOp
  BY DEF IInv, TypeOK, AbsOp, PushPcs, PopPcs, Goto, PushReadPtr, PushReadVal, PushLink,
         PushRetry, PopReadPtr, PopReadVal, PopReadNext, PopRetry, ReadPtr, ReadVal, Retry
<1>. QED  BY <1>1, <1>2 DEF Atomic!absVars

\* Every step is one of the atomic stack, or none.
LEMMA AbsStep ==
  ASSUME IInv, [Next]_vars
  PROVE  [Atomic!AbsNext]_(Atomic!absVars)
<1>. USE DEF IInv, TypeOK, PushPcs, PopPcs, Goto
<1>1. CASE UNCHANGED vars
  BY <1>1 DEF vars, AbsOp, Atomic!absVars
<1>2. ASSUME NEW t \in Threads, CallPush(t)  PROVE Atomic!AbsNext
  <2>1. PICK s \in Stacks, c \in client :
          /\ pc[t] = "idle" /\ pc'[t] = "push_ptr" /\ at'[t] = s /\ cell'[t] = c
          /\ client' = client \ {c} /\ stk' = stk
    BY <1>2 DEF CallPush
  <2>2. AbsOp[t] = Atomic!NoOp /\ AbsOp'[t] = Atomic!PushOp(s, c)
    BY <2>1 DEF AbsOp, Atomic!NoOp, Atomic!PushOp
  <2>3. AbsOp' = [AbsOp EXCEPT ![t] = Atomic!PushOp(s, c)]
    BY <1>2, <2>2, AbsOpUpdate DEF CallPush
  <2>. QED  BY <2>1, <2>2, <2>3 DEF Atomic!AbsNext, Atomic!CallPush
<1>3. ASSUME NEW t \in Threads, CallPop(t)  PROVE Atomic!AbsNext
  <2>1. PICK s \in Stacks :
          /\ pc[t] = "idle" /\ pc'[t] = "pop_ptr" /\ at'[t] = s
          /\ client' = client /\ stk' = stk
    BY <1>3 DEF CallPop
  <2>2. AbsOp[t] = Atomic!NoOp /\ AbsOp'[t] = Atomic!PopOp(s)
    BY <2>1 DEF AbsOp, Atomic!NoOp, Atomic!PopOp
  <2>3. AbsOp' = [AbsOp EXCEPT ![t] = Atomic!PopOp(s)]
    BY <1>3, <2>2, AbsOpUpdate DEF CallPop
  <2>. QED  BY <2>1, <2>2, <2>3 DEF Atomic!AbsNext, Atomic!CallPop
<1>4. ASSUME NEW t \in Threads, PushCas(t)  PROVE Atomic!AbsNext
  <2>1. AbsOp[t] = Atomic!PushOp(at[t], cell[t]) /\ AbsOp'[t] = Atomic!NoOp
    BY <1>4 DEF PushCas, Leave, AbsOp, Atomic!NoOp, Atomic!PushOp
  <2>2. AbsOp' = [AbsOp EXCEPT ![t] = Atomic!NoOp]
    BY <1>4, <2>1, AbsOpUpdate DEF PushCas, Leave
  <2>3. at[t] \in Stacks /\ cell[t] \in Cells
    BY <1>4 DEF PushCas
  <2>. QED  BY <1>4, <2>1, <2>2, <2>3 DEF PushCas, Atomic!AbsNext, Atomic!TakeEffectPush
<1>5. ASSUME NEW t \in Threads, PopEmpty(t)  PROVE Atomic!AbsNext
  <2>1. AbsOp[t] = Atomic!PopOp(at[t]) /\ AbsOp'[t] = Atomic!NoOp
    BY <1>5 DEF PopEmpty, Leave, AbsOp, Atomic!NoOp, Atomic!PopOp
  <2>2. AbsOp' = [AbsOp EXCEPT ![t] = Atomic!NoOp]
    BY <1>5, <2>1, AbsOpUpdate DEF PopEmpty, Leave
  <2>3. at[t] \in Stacks /\ Top(at[t]) = NULL
    BY <1>5 DEF PopEmpty, HeadsList
  <2>4. stk[at[t]] = <<>>
    <3>1. ASSUME stk[at[t]] # <<>>  PROVE FALSE
      <4>1. Len(stk[at[t]]) \in 1..Len(stk[at[t]])
        BY <2>3, <3>1, LenProperties, EmptyIff
      <4>2. stk[at[t]][Len(stk[at[t]])] \in Cells
        BY <2>3, <4>1, ElementOfSeq
      <4>. QED  BY <2>3, <3>1, <4>2, StackAssumption DEF Top
    <3>. QED  BY <3>1
  <2>. QED  BY <1>5, <2>1, <2>2, <2>3, <2>4
            DEF PopEmpty, Atomic!AbsNext, Atomic!PopFindsEmpty
<1>6. ASSUME NEW t \in Threads, PopCas(t)  PROVE Atomic!AbsNext
  <2>1. AbsOp[t] = Atomic!PopOp(at[t]) /\ AbsOp'[t] = Atomic!PoppedOp(ptr[t])
    BY <1>6 DEF PopCas, AbsOp, Atomic!PoppedOp, Atomic!PopOp
  <2>2. AbsOp' = [AbsOp EXCEPT ![t] = Atomic!PoppedOp(ptr[t])]
    BY <1>6, <2>1, AbsOpUpdate DEF PopCas
  <2>3. at[t] \in Stacks /\ ptr[t] \in Cells /\ ptr[t] = Top(at[t])
    BY <1>6 DEF PopCas, Cas2, HeadIsAsRead, HeadsList
  <2>4. stk[at[t]] # <<>> /\ ptr[t] = stk[at[t]][Len(stk[at[t]])]
    BY <2>3, StackAssumption DEF Top
  <2>. QED  BY <1>6, <2>1, <2>2, <2>3, <2>4
            DEF PopCas, Atomic!AbsNext, Atomic!TakeEffectPop
<1>7. ASSUME NEW t \in Threads, PopClear(t)  PROVE Atomic!AbsNext
  <2>1. AbsOp[t] = Atomic!PoppedOp(ptr[t]) /\ AbsOp'[t] = Atomic!NoOp
    BY <1>7 DEF PopClear, Leave, AbsOp, Atomic!PoppedOp, Atomic!NoOp
  <2>2. AbsOp' = [AbsOp EXCEPT ![t] = Atomic!NoOp]
    BY <1>7, <2>1, AbsOpUpdate DEF PopClear, Leave
  <2>3. ptr[t] \in Cells
    BY <1>7 DEF PopClear
  <2>. QED  BY <1>7, <2>1, <2>2, <2>3 DEF PopClear, Atomic!AbsNext, Atomic!ReturnPop
<1>. QED
  BY <1>1, <1>2, <1>3, <1>4, <1>5, <1>6, <1>7, AbsStutter DEF Next, Step

(* Every behaviour of the stacks is one of AtomicStack: push and pop are   *)
(* linearizable, whatever the number of threads, cells and stacks.         *)
THEOREM Implements == Spec => Linearizable
<1>1. IInv /\ [Next]_vars => [Atomic!AbsNext]_(Atomic!absVars)
  BY AbsStep
<1>. QED  BY <1>1, AbsInitStep, InvCorrect, PTL DEF Spec, Linearizable, Atomic!AbsSpec
=============================================================================
