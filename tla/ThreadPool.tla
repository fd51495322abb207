----------------------------- MODULE ThreadPool -----------------------------
(***************************************************************************)
(* The thread pool of libw2xc (plugins/waifu2x-w2xc/libw2xc/src/           *)
(* threadPool.cpp) and the job it runs (filter_AVX_impl0): the master      *)
(* wakes every thread through an event of its own, the threads share the   *)
(* blocks of the picture through an atomic counter, and the last one to    *)
(* finish wakes the master, which then deletes the job.                    *)
(*                                                                         *)
(* An event is an eventfd: notify adds one, wait takes the whole count.    *)
(* One master uses a pool: the filter is fmParallelRequests.               *)
(***************************************************************************)
EXTENDS Integers, FiniteSets

CONSTANTS
  N,          \* cpu, the number of threads
  MaxBlocks,  \* bound on total_block
  MaxJobs,    \* bound on the calls of startFunc
  NULL        \* num_thread while it has not been written

ASSUME PoolAssumption == /\ N \in Nat \ {0} /\ MaxBlocks \in Nat \ {0}
                         /\ MaxJobs \in Nat /\ NULL \notin Nat

Workers == 0..N - 1

VARIABLES
  to_client,     \* to_client[i]: the event of thread i
  to_master,     \* the event of the master
  num_thread, fini_count, fini_all,
  job,           \* the number of the last job
  func,          \* the job p->func points to, 0 when it has been deleted
  total_block, block_counter,  \* the locals of filter_AVX_impl0 the job uses
  at,            \* at[i]: where thread i is in Thread::func
  cur,           \* cur[i]: the job thread i has called
  bi,            \* bi[i]: the local of the job
  master,        \* where the master is
  mi,            \* the index of the loops of the master
  ran,           \* ran[i]: how often thread i has called the present job
  done           \* done[b]: how often block b of the present job was filtered

events == <<to_client, to_master>>
pool == <<num_thread, fini_count, fini_all>>
work == <<job, func, total_block, block_counter, ran, done>>
vars == <<events, pool, work, at, cur, bi, master, mi>>

(* new ThreadPool leaves its members as memory had them; of what fini_count*)
(* may hold, the values it can have later are enough: startFunc writes it. *)
Init == /\ to_client = [i \in Workers |-> 0] /\ to_master = 0
        /\ num_thread = NULL /\ fini_count \in 0..N /\ fini_all \in BOOLEAN
        /\ job = 0 /\ func = 0 /\ total_block = 0 /\ block_counter = 0
        /\ at = [i \in Workers |-> "none"]
        /\ cur = [i \in Workers |-> 0] /\ bi = [i \in Workers |-> 0]
        /\ master = "start" /\ mi = 0
        /\ ran = [i \in Workers |-> 0]
        /\ done = [b \in 0..MaxBlocks - 1 |-> 0]

(***************************************************************************)
(* initThreadPool: the threads run before num_thread and fini_all are set  *)
(***************************************************************************)
StartThread ==
  /\ master = "start" /\ mi < N
  /\ at' = [at EXCEPT ![mi] = "wait"]
  /\ mi' = mi + 1
  /\ UNCHANGED <<events, pool, work, cur, bi, master>>

InitDone ==
  /\ master = "start" /\ mi = N
  /\ num_thread' = N /\ fini_all' = FALSE
  /\ master' = "idle"
  /\ UNCHANGED <<events, fini_count, work, at, cur, bi, mi>>

(***************************************************************************)
(* startFunc and startFuncBody                                             *)
(***************************************************************************)
ResetNot == fini_count' = fini_count      \* fini_count is not set to 0
ResetCount == fini_count' = 0

StartFunc == \E n \in 1..MaxBlocks :
  /\ master = "idle" /\ job < MaxJobs
  /\ job' = job + 1
  /\ total_block' = n /\ block_counter' = 0
  /\ ran' = [i \in Workers |-> 0] /\ done' = [b \in 0..MaxBlocks - 1 |-> 0]
  /\ ResetCount
  /\ master' = "set_func"
  /\ UNCHANGED <<events, num_thread, fini_all, func, at, cur, bi, mi>>

SetFunc ==
  /\ master = "set_func"
  /\ func' = job
  /\ mi' = 0
  /\ master' = "notify"
  /\ UNCHANGED <<events, pool, job, total_block, block_counter, ran, done, at, cur, bi>>

NotifyClient ==
  /\ mi < N
  /\ to_client' = [to_client EXCEPT ![mi] = @ + 1]
  /\ mi' = mi + 1
  /\ UNCHANGED <<to_master, pool, work, at, cur, bi, master>>

NotifyAll == master = "notify" /\ NotifyClient

AllNotified ==
  /\ master = "notify" /\ mi = N
  /\ master' = "wait"
  /\ UNCHANGED <<events, pool, work, at, cur, bi, mi>>

(* wait_event (to_master), then delete fb.                                 *)
JobDone ==
  /\ master = "wait" /\ to_master > 0
  /\ to_master' = 0
  /\ func' = 0
  /\ master' = "idle"
  /\ UNCHANGED <<to_client, pool, job, total_block, block_counter, ran, done, at, cur, bi, mi>>

(***************************************************************************)
(* finiThreadPool                                                          *)
(***************************************************************************)
Fini ==
  /\ master = "idle"
  /\ fini_all' = TRUE
  /\ mi' = 0
  /\ master' = "fini"
  /\ UNCHANGED <<events, num_thread, fini_count, work, at, cur, bi>>

NotifyFini == master = "fini" /\ NotifyClient

JoinSkipsLast ==                 \* the last thread is not joined
  /\ master = "fini" /\ mi = N
  /\ \A i \in Workers \ {N - 1} : at[i] = "exit"
  /\ master' = "gone"
  /\ UNCHANGED <<events, pool, work, at, cur, bi, mi>>

Join ==
  /\ master = "fini" /\ mi = N
  /\ \A i \in Workers : at[i] = "exit"
  /\ master' = "gone"
  /\ UNCHANGED <<events, pool, work, at, cur, bi, mi>>

(***************************************************************************)
(* Thread::func, in thread i                                               *)
(***************************************************************************)
Goto(i, step) == at' = [at EXCEPT ![i] = step]

WaitKeepsCount(i) ==             \* the event stays signalled
  /\ at[i] = "wait" /\ to_client[i] > 0
  /\ Goto(i, "check")
  /\ UNCHANGED <<events, pool, work, cur, bi, master, mi>>

WaitEvent(i) ==
  /\ at[i] = "wait" /\ to_client[i] > 0
  /\ to_client' = [to_client EXCEPT ![i] = 0]
  /\ Goto(i, "check")
  /\ UNCHANGED <<to_master, pool, work, cur, bi, master, mi>>

Exit(i) ==
  /\ at[i] = "check" /\ fini_all
  /\ Goto(i, "exit")
  /\ UNCHANGED <<events, pool, work, cur, bi, master, mi>>

CallFunc(i) ==
  /\ at[i] = "check" /\ ~fini_all
  /\ cur' = [cur EXCEPT ![i] = func]
  /\ ran' = [ran EXCEPT ![i] = @ + 1]
  /\ Goto(i, "next")
  /\ UNCHANGED <<events, pool, job, func, total_block, block_counter, done, bi, master, mi>>

(* block_counter++ , and the loop of the job ends past the last block.     *)
NextBlockLast(i) ==              \* > in place of >=
  /\ at[i] = "next"
  /\ bi' = [bi EXCEPT ![i] = block_counter]
  /\ block_counter' = block_counter + 1
  /\ Goto(i, IF block_counter >= total_block - 1 THEN "count" ELSE "filter")
  /\ UNCHANGED <<events, pool, job, func, total_block, ran, done, cur, master, mi>>

NextBlock(i) ==
  /\ at[i] = "next"
  /\ bi' = [bi EXCEPT ![i] = block_counter]
  /\ block_counter' = block_counter + 1
  /\ Goto(i, IF block_counter >= total_block THEN "count" ELSE "filter")
  /\ UNCHANGED <<events, pool, job, func, total_block, ran, done, cur, master, mi>>

FilterBlock(i) ==
  /\ at[i] = "filter"
  /\ done' = [done EXCEPT ![bi[i]] = @ + 1]
  /\ Goto(i, "next")
  /\ UNCHANGED <<events, pool, job, func, total_block, block_counter, ran, cur, bi, master, mi>>

LastOneBefore(i) == fini_count + 1 = num_thread - 1   \* the last but one

LastOne(i) == fini_count + 1 = num_thread

(* ++ fini_count, and the thread that makes it num_thread wakes the master.*)
Count(i) ==
  /\ at[i] = "count"
  /\ fini_count' = fini_count + 1
  /\ cur' = [cur EXCEPT ![i] = 0] /\ bi' = [bi EXCEPT ![i] = 0]
  /\ Goto(i, IF LastOne(i) THEN "notify" ELSE "wait")
  /\ UNCHANGED <<events, num_thread, fini_all, work, master, mi>>

NotifyMaster(i) ==
  /\ at[i] = "notify"
  /\ to_master' = to_master + 1
  /\ Goto(i, "wait")
  /\ UNCHANGED <<to_client, pool, work, cur, bi, master, mi>>

Worker(i) == \/ WaitEvent(i) \/ Exit(i) \/ CallFunc(i) \/ NextBlock(i)
             \/ FilterBlock(i) \/ Count(i) \/ NotifyMaster(i)

(* The master returns to the program, which calls the pool when it likes.  *)
Master == \/ StartThread \/ InitDone \/ SetFunc \/ NotifyAll \/ AllNotified
          \/ JobDone \/ NotifyFini \/ Join

Gone == master = "gone" /\ UNCHANGED vars

Next == Master \/ StartFunc \/ Fini \/ (\E i \in Workers : Worker(i)) \/ Gone

Spec == Init /\ [][Next]_vars

(* The threads are scheduled; the program may never call the pool again.   *)
FairSpec == Spec /\ WF_vars(Master) /\ \A i \in Workers : WF_vars(Worker(i))

(***************************************************************************)
(* What the pool must keep true                                            *)
(***************************************************************************)
InJob == {i \in Workers : at[i] \in {"next", "filter", "count"}}

(* The variables hold values of their types; num_thread is not yet a       *)
(* number while the threads start.                                         *)
TypeOK ==
  /\ to_client \in [Workers -> Nat] /\ to_master \in Nat
  /\ num_thread \in {NULL, N} /\ fini_count \in 0..N /\ fini_all \in BOOLEAN
  /\ job \in 0..MaxJobs /\ func \in 0..MaxJobs
  /\ total_block \in 0..MaxBlocks /\ block_counter \in Nat
  /\ at \in [Workers -> {"none", "wait", "check", "next", "filter", "count", "notify", "exit"}]
  /\ cur \in [Workers -> 0..MaxJobs] /\ bi \in [Workers -> Nat]
  /\ master \in {"start", "idle", "set_func", "notify", "wait", "fini", "gone"}
  /\ mi \in 0..N
  /\ ran \in [Workers -> Nat] /\ done \in [0..MaxBlocks - 1 -> Nat]

(* A thread that has been woken finds the pool initialized and, unless the *)
(* pool ends, a job that has not been deleted; the job it runs is the      *)
(* present one until it has counted itself.                                *)
FuncAlive ==
  /\ \A i \in Workers : at[i] = "check" => num_thread = N /\ (fini_all \/ (func = job /\ func # 0))
  /\ \A i \in InJob : cur[i] = job /\ func = job /\ master \in {"notify", "wait"}

(* Every thread runs a job at most once, and startFunc returns only when   *)
(* every one of them has run it to the end.                                *)
RunOnce ==
  /\ \A i \in Workers : ran[i] <= 1
  /\ master \in {"idle", "fini", "gone"} /\ job > 0 => \A i \in Workers : ran[i] = 1

(* Every block of the picture is filtered by one thread, and none is left  *)
(* when startFunc returns.                                                 *)
BlocksOnce ==
  /\ \A b \in 0..MaxBlocks - 1 : done[b] <= 1
  /\ \A i, j \in Workers : i # j /\ at[i] = "filter" /\ at[j] = "filter" => bi[i] # bi[j]
  /\ master \in {"idle", "fini", "gone"} =>
       \A b \in 0..MaxBlocks - 1 : b < total_block => done[b] = 1

(* finiThreadPool deletes the events when no thread can wait for one, and  *)
(* no wake-up is left over for a later job.                                *)
QuietEvents ==
  /\ master = "gone" => \A i \in Workers : at[i] = "exit"
  /\ \A i \in Workers : to_client[i] <= 1 /\ (master = "idle" => to_client[i] = 0)
  /\ master = "idle" => to_master = 0

(* startFunc and finiThreadPool return.                                    *)
MasterReturns == /\ master = "notify" ~> master = "idle"
                 /\ master = "fini" ~> master = "gone"
=============================================================================
