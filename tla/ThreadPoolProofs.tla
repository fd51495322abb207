-------------------------- MODULE ThreadPoolProofs --------------------------
(***************************************************************************)
(* The safety of ThreadPool for every number of threads, blocks and jobs.  *)
(*                                                                         *)
(* No property of ThreadPool is inductive alone: that a job is alive while *)
(* a thread runs it depends on fini_count being exact, and the exact count *)
(* on each thread being woken once.  IInv describes, for each place of the *)
(* master, where every thread can be (Phase), what the count and the event *)
(* of the master say about them (Counted), and which blocks have been      *)
(* handed out (Handed).                                                    *)
(***************************************************************************)
EXTENDS ThreadPool, TLAPS, FiniteSetTheorems

JobRuns == master \in {"notify", "wait"}

Finished == {i \in Workers : ran[i] = 1 /\ at[i] \in {"wait", "notify"}}

(* Thread i while the pool is idle, in a job and at the end.               *)
Asleep(i) == at[i] = "wait" /\ to_client[i] = 0

InJobPhase(i) ==
  \/ i >= mi /\ Asleep(i) /\ ran[i] = 0
  \/ i < mi /\ at[i] = "wait" /\ to_client[i] = 1 /\ ran[i] = 0
  \/ i < mi /\ at[i] = "check" /\ to_client[i] = 0 /\ ran[i] = 0
  \/ i < mi /\ at[i] \in {"next", "filter", "count"} /\ to_client[i] = 0 /\ ran[i] = 1 /\ cur[i] = job
  \/ i < mi /\ at[i] \in {"wait", "notify"} /\ to_client[i] = 0 /\ ran[i] = 1

InFiniPhase(i) ==
  \/ i >= mi /\ Asleep(i)
  \/ i < mi /\ at[i] = "wait" /\ to_client[i] = 1
  \/ i < mi /\ at[i] \in {"check", "exit"} /\ to_client[i] = 0

Phase ==
  /\ master = "start" => \A i \in Workers : to_client[i] = 0 /\ at[i] = IF i < mi THEN "wait" ELSE "none"
  /\ master = "start" => job = 0
  /\ master # "start" => num_thread = N /\ (fini_all <=> master \in {"fini", "gone"})
  /\ master \in {"idle", "set_func"} => \A i \in Workers : Asleep(i)
  /\ master = "set_func" => job # 0 /\ fini_count = 0 /\ \A i \in Workers : ran[i] = 0
  /\ JobRuns => job # 0 /\ func = job /\ \A i \in Workers : InJobPhase(i)
  /\ master = "wait" => mi = N
  /\ master = "fini" => \A i \in Workers : InFiniPhase(i)
  /\ master = "gone" => \A i \in Workers : at[i] = "exit" /\ to_client[i] = 0
  /\ master \in {"idle", "fini", "gone"} /\ job # 0 => \A i \in Workers : ran[i] = 1
  /\ job = 0 => total_block = 0 /\ \A i \in Workers : ran[i] = 0

Counted ==
  /\ ~JobRuns => to_master = 0
  /\ JobRuns => /\ fini_count = Cardinality(Finished)
                /\ to_master \in {0, 1}
                /\ to_master = 1 => Finished = Workers
                /\ \A i \in Workers : at[i] = "notify" => Finished = Workers /\ to_master = 0
                /\ \A i, j \in Workers : at[i] = "notify" /\ at[j] = "notify" => i = j

Handed ==
  /\ \A i \in Workers : at[i] = "filter" =>
       bi[i] < block_counter /\ bi[i] < total_block /\ done[bi[i]] = 0
  /\ \A i, j \in Workers : at[i] = "filter" /\ at[j] = "filter" /\ bi[i] = bi[j] => i = j
  /\ \A b \in 0..MaxBlocks - 1 : done[b] \in {0, 1} /\ (b >= block_counter => done[b] = 0)
  /\ \A b \in 0..MaxBlocks - 1 : b < block_counter /\ b < total_block /\ done[b] = 0 =>
       \E i \in Workers : at[i] = "filter" /\ bi[i] = b
  /\ \A i \in Workers : at[i] = "count" \/ (JobRuns /\ i \in Finished) => block_counter >= total_block
  /\ master \in {"idle", "fini", "gone"} => block_counter >= total_block

IInv == TypeOK /\ Phase /\ Counted /\ Handed

-----------------------------------------------------------------------------
(* The threads are finitely many, so the count says who is missing.        *)
LEMMA CountFacts ==
  ASSUME NEW S \in SUBSET Workers
  PROVE  /\ Cardinality(S) \in 0..N
         /\ Cardinality(S) = N => S = Workers
         /\ \A i \in Workers \ S : Cardinality(S \cup {i}) = Cardinality(S) + 1
<1>1. IsFiniteSet(Workers) /\ Cardinality(Workers) = N
  BY PoolAssumption, FS_Interval DEF Workers
<1>2. IsFiniteSet(S) /\ Cardinality(S) <= N /\ (Cardinality(S) = N => S = Workers)
  BY <1>1, FS_Subset
<1>. QED  BY <1>2, FS_CardinalityType, FS_AddElement, PoolAssumption

(* What a thread that is not asleep says of the master.                    *)
LEMMA Awake ==
  ASSUME IInv, NEW i \in Workers
  PROVE  /\ at[i] \in {"next", "filter", "count", "notify"} => JobRuns
         /\ at[i] = "check" => JobRuns \/ (master = "fini" /\ i < mi /\ fini_all /\ to_client[i] = 0)
         /\ to_client[i] > 0 => JobRuns \/ (master = "fini" /\ i < mi /\ at[i] = "wait" /\ to_client[i] = 1)
         /\ JobRuns => InJobPhase(i) /\ ~fini_all /\ num_thread = N /\ func = job /\ job # 0
BY PoolAssumption DEF IInv, Phase, TypeOK, Asleep, InFiniPhase, JobRuns, Workers

\* The invariant holds before the pool is initialized.
LEMMA InvInit == Init => IInv
BY PoolAssumption DEF Init, IInv, TypeOK, Phase, Counted, Handed, JobRuns, Finished, Workers

\* The master notifies one thread after the other.
LEMMA NotifyTypes ==
  ASSUME TypeOK, NotifyClient
  PROVE  to_client' \in [Workers -> Nat] /\ mi' \in 0..N /\ mi \in Workers
<1>1. mi \in Workers /\ mi' = mi + 1 /\ mi + 1 \in 0..N
  BY PoolAssumption DEF TypeOK, NotifyClient, Workers
<1>2. to_client[mi] + 1 \in Nat /\ to_client' = [to_client EXCEPT ![mi] = to_client[mi] + 1]
  BY <1>1 DEF TypeOK, NotifyClient
<1>. QED  BY <1>1, <1>2 DEF TypeOK

-----------------------------------------------------------------------------
(* The variables keep their types.                                         *)
LEMMA TypeStep ==
  ASSUME IInv, [Next]_vars
  PROVE  TypeOK'
<1>. USE PoolAssumption DEF TypeOK, Goto, events, pool, work
<1>0. TypeOK
  BY DEF IInv
<1>1. CASE UNCHANGED vars
  BY <1>0, <1>1 DEF vars
<1>2. CASE StartThread
  BY <1>0, <1>2 DEF StartThread, Workers
<1>3. CASE InitDone
  BY <1>0, <1>3 DEF InitDone
<1>4. CASE StartFunc
  BY <1>0, <1>4 DEF StartFunc, ResetCount
<1>5. CASE SetFunc
  BY <1>0, <1>5 DEF SetFunc
<1>6. CASE NotifyAll
  BY <1>0, <1>6, NotifyTypes DEF NotifyAll, NotifyClient
<1>7. CASE AllNotified
  BY <1>0, <1>7 DEF AllNotified
<1>8. CASE JobDone
  BY <1>0, <1>8 DEF JobDone
<1>9. CASE Fini
  BY <1>0, <1>9 DEF Fini
<1>10. CASE NotifyFini
  BY <1>0, <1>10, NotifyTypes DEF NotifyFini, NotifyClient
<1>11. CASE Join
  BY <1>0, <1>11 DEF Join
<1>12. ASSUME NEW i \in Workers, WaitEvent(i)  PROVE TypeOK'
  BY <1>0, <1>12 DEF WaitEvent
<1>13. ASSUME NEW i \in Workers, Exit(i)  PROVE TypeOK'
  BY <1>0, <1>13 DEF Exit
<1>14. ASSUME NEW i \in Workers, CallFunc(i)  PROVE TypeOK'
  BY <1>0, <1>14 DEF CallFunc
<1>15. ASSUME NEW i \in Workers, NextBlock(i)  PROVE TypeOK'
  BY <1>0, <1>15 DEF NextBlock
<1>16. ASSUME NEW i \in Workers, FilterBlock(i)  PROVE TypeOK'
  <2>1. done' \in [0..MaxBlocks - 1 -> Nat]
    <3>. DEFINE b == bi[i]
    <3>1. b \in Nat /\ (b \in 0..MaxBlocks - 1 => done[b] + 1 \in Nat)
      BY <1>0
    <3>2. done' = [done EXCEPT ![b] = done[b] + 1] /\ done \in [0..MaxBlocks - 1 -> Nat]
      BY <1>0, <1>16 DEF FilterBlock
    <3>. HIDE DEF b
    <3>. QED  BY <3>1, <3>2
  <2>. QED  BY <1>0, <1>16, <2>1 DEF FilterBlock
<1>17. ASSUME NEW i \in Workers, Count(i)  PROVE TypeOK'
  <2>1. i \notin Finished /\ Finished \in SUBSET Workers
    BY <1>17 DEF Count, Finished
  <2>2. fini_count = Cardinality(Finished)
    BY <1>17, Awake DEF Count, IInv, Counted
  <2>3. fini_count < N
    BY <2>1, <2>2, CountFacts
  <2>. QED  BY <1>0, <1>17, <2>3 DEF Count
<1>18. ASSUME NEW i \in Workers, NotifyMaster(i)  PROVE TypeOK'
  BY <1>0, <1>18 DEF NotifyMaster
<1>. QED
  BY <1>1, <1>2, <1>3, <1>4, <1>5, <1>6, <1>7, <1>8, <1>9, <1>10, <1>11, <1>12, <1>13,
     <1>14, <1>15, <1>16, <1>17, <1>18 DEF Next, Master, Worker, Gone

-----------------------------------------------------------------------------
(* A thread the step does not touch stays in its phase, whether or not the *)
(* master gets to a later thread.                                          *)
LEMMA OthersStay ==
  ASSUME NEW j, InJobPhase(j) \/ InFiniPhase(j), UNCHANGED <<at[j], to_client[j], ran[j], cur[j], job>>,
         mi' = mi \/ (mi \in Workers /\ j \in Workers /\ mi' = mi + 1 /\ j # mi)
  PROVE  (InJobPhase(j) => InJobPhase(j)') /\ (InFiniPhase(j) => InFiniPhase(j)')
BY PoolAssumption DEF InJobPhase, InFiniPhase, Asleep, Workers

(* Where the threads are follows the master.                               *)
LEMMA PhaseStep ==
  ASSUME IInv, [Next]_vars
  PROVE  Phase'
<1>. USE PoolAssumption DEF TypeOK, Phase, JobRuns, Asleep, InJobPhase, InFiniPhase, Goto, events, pool, work
<1>0. TypeOK /\ Phase
  BY DEF IInv
<1>1. CASE UNCHANGED vars
  BY <1>0, <1>1 DEF vars
<1>2. CASE StartThread
  BY <1>0, <1>2 DEF StartThread, Workers
<1>3. CASE InitDone
  BY <1>0, <1>3 DEF InitDone, Workers
<1>4. CASE StartFunc
  BY <1>0, <1>4 DEF StartFunc, ResetCount, Workers
<1>5. CASE SetFunc
  BY <1>0, <1>5 DEF SetFunc, Workers
<1>6. CASE NotifyAll
  <2>1. mi \in Workers /\ mi' = mi + 1 /\ InJobPhase(mi)
        /\ to_client[mi] = 0 /\ ran[mi] = 0 /\ at[mi] = "wait"
    BY <1>0, <1>6, NotifyTypes DEF NotifyAll, NotifyClient, Workers
  <2>2. to_client' = [to_client EXCEPT ![mi] = 1]
    BY <2>1, <1>6 DEF NotifyAll, NotifyClient
  <2>3. ASSUME NEW j \in Workers  PROVE InJobPhase(j)'
    <3>1. CASE j = mi
      BY <1>0, <1>6, <2>1, <2>2, <3>1 DEF NotifyAll, NotifyClient, Workers
    <3>2. CASE j # mi
      <4>1. InJobPhase(j) /\ UNCHANGED <<at[j], to_client[j], ran[j], cur[j], job>>
        BY <1>0, <1>6, <2>1, <2>2, <3>2 DEF NotifyAll, NotifyClient
      <4>. QED  BY <2>1, <3>2, <4>1, OthersStay
    <3>. QED  BY <3>1, <3>2
  <2>. QED  BY <1>0, <1>6, <2>3 DEF NotifyAll, NotifyClient
<1>7. CASE AllNotified
  BY <1>0, <1>7 DEF AllNotified, Workers
<1>8. CASE JobDone
  <2>1. Finished = Workers
    BY <1>0, <1>8 DEF JobDone, IInv, Counted
  <2>2. ASSUME NEW i \in Workers  PROVE at[i] = "wait" /\ to_client[i] = 0 /\ ran[i] = 1
    <3>1. ran[i] = 1 /\ at[i] # "notify"
      BY <1>0, <1>8, <2>1 DEF JobDone, IInv, Counted, Finished
    <3>. QED  BY <1>0, <1>8, <2>1, <3>1 DEF JobDone, Finished
  <2>. QED  BY <1>0, <1>8, <2>2 DEF JobDone
<1>9. CASE Fini
  BY <1>0, <1>9 DEF Fini, Workers
<1>10. CASE NotifyFini
  BY <1>0, <1>10 DEF NotifyFini, NotifyClient, Workers
<1>11. CASE Join
  BY <1>0, <1>11 DEF Join, Workers
<1>12. ASSUME NEW i \in Workers, WaitEvent(i)  PROVE Phase'
  <2>1. /\ at' = [at EXCEPT ![i] = "check"] /\ to_client' = [to_client EXCEPT ![i] = 0]
        /\ at[i] = "wait" /\ to_client[i] > 0
        /\ UNCHANGED <<to_master, pool, work, cur, bi, master, mi>>
    BY <1>12 DEF WaitEvent
  <2>2. CASE JobRuns
    <3>1. ASSUME NEW j \in Workers  PROVE InJobPhase(j)'
      <4>1. CASE j = i
        BY <1>0, <2>1, <2>2, <4>1
      <4>2. CASE j # i
        <5>1. InJobPhase(j) /\ UNCHANGED <<at[j], to_client[j], ran[j], cur[j], job>>
          BY <1>0, <2>1, <2>2, <4>2
        <5>. QED  BY <2>1, <5>1, OthersStay
      <4>. QED  BY <4>1, <4>2
    <3>. QED  BY <1>0, <2>1, <2>2, <3>1
  <2>3. CASE ~JobRuns
    <3>1. master = "fini" /\ i < mi
      BY <1>0, <2>1, <2>3, Awake
    <3>2. ASSUME NEW j \in Workers  PROVE InFiniPhase(j)'
      BY <1>0, <2>1, <3>1 DEF Workers
    <3>. QED  BY <1>0, <2>1, <3>1, <3>2
  <2>. QED  BY <2>2, <2>3
<1>13. ASSUME NEW i \in Workers, Exit(i)  PROVE Phase'
  BY <1>0, <1>13, Awake DEF Exit, Workers
<1>14. ASSUME NEW i \in Workers, CallFunc(i)  PROVE Phase'
  <2>1. /\ at[i] = "check" /\ ~fini_all /\ JobRuns /\ InJobPhase(i) /\ ran[i] = 0 /\ func = job
    BY <1>0, <1>14, Awake DEF CallFunc
  <2>2. /\ at' = [at EXCEPT ![i] = "next"] /\ ran' = [ran EXCEPT ![i] = 1]
        /\ cur' = [cur EXCEPT ![i] = job]
    BY <1>14, <2>1 DEF CallFunc
  <2>3. ASSUME NEW j \in Workers  PROVE InJobPhase(j)'
    <3>1. CASE j = i
      BY <1>0, <1>14, <2>1, <2>2, <3>1 DEF CallFunc
    <3>2. CASE j # i
      <4>1. InJobPhase(j) /\ UNCHANGED <<at[j], to_client[j], ran[j], cur[j], job>>
        BY <1>0, <1>14, <2>1, <2>2, <3>2 DEF CallFunc
      <4>. QED  BY <1>14, <4>1, OthersStay DEF CallFunc
    <3>. QED  BY <3>1, <3>2
  <2>. QED  BY <1>0, <1>14, <2>1, <2>3 DEF CallFunc
<1>15. ASSUME NEW i \in Workers, NextBlock(i)  PROVE Phase'
  BY <1>0, <1>15, Awake DEF NextBlock, Workers
<1>16. ASSUME NEW i \in Workers, FilterBlock(i)  PROVE Phase'
  BY <1>0, <1>16, Awake DEF FilterBlock, Workers
<1>17. ASSUME NEW i \in Workers, Count(i)  PROVE Phase'
  BY <1>0, <1>17, Awake DEF Count, Workers
<1>18. ASSUME NEW i \in Workers, NotifyMaster(i)  PROVE Phase'
  BY <1>0, <1>18, Awake DEF NotifyMaster, Workers
<1>. QED
  BY <1>1, <1>2, <1>3, <1>4, <1>5, <1>6, <1>7, <1>8, <1>9, <1>10, <1>11, <1>12, <1>13,
     <1>14, <1>15, <1>16, <1>17, <1>18 DEF Next, Master, Worker, Gone

-----------------------------------------------------------------------------
(* fini_count is the number of threads that have finished, and the last of *)
(* them, it alone, wakes the master.                                       *)
LEMMA CountedStep ==
  ASSUME IInv, [Next]_vars
  PROVE  Counted'
<1>. USE PoolAssumption DEF TypeOK, Counted, JobRuns, Goto, events, pool, work
<1>0. TypeOK /\ Counted
  BY DEF IInv
<1>1. CASE UNCHANGED vars
  BY <1>0, <1>1 DEF vars, Finished
<1>2. CASE StartThread
  BY <1>0, <1>2 DEF StartThread, Finished
<1>3. CASE InitDone
  BY <1>0, <1>3 DEF InitDone, Finished
<1>4. CASE StartFunc
  BY <1>0, <1>4 DEF StartFunc, Finished
<1>5. CASE NotifyAll
  BY <1>0, <1>5 DEF NotifyAll, NotifyClient, Finished
<1>6. CASE AllNotified
  BY <1>0, <1>6 DEF AllNotified, Finished
<1>7. CASE JobDone
  BY <1>0, <1>7 DEF JobDone, Finished
<1>8. CASE Fini
  BY <1>0, <1>8 DEF Fini, Finished
<1>9. CASE NotifyFini
  BY <1>0, <1>9 DEF NotifyFini, NotifyClient, Finished
<1>10. CASE Join
  BY <1>0, <1>10 DEF Join, Finished
<1>11. CASE SetFunc
  <2>1. fini_count' = 0 /\ to_master' = 0 /\ master' = "notify" /\ \A i \in Workers : ran'[i] = 0 /\ at'[i] = "wait"
    BY <1>0, <1>11 DEF SetFunc, IInv, Phase, Asleep
  <2>2. Finished' = {} /\ Cardinality({}) = 0
    BY <2>1, FS_EmptySet DEF Finished
  <2>. QED  BY <2>1, <2>2
<1>12. ASSUME NEW i \in Workers, WaitEvent(i)  PROVE Counted'
  <2>1. JobRuns => Finished' = Finished
    <3>1. at' = [at EXCEPT ![i] = "check"] /\ ran' = ran /\ to_client[i] > 0
      BY <1>12 DEF WaitEvent
    <3>2. JobRuns => ran[i] = 0
      <4>1. JobRuns => InJobPhase(i)
        BY Awake
      <4>. QED  BY <1>0, <1>12, <4>1 DEF InJobPhase, Asleep, WaitEvent
    <3>3. CASE JobRuns
      <4>1. i \notin Finished /\ i \notin Finished'
        BY <1>0, <3>1, <3>2, <3>3 DEF Finished
      <4>. QED  BY <1>0, <3>1, <4>1 DEF Finished
    <3>. QED  BY <3>3
  <2>. QED  BY <1>0, <1>12, <2>1, Awake DEF WaitEvent
<1>13. ASSUME NEW i \in Workers, Exit(i)  PROVE Counted'
  <2>1. Finished' = Finished
    BY <1>0, <1>13, Awake DEF Exit, Finished, InJobPhase, Asleep
  <2>. QED  BY <1>0, <1>13, <2>1, Awake DEF Exit
<1>14. ASSUME NEW i \in Workers, CallFunc(i)  PROVE Counted'
  <2>1. Finished' = Finished
    BY <1>0, <1>14, Awake DEF CallFunc, Finished, InJobPhase, Asleep
  <2>. QED  BY <1>0, <1>14, <2>1, Awake DEF CallFunc
<1>15. ASSUME NEW i \in Workers, NextBlock(i)  PROVE Counted'
  <2>1. Finished' = Finished
    BY <1>0, <1>15, Awake DEF NextBlock, Finished, InJobPhase, Asleep
  <2>. QED  BY <1>0, <1>15, <2>1, Awake DEF NextBlock
<1>16. ASSUME NEW i \in Workers, FilterBlock(i)  PROVE Counted'
  <2>1. Finished' = Finished
    BY <1>0, <1>16, Awake DEF FilterBlock, Finished, InJobPhase, Asleep
  <2>. QED  BY <1>0, <1>16, <2>1, Awake DEF FilterBlock
<1>17. ASSUME NEW i \in Workers, Count(i)  PROVE Counted'
  <2>1. JobRuns /\ InJobPhase(i) /\ num_thread = N /\ at[i] = "count" /\ ran[i] = 1
    <3>1. JobRuns /\ at[i] = "count"
      BY <1>17, Awake DEF Count
    <3>2. InJobPhase(i) /\ num_thread = N
      BY <3>1, Awake
    <3>. QED  BY <3>1, <3>2 DEF InJobPhase, Asleep
  <2>2. Finished \in SUBSET Workers /\ i \notin Finished
    BY <2>1 DEF Finished
  <2>3. to_master = 0 /\ \A j \in Workers : at[j] # "notify"
    BY <1>0, <2>1, <2>2
  <2>4. Finished' = Finished \cup {i}
    BY <1>0, <1>17, <2>1 DEF Count, Finished
  <2>5. fini_count' = Cardinality(Finished') /\ Finished' \in SUBSET Workers
    BY <1>0, <1>17, <2>1, <2>2, <2>4, CountFacts DEF Count
  <2>6. ASSUME LastOne(i)  PROVE Finished' = Workers
    <3>1. Cardinality(Finished') = N
      BY <1>17, <2>1, <2>5, <2>6 DEF Count, LastOne
    <3>. HIDE DEF Counted
    <3>. QED  BY <2>5, <3>1, CountFacts
  <2>7. \A j \in Workers : at'[j] = "notify" => j = i /\ LastOne(i)
    BY <1>0, <1>17, <2>3 DEF Count
  <2>. QED  BY <1>0, <1>17, <2>1, <2>3, <2>5, <2>6, <2>7 DEF Count
<1>18. ASSUME NEW i \in Workers, NotifyMaster(i)  PROVE Counted'
  <2>1. JobRuns /\ ran[i] = 1 /\ at[i] = "notify" /\ Finished = Workers /\ to_master = 0
    BY <1>0, <1>18, Awake DEF NotifyMaster, InJobPhase, Finished
  <2>2. Finished' = Finished
    BY <1>0, <1>18, <2>1 DEF NotifyMaster, Finished
  <2>3. \A j \in Workers : at'[j] # "notify"
    BY <1>0, <1>18, <2>1 DEF NotifyMaster
  <2>. QED  BY <1>0, <1>18, <2>1, <2>2, <2>3 DEF NotifyMaster
<1>. QED
  BY <1>1, <1>2, <1>3, <1>4, <1>5, <1>6, <1>7, <1>8, <1>9, <1>10, <1>11, <1>12, <1>13,
     <1>14, <1>15, <1>16, <1>17, <1>18 DEF Next, Master, Worker, Gone

-----------------------------------------------------------------------------
(* A thread that has left the loop of blocks.                              *)
Left(i) == at[i] = "count" \/ (JobRuns /\ i \in Finished)

(* Blocks are handed out by NextBlock and filtered by FilterBlock only.    *)
LEMMA HandedSame ==
  ASSUME TypeOK, Handed, UNCHANGED <<total_block, block_counter, done>>,
         \A i \in Workers : /\ at'[i] = "filter" <=> at[i] = "filter"
                            /\ at[i] = "filter" => bi'[i] = bi[i]
                            /\ Left(i)' => Left(i),
         master' \in {"idle", "fini", "gone"} => master \in {"idle", "fini", "gone"}
  PROVE  Handed'
BY DEF Handed, Left

\* Every step keeps who has been handed the job.
LEMMA HandedStep ==
  ASSUME IInv, [Next]_vars
  PROVE  Handed'
<1>. USE PoolAssumption DEF TypeOK, Goto, events, pool, work
<1>0. TypeOK /\ Phase /\ Counted /\ Handed
  BY DEF IInv
<1>1. CASE UNCHANGED vars
  BY <1>0, <1>1 DEF vars, Handed, Finished, JobRuns
<1>2. CASE StartThread
  BY <1>0, <1>2, HandedSame DEF StartThread, Phase, Left, JobRuns, Workers
<1>3. CASE InitDone
  BY <1>0, <1>3 DEF InitDone, Handed, Phase, JobRuns
<1>4. CASE StartFunc
  BY <1>0, <1>4 DEF StartFunc, Handed, Phase, Asleep, JobRuns
<1>5. CASE SetFunc
  BY <1>0, <1>5, HandedSame DEF SetFunc, Phase, Asleep, Left, Finished, JobRuns
<1>6. CASE NotifyAll
  BY <1>0, <1>6, HandedSame DEF NotifyAll, NotifyClient, Left, Finished, JobRuns
<1>7. CASE AllNotified
  BY <1>0, <1>7, HandedSame DEF AllNotified, Left, Finished, JobRuns
<1>8. CASE Fini
  BY <1>0, <1>8, HandedSame DEF Fini, Left, Finished, JobRuns
<1>9. CASE NotifyFini
  BY <1>0, <1>9, HandedSame DEF NotifyFini, NotifyClient, Left, Finished, JobRuns
<1>10. CASE Join
  BY <1>0, <1>10, HandedSame DEF Join, Left, Finished, JobRuns
<1>11. CASE JobDone
  <2>1. Finished = Workers /\ 0 \in Workers /\ JobRuns
    BY <1>0, <1>11 DEF JobDone, Counted, JobRuns, Workers
  <2>2. block_counter >= total_block
    BY <1>0, <2>1 DEF Handed
  <2>. QED  BY <1>0, <1>11, <2>1, <2>2 DEF JobDone, Handed, JobRuns, Finished
<1>12. ASSUME NEW i \in Workers, WaitEvent(i)  PROVE Handed'
  <2>1. \A j \in Workers : Left(j)' => Left(j)
    BY <1>0, <1>12, Awake DEF WaitEvent, Left, Finished, JobRuns
  <2>. QED  BY <1>0, <1>12, <2>1, HandedSame DEF WaitEvent
<1>13. ASSUME NEW i \in Workers, Exit(i)  PROVE Handed'
  <2>1. \A j \in Workers : Left(j)' => Left(j)
    BY <1>0, <1>13, Awake DEF Exit, Left, Finished, JobRuns
  <2>. QED  BY <1>0, <1>13, <2>1, HandedSame DEF Exit
<1>14. ASSUME NEW i \in Workers, CallFunc(i)  PROVE Handed'
  <2>1. \A j \in Workers : Left(j)' => Left(j)
    BY <1>0, <1>14, Awake DEF CallFunc, Left, Finished, JobRuns
  <2>. QED  BY <1>0, <1>14, <2>1, HandedSame DEF CallFunc
<1>15. ASSUME NEW i \in Workers, Count(i)  PROVE Handed'
  <2>1. \A j \in Workers : Left(j)' => Left(j)
    BY <1>0, <1>15, Awake DEF Count, Left, Finished, JobRuns
  <2>. QED  BY <1>0, <1>15, <2>1, HandedSame DEF Count
<1>16. ASSUME NEW i \in Workers, NotifyMaster(i)  PROVE Handed'
  <2>1. \A j \in Workers : Left(j)' => Left(j)
    BY <1>0, <1>16, Awake DEF NotifyMaster, Left, Finished, JobRuns
  <2>. QED  BY <1>0, <1>16, <2>1, HandedSame DEF NotifyMaster
<1>17. ASSUME NEW i \in Workers, NextBlock(i)  PROVE Handed'
  <2>1. /\ at[i] = "next" /\ block_counter' = block_counter + 1 /\ bi' = [bi EXCEPT ![i] = block_counter]
        /\ at' = [at EXCEPT ![i] = IF block_counter >= total_block THEN "count" ELSE "filter"]
        /\ UNCHANGED <<total_block, done, ran, master>>
    BY <1>17 DEF NextBlock
  <2>2. JobRuns
    BY <2>1, Awake
  <2>3. \A j \in Workers \ {i} : at'[j] = at[j] /\ bi'[j] = bi[j]
    BY <1>0, <2>1
  <2>4. CASE block_counter >= total_block
    <3>1. at'[i] = "count" /\ ~(at'[i] = "filter") /\ ~(at[i] = "filter")
      BY <1>0, <2>1, <2>4
    <3>. QED  BY <1>0, <2>1, <2>2, <2>3, <2>4, <3>1 DEF Handed, JobRuns
  <2>5. CASE block_counter < total_block
    <3>1. /\ at'[i] = "filter" /\ bi'[i] = block_counter /\ done[block_counter] = 0
          /\ block_counter \in 0..MaxBlocks - 1
      BY <1>0, <2>1, <2>5 DEF Handed
    <3>2. \A j \in Workers : ~Left(j)'
      BY <1>0, <2>1, <2>2, <2>3, <2>5, <3>1 DEF Handed, Left, Finished, JobRuns
    <3>3. \A b \in 0..MaxBlocks - 1 : b < block_counter' /\ b < total_block' /\ done'[b] = 0 =>
            \E j \in Workers : at'[j] = "filter" /\ bi'[j] = b
      <4>1. SUFFICES ASSUME NEW b \in 0..MaxBlocks - 1, b < block_counter', b < total_block', done'[b] = 0
                     PROVE  \E j \in Workers : at'[j] = "filter" /\ bi'[j] = b
        OBVIOUS
      <4>2. CASE b = block_counter
        BY <3>1, <4>2
      <4>3. CASE b < block_counter
        <5>1. PICK j \in Workers : at[j] = "filter" /\ bi[j] = b
          BY <2>1, <4>1, <4>3, <1>0 DEF Handed
        <5>. QED  BY <2>1, <2>3, <5>1
      <4>. QED  BY <1>0, <2>1, <4>1, <4>2, <4>3
    <3>4. \A j \in Workers : at'[j] = "filter" =>
            bi'[j] < block_counter' /\ bi'[j] < total_block' /\ done'[bi'[j]] = 0
      BY <1>0, <2>1, <2>3, <2>5, <3>1 DEF Handed
    <3>5. \A j, k \in Workers : at'[j] = "filter" /\ at'[k] = "filter" /\ bi'[j] = bi'[k] => j = k
      BY <1>0, <2>1, <2>3, <3>1 DEF Handed
    <3>6. \A b \in 0..MaxBlocks - 1 : done'[b] \in {0, 1} /\ (b >= block_counter' => done'[b] = 0)
      BY <1>0, <2>1 DEF Handed
    <3>7. ~(master' \in {"idle", "fini", "gone"})
      BY <2>1, <2>2 DEF JobRuns
    <3>. QED  BY <3>2, <3>3, <3>4, <3>5, <3>6, <3>7 DEF Handed, Left
  <2>. QED  BY <1>0, <2>4, <2>5
<1>18. ASSUME NEW i \in Workers, FilterBlock(i)  PROVE Handed'
  <2>. DEFINE c == bi[i]
  <2>1. /\ at[i] = "filter" /\ at' = [at EXCEPT ![i] = "next"] /\ done' = [done EXCEPT ![c] = @ + 1]
        /\ UNCHANGED <<total_block, block_counter, bi, ran, master>>
    BY <1>18 DEF FilterBlock
  <2>2. JobRuns
    BY <2>1, Awake
  <2>3. c \in 0..MaxBlocks - 1 /\ c < block_counter /\ done[c] = 0
    BY <1>0, <2>1 DEF Handed
  <2>4. done'[c] = 1 /\ \A b \in (0..MaxBlocks - 1) \ {c} : done'[b] = done[b]
    BY <1>0, <2>1, <2>3
  <2>5. at'[i] = "next" /\ \A j \in Workers \ {i} : at'[j] = at[j] /\ (at[j] = "filter" => bi[j] # c)
    BY <1>0, <2>1 DEF Handed
  <2>. HIDE DEF c
  <2>6. \A j \in Workers : at'[j] = "filter" =>
          bi'[j] < block_counter' /\ bi'[j] < total_block' /\ done'[bi'[j]] = 0
    <3>1. SUFFICES ASSUME NEW j \in Workers, at'[j] = "filter"
                   PROVE  bi'[j] < block_counter' /\ bi'[j] < total_block' /\ done'[bi'[j]] = 0
      OBVIOUS
    <3>2. j # i /\ at[j] = "filter" /\ bi[j] # c
      BY <2>5, <3>1
    <3>3. bi[j] < block_counter /\ bi[j] < total_block /\ done[bi[j]] = 0 /\ bi[j] \in 0..MaxBlocks - 1
      BY <1>0, <3>2 DEF Handed
    <3>. QED  BY <2>1, <2>4, <3>2, <3>3
  <2>7. \A j, k \in Workers : at'[j] = "filter" /\ at'[k] = "filter" /\ bi'[j] = bi'[k] => j = k
    BY <1>0, <2>1, <2>5 DEF Handed
  <2>8. \A b \in 0..MaxBlocks - 1 : done'[b] \in {0, 1} /\ (b >= block_counter' => done'[b] = 0)
    BY <1>0, <2>1, <2>3, <2>4 DEF Handed
  <2>9. \A b \in 0..MaxBlocks - 1 : b < block_counter' /\ b < total_block' /\ done'[b] = 0 =>
          \E j \in Workers : at'[j] = "filter" /\ bi'[j] = b
    <3>1. SUFFICES ASSUME NEW b \in 0..MaxBlocks - 1, b < block_counter', b < total_block', done'[b] = 0
                   PROVE  \E j \in Workers : at'[j] = "filter" /\ bi'[j] = b
      OBVIOUS
    <3>2. b # c /\ done[b] = 0
      BY <2>4, <3>1
    <3>3. PICK j \in Workers : at[j] = "filter" /\ bi[j] = b
      BY <1>0, <2>1, <3>1, <3>2 DEF Handed
    <3>. QED  BY <2>1, <2>5, <3>2, <3>3 DEF c
  <2>10. \A j \in Workers : Left(j)' => block_counter' >= total_block'
    BY <1>0, <2>1, <2>5 DEF Handed, Left, Finished, JobRuns
  <2>11. ~(master' \in {"idle", "fini", "gone"})
    BY <2>1, <2>2 DEF JobRuns
  <2>. QED  BY <2>6, <2>7, <2>8, <2>9, <2>10, <2>11 DEF Handed, Left
<1>. QED
  BY <1>1, <1>2, <1>3, <1>4, <1>5, <1>6, <1>7, <1>8, <1>9, <1>10, <1>11, <1>12, <1>13,
     <1>14, <1>15, <1>16, <1>17, <1>18 DEF Next, Master, Worker, Gone

-----------------------------------------------------------------------------
(* The strengthening holds in every state of the pool.                     *)
THEOREM InvCorrect == Spec => []IInv
<1>1. IInv /\ [Next]_vars => IInv'
  BY TypeStep, PhaseStep, CountedStep, HandedStep DEF IInv
<1>. QED  BY <1>1, InvInit, PTL DEF Spec

(* The variables keep their types: fini_count never passes the number of   *)
(* threads, and no block index leaves the picture.                         *)
THEOREM TypeCorrect == Spec => []TypeOK
<1>1. IInv => TypeOK
  BY DEF IInv
<1>. QED  BY <1>1, InvCorrect, PTL

(* A thread that wakes up finds the pool initialized and a live job, and   *)
(* the master never deletes a job that a thread still runs.                *)
THEOREM JobsAlive == Spec => []FuncAlive
<1>1. IInv => FuncAlive
  <2>1. SUFFICES ASSUME IInv, NEW i \in Workers
                 PROVE  /\ at[i] = "check" => num_thread = N /\ (fini_all \/ (func = job /\ func # 0))
                        /\ i \in InJob => cur[i] = job /\ func = job /\ master \in {"notify", "wait"}
    BY DEF FuncAlive, InJob
  <2>2. at[i] = "check" => num_thread = N /\ (fini_all \/ (func = job /\ func # 0))
    BY <2>1, Awake DEF IInv, Phase
  <2>3. i \in InJob => cur[i] = job /\ func = job /\ master \in {"notify", "wait"}
    BY <2>1, Awake DEF InJob, InJobPhase, Asleep, JobRuns
  <2>. QED  BY <2>2, <2>3
<1>. QED  BY <1>1, InvCorrect, PTL

(* Every thread runs a job exactly once before startFunc returns.          *)
THEOREM JobsRunOnce == Spec => []RunOnce
<1>1. IInv => RunOnce
  <2>1. SUFFICES ASSUME IInv, NEW i \in Workers
                 PROVE  /\ ran[i] <= 1
                        /\ master \in {"idle", "fini", "gone"} /\ job > 0 => ran[i] = 1
    BY DEF RunOnce
  <2>2. job \in Nat /\ ran[i] \in Nat /\ Phase
        /\ master \in {"start", "idle", "set_func", "notify", "wait", "fini", "gone"}
    BY <2>1, PoolAssumption DEF IInv, TypeOK
  <2>3. CASE JobRuns
    BY <2>1, <2>2, <2>3, Awake DEF InJobPhase, JobRuns
  <2>4. CASE ~JobRuns
    <3>1. ran[i] = 0 \/ ran[i] = 1
      BY <2>2, <2>4 DEF Phase, JobRuns
    <3>. QED  BY <2>2, <2>4, <3>1 DEF Phase, JobRuns
  <2>. QED  BY <2>3, <2>4
<1>. QED  BY <1>1, InvCorrect, PTL

(* Every block of the picture is filtered exactly once.                    *)
THEOREM BlocksCovered == Spec => []BlocksOnce
<1>1. IInv => BlocksOnce
  <2>1. SUFFICES ASSUME IInv  PROVE BlocksOnce
    OBVIOUS
  <2>2. \A b \in 0..MaxBlocks - 1 : done[b] <= 1
    BY <2>1, PoolAssumption DEF IInv, Handed
  <2>3. \A i, j \in Workers : i # j /\ at[i] = "filter" /\ at[j] = "filter" => bi[i] # bi[j]
    BY <2>1 DEF IInv, Handed
  <2>4. ASSUME master \in {"idle", "fini", "gone"}, NEW b \in 0..MaxBlocks - 1, b < total_block
        PROVE  done[b] = 1
    <3>1. b < block_counter
      BY <2>1, <2>4, PoolAssumption DEF IInv, Handed, TypeOK
    <3>2. \A i \in Workers : at[i] # "filter"
      BY <2>1, <2>4, Awake DEF JobRuns
    <3>. QED  BY <2>1, <2>4, <3>1, <3>2 DEF IInv, Handed
  <2>. QED  BY <2>2, <2>3, <2>4 DEF BlocksOnce
<1>. QED  BY <1>1, InvCorrect, PTL

(* No wake-up outlives its job, and no thread its events.                  *)
THEOREM EventsQuiet == Spec => []QuietEvents
<1>1. IInv => QuietEvents
  BY PoolAssumption DEF IInv, QuietEvents, Phase, Counted, JobRuns, InJobPhase, InFiniPhase, Asleep, TypeOK
<1>. QED  BY <1>1, InvCorrect, PTL
=============================================================================
