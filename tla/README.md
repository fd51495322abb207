# A verification project for vapoursynth-plugins

This directory keeps TLA+ models of the parts of the repository whose correctness
depends on the *order* of events: threads that share memory, resources that are
borrowed and returned, and a frame server whose answer to one request depends on the
requests before it. TLC checks the models on small instances; TLAPS proves the most
important of the results for every instance.

Paths below are relative to `src/plugins/`.

## 1. The system

The repository collects some fifty plugins for VapourSynth, a host that asks filters for
video frames, from several threads unless a filter says otherwise. Most filters are
arithmetic on the pixels of one request and keep nothing between requests. The state, and
the difficulty, is in a few places.

| component | state it keeps | operations | shared with, and how |
|---|---|---|---|
| `conc::LockFreeStack` (fmtconv/src/conc) | a head (pointer and modification count, changed together by cas2), a link in every cell | `push`, `pop` | all threads; several stacks exchange the same cells |
| `conc::CellPool` (fmtconv/src/conc) | the list of zones, `_nbr_zones`, `_nbr_avail_cells`, a stack of free cells, a mutex | `take_cell`, `return_cell`, `expand_to`, `clear_all` | all threads; allocations may throw |
| `conc::ObjPool` (fmtconv/src/conc) | two stacks of cells: the free objects and all objects | `take_obj`, `return_obj`, `cleanup` | all threads; built on `CellPool` and two stacks |
| `fmtcl::FilterResize` (fmtconv/src/fmtcl) | the pool of task cells, the pool of buffers; per call the loop over the tiles | `process_plane`, `process_tile` | VapourSynth threads, and the threads of the avstp library where it is installed (`AvstpWrapper`) |
| thread pool of libw2xc (waifu2x-w2xc) | one event per thread, one of the master, `fini_count`, `fini_all`, the job | `initThreadPool`, `startFunc`, `finiThreadPool`, `Thread::func` | one master, N threads; the job is a local of the master's call |
| `lwlibav_repeat_control` (lsmashsource) | the order list, an output buffer, two cached frames with their numbers, the last picture and the buffer it went to | `lwlibav_video_get_frame` and below | one request at a time, *any* frame next |
| the decoder driver: `get_requested_picture`, `seek_video`, `get_frame` (lsmashsource, lwlibav_video.c) | the picture and packet of the last request, the random accessible point it started from, the estimated delay of the decoder, the pictures inside the decoder, the position of the demuxer | get any picture; inside: seek, feed, flush, retry | the repeat control calls it; libav decodes and seeks |
| `lwindex.c` (lsmashsource) | the index of a file and the order list made from it | parse, write, read | once, before the first request |
| `libavsmash_video.c`, ffms2, d2vsource | a decoder and its position | get a frame | one request at a time |
| mvtools, waifu2x-opt | scratch memory taken from a list under a lock | one request | VapourSynth threads |
| dfttest, eedi3, nnedi3cl, tcanny, ... | a map from thread id to scratch memory, filled on first use | one request | VapourSynth threads, a lock around the map |
| cnr2, rawsource, imagereader, scxvid, wwxd, depan, ... | what the previous frame left | one request | nobody: the host serialises the calls (`fmSerial`) |
| the other filters | none | one request | nobody |

How they interact. `FilterResize` takes one task cell per tile from a `CellPool` and one
buffer per running tile from an `ObjPool`. `ObjPool` takes from its own `CellPool` a cell per
object on either stack. `CellPool` keeps its free cells on a `LockFreeStack`, so a cell
travels between three stacks while other threads still look at it. The thread pool runs
`filter_AVX_impl0`, whose threads share out the blocks of a picture through an atomic
counter. The repeat control reads the order list `lwindex.c` made and asks the decoder
for pictures. The decoder driver answers from where the decoder stands or seeks to a random accessible point,
feeds packets and counts how many pictures the decoder lags behind; what it leaves behind is where the next request starts.

What is hard, and what makes each component correct:

* **LockFreeStack.** ABA: the head has the pointer a suspended `pop` read, but the cell went
  to another stack and came back with another link. The two halves of the head are read one
  after the other. *Correct*: linearizable, and no cell is ever in two places.
* **CellPool.** Three words (zone list, number of zones, number of cells) that no step changes
  together; two threads that see the same missing zone; exceptions half way. *Correct*: cells are
  conserved; the assertions of `clear_all` hold; a call that can succeed ends.
* **ObjPool.** The number of cells on its two stacks must agree whatever allocation fails
  in between. *Correct*: one user per object, every object deleted once.
* **FilterResize.** Tiles at the borders; a call that returns while its tiles are still
  queued; an exception past a cell. *Correct*: each pixel is written once before the plane is
  delivered, and what was borrowed comes back.
* **Thread pool.** The master deletes the job as soon as it is woken; events and counters are reused
  from job to job; threads start before the pool is initialized. *Correct*: every thread runs each
  job once, each block is filtered once, nobody uses a deleted job, calls return.
* **Repeat control.** One request's leftovers are another's input; a cached frame is assembled
  in the buffer another shortcut relies on. *Correct*: each frame served is the one asked for.
* **Decoder driver.** A decoder holds pictures back, reorders them, drops leading pictures, refuses packets; a demuxer
  lands elsewhere than it was asked to. The driver estimates the delay, corrects it with every picture, and retries from earlier points,
  at last with errors ignored. *Correct*: the picture asked for arrives, no request retries without a fault, every request ends.

`PROJECT.json` lists every hazard with its line.

## 2. The modules

```
 AtomicStack  <==refines== LockFreeStack ........ LockFreeStackProofs
                              |  push and pop become single steps
                         CellPoolSteps .......... CellPoolStepsProofs (lemmas)
                          |         |
                       CellPool   ObjPool ....... CellPoolProofs, ObjPoolProofs
                          |<--implements--|
                                    |  both pools become "one nobody else has, or a failure"
                             FilterResize ....... FilterResizeProofs

 ThreadPool ..................................... ThreadPoolProofs
 LwlibavVideo ................................... LwlibavVideoProofs
      |  takes every picture for delivered
 FrameServer  <==implements== LwlibavDecoder .... LwlibavDecoderProofs
```

`MC*.tla` gives TLC the instances (symmetry sets, and for the frame server the order lists).
Each model also holds, beside the definition it varies, a few *faulty forms* of definitions
(`Cas2KeepsCount`, `WaitsNot`, ...): a slip each, which the property named in
`PROJECT.json` must notice. They are not part of the specifications.

**LockFreeStack** (LockFreeStack.hpp, AtomicPtrIntPair.hpp). One action per access to a shared
word: `PushReadPtr`, `PushReadVal`, `PushLink`, `PushCas`/`PushRetry`; `PopReadPtr` (or `PopEmpty`),
`PopReadVal`, `PopReadNext`, `PopCas`/`PopRetry`, `PopClear`. `WeakCas` allows the spurious failures
of the portable build (not x86). `stk` is auxiliary: the contents, changed by the step of
the successful compare-and-swap. Counts are natural numbers: the wrap at the width of
`ptrdiff_t` is not modelled.

**AtomicStack** promises that each push and pop takes effect at one instant between call and
return, and that `pop` answers 0 only when the stack is empty at such an instant.

**CellPoolSteps** (CellPool.hpp) has the state of a pool and the steps inside it. `take_cell` is `CallTake`, `TakePop`, `TakeGrows`
(into `expand_to`, with the number of zones read once before the loop), `TakeFindsNone`, `TakeCount`; `expand_to` is `CallExpand`,
`ExpandSkips`, `ExpandAllocates`, `ExpandDone`; `allocate_zone` is `Lock`, `AllocThrows`, `ZoneIsNew` or `ZoneIsTaken`,
then `FillPush`, `FillCount` per cell; `return_cell` is `CallReturn`, `ReturnCount`. `_nbr_avail_cells` wraps at `SizeMod`, as `size_t` does.

**CellPool** adds the program around a pool, which may call anything at any time as long as it returns only cells it holds, and `ClearAll`.

**ObjPool** (ObjPool.hpp) adds the one program fmtconv has: a call of `take_cell` by `take_obj` goes through the steps of
CellPoolSteps, it is not an atomic step. `take_obj` is `TakeFree`, or `TakeEmpty` and, as a step of its own, the factory (`TakeCreates`, `TakeCreatesNone`),
then `TakeWantsCell` and `TakeRecords` or `TakeDeletes`. `UsesPoolRightly` says that ObjPool implements CellPool, with `client` standing for the cells
on the two stacks and in the hands of threads.

**FilterResize** (FilterResize.cpp, AvstpWrapper.cpp). `Call` is the branch of `process_plane` to `process_plane_normal`; `Call` and `Advance` are the two nested loops, `Cut`
fills and enqueues one task, `Enqueue` runs it at once or queues it, `Start`, `TakeBuffer`, `Passes`, `ReturnBuffer` and
`ReturnCell` are `process_tile`; the `...Fails` actions are the exceptions. The tile sizes, which the
constructor computes, are constants, and a pass "writes the area of its tile".

**ThreadPool** (threadPool.cpp, modelHandler_avx_func.hpp; the Linux build). An event is an eventfd counter.
`StartThread`, `InitDone`; `StartFunc`, `SetFunc`, `NotifyAll`, `AllNotified`, `JobDone`; `Fini`, `NotifyFini`, `Join`; the threads take
`WaitEvent`, `Exit` or `CallFunc`, `NextBlock`, `FilterBlock`, `Count`, `NotifyMaster`.

**LwlibavVideo** (lwlibav_video.c). `Request` translates the decisions of `lwlibav_repeat_control`
into the list of steps `todo`, which the code also takes one after the other; `SameAgain`, `FirstValid` and `Decode` are
the three ways of `get_requested_picture`; `CompareCaches` is the comparison of the two caches once both have been fetched
(`check_frame_buffer_identical`); `CopyWhole` is `copy_frame`, and `copy_field` is `WriteField` or, where the memory of the output buffer is not its own, `MakeWritable`.
A frame (the output buffer, the caches, the first valid picture) is seen as the pictures its two fields come from (`content`) and as who
else refers to its memory (`sharers`): a field written into one frame changes every frame that shares its memory, so a
copy into memory a cache still refers to would be seen by `CacheFresh`. "decoder" among the sharers is a reference libav may have kept or dropped:
either way of `copy_field` is then possible.

**FrameServer** is the promise of the decoder driver: every request is answered, and on a sound stream the answer is the picture asked for,
or the first valid picture for those before it. On an unsound stream the answer may be an error or another picture, and the program may crash.

**LwlibavDecoder** (lwlibav_video.c:357-1015). A step is one turn of a loop: one packet fed or one picture flushed. `Ask`; the ways of
`get_requested_picture` to begin are `SameAgain`, `BeforeFirstValid`, `GoOn` and `SeekFirst`; `SeekMisses`, `SeekFeeds` and `SeekEnds` are
`seek_video`; `GetFeeds`, `GetEnds` and the `Flush` actions are `get_frame`; `GiveUp`, `RetryIgnoring` and `RetryEarlier` are the retry loop.
`vdhp` has the fields of the handler that outlive a request, `call` the locals of the request in hand. `Fed`, `Corrects` and `SoughtTooFar` are
the correction of the packet number in `decode_video_picture`, `Observed` the correction of the delay. libav is seen from outside (`Outcomes`,
`Landings`): it takes packets from where a seek landed, holds up to `held` pictures back (and announces `announced`), puts them out in presentation order,
refuses `broken` packets, and drops a leading picture, silently or with an error, where it was opened at the point that picture follows. A picture in a
buffer is its number and the identifier the driver reads (`id`, `frame->pts`), which `Deliver` overwrites with the time stamp.
What a stream may be is `StreamOK`: among others the rule of the codings that a random accessible point is shown after everything coded
before it, and that what is coded after the next point is shown after it (`InGroups`). Loop ends are compared as the code compares them,
unsigned (`Beyond`): a goal that has fallen below zero is far away.
`FlushFails` is the decoder that returns an error when it is flushed (`flush_fails`): the request is retried.
A stream is `Told` if the code can notice where a seek has landed and what the decoder has lost: by DTSs, or, without them, because no seek drifts and
because the pictures come with numbers or no packet is refused. Without this the code cannot know which picture it holds, and `Right` and `DelayExact` promise nothing.
*Sound* streams are `Told`, have no broken packet and a decoder that can be flushed, put something out before the end from each random accessible point, have no time stamp equal to the number of the
next picture, and their seeks do not land late. `doubt` is history: since the last seek a request has failed or an error was passed over, or that seek was a retry that began behind the picture or left a
stale number in the buffer.
The refinement mapping shows `sound`, `first_valid` and the answer as they are, and maps `asked` to 0 between requests, to -1 after a crash, and to
the picture of the request otherwise: everything between question and answer is a stutter.

## 3. The runs

| run | what is asked | distinct states |
|---|---|---|
| `stack` | chains, ownership, ABA, links, linearizability, calls return | 750 000 |
| `pool_grow` | cells conserved, counters exact, zones dense, `clear_all` finds what it asserts | 337 000 |
| `pool_returns` | calls end; what spins is overtaken | 39 000 |
| `obj_pool` | one user per object, none forgotten, the assertion of `cleanup`, correct use of the cell pool | 666 000 |
| `obj_take_spins` | *violated*: `take_obj` answers | |
| `resize` | tiles cover the plane once, no tile outlives its call, what is out of a pool is in the hands of one task, calls end; with avstp, and without it with memory short anywhere or never | 690 000 |
| `thread_pool` | jobs and pool alive, jobs run once, blocks filtered once, wake-ups exact, calls return | 14 000 |
| `video_repeat` | caches fresh, frames from caches and frames played forward right, no seek back | 358 000 |
| `video_wrong_frame` | *violated*: every frame is the one asked for | |
| `decoder` | the picture asked for arrives, the delay is exact, retries only over faults, every request ends (implements FrameServer) | 542 000 |
| `decoder_crash` | *violated*: there is a last output frame when the flush asks for it | |
| `decoder_time_stamp` | *violated*: the picture asked for arrives whatever the time stamps | |

Bounds, and why they are enough to meet the interesting case:

* `stack`: two threads, three cells, two stacks, no call begins on a stack whose count has reached
  `MaxVal` = 5. A suspended `pop` meets its cell popped, pushed on the other
  stack, popped there and pushed back: with `Cas2KeepsCount` (no modification
  count) the run fails. It is the only run without a deadlock check: at the bound every thread may be idle
  with nothing left to start, which the program does not know.
* `pool_grow`: three threads, zones of 2 and 3 cells, a list of two zones, so that one thread fills a zone, another
  waits for the mutex, and a third empties it. `SizeMod` = 16 is larger than any true count, and small
  enough for the wrap below zero to be a different value. `expand_to` grows one zone at a time here; the constructor of `ObjPool`,
  which asks for several at once, is in `obj_pool`. With several, and an allocation that throws, `ClearAssert` fails (section 5).
* `pool_returns`: two threads, allocations succeed. With `MayThrow` other threads could fail and call again for ever
  while one thread waits for the mutex, which says nothing about the pool.
* `obj_pool`: two threads, three objects, a pool of five cells: both the factory and the pool
  reach their limits. The call of the constructor is part of `Init`. `obj_take_spins` has zones of 1 and 2 cells.
* `resize`: a plane of 3 x 3 in tiles of 2 x 2 has partial tiles in both directions; two callers resize two planes each, with two library threads or none.
  Two cells and two buffers bound the tasks at once: a caller waits for a cell where the pools would grow. Memory runs short only without avstp,
  as section 5 explains. `written` counts to 2.
* `thread_pool`: three threads, jobs of one to four blocks (fewer and more than threads), two jobs in a row.
* `video_repeat`: four pictures, with *every* order list the loops of lwindex.c:922-1105 make
  from any repeat flags, field orders and dominance, and no list; any of the four the first valid one; requests in
  any order, without bound on their number. One case is left out, see section 6. `video_wrong_frame` has three pictures.
* `decoder`: six pictures and 288 streams (`MCStreams`): every picture a random accessible point; closed and open groups of three; a stream whose first
  picture cannot be decoded; a pyramid that holds two pictures back; decoders that hold back none, one or two pictures, or all until the flush, and
  announce more; packets refused at the beginning, in the middle, at a point and at the end; seeks that land early or late; decoders that cannot be flushed; all three modes;
  with DTSs and without, each with drifting seeks and refused packets; time stamps that look like numbers. Six pictures are two groups of three, the least with a leading picture whose group has
  a predecessor, and with a threshold of two pictures a request can go on, go on past a point, or seek. The requests are unbounded, in any order.
  `MAX_ERROR_COUNT` is that of the code, `UNSET` (0) stands for INT64_MIN. `decoder_crash` has the intra-only streams with one picture of delay, `decoder_time_stamp` those whose stamps are one ahead.

Fairness. Only what the operating system gives: a thread inside a call keeps running (weak
fairness of its steps). Nothing is assumed of when the program calls, of the order in which a
mutex is granted or of who wins a compare-and-swap. In `resize` the library begins a task if a
thread stays free for it. In `thread_pool` the threads and the master are scheduled; the program may
never call again. `LwlibavVideo` is sequential and has no liveness property here. In `decoder` the thread that asked runs the
request on (`WF_vars(Handle)`); it need not ask again. Calls of libav are taken to return.

## 4. The proofs

A theorem holds for every value of the constants that the assumptions of its module allow: `StackAssumption`; `PoolAssumption`
(a finite set of threads, zones that grow) with `OutcomeAssumption` (the null pointer is no cell), `SizesAssumption` and `ObjAssumption`
(a pool is asked for at least one cell); `ResizeAssumption` (no size is zero, a finite number of calls); `PoolAssumption` of
ThreadPool; `VideoAssumption`; `DecoderAssumption` (at least two pictures, every stream is `StreamOK`). TLC evaluates each of them in
the runs. Every invariant is proved by an inductive one, called `IInv` in each module, that TLC has checked on the small instances first.
Where a theorem has a condition, it is in its statement, and is explained here.

**LockFreeStackProofs** — any number of threads, cells and stacks, strong or weak compare-and-swap.
`IInv` = `TypeOK` (locals are what their program point needs), `HeadsList` (the links from each head spell
`stk`), `OnePlace` (each cell is in one stack, one thread or the program, once), `CasSound` (a `pop`
about to succeed holds the current link) and `CountPast` (a count read is not ahead
of the head). None stands alone: `HeadsList` survives a `pop` because of `CasSound`; `CasSound` survives
other threads because only the owner of a cell writes its link (`OnePlace`) and because a head
that has changed never has its count back (`CountPast`). `LinkSafe` is an action property;
`Implements` shows that every step is a step of `AtomicStack` or a stutter. This theorem is why CellPool may use atomic
pushes and pops.

**CellPoolStepsProofs, CellPoolProofs** — any number of threads, any number and sizes of zones. The first has lemmas only: what a
step inside a pool keeps, with the cells outside the pool before and after it as parameters, so that both clients can use them. It
also has the little induction the module needs, over sets of numbers with a least element (`NatLeast`, `IsRec`), since
`ZoneSize` and `TotalSize` are recursive functions. `Basic` says that at most the holder of the mutex fills a
zone (`FillAlone`), only a zone that is in the list (`InZone`), and who holds a popped cell (`GotByPc`); it holds whatever is thrown. `Zones` says that the
list has no gap, that `expand_to` has seen every zone it has passed, and that each zone in the list is counted or will be by a thread
that is past it (`Counting`): from that follow `CellsConserved`, `ZonesStayDense` and `ClearIsSafe`. These three
are proved under `OneZone`: where an allocation may throw, no call asks for more than the first zone's cells. Without it they are false, because of
the defect in section 5 (CellPool.hpp:127): zones filled before the one that throws are never counted, and `clear_all` forgets them. What remains is proved without
the condition, for the cells forgotten then count as cells outside the pool (`Forgotten`): no cell is ever in two places (`NeverTwice`), and
`_nbr_avail_cells` is exact (`CounterExact`), which is an argument of cardinality: cells on the stack, plus pops
and minus pushes not counted yet, modulo `SizeMod`.

**ObjPoolProofs** — any number of threads, any factory, any zones, any failure of an allocation or of the factory: nothing but the assumptions is presumed
(the constructor's call of `expand_to` ends before threads meet). `IInv` says that a cell out of the pool is on one of the stacks or with the
one thread that popped it (`CellsApart`), which phase of `take_obj` and `return_obj` goes with which state of the cell pool
(`Phases`), and that no live object is lost (`Found`). It gives `LentOnce`, `RecordedOnce`, `CleanupIsSafe` and, step by step, `PoolUsedRightly`: every
step of ObjPool but `cleanup` is one of CellPool or a stutter.

**FilterResizeProofs** — any sizes of plane and tile, any callers, workers, cells and buffers. `TypeCorrect` and `CellsReturn` rest on `OneCell` and
`OneBuffer`: what is not in a pool is in the queue or with one thread. `TrgStaysAlive` and `PlaneWrittenOnce` need more:
a task is active only while its call is (`Live`); the tiles still to be written are disjoint (`Apart`) and lie where the two loops have been (`Inside`); and a pixel
is written once exactly if the loops have been there and no task still has it (`Counted`). The geometry is in the lemmas on `Swept`: one more tile
extends it by exactly that tile, also at the borders. These two are proved under `Sheltered`: not both the avstp library and short memory. With both a queued
task may outlive its call (section 5).

**ThreadPoolProofs** — any number of threads, blocks and jobs. `IInv` = `TypeOK`, `Phase` (where each thread
can be, given where the master is), `Counted` (`fini_count` is the number of threads that have finished, and
at most one wakes the master) and `Handed` (each block below the counter is filtered or in one thread's hands). That the
job is alive while it is used rests on the count being exact, and that on each thread being woken once.

**LwlibavVideoProofs** — any number of pictures, any order list in which the fields run through the pictures in
order (`Covers`), requests in any order. `CachesFresh` says that a cache holds the picture it is filed under although pictures are copied
from the buffer of the last request. It needs `LastSound`: if that buffer is the output
buffer, which may have been overwritten since, then the picture belongs to one frame alone (`Lone`), and no cache will
ask for it (`LoneFrame`, `NotLone`: here the order of the list is used). `CachedFramesRight`, the
frame assembled from the caches is the one asked for, needs `TodoSound` (what the request has still to fetch and copy) and `CopySound` (each field
is right already or still to be copied from a cache that has, or will have, its picture). `PlanForms` reduces the decision
to its forms of request. `SharersSound` (frames that share memory know of each other and show the same) is what makes a copied field safe: it is written only into memory no frame
shares, and a frame whose first field has just been copied shares its memory with nobody (`Settled`).

`ForwardFramesRight` says the same of every frame, as long as the requests never go back: `LastLeft`, the picture that went
straight to the output buffer belongs to no frame still to come but the one in hand. This is what fails in `video_wrong_frame`.
`NeverSeeksBack` is an action property, and rests on `Kept` (a picture before the last one that a frame to come still needs is in a cache) and `PairTodo`
(when the later of two neighbours is fetched, the earlier is in the other cache and stays there).

**LwlibavDecoderProofs** — any number of pictures, any coding order and any groups `StreamOK` allows, any delay, all three modes. The type
invariant (`TypeCorrect`) holds on *every* stream. It is not obvious: it says that the retries end, and that the counters stay within
the stream, which rests on `InHand` (where a request starts, and that it has errors left unless it ignores them) and `InStep` (the number of the packet
in hand is the one the demuxer gives). So does `ServesSafely`, the safety half of the refinement: each step is one of FrameServer or a stutter; only an
unsound stream crashes.

The others are about sound streams (defined in section 2): `ServedRight`, `DelayRight`, `NoRetry`, `NoCrash`. The first two are stronger there than the
properties `Right` and `DelayExact` that the run checks, since they presume nothing of the last seek (`NeverWrong`, `DelayKept`), and weaker elsewhere, where those
properties still speak of requests without `doubt`. The argument is one of counting. A decoder that holds `H` pictures back and is
opened at a point shown as picture s holds at most `H` of the pictures from s on as long as it has been fed less than packet s + H (`HoldsFew`); from
there on it would hold more (`HoldsMany`), and the least of them is picture c - H, c being the packet fed last (`Arrives`, `DueGoes`). So nothing comes out before packet s + H and picture c - H with each packet c
from there on. `SoundInv` says how each counter of the driver mirrors this: before the first picture comes out the delay is the announced one (`NotYet`), afterwards it is `H`
(`ComingOut`, `Settled`), and the goal, the delay count, the packet fed last and the picture in the buffer differ by just that; leading
pictures are lost before the first output only (`LeadingLost`), which is why their errors are never taken for faults.

Only model-checked: liveness (`CallReturns`, `OthersReturn`, `SpinsOnlyWhenStale`, `PlaneEnds`, `MasterReturns`, and the liveness half of `Serves`), since the prover has neither fairness nor `ENABLED`;
and `Right` and `DelayExact` on streams that are not sound but `Told`, where packets are refused, the flush fails, seeks land late or the stream ends within the delay of the decoder.

## 5. What was found

Places where the code does not do what its comments say, each with a run that shows it:

1. `obj_take_spins`. `take_cell` reads the number of zones once (CellPool.hpp:139). If another thread makes the next zone and keeps its cells, the loop
   asks for a zone that exists, for ever, even after an object has become free. `take_obj` promises an answer
   (ObjPool.hpp:114). `SpinsOnlyWhenStale` shows that this is the only way a call fails to end.
2. `video_wrong_frame`. `lwlibav_repeat_control` copies a cached frame into the output buffer and leaves `last_req_frame` and
   `last_frame_number` alone (lwlibav_video.c:1119). Asking again for a picture that had gone straight to that buffer delivers the
   other frame. Requests that never go back are safe (`ForwardRight`), and so are frames assembled from the caches.
3. `decoder_crash`. The flush reads `last_dec_frame` (lwlibav_video.c:835) before the decoder has put a picture out: the pointer is NULL. It takes a first request so
   near the end that everything fed is still held back.
4. `decoder_time_stamp`. `get_requested_picture` overwrites the identifier of the delivered picture with its time stamp (1008), and the next flush reads it
   as an identifier (835). With time stamps one ahead of the numbers the last pictures of the stream are all answered with the same one.

Two of the conditions in section 4 are such places, too. Two more that the models show when their inputs are widened, and that no run checks: `CellPool::expand_to` counts its zones after the last one
(CellPool.hpp:127), so if a later allocation throws, the earlier zones stay uncounted, `clear_all` does not free them and its
assertion (79) fails (`ExpandSizes = {5}` in `pool_grow`); and `process_tile` throws when it gets no buffer, past its
`return_cell` (FilterResize.cpp:653, against the comment at 593), which is why `AllReturned` asks for enough memory.

What the driver does after a failure is left open by `Right` (its `doubt`), since the code does not keep it either: a failed request has fed
packets that `last_frame_number` does not tell of, and a request near by is then answered with what the buffer holds (757-763); a
seek that ignores errors can end the same way. A retry after a request that had not sought uses `rap_pos` as it was initialised, INT64_MIN (953, 995): `Landings` takes
it to the beginning or nowhere. `seek_video` looks the configuration of the decoder up with a number in decoding order in a list in
presentation order (590). A decoder that announces less delay than it has is outside `StreamOK`.

Noticed on the way, without a run: the comment "this part shouldn't be accessed" at CellPool.hpp:197 marks
code that two growing threads do reach, where it is right (`ZoneIsTaken`); `ObjPool::return_obj` is documented
"Throws: Nothing" (178) and throws at 197; with avstp and short memory, queued tasks outlive the local `trg` of the call
that throws (the assertion at FilterResize.cpp:643 fails when a build of `MCBuilds` has both); `finiThreadPool` never
deletes the pool itself; the README of lsmashsource (117-123) says `dominance` needs `repeat = 0` or field-coded pictures, while lwindex.c
(941, 1013) always applies it; `NoSeekBack` holds only if no frame joins fields further apart than
neighbours (`Near`): a forced dominance over a changing field order makes two caches too few.

## 6. What is not modelled

* Arithmetic on pixels, coefficients and formats: no interleaving in it, and out of a model checker's reach.
* The retry of `AtomicPtr::cas` on targets other than x86, the wrap of the modification count, and weak memory
  orders: every access to a shared word is one sequentially consistent step.
* In FilterResize, how the constructor chooses tiles and passes, and `process_plane_bypass`, which copies a plane without tiles. In the thread pool, the error paths
  of eventfd and of the thread constructor, and the Windows build.
* In LwlibavVideo, requests that fail (each `Decode` delivers what LwlibavDecoder promises of a sound stream), pictures coded as fields (`repeat_pict` 0),
  direct rendering and conversion to a constant rate, whose search (lwlibav_video.c:1212) starts from the frame found last and so depends on what was asked
  before where the last frames have no time stamp. Left out of the inputs: a dominance forced over a first
  picture of unknown field order, for which lwindex.c:941 counts a frame too many, made of picture 0.
* Starvation. The stack is lock-free, not wait-free: a `pop` may lose its compare-and-swap for ever while others succeed. In `stack` the number of
  compare-and-swaps is bounded (`MaxVal`), so `CallReturns` shows that a lost race is retried with what the head holds now, not that nobody starves.
* In LwlibavDecoder, what is delivered where the stream is not `Told`: without DTSs a seek that lands elsewhere is not noticed, and without numbers neither is a refused packet.
  The run has such streams; type, termination, the time of retries and the answer to every request are checked there, the picture is not.
  Also left out: pictures coded as fields and everything `last_half_frame` decides, changes of the decoder configuration, streams of one
  picture, a decoder that cannot be reopened (`vdhp->error`), and a second output buffer (LwlibavVideo has it).
* `LockFreeQueue` (nobody includes it), the index builder, the MP4 source, the other frame servers, the filters with scratch memory per
  thread and those the host serialises: see `components` in `PROJECT.json`.

## 7. Plan

Done: the stack with its refinement; the pools, the resizer, the thread pool, the repeat control and the decoder driver with its
refinement; proofs of every safety property of these that a passing run checks, of the decoder driver's where the stream is sound. Next, most important first:

1. `Right` and `DelayExact` without `Sound`. Two cases. Where pictures leave the decoder with a number (`Numbered`) no counting is needed: as long as `~doubt`,
   a buffer that is held bears the number of its picture, pictures come out in increasing order, every whole picture that has been fed
   and is decodable is held or was put out, and the delay is the distance between packet and number. Where they have none, packets are
   in order, none is refused and no seek drifts (`Told`), and `SoundInv` holds with the lesser of `H` and what the stream has left from the point as the delay.
2. A failing step in LwlibavVideo, to see which cache keeps a number it should lose (1163); field-coded pictures in both models.
