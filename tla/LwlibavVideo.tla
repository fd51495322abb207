---------------------------- MODULE LwlibavVideo ----------------------------
(***************************************************************************)
(* The repeat control of the lsmashsource plugin (common/lwlibav_video.c): *)
(* it serves the frames of an order list, whose two fields may come from   *)
(* different pictures, in any order the user asks, from one output buffer  *)
(* and two cached frames.                                                  *)
(*                                                                         *)
(* VapourSynth asks for one frame at a time (fmUnordered).  A request      *)
(* fixes what is to be fetched and copied; the steps are then taken one by *)
(* one.  A frame is seen as the pictures its two fields come from, and the *)
(* frames that refer to the same memory change together.                   *)
(*                                                                         *)
(* Abstracted: seek_video and get_frame deliver the picture asked for.     *)
(* Left out: requests that fail, pictures coded as single fields           *)
(* (repeat_pict 0), frame tripling and the conversion to constant rate.    *)
(***************************************************************************)
EXTENDS Integers, Sequences

CONSTANTS
  P,          \* frame_count of the decoder: the number of pictures
  Orders      \* the order lists the index can give, <<>> for no repeat control

Pictures == 1..P

\* An order list: both fields of the frames run through the pictures in order, every
\* picture is shown in one field at least, and none is jumped before the last frame.
Covers(list) ==
  /\ list \in Seq([top : Pictures, bottom : Pictures])
  /\ \A i, j \in DOMAIN list : i < j => /\ list[i].top <= list[j].top
                                       /\ list[i].bottom <= list[j].bottom
  /\ \A i \in 2..Len(list) - 1 : /\ list[i].top - list[i - 1].top <= 1
                                 /\ list[i].bottom - list[i - 1].bottom <= 1
  /\ \A p \in Pictures : \E i \in DOMAIN list : p \in {list[i].top, list[i].bottom}

ASSUME VideoAssumption ==
  /\ P \in Nat \ {0, 1}
  /\ \A list \in Orders \ {<<>>} : Covers(list)

Caches == {"cache0", "cache1"}               \* vohp->frame_cache_buffers
Buffers == Caches \cup {"frame"}             \* and vdhp->frame_buffer
Owners == Buffers \cup {"valid"}              \* and vdhp->first_valid_frame

VARIABLES
  order,                \* vohp->frame_order_list, empty without repeat control
  first_valid,          \* vdhp->first_valid_frame_number
  content,              \* content[o]: the pictures the fields of frame o come from, 0 for none
  sharers,              \* sharers[o]: who else refers to the memory frame o has: other
                        \* frames, and "decoder" (perhaps)
  last_req_frame,       \* the buffer the last picture went to
  last_frame_number,    \* the picture it is taken to hold
  frame_cache_numbers,  \* frame_cache_numbers[c]: the picture cache c is filed under, or 0
  n,                    \* the frame asked for, 0 before the first
  todo,                 \* the steps left of the request
  forward,              \* history: no request has gone backwards
  direct                \* history: the last request asked for its picture without a cache

Sides == {"top", "bottom"}
lists == <<order, first_valid>>
server == <<content, sharers, last_req_frame, last_frame_number, frame_cache_numbers>>
vars == <<lists, server, n, todo, forward, direct>>

Frames == IF order = <<>> THEN Pictures ELSE DOMAIN order
OrderAt(i) == IF i \in DOMAIN order THEN order[i] ELSE [top |-> 0, bottom |-> 0]
FieldsOf(i) == {OrderAt(i).top, OrderAt(i).bottom}

(***************************************************************************)
(* The beginning: the first valid picture is known and in a frame of its   *)
(* own unless it is the first picture; nothing is cached, and the number   *)
(* of the last picture forces a seek.                                      *)
(***************************************************************************)
Whole(p) == [top |-> p, bottom |-> p]
FirstFrame == IF first_valid = 1 THEN "frame" ELSE "valid"

Init == /\ order \in Orders
        /\ first_valid \in Pictures
        /\ content = [o \in Owners |-> IF o = FirstFrame THEN Whole(first_valid) ELSE Whole(0)]
        /\ sharers = [o \in Owners |-> IF o = FirstFrame THEN {"decoder"} ELSE {}]
        /\ last_req_frame = "none"
        /\ last_frame_number = P + 1
        /\ frame_cache_numbers = [c \in Caches |-> 0]
        /\ n = 0 /\ todo = <<>>
        /\ forward = TRUE /\ direct = FALSE

(***************************************************************************)
(* A request: what lwlibav_repeat_control decides from the caches          *)
(***************************************************************************)
Get(b, p) == [op |-> "get", buffer |-> b, picture |-> p, side |-> "both"]
CopyFrame(c) == [op |-> "copy", buffer |-> c, picture |-> 0, side |-> "both"]
CopyField(c, s) == [op |-> "copy", buffer |-> c, picture |-> 0, side |-> s]
Compare(s) == [op |-> "compare", buffer |-> "cache0", picture |-> 0, side |-> s]

Filed(p) == {c \in Caches : frame_cache_numbers[c] = p}

VictimNewer == IF frame_cache_numbers["cache0"] > frame_cache_numbers["cache1"] THEN "cache0" ELSE "cache1"

Victim == IF frame_cache_numbers["cache0"] > frame_cache_numbers["cache1"] THEN "cache1" ELSE "cache0"

Shared(i) == OrderAt(i).top \in FieldsOf(i - 1) \cup FieldsOf(i + 1)

WholeFrame(i) ==
  LET p == OrderAt(i).top
  IN  CASE Filed(p) # {} -> <<CopyFrame(CHOOSE c \in Filed(p) : TRUE)>>
        [] Filed(p) = {} /\ ~Shared(i) -> <<Get("frame", p)>>
        [] OTHER -> <<Get(Victim, p), CopyFrame(Victim)>>

FromCache(i, c) ==
  (IF frame_cache_numbers[c] = OrderAt(i).top THEN <<CopyField(c, "top")>> ELSE <<>>)
    \o (IF frame_cache_numbers[c] = OrderAt(i).bottom THEN <<CopyField(c, "bottom")>> ELSE <<>>)

Other(side) == IF side = "top" THEN "bottom" ELSE "top"

TwoFieldsDecoded(i) ==       \* both fields are decoded, those that were cached too
  LET first == IF OrderAt(i).top < OrderAt(i).bottom THEN "top" ELSE "bottom"
  IN  FromCache(i, "cache0") \o FromCache(i, "cache1") \o
        <<Get("cache0", OrderAt(i)[first]), Get("cache1", OrderAt(i)[Other(first)]),
          Compare(first)>>

TwoFields(i) ==
  LET t == OrderAt(i).top
      b == OrderAt(i).bottom
      first == IF t < b THEN "top" ELSE "bottom"
      copied == FromCache(i, "cache0") \o FromCache(i, "cache1")
      missing == {s \in {"top", "bottom"} : Filed(OrderAt(i)[s]) = {}}
  IN  IF missing = {"top", "bottom"}
      THEN <<Get("cache0", OrderAt(i)[first]), Get("cache1", OrderAt(i)[Other(first)]), Compare(first)>>
      ELSE copied \o IF missing = {} THEN <<>>
                     ELSE LET side == CHOOSE x \in missing : TRUE
                          IN  <<Get(Victim, OrderAt(i)[side]), CopyField(Victim, side)>>

PlanByNumber(i) ==           \* frame and picture numbers are taken for the same
  IF i = last_frame_number THEN <<>>
  ELSE IF order = <<>> THEN <<Get("frame", i)>>
  ELSE IF OrderAt(i).top = OrderAt(i).bottom THEN WholeFrame(i) ELSE TwoFields(i)

Plan(i) ==
  IF order = <<>>
  THEN IF i = last_frame_number THEN <<>> ELSE <<Get("frame", i)>>
  ELSE IF OrderAt(i).top = OrderAt(i).bottom THEN WholeFrame(i) ELSE TwoFields(i)

Request(i) ==
  /\ todo = <<>>
  /\ n' = i
  /\ todo' = Plan(i)
  /\ forward' = (forward /\ n <= i)
  /\ direct' = (order = <<>> \/ Plan(i) = <<Get("frame", OrderAt(i).top)>>)
  /\ UNCHANGED <<lists, server>>

(***************************************************************************)
(* get_requested_picture, into buffer b                                    *)
(***************************************************************************)
Getting(b, p) == todo # <<>> /\ Head(todo) = Get(b, p)

\* A picture that arrives in a cache is filed there; the others keep their numbers.
FileUnder(b, p) ==
  frame_cache_numbers' = [c \in Caches |-> IF c = b THEN p ELSE frame_cache_numbers[c]]

(***************************************************************************)
(* References: a frame drops the memory it has and comes to refer to that  *)
(* of src (av_frame_ref), or to new memory that only others may refer to.  *)
(***************************************************************************)
RefTo(dst, src) ==
  [o \in Owners |->
     CASE o = dst -> {src} \cup (sharers[src] \ {dst})
       [] o # dst /\ (o = src \/ src \in sharers[o]) -> sharers[o] \cup {dst}
       [] OTHER -> sharers[o] \ {dst}]

NewMemory(dst, others) == [o \in Owners |-> IF o = dst THEN others ELSE sharers[o] \ {dst}]

Receive(b, p, fields, refs) ==
  /\ content' = [content EXCEPT ![b] = fields]
  /\ sharers' = refs
  /\ last_req_frame' = b
  /\ FileUnder(b, p)
  /\ todo' = Tail(todo)
  /\ UNCHANGED <<lists, n, forward, direct>>

SameAgain(b, p) ==
  /\ Getting(b, p) /\ p = last_frame_number
  /\ IF b = last_req_frame
     THEN Receive(b, p, content[b], sharers)
     ELSE Receive(b, p, content[last_req_frame], RefTo(b, last_req_frame))
  /\ UNCHANGED last_frame_number

FirstValid(b, p) ==
  /\ Getting(b, p) /\ p # last_frame_number /\ p < first_valid
  /\ Receive(b, p, content["valid"], RefTo(b, "valid"))
  /\ last_frame_number' = P + 1

Decode(b, p) ==
  /\ Getting(b, p) /\ p # last_frame_number /\ p >= first_valid
  /\ Receive(b, p, Whole(p), NewMemory(b, {"decoder"}))
  /\ last_frame_number' = p

(***************************************************************************)
(* Both fields have been fetched: if both stand for the first valid one,   *)
(* the caches refer to the same memory and the frame is copied whole.      *)
(***************************************************************************)
CompareCaches(s) ==
  /\ todo # <<>> /\ Head(todo) = Compare(s)
  /\ todo' = IF "cache1" \in sharers["cache0"]
             THEN <<CopyFrame("cache0")>>
             ELSE <<CopyField("cache0", s), CopyField("cache1", Other(s))>>
  /\ UNCHANGED <<lists, server, n, forward, direct>>

(***************************************************************************)
(* copy_frame and copy_field, from cache c to the output buffer.  A field  *)
(* goes alone into a writable frame, one whose memory nobody else refers   *)
(* to; otherwise new memory is made and the whole frame is copied there.   *)
(***************************************************************************)
Copying(step) ==
  /\ todo # <<>> /\ Head(todo) = step
  /\ todo' = Tail(todo)
  /\ UNCHANGED <<lists, last_req_frame, last_frame_number, frame_cache_numbers, n, forward, direct>>

CopyWhole(c) ==
  /\ Copying(CopyFrame(c))
  /\ content' = [content EXCEPT !["frame"] = content[c]]
  /\ sharers' = RefTo("frame", c)

MaybeShared == content["frame"] = Whole(0) \/ sharers["frame"] # {}

WritableUnchecked == content["frame"] # Whole(0)      \* whoever shares its memory
MaybeWritable == content["frame"] # Whole(0) /\ sharers["frame"] \subseteq {"decoder"}

MakeReference(c, s) ==       \* the frame is not made writable afterwards
  /\ Copying(CopyField(c, s)) /\ MaybeShared
  /\ content' = [content EXCEPT !["frame"] = content[c]]
  /\ sharers' = RefTo("frame", c)

MakeWritable(c, s) ==
  /\ Copying(CopyField(c, s)) /\ MaybeShared
  /\ content' = [content EXCEPT !["frame"] = content[c]]
  /\ sharers' = NewMemory("frame", {})

WriteField(c, s) ==
  /\ Copying(CopyField(c, s)) /\ MaybeWritable
  /\ content' = [o \in Owners |-> IF o = "frame" \/ "frame" \in sharers[o]
                                 THEN [content[o] EXCEPT ![s] = content[c][s]] ELSE content[o]]
  /\ sharers' = [sharers EXCEPT !["frame"] = @ \ {"decoder"}]

Next == \/ \E i \in Frames : Request(i)
        \/ \E b \in Buffers, p \in Pictures : SameAgain(b, p) \/ FirstValid(b, p) \/ Decode(b, p)
        \/ \E s \in Sides : CompareCaches(s)
        \/ \E c \in Caches : CopyWhole(c)
        \/ \E c \in Caches, s \in Sides : MakeWritable(c, s) \/ WriteField(c, s)

Spec == Init /\ [][Next]_vars

(***************************************************************************)
(* Properties                                                              *)
(***************************************************************************)
Steps == [op : {"get", "compare", "copy"}, buffer : Buffers, picture : 0..P, side : {"both"} \cup Sides]

\* The types; a request is planned in at most three steps.
TypeOK ==
  /\ order # <<>> => Covers(order)
  /\ first_valid \in Pictures
  /\ content \in [Owners -> [top : 0..P, bottom : 0..P]]
  /\ sharers \in [Owners -> SUBSET (Owners \cup {"decoder"})]
  /\ last_req_frame \in Buffers \cup {"none"}
  /\ last_frame_number \in 1..P + 1
  /\ frame_cache_numbers \in [Caches -> 0..P]
  /\ n \in {0} \cup Frames
  /\ todo \in Seq(Steps) /\ Len(todo) <= 3
  /\ forward \in BOOLEAN /\ direct \in BOOLEAN

\* Pictures that stand for the first valid one are not decoded.
Shown(p) == IF p < first_valid THEN first_valid ELSE p
Ready == n # 0 /\ todo = <<>>

\* What the order list (or, without it, the number) asks frame n to be.
Wanted(i) == IF order = <<>> THEN Whole(Shown(i))
             ELSE [top |-> Shown(order[i].top), bottom |-> Shown(order[i].bottom)]

\* frame_cache_numbers: a cache filed under a picture holds that picture, although
\* pictures are fetched from the last buffer that got one, which may be the output
\* buffer, overwritten since, and although fields are written into an output buffer
\* whose memory other frames had; no picture is cached twice; and the frame that
\* stands for the pictures before the first valid one stays what it is.
CacheFresh ==
  /\ \A c \in Caches : frame_cache_numbers[c] # 0 => content[c] = Whole(Shown(frame_cache_numbers[c]))
  /\ frame_cache_numbers["cache0"] = frame_cache_numbers["cache1"] => frame_cache_numbers["cache0"] = 0
  /\ first_valid # 1 => content["valid"] = Whole(first_valid)

\* lwlibav_repeat_control: a frame that comes out of the caches is the one asked
\* for, after any earlier requests.
CachedRight == Ready /\ ~direct => content["frame"] = Wanted(n)

\* Why the caches stay right: the strengthening of CacheFresh and CachedRight.
\* A picture that went straight to the output buffer belongs to one frame only.
Lone(p) == \A i \in DOMAIN order : p \in FieldsOf(i) => FieldsOf(i) = {p} /\ ~Shared(i)

\* The last picture is still in its cache, or it is one that no cache will ask for.
LastSound == last_frame_number \in Pictures =>
  \/ last_req_frame = "frame" /\ Lone(last_frame_number)
  \/ last_req_frame \in Caches /\ frame_cache_numbers[last_req_frame] = last_frame_number

\* A picture is fetched into a cache only if no cache has it, no picture and no
\* buffer is used twice in a request, and a whole frame is copied last, as are two
\* fields that have been compared.
IsGet(step) == step.op = "get"
GetSound(b, p) == IF b = "frame" THEN Lone(p) /\ direct ELSE Filed(p) = {} /\ ~Lone(p)
TodoSound ==
  /\ \A k \in DOMAIN todo :
       \/ \E b \in Buffers, p \in Pictures : todo[k] = Get(b, p) /\ GetSound(b, p)
       \/ \E c \in Caches, s \in {"both"} \cup Sides :
            todo[k] = CopyField(c, s) /\ (s = "both" => k = Len(todo))
       \/ \E s \in Sides : todo[k] = Compare(s) /\ k = Len(todo)
  /\ \A j, k \in DOMAIN todo : j # k /\ IsGet(todo[j]) /\ IsGet(todo[k]) =>
       todo[j].picture # todo[k].picture /\ todo[j].buffer # todo[k].buffer

\* When a field is copied from a cache, the cache has what is to be shown for that
\* field; and a field that is not to be copied any more has been, into memory nobody
\* shares.
CopiesTo(step, side) == step.op = "compare" \/ (step.op = "copy" /\ step.side \in {"both", side})
CopiesFrom(step, side) == IF step.op = "compare" /\ step.side # side THEN "cache1" ELSE step.buffer
Stands(c, p) == frame_cache_numbers[c] # 0 /\ Shown(frame_cache_numbers[c]) = Shown(p)
Fetched(k, side) ==
  LET c == CopiesFrom(todo[k], side)
      Before == {j \in DOMAIN todo : j < k /\ IsGet(todo[j]) /\ todo[j].buffer = c}
  IN  /\ \A j \in Before : todo[j].picture = OrderAt(n)[side]
      /\ Before = {} => Stands(c, OrderAt(n)[side])
Settled(side) == /\ content["frame"][side] = Shown(OrderAt(n)[side])
                 /\ todo = <<>> \/ sharers["frame"] = {}
CopySound == n # 0 /\ ~direct =>
  /\ order # <<>>
  /\ \A side \in Sides :
       /\ \A k \in DOMAIN todo : CopiesTo(todo[k], side) => Fetched(k, side)
       /\ Settled(side) \/ \E k \in DOMAIN todo : CopiesTo(todo[k], side)

\* Frames that share memory know of each other, and show the same.
SharersSound == \A o \in Owners :
  /\ o \notin sharers[o]
  /\ \A q \in Owners : q \in sharers[o] => o \in sharers[q] /\ content[q] = content[o]

IInv == TypeOK /\ CacheFresh /\ LastSound /\ TodoSound /\ CopySound /\ SharersSound

\* lwlibav_video_get_frame: as long as the requests never go back every frame is
\* the one asked for, frames asked for twice and frames skipped included.
ForwardRight == Ready /\ forward => content["frame"] = Wanted(n)

\* Two caches are enough to play forward: as long as no frame takes its fields from
\* pictures further apart than neighbours, a picture that has been passed is never
\* decoded again, so the decoder never seeks back.  (A forced field dominance over a
\* stream whose field order changes drives the fields two pictures apart.)
Near == \A i \in DOMAIN order : order[i].top - order[i].bottom \in -1..1
NoSeekBack ==
  [][Near /\ forward /\ last_frame_number \in Pictures /\ last_frame_number' \in Pictures
       => last_frame_number <= last_frame_number']_vars

\* "The last frame is the requested frame": every frame delivered is the one asked
\* for, in whatever order frames are requested.
EveryFrameRight == Ready => content["frame"] = Wanted(n)
=============================================================================
