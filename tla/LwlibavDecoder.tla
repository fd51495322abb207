--------------------------- MODULE LwlibavDecoder ---------------------------
(***************************************************************************)
(* How the frame server of the lsmashsource plugin gets a picture          *)
(* (common/lwlibav_video.c: get_requested_picture, seek_video, get_frame,  *)
(* decode_video_picture): it finds the random accessible point to start    *)
(* from, feeds packets, estimates by how many pictures the decoder lags    *)
(* behind, flushes the decoder at the end of the stream, and retries.      *)
(*                                                                         *)
(* Packets are numbered in decoding order, pictures in presentation order, *)
(* both from 1.  A step is one turn of a loop: one packet fed or one       *)
(* picture flushed.  The decoder and the demuxer of libav are seen from    *)
(* outside: which packet comes next, which pictures are held back.         *)
(*                                                                         *)
(* Left out: pictures coded as single fields (repeat_pict 0), changes of   *)
(* the decoder configuration, streams of one picture, a second output      *)
(* buffer (LwlibavVideo has it).                                           *)
(***************************************************************************)
EXTENDS Integers, FiniteSets

CONSTANTS
  P,                       \* frame_count
  Streams,                 \* the streams that may have to be served
  forward_seek_threshold

Numbers == 1..P
Greatest(S) == CHOOSE x \in S : \A y \in S : y <= x
Least(S) == CHOOSE x \in S : \A y \in S : x <= y

Modes == {"normal", "unsafe", "aggressive"}                    \* SEEK_MODE_...
MAX_ERROR_COUNT == 3

(***************************************************************************)
(* A stream, as the index tells it and as libav will treat it.             *)
(***************************************************************************)
\* From a point on, what was coded before it has been shown before it, and what is
\* coded after it is shown after every earlier point: the rule of the video codings.
InGroups(s) == \A k \in s.key :
  /\ \A c \in 1..(k - 1) : s.shows[c] < s.shows[k]
  /\ \A l \in s.key, c \in Numbers : k < l /\ l <= c => s.shows[k] < s.shows[c]

StreamOK(s) ==
  /\ s.shows \in [Numbers -> Numbers]      \* decoding_to_presentation
  /\ \A c, d \in Numbers : s.shows[c] = s.shows[d] => c = d
  /\ s.key \in SUBSET Numbers /\ 1 \in s.key            \* keyframe_list, by packet
  /\ s.broken \in SUBSET Numbers           \* packets the decoder refuses
  /\ s.held \in Nat /\ s.announced \in Nat \* pictures the decoder holds back, and says it does
  /\ s.flush_fails \in BOOLEAN            \* may the decoder refuse to be flushed?
  /\ s.dts_based \in BOOLEAN               \* SEEK_DTS_BASED
  /\ s.drift \in SUBSET Int /\ 0 \in s.drift    \* how far from its goal a seek may end
  /\ s.pts \in [Numbers -> Nat]           \* the time stamps in the file, 0 for none
  /\ s.seek_mode \in Modes
  /\ s.held <= s.announced
  /\ \A c \in Numbers : Cardinality({d \in 1..c : s.shows[d] > s.shows[c]}) <= s.held
  /\ InGroups(s)
  /\ \E c \in Numbers \ s.broken : s.shows[c] >= s.shows[1]    \* or the source is not opened

ASSUME DecoderAssumption ==
  /\ P \in Nat \ {0, 1}
  /\ forward_seek_threshold \in Nat
  /\ \A s \in Streams : StreamOK(s)

VARIABLES
  stream,  \* the stream served
  vdhp,    \* what the handler remembers between requests
  call,    \* the request in progress
  libav,   \* the next packet, the first packet fed since the decoder was opened, and
           \* the pictures it holds back
  frame,   \* the output buffer
  answer,  \* the last answer
  doubt    \* history: the numbers may be out of step, since a request has failed, or since
           \* the last seek passed over an error, left a numbered picture in the buffer or,
           \* as a retry, began behind the picture asked for

vars == <<stream, vdhp, call, libav, frame, answer, doubt>>

(***************************************************************************)
(* A picture put out bears the number its packet was fed under, or 0 for   *)
(* AV_NOPTS_VALUE.  Once delivered it bears its time stamp instead, in the *)
(* same member of the same buffer.                                         *)
(***************************************************************************)
Reordered == \E c \in Numbers : stream.shows[c] # c            \* order_converter # NULL

OutputOrderId(c) ==
  IF Reordered /\ c \in Numbers THEN stream.shows[c]
  ELSE IF stream.dts_based THEN c ELSE 0

Empty == [picture |-> 0, id |-> 0]

SampleNumber(p) == CHOOSE c \in Numbers : stream.shows[c] = p

\* A leading picture follows a random accessible point but is shown before it.
KeyOf(c) == Greatest({k \in stream.key : k <= c})
Leading(c) == stream.shows[c] < stream.shows[KeyOf(c)]

\* It needs the pictures before that point: the decoder drops it where it was opened there.
Decodable(c, begin) ==
  LET keys == {k \in stream.key : begin <= k /\ k <= c}
  IN  keys # {} /\ (Leading(c) => Cardinality(keys) > 1)

FindPointBefore(p, c) ==         \* nothing special about leading pictures
  LET keys == {k \in stream.key : k <= c}
  IN  IF keys = {} THEN 1 ELSE Greatest(keys)

FindRandomAccessiblePoint(p, c) ==
  LET keys == {k \in stream.key : k <= c}
      usable == IF Leading(SampleNumber(p)) THEN keys \ {Greatest(keys)} ELSE keys
  IN  IF usable = {} THEN 1 ELSE Greatest(usable)

FirstValid == Least({stream.shows[c] : c \in {d \in Numbers \ stream.broken : Decodable(d, 1)}})

(***************************************************************************)
(* The beginning: find_first_valid_frame has opened the stream.  Nothing   *)
(* of what it fed counts, since the first request seeks.                   *)
(***************************************************************************)
NoCall == [at |-> "idle", picture |-> 0, current |-> 0, goal |-> 0, rap |-> 0, rap_pos |-> 0,
           delay |-> 0, ready |-> FALSE, rap_pts |-> 0, got |-> FALSE, mode |-> "normal", errors |-> 0]

Init ==
  /\ stream \in Streams
  /\ vdhp = [first_valid |-> FirstValid, last_frame |-> P + 1, last_fed |-> 0, last_rap |-> 0,
              delay_count |-> 0, has_dec_frame |-> FALSE]
  /\ call = NoCall
  /\ libav = [next |-> 1, begin |-> 0, held |-> {}]
  /\ frame = IF FirstValid = 1 THEN [picture |-> 1, id |-> OutputOrderId(SampleNumber(1))] ELSE Empty
  /\ answer = [picture |-> 0, shown |-> 0, ok |-> FALSE]
  /\ doubt = FALSE

(***************************************************************************)
(* decode_video_picture                                                    *)
(***************************************************************************)
EndOfStream == libav.next > P

\* The DTS of the first packet after a seek tells where the seek ended.
Corrects == stream.dts_based /\ call.current = call.rap
SoughtTooFar == ~EndOfStream /\ Corrects /\ libav.next > call.rap
CanFeed == ~EndOfStream /\ ~SoughtTooFar
Fed == IF Corrects THEN call.rap ELSE libav.next         \* packets before it are skipped

First(pictures) == CHOOSE h \in pictures : \A g \in pictures : h.picture <= g.picture

Outcome(ret, got, buffer, held) == [ret |-> ret, got |-> got, frame |-> buffer, held |-> held]

\* What becomes of packet c: an error, silence, or a picture.
Outcomes(c) ==
  LET begin == IF libav.begin = 0 THEN c ELSE libav.begin
      held == libav.held \cup {[picture |-> stream.shows[c], id |-> OutputOrderId(call.current)]}
  IN  IF c \in stream.broken THEN {Outcome("error", FALSE, frame, libav.held)}
      ELSE IF ~Decodable(c, begin)
      THEN {Outcome(r, FALSE, frame, libav.held) : r \in {"error", "fine"}}
      ELSE IF Cardinality(held) <= stream.held THEN {Outcome("fine", FALSE, frame, held)}
      ELSE {Outcome("fine", TRUE, First(held), held \ {First(held)})}

Decode(o) == libav' = [next |-> Fed + 1, held |-> o.held,
                       begin |-> IF libav.begin = 0 THEN Fed ELSE libav.begin]

\* vdhp after the packet, with the delay the caller has found
AfterDecode(o, delay) ==
  [vdhp EXCEPT !.last_rap = IF Fed \in stream.key THEN call.current ELSE @,
               !.last_fed = call.current,
               !.has_dec_frame = @ \/ o.got,
               !.delay_count = delay]

(***************************************************************************)
(* The end of a request                                                    *)
(***************************************************************************)
Answer(p, shown, ok) ==
  /\ call' = NoCall
  /\ answer' = [picture |-> p, shown |-> shown, ok |-> ok]

Deliver(buffer) == /\ frame' = [buffer EXCEPT !.id = stream.pts[call.picture]]
                   /\ Answer(call.picture, buffer.picture, TRUE)

Succeed(handler, buffer) == /\ vdhp' = [handler EXCEPT !.last_frame = call.picture]
                            /\ Deliver(buffer)
                            /\ UNCHANGED doubt

\* The request stays in hand.
GoesOn(c, handler, buffer) == /\ call' = c /\ vdhp' = handler /\ frame' = buffer
                              /\ UNCHANGED <<answer, doubt>>

GoRetry(handler, buffer) == GoesOn([call EXCEPT !.at = "retry"], handler, buffer)

Beyond(current, goal) == goal >= 0 /\ current > goal    \* both are unsigned

(* get_frame begins: with the picture in the buffer if the estimate of the *)
(* delay says so, else with its loop.                                      *)
GetFrame(handler, start, rap, buffer) ==
  LET goal == call.picture + handler.delay_count
  IN  IF Beyond(start, goal) THEN Succeed(handler, buffer)
      ELSE GoesOn([call EXCEPT !.at = "get", !.current = start, !.goal = goal, !.rap = rap, !.got = FALSE],
                  handler, buffer)

(***************************************************************************)
(* seek_video begins: the decoder is opened anew and the demuxer sought.   *)
(* A position that was never computed (rap_pos = INT64_MIN) takes it to    *)
(* the beginning or nowhere.                                               *)
(***************************************************************************)
UNSET == 0

Landings(rap_pos) == IF rap_pos = UNSET THEN {1, libav.next}
                     ELSE {rap_pos + d : d \in stream.drift} \cap Numbers

SeekVideo(handler, rap, rap_pos, mode, errors) ==
  /\ \E q \in Landings(rap_pos) : libav' = [next |-> q, begin |-> 0, held |-> {}]
  /\ call' = [call EXCEPT !.at = "seek", !.current = rap, !.goal = call.picture + stream.announced,
                          !.rap = rap, !.rap_pos = rap_pos, !.delay = stream.announced,
                          !.ready = FALSE, !.rap_pts = 0, !.mode = mode, !.errors = errors]
  /\ vdhp' = [handler EXCEPT !.delay_count = 0]
  /\ doubt' = \/ rap_pos = UNSET \/ (errors > 0 /\ ~Decodable(SampleNumber(call.picture), rap))
               \/ frame.id \in Numbers \ {frame.picture}
  /\ UNCHANGED <<stream, frame, answer>>

(***************************************************************************)
(* A request                                                               *)
(***************************************************************************)
Ask(p) ==
  /\ call.at = "idle"
  /\ call' = [NoCall EXCEPT !.at = "asked", !.picture = p, !.mode = stream.seek_mode]
  /\ UNCHANGED <<stream, vdhp, libav, frame, answer, doubt>>

SameAgain ==                \* get_video_frame: nothing to do
  /\ call.at = "asked" /\ call.picture = vdhp.last_frame
  /\ Answer(call.picture, frame.picture, TRUE)
  /\ UNCHANGED <<stream, vdhp, libav, frame, doubt>>

BeforeFirstValid ==
  /\ call.at = "asked" /\ call.picture # vdhp.last_frame /\ call.picture < vdhp.first_valid
  /\ vdhp' = [vdhp EXCEPT !.last_frame = P + 1]
  /\ Deliver([picture |-> vdhp.first_valid, id |-> 0])
  /\ UNCHANGED <<stream, libav, doubt>>

Sought == call.at = "asked" /\ call.picture # vdhp.last_frame /\ call.picture >= vdhp.first_valid

Near == /\ call.picture > vdhp.last_frame
        /\ call.picture <= vdhp.last_frame + forward_seek_threshold

RapOf(p) == FindRandomAccessiblePoint(p, SampleNumber(p))

SameRap == RapOf(call.picture) = vdhp.last_rap /\ call.picture > vdhp.last_frame

GoOn ==                     \* the decoder is where it should be
  /\ Sought /\ (Near \/ SameRap)
  /\ GetFrame(vdhp, vdhp.last_fed + 1, vdhp.last_rap, frame)
  /\ UNCHANGED <<stream, libav>>

SeekFirst ==
  /\ Sought /\ ~Near /\ ~SameRap
  /\ LET rap == RapOf(call.picture)
     IN  SeekVideo([vdhp EXCEPT !.last_rap = rap], rap, rap, call.mode, 0)

(***************************************************************************)
(* seek_video: from the random accessible point up to where the picture    *)
(* should come out                                                         *)
(***************************************************************************)
Min2(x, y) == IF x <= y THEN x ELSE y

SeekMisses ==               \* the seek ended behind the point asked for
  /\ call.at \in {"seek", "get"} /\ ~Beyond(call.current, call.goal)
  /\ SoughtTooFar
  /\ libav' = [libav EXCEPT !.next = @ + 1]
  /\ GoRetry(vdhp, frame)
  /\ UNCHANGED stream

\* The delay, as a picture that has come out, or has failed to, shows it.
SeekDelayAnnounced == call.delay          \* no MIN: what the decoder says
SeekDelay == IF call.delay < 0 THEN call.current - call.rap
             ELSE Min2(call.delay, call.current - call.rap)

Observed(o) ==              \* delay_count, decoder_delay and the goal after packet "current"
  CASE o.got /\ o.frame.id # 0 ->
         LET delay == call.current - o.frame.id
         IN  [count |-> delay, delay |-> delay, goal |-> call.goal + delay - SeekDelay]
    [] o.got /\ o.frame.id = 0 ->
         [count |-> SeekDelay, delay |-> SeekDelay, goal |-> call.goal - (call.delay - SeekDelay)]
    [] ~o.got /\ call.ready ->
         [count |-> vdhp.delay_count, delay |-> call.delay + 1, goal |-> call.goal + 1]
    [] OTHER -> [count |-> vdhp.delay_count, delay |-> call.delay, goal |-> call.goal]

RapPts == LET pts == OutputOrderId(call.current)
          IN  IF call.current = AfterDecode(Outcome("", FALSE, Empty, {}), 0).last_rap /\ pts # 0
              THEN pts ELSE call.rap_pts

\* Losing a leading picture is no error.
ErrorAny(o) == o.ret = "error"            \* also of a leading picture
Error(o) == LET pts == OutputOrderId(call.current)
            IN  o.ret = "error" /\ (pts = 0 \/ pts >= RapPts)

\* An error taken for that of a leading picture, before the delay has been seen, or
\* with the picture asked for.
Unnoticed(o) == /\ o.ret = "error" /\ Fed \in stream.broken
                /\ ~call.ready \/ stream.shows[Fed] = call.picture

SeekFeeds ==
  /\ call.at = "seek" /\ ~Beyond(call.current, call.goal) /\ CanFeed
  /\ \E o \in Outcomes(Fed) :
       LET seen == Observed(o)
       IN  /\ Decode(o)
           /\ IF o.got /\ o.frame.id = call.picture
              THEN GetFrame(AfterDecode(o, seen.count), call.current + 1, call.rap, o.frame)
              ELSE IF Error(o) /\ call.mode = "normal" THEN GoRetry(AfterDecode(o, seen.count), o.frame)
              ELSE /\ call' = [call EXCEPT !.current = @ + 1, !.goal = seen.goal, !.delay = seen.delay,
                                           !.ready = @ \/ o.got, !.rap_pts = RapPts]
                   /\ vdhp' = AfterDecode(o, seen.count) /\ frame' = o.frame
                   /\ doubt' = (doubt \/ Error(o) \/ Unnoticed(o))
                   /\ UNCHANGED answer
  /\ UNCHANGED stream

SeekEnds ==
  /\ call.at = "seek" /\ (Beyond(call.current, call.goal) \/ EndOfStream)
  /\ GetFrame([vdhp EXCEPT !.delay_count = SeekDelay], call.current, call.rap, frame)
  /\ UNCHANGED <<stream, libav>>

(***************************************************************************)
(* get_frame: on from the picture fed last                                 *)
(***************************************************************************)
GetFeeds ==
  /\ call.at = "get" /\ ~Beyond(call.current, call.goal) /\ CanFeed
  /\ \E o \in Outcomes(Fed) :
       LET id == o.frame.id
           delay == IF ~o.got THEN vdhp.delay_count + 1
                    ELSE IF id = 0 THEN vdhp.delay_count ELSE call.current - id
       IN  /\ Decode(o)
           /\ IF o.ret = "error" THEN GoRetry(AfterDecode(o, vdhp.delay_count), o.frame)
              ELSE IF o.got /\ id = call.picture THEN Succeed(AfterDecode(o, delay), o.frame)
              ELSE IF o.got /\ id > call.picture THEN GoRetry(AfterDecode(o, delay), o.frame)
              ELSE GoesOn([call EXCEPT !.current = @ + 1, !.got = o.got,
                                       !.goal = @ + delay - vdhp.delay_count],
                          AfterDecode(o, delay), o.frame)
  /\ UNCHANGED stream

Leave(got) == IF got THEN Succeed(vdhp, frame) ELSE GoRetry(vdhp, frame)

GetEnds ==
  /\ call.at = "get" /\ (Beyond(call.current, call.goal) \/ EndOfStream)
  /\ IF call.current > P /\ vdhp.delay_count # 0 /\ ~Beyond(call.current, call.goal)
     THEN GoesOn([call EXCEPT !.at = "flush"], vdhp, frame)
     ELSE Leave(call.got)
  /\ UNCHANGED <<stream, libav>>

(***************************************************************************)
(* get_frame: the pictures left in the decoder at the end of the stream    *)
(***************************************************************************)
Estimated == call.current - vdhp.delay_count

Stored == frame.id # 0 /\ frame.id = Estimated     \* is_picture_stored_in_frame

AlreadyStored ==
  /\ call.at = "flush" /\ vdhp.has_dec_frame
  /\ Stored /\ call.current = call.goal
  /\ Succeed([vdhp EXCEPT !.last_fed = call.current], frame)
  /\ UNCHANGED <<stream, libav>>

FlushesNothingAgain ==      \* not got_picture: once more
  /\ call.at = "flush" /\ vdhp.has_dec_frame /\ ~Beyond(call.current, call.goal)
  /\ ~(Stored /\ call.current = call.goal) /\ libav.held = {}
  /\ GoesOn(call, [vdhp EXCEPT !.last_fed = call.current], Empty)
  /\ UNCHANGED <<stream, libav>>

FlushesNothing ==
  /\ call.at = "flush" /\ vdhp.has_dec_frame /\ ~Beyond(call.current, call.goal)
  /\ ~(Stored /\ call.current = call.goal) /\ libav.held = {}
  /\ GoRetry([vdhp EXCEPT !.last_fed = call.current], Empty)
  /\ UNCHANGED <<stream, libav>>

Flushes ==
  /\ call.at = "flush" /\ vdhp.has_dec_frame /\ ~Beyond(call.current, call.goal)
  /\ ~(Stored /\ call.current = call.goal) /\ libav.held # {}
  /\ LET h == First(libav.held)
         delay == IF h.id = 0 THEN vdhp.delay_count ELSE call.current - h.id
     IN  /\ libav' = [libav EXCEPT !.held = @ \ {h}]
         /\ GoesOn([call EXCEPT !.current = @ + 1, !.got = TRUE, !.goal = @ + delay - vdhp.delay_count],
                   [vdhp EXCEPT !.last_fed = call.current, !.delay_count = delay], h)
  /\ UNCHANGED stream

FlushFails ==               \* before last_fed_picture_number is written
  /\ call.at = "flush" /\ vdhp.has_dec_frame /\ ~Beyond(call.current, call.goal)
  /\ ~(Stored /\ call.current = call.goal) /\ stream.flush_fails
  /\ GoRetry(vdhp, Empty)
  /\ UNCHANGED <<stream, libav>>

FlushEnds ==
  /\ call.at = "flush" /\ Beyond(call.current, call.goal)
  /\ Leave(call.got)
  /\ UNCHANGED <<stream, libav>>

\* last_dec_frame is still NULL: the decoder has not put out a picture yet.
FlushCrashes ==
  /\ call.at = "flush" /\ ~vdhp.has_dec_frame
  /\ call' = [call EXCEPT !.at = "crashed"]
  /\ UNCHANGED <<stream, vdhp, libav, frame, answer, doubt>>

(***************************************************************************)
(* get_requested_picture: what follows an attempt that failed              *)
(***************************************************************************)
ExhaustedAtStart == call.rap <= 1         \* as long as there are points
Exhausted == call.errors + 1 > MAX_ERROR_COUNT \/ call.rap <= 1

GiveUp ==
  /\ call.at = "retry"
  /\ call.mode = "aggressive" \/ (call.mode = "unsafe" /\ Exhausted)
  /\ Answer(call.picture, 0, FALSE)
  /\ doubt' = TRUE
  /\ UNCHANGED <<stream, vdhp, libav, frame>>

RetryIgnoring ==            \* from the same point, errors ignored
  /\ call.at = "retry" /\ call.mode = "normal" /\ Exhausted
  /\ SeekVideo(vdhp, call.rap, call.rap_pos, "aggressive", call.errors + 1)

RetryEarlier ==
  /\ call.at = "retry" /\ call.mode # "aggressive" /\ ~Exhausted
  /\ LET rap == FindRandomAccessiblePoint(call.picture, call.rap - 1)
     IN  SeekVideo([vdhp EXCEPT !.last_rap = rap], rap, rap, call.mode, call.errors + 1)

Begin == SameAgain \/ BeforeFirstValid \/ GoOn \/ SeekFirst
Seek == SeekMisses \/ SeekFeeds \/ SeekEnds
Get == GetFeeds \/ GetEnds
Flush == AlreadyStored \/ FlushesNothing \/ Flushes \/ FlushFails \/ FlushEnds \/ FlushCrashes
Retry == GiveUp \/ RetryIgnoring \/ RetryEarlier

Handle == Begin \/ Seek \/ Get \/ Flush \/ Retry

Crashed == call.at = "crashed" /\ UNCHANGED vars

Next == (\E p \in Numbers : Ask(p)) \/ Handle \/ Crashed

\* A request that has begun goes on; nobody has to ask again.
Spec == Init /\ [][Next]_vars /\ WF_vars(Handle)

(***************************************************************************)
(* What it must keep true                                                  *)
(***************************************************************************)
Buffers == [picture : 0..P, id : Nat]

Handlers == [first_valid : Numbers, last_frame : 1..P + 1, last_fed : Nat, last_rap : Nat,
             delay_count : Int, has_dec_frame : BOOLEAN]
Calls == [at : {"idle", "asked", "seek", "get", "flush", "retry", "crashed"}, picture : 0..P,
          current : Nat, goal : Int, rap : Nat, rap_pos : 0..P, delay : Int, ready : BOOLEAN,
          rap_pts : Nat, got : BOOLEAN, mode : Modes, errors : 0..MAX_ERROR_COUNT + 1]
Libavs == [next : 1..P + 1, begin : 0..P, held : SUBSET Buffers]

(* The variables hold values of their types, and a request gives up or     *)
(* ignores errors after MAX_ERROR_COUNT retries.                           *)
TypeOK ==
  /\ vdhp \in Handlers /\ call \in Calls /\ libav \in Libavs /\ frame \in Buffers
  /\ answer \in [picture : 0..P, shown : 0..P, ok : BOOLEAN]
  /\ doubt \in BOOLEAN

Idle == call.at = "idle"

\* The time stamp of a picture is mistaken for the number of the next one.
Mistakable == \E p \in Numbers : stream.pts[p] = p + 1

\* After a seek to some random accessible point nothing comes out before the end.
Short == \E k \in stream.key : Cardinality({c \in k..P : Decodable(c, k)}) <= stream.held

(* Nothing in the output tells of a seek that ended elsewhere if there is  *)
(* no DTS to compare, nor of a picture lost if there are no numbers at all.*)
Told == \/ stream.dts_based
        \/ stream.drift = {0} /\ (Reordered \/ stream.broken = {})

Sound == /\ stream.broken = {} /\ ~stream.flush_fails /\ ~Short /\ ~Mistakable /\ Told
         /\ \A d \in stream.drift : d <= 0

Whole(p) == SampleNumber(p) \notin stream.broken

Promised(p) == IF p < vdhp.first_valid THEN vdhp.first_valid ELSE p

(* The picture delivered is the picture asked for (the first valid one for *)
(* those before it), however the decoder came to it: by a seek that landed *)
(* early, after retries, over errors, from what was left in the decoder.   *)
(* It presumes that no request failed and no error was passed over since   *)
(* the last seek, and that the stream tells of its faults.                 *)
Right == Idle /\ answer.ok /\ ~doubt /\ Told /\ ~Mistakable /\ Whole(answer.picture) =>
  answer.shown = Promised(answer.picture)

(* The flush asks last_dec_frame, "the pointer to the frame buffer where   *)
(* the last output frame data from the decoder is stored", which picture   *)
(* it holds: there has to be one by then.                                  *)
DecFrameStored == call.at = "flush" /\ ~Beyond(call.current, call.goal) => vdhp.has_dec_frame

(* The same whatever the time stamps: the flush delivers a buffer that is  *)
(* there already only if it holds the picture asked for.                   *)
FlushedRight == Idle /\ answer.ok /\ ~doubt /\ Told /\ Whole(answer.picture) =>
  answer.shown = Promised(answer.picture)

(* The delay of the decoder, estimated while seeking and corrected while   *)
(* feeding and flushing, never falls below zero, and is exactly the        *)
(* distance between the packet fed last and the picture in the output      *)
(* buffer: the next request counts on it.  It presumes what Right does.    *)
DelayExact ==
  /\ ~doubt /\ Told => vdhp.delay_count >= 0
  /\ Idle /\ ~doubt /\ Told /\ ~Mistakable /\ vdhp.last_frame <= P /\ Whole(vdhp.last_frame) =>
       frame.picture = vdhp.last_fed - vdhp.delay_count

(* A stream without faults, whose demuxer never seeks too far, is served   *)
(* without a retry: neither the estimated delay nor the choice of the      *)
(* random accessible point ever makes a request fail.                      *)
RetriesOnlyOnFault == call.errors > 0 => ~Sound

(* The handler implements the server: every request ends in an answer or,  *)
(* on an unsound stream, a crash, whatever the demuxer and the decoder     *)
(* do; on a sound stream the answer is the picture asked for.              *)
Server == INSTANCE FrameServer WITH
  sound <- Sound, first_valid <- vdhp.first_valid,
  asked <- IF Idle THEN 0 ELSE IF call.at = "crashed" THEN -1 ELSE call.picture

Serves == Server!Spec
=============================================================================
