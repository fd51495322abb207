---------------------------- MODULE FrameServer ----------------------------
(***************************************************************************)
(* What the frame server of lsmashsource promises: every request is        *)
(* answered, and on a sound stream the answer is the picture asked for.    *)
(* LwlibavVideo takes this for granted of each picture it gets;            *)
(* LwlibavDecoder shows that seeking, feeding and flushing keep it.        *)
(***************************************************************************)
EXTENDS Integers

CONSTANT P              \* frame_count of the decoder: the number of pictures

Pictures == 1..P
Answers == [picture : Pictures, shown : 0..P, ok : BOOLEAN]
NoAnswer == [picture |-> 0, shown |-> 0, ok |-> FALSE]

VARIABLES
  sound,        \* the stream gives the decoder nothing to stumble over
  first_valid,  \* the first picture that can be decoded at all
  asked,        \* the picture being asked for, 0 for none
  answer        \* the last answer

vars == <<sound, first_valid, asked, answer>>

Init == /\ sound \in BOOLEAN /\ first_valid \in Pictures
        /\ asked = 0 /\ answer = NoAnswer

\* The pictures before the first valid one are answered with the latter.
Shown(p, first) == IF p < first THEN first ELSE p

Ask(p) == /\ asked = 0 /\ asked' = p
          /\ UNCHANGED <<sound, first_valid, answer>>

Answer ==
  /\ asked \in Pictures
  /\ answer' \in {a \in Answers : a.picture = asked}
  /\ sound => answer'.ok /\ answer'.shown = Shown(asked, first_valid)
  /\ asked' = 0
  /\ UNCHANGED <<sound, first_valid>>

Crash == /\ ~sound /\ asked \in Pictures
         /\ asked' = -1
         /\ UNCHANGED <<sound, first_valid, answer>>

Next == (\E p \in Pictures : Ask(p)) \/ Answer \/ Crash

Spec == Init /\ [][Next]_vars /\ WF_vars(Answer)
=============================================================================
