-------------------------- MODULE MCLwlibavDecoder --------------------------
(* Small streams for LwlibavDecoder: every picture a random accessible     *)
(* point, closed and open groups of pictures, a stream whose first picture *)
(* cannot be decoded, pictures held back twice over.                       *)
EXTENDS LwlibavDecoder

InOrder == [c \in Numbers |-> c]
Intra == [shows |-> InOrder, key |-> Numbers]
Closed == [shows |-> InOrder, key |-> {1, 4}]
Open == [shows |-> <<1, 3, 2, 5, 4, 6>>, key |-> {1, 4}]
Late == [shows |-> <<2, 1, 3, 5, 4, 6>>, key |-> {1, 4}]
Pyramid == [shows |-> <<1, 4, 3, 2, 6, 5>>, key |-> {1}]

Make(g, broken, held, announced, dts, drift, mode) ==
  [shows |-> g.shows, key |-> g.key, broken |-> broken, held |-> held, announced |-> announced,
   dts_based |-> dts, drift |-> drift, pts |-> [p \in Numbers |-> 0],
   seek_mode |-> mode, flush_fails |-> FALSE]

Pick(g, b, h, a, dr) == {s \in {Make(g, b, h, a, d, dr, m) : d \in BOOLEAN, m \in Modes} : StreamOK(s)}

Stamped(streams, d) == {[s EXCEPT !.pts = [p \in Numbers |-> p + d]] : s \in streams}

Unflushed(streams) == {[s EXCEPT !.flush_fails = TRUE] : s \in streams}

MCShort == Pick(Intra, {}, 1, 1, {0})

MCMistakable == Stamped(Pick(Closed, {}, 1, 1, {0}), 1)

MCStreams ==
  UNION {Pick(g, b, h, a, {0}) : g \in {Intra, Closed}, b \in {{}, {5, 6}, {3}}, h \in 0..1, a \in 1..2}
  \cup UNION {Pick(g, b, 1, 2, {-1, 0}) : g \in {Open, Late}, b \in {{}, {6}, {3}, {4}}}
  \cup UNION {Pick(g, b, 1, 1, {0, 1}) : g \in {Open, Late}, b \in {{}, {6}, {1}}}
  \cup UNION {Pick(Pyramid, b, 2, a, {0}) : b \in {{}, {2}}, a \in 2..3}
  \cup Pick(Open, {}, P, P, {0})
  \cup Stamped(Pick(Closed, {}, 1, 1, {0}) \cup Pick(Late, {}, 1, 1, {0}), 0)
  \cup MCMistakable
  \cup Unflushed(Pick(Closed, {}, 1, 1, {0}) \cup Pick(Late, {6}, 1, 2, {-1, 0}))
=============================================================================
